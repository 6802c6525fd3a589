--------------------------- MODULE ServerCoreProofs ---------------------------
(***************************************************************************)
(* Lemmas about the methods of module ServerCore.  Each method keeps the   *)
(* shape of the core (CoreOK) and, the four that start something aside,    *)
(* makes the engine at most quieter (Quieter).  Module CommandPlaneProofs  *)
(* combines them.                                                          *)
(***************************************************************************)
EXTENDS ServerCore, SequenceTheorems, TLAPS

\* `t` is `s` with at most the fields of `changed` assigned.
Keeps(s, t, changed) ==
  /\ DOMAIN t = Fields
  /\ \A f \in Fields \ changed : t[f] = s[f]

\* Fields that neither CoreOK nor Quiet looks at.
Bookkeeping ==
  {"dedup", "completed_index", "finished", "completes", "standing_error",
   "action_state", "teleport_homed", "execution_paused",
   "attachment_stop_pending", "snap"}

\* Nothing runs in `t` that was not queued or running in `s`.
Quieter(s, t) ==
  /\ t.estop_latched = s.estop_latched
  /\ Elems(t.pending) \subseteq Elems(s.pending)
  /\ t.executing \in {s.executing, NoCmd}
  /\ s.tool_stops = <<>> => t.tool_stops = <<>>
  /\ t.active_stream \in {s.active_stream, "none"}

\* A method that keeps the core well-formed and starts nothing.
Calms(s, t) == CoreOK(t) /\ Quieter(s, t)

-----------------------------------------------------------------------------
(* Sequences of queue entries. *)

\* The tail of a queue holds only entries of the queue.
LEMMA TailEntries ==
  ASSUME NEW q \in Seq(Entry), q # <<>>
  PROVE  /\ Tail(q) \in Seq(Entry)
         /\ Len(Tail(q)) = Len(q) - 1
         /\ Elems(Tail(q)) \subseteq Elems(q)
  BY HeadTailProperties DEF Elems

\* A queue that is empty, or has an entry, has them where Elems finds them.
LEMMA EmptyEntries ==
  ASSUME NEW q
  PROVE  /\ <<>> \in Seq(Entry)
         /\ Len(<<>>) = 0
         /\ Elems(<<>>) \subseteq Elems(q)
  BY EmptySeq DEF Elems

-----------------------------------------------------------------------------
(* Composition. *)

\* A method that calms twice calms.
LEMMA CalmsTrans ==
  ASSUME NEW s, NEW t, NEW u, Calms(s, t), Calms(t, u)
  PROVE  Calms(s, u)
  BY DEF Calms, Quieter

\* Doing nothing calms.
LEMMA CalmsSelf ==
  ASSUME NEW s, CoreOK(s)
  PROVE  Calms(s, s)
  BY DEF Calms, Quieter

\* Writing only bookkeeping fields calms.
LEMMA BookkeepingCalms ==
  ASSUME NEW s, NEW t, CoreOK(s), Keeps(s, t, Bookkeeping)
  PROVE  Calms(s, t)
<1>1. /\ DOMAIN t = Fields
      /\ t.next_index = s.next_index /\ t.next_tag = s.next_tag
      /\ t.pending = s.pending /\ t.executing = s.executing
      /\ t.planning = s.planning /\ t.blend_hold = s.blend_hold
      /\ t.shapes = s.shapes /\ t.pending_shapes = s.pending_shapes
      /\ t.sent = s.sent /\ t.estop_latched = s.estop_latched
      /\ t.tool_stops = s.tool_stops /\ t.active_stream = s.active_stream
  BY DEF Keeps, Bookkeeping, Fields
<1>2. CoreOK(t)
  BY <1>1 DEF CoreOK, MarkerOK, PlanningHead
<1>3. Quieter(s, t)
  BY <1>1 DEF Quieter
<1>4. QED
  BY <1>2, <1>3 DEF Calms

-----------------------------------------------------------------------------
(* Completion bookkeeping. *)

\* complete_cancelled writes the completion marks and the pushes alone.
LEMMA CompleteCancelledKeeps ==
  ASSUME NEW s, NEW l, DOMAIN s = Fields
  PROVE  Keeps(s, CompleteCancelled(s, l), {"completed_index", "finished", "completes"})
<1> DEFINE u == AdvanceCompleted(s, Elems(l))
<1>1. Keeps(s, u, {"completed_index", "finished"})
  BY DEF Keeps, AdvanceCompleted, Fields
<1>2. Keeps(u, PushComplete(u, l, "cancelled"), {"completes"})
  BY <1>1 DEF Keeps, PushComplete, Fields
<1>3. QED
  BY <1>1, <1>2 DEF Keeps, CompleteCancelled

\* Reporting what was dropped starts nothing.
LEMMA CompleteCancelledCalms ==
  ASSUME NEW s, NEW l, CoreOK(s)
  PROVE  Calms(s, CompleteCancelled(s, l))
<1>1. Keeps(s, CompleteCancelled(s, l), Bookkeeping)
  BY CompleteCancelledKeeps DEF Keeps, Bookkeeping, CoreOK
<1>2. QED
  BY <1>1, BookkeepingCalms

-----------------------------------------------------------------------------
(* Dropping motion. *)

\* A request on its way to the planner changes nothing else.
LEMMA SendCalms ==
  ASSUME NEW s, NEW req \in PlanRequest, CoreOK(s)
  PROVE  Calms(s, Send(s, req)) /\ Keeps(s, Send(s, req), {"sent"})
<1> DEFINE t == Send(s, req)
<1>1. Keeps(s, t, {"sent"}) /\ t.sent = Append(s.sent, req)
  BY DEF Keeps, Send, Fields, CoreOK
<1>2. t.sent \in Seq(PlanRequest)
  BY <1>1, AppendProperties DEF CoreOK
<1> HIDE DEF t
<1>3. /\ t.next_index = s.next_index /\ t.next_tag = s.next_tag
      /\ t.pending = s.pending /\ t.executing = s.executing
      /\ t.planning = s.planning /\ t.blend_hold = s.blend_hold
      /\ t.shapes = s.shapes /\ t.pending_shapes = s.pending_shapes
      /\ t.estop_latched = s.estop_latched
      /\ t.tool_stops = s.tool_stops /\ t.active_stream = s.active_stream
  BY <1>1 DEF Keeps, Fields
<1>4. CoreOK(t)
  BY <1>1, <1>2, <1>3 DEF Keeps, CoreOK, MarkerOK, PlanningHead
<1>5. Quieter(s, t)
  BY <1>3 DEF Quieter
<1>6. QED
  BY <1>1, <1>4, <1>5 DEF Calms, t

\* The four requests without geometry or queue entries are well-formed.
LEMMA PlainRequests ==
  /\ [op |-> "Cancel"] \in PlanRequest
  /\ [op |-> "CancelTool"] \in PlanRequest
  BY DEF PlanRequest

\* drop_active: the marker is cleared with the head it names.
LEMMA DropActiveCalms ==
  ASSUME NEW s, CoreOK(s)
  PROVE  /\ Calms(s, DropActive(s))
         /\ DropActive(s).planning = 0 /\ DropActive(s).executing = NoCmd
         /\ Keeps(s, DropActive(s), {"planning", "pending", "action_state", "executing"})
<1> DEFINE t == DropActive(s)
<1>1. /\ Keeps(s, t, {"planning", "pending", "action_state", "executing"})
      /\ t.planning = 0 /\ t.executing = NoCmd
      /\ t.pending = IF PlanningHead(s) THEN Tail(s.pending) ELSE s.pending
  BY DEF Keeps, DropActive, Fields, CoreOK
<1> HIDE DEF t
<1>2. /\ t.pending \in Seq(Entry) /\ Len(t.pending) <= QueueCapacity
      /\ Elems(t.pending) \subseteq Elems(s.pending)
  <2>1. CASE PlanningHead(s)
    BY <1>1, <2>1, TailEntries, CapacityAssumption DEF PlanningHead, CoreOK
  <2>2. CASE ~PlanningHead(s)
    BY <1>1, <2>2 DEF CoreOK
  <2>3. QED
    BY <2>1, <2>2
<1>3. /\ DOMAIN t = Fields
      /\ t.next_index = s.next_index /\ t.next_tag = s.next_tag
      /\ t.blend_hold = s.blend_hold
      /\ t.shapes = s.shapes /\ t.pending_shapes = s.pending_shapes
      /\ t.estop_latched = s.estop_latched /\ t.sent = s.sent
      /\ t.tool_stops = s.tool_stops /\ t.active_stream = s.active_stream
  BY <1>1 DEF Keeps, Fields
<1>4. CoreOK(t)
  BY <1>1, <1>2, <1>3 DEF CoreOK, MarkerOK, NoCmd
<1>5. Quieter(s, t)
  BY <1>1, <1>2, <1>3 DEF Quieter
<1>6. QED
  BY <1>1, <1>4, <1>5 DEF Calms, t

\* Fields a calming method may write besides the bookkeeping.
Activity ==
  {"planning", "pending", "executing", "blend_hold", "tool_stops",
   "active_stream", "sent"}

\* What has to be shown of a method that drops or rearranges activity.
LEMMA ActivityCalms ==
  ASSUME NEW s, NEW t, CoreOK(s), Keeps(s, t, Bookkeeping \cup Activity),
         t.pending \in Seq(Entry), Len(t.pending) <= QueueCapacity,
         t.sent \in Seq(PlanRequest),
         t.blend_hold \in {"none", "armed", "expired"},
         MarkerOK(t),
         Elems(t.pending) \subseteq Elems(s.pending),
         t.executing \in {s.executing, NoCmd},
         s.tool_stops = <<>> => t.tool_stops = <<>>,
         t.active_stream \in {s.active_stream, "none"}
  PROVE  Calms(s, t)
<1>1. /\ DOMAIN t = Fields
      /\ t.next_index = s.next_index /\ t.next_tag = s.next_tag
      /\ t.shapes = s.shapes /\ t.pending_shapes = s.pending_shapes
      /\ t.estop_latched = s.estop_latched
  BY DEF Keeps, Bookkeeping, Activity, Fields
<1>2. CoreOK(t)
  BY <1>1 DEF CoreOK, NoCmd
<1>3. Quieter(s, t)
  BY <1>1 DEF Quieter
<1>4. QED
  BY <1>2, <1>3 DEF Calms

\* drop_pending empties the queue; the callers have cleared the marker.
LEMMA DropPendingCalms ==
  ASSUME NEW s, CoreOK(s), s.planning = 0
  PROVE  /\ Calms(s, DropPending(s))
         /\ DropPending(s).pending = <<>>
         /\ Keeps(s, DropPending(s), {"pending", "blend_hold"})
<1> DEFINE t == DropPending(s)
<1>1. /\ Keeps(s, t, {"pending", "blend_hold"})
      /\ t.pending = <<>> /\ t.blend_hold = "none"
  BY DEF Keeps, DropPending, Fields, CoreOK
<1> HIDE DEF t
<1>2. /\ t.planning = 0 /\ t.executing = s.executing /\ t.sent = s.sent
      /\ t.tool_stops = s.tool_stops /\ t.active_stream = s.active_stream
      /\ Keeps(s, t, Bookkeeping \cup Activity)
  BY <1>1 DEF Keeps, Fields, Bookkeeping, Activity
<1>3. t.sent \in Seq(PlanRequest) /\ MarkerOK(t)
  BY <1>2 DEF CoreOK, MarkerOK
<1>4. /\ t.pending \in Seq(Entry) /\ Len(t.pending) <= QueueCapacity
      /\ Elems(t.pending) \subseteq Elems(s.pending)
  BY <1>1, EmptyEntries, CapacityAssumption
<1>5. Calms(s, t)
  BY <1>1, <1>2, <1>3, <1>4, ActivityCalms
<1>6. QED
  BY <1>1, <1>5 DEF t

\* drop_tool_stops forgets the stops and tells the planner.
LEMMA DropToolStopsCalms ==
  ASSUME NEW s, CoreOK(s)
  PROVE  /\ Calms(s, DropToolStops(s))
         /\ DropToolStops(s).tool_stops = <<>>
         /\ Keeps(s, DropToolStops(s), {"tool_stops", "sent"})
<1>1. CASE s.tool_stops = <<>>
  <2>1. DropToolStops(s) = s
    BY <1>1 DEF DropToolStops
  <2>2. QED
    BY <1>1, <2>1, CalmsSelf DEF Keeps, CoreOK
<1>2. CASE s.tool_stops # <<>>
  <2> DEFINE u == [s EXCEPT !.tool_stops = <<>>]
             t == Send(u, [op |-> "CancelTool"])
  <2>1. Keeps(s, u, {"tool_stops"}) /\ u.tool_stops = <<>>
    BY DEF Keeps, Fields, CoreOK
  <2> HIDE DEF u
  <2>2. /\ u.planning = s.planning /\ u.executing = s.executing /\ u.sent = s.sent
        /\ u.pending = s.pending /\ u.active_stream = s.active_stream
        /\ u.blend_hold = s.blend_hold
        /\ Keeps(s, u, Bookkeeping \cup Activity)
    BY <2>1 DEF Keeps, Fields, Bookkeeping, Activity
  <2>3. Calms(s, u)
    <3>1. MarkerOK(u)
      BY <2>2 DEF CoreOK, MarkerOK, PlanningHead
    <3>2. QED
      BY <2>1, <2>2, <3>1, ActivityCalms DEF CoreOK
  <2>4. Calms(u, t) /\ Keeps(u, t, {"sent"})
    BY <2>3, SendCalms, PlainRequests DEF Calms
  <2>5. DropToolStops(s) = t
    BY <1>2 DEF DropToolStops, u
  <2> HIDE DEF t
  <2>6. Calms(s, t)
    BY <2>3, <2>4, CalmsTrans
  <2>7. Keeps(s, t, {"tool_stops", "sent"}) /\ t.tool_stops = <<>>
    BY <2>1, <2>4 DEF Keeps, Fields
  <2>8. QED
    BY <2>5, <2>6, <2>7
<1>3. QED
  BY <1>1, <1>2

\* drop_active_motion leaves nothing running, settling or streaming.
LEMMA DropActiveMotionCalms ==
  ASSUME NEW s, CoreOK(s)
  PROVE  LET t == DropActiveMotion(s) IN
         /\ Calms(s, t)
         /\ t.planning = 0 /\ t.executing = NoCmd
         /\ t.tool_stops = <<>> /\ t.active_stream = "none"
<1> DEFINE a == Send(s, [op |-> "Cancel"])
           b == DropActive(a)
           c == DropToolStops(b)
           t == [c EXCEPT !.active_stream = "none"]
<1>1. Calms(s, a)
  BY SendCalms, PlainRequests
<1>2. Calms(a, b) /\ b.planning = 0 /\ b.executing = NoCmd
  BY <1>1, DropActiveCalms DEF Calms
<1>3. Calms(b, c) /\ c.tool_stops = <<>> /\ Keeps(b, c, {"tool_stops", "sent"})
  BY <1>2, DropToolStopsCalms DEF Calms
<1> HIDE DEF a, b, c
<1>4. c.planning = 0 /\ c.executing = NoCmd /\ CoreOK(c)
  BY <1>2, <1>3 DEF Keeps, Fields, Calms
<1>5. Keeps(c, t, {"active_stream"}) /\ t.active_stream = "none"
  BY <1>4 DEF Keeps, Fields, CoreOK
<1>6. DropActiveMotion(s) = t
  BY DEF DropActiveMotion, a, b, c
<1> HIDE DEF t
<1>7. /\ t.planning = 0 /\ t.executing = NoCmd /\ t.tool_stops = <<>>
      /\ t.pending = c.pending /\ t.sent = c.sent /\ t.blend_hold = c.blend_hold
      /\ Keeps(c, t, Bookkeeping \cup Activity)
  BY <1>3, <1>4, <1>5 DEF Keeps, Fields, Bookkeeping, Activity
<1>8. Calms(c, t)
  <2>1. MarkerOK(t)
    BY <1>7 DEF MarkerOK
  <2>2. QED
    BY <1>4, <1>5, <1>7, <2>1, ActivityCalms DEF CoreOK
<1>9. Calms(s, t)
  BY <1>1, <1>2, <1>3, <1>8, CalmsTrans
<1>10. QED
  BY <1>5, <1>6, <1>7, <1>9

\* cancel_active_motion starts nothing.
LEMMA CancelActiveMotionCalms ==
  ASSUME NEW s, CoreOK(s)
  PROVE  Calms(s, CancelActiveMotion(s))
<1> DEFINE t == DropActiveMotion(s)
<1>1. Calms(s, t)
  BY DropActiveMotionCalms
<1>2. Calms(t, CompleteCancelled(t, DroppedActiveMotion(s)))
  BY <1>1, CompleteCancelledCalms DEF Calms
<1>3. QED
  BY <1>1, <1>2, CalmsTrans DEF CancelActiveMotion

\* cancel_all_motion leaves a quiet engine, whatever was in it.
LEMMA CancelAllMotionQuiets ==
  ASSUME NEW s, CoreOK(s)
  PROVE  Calms(s, CancelAllMotion(s)) /\ Quiet(CancelAllMotion(s))
<1> DEFINE a == DropActiveMotion(s)
           b == DropPending(a)
           l == DroppedActiveMotion(s) \o Indices(DropActive(s).pending)
           t == CompleteCancelled(b, l)
<1>1. /\ Calms(s, a) /\ a.planning = 0 /\ a.executing = NoCmd
      /\ a.tool_stops = <<>> /\ a.active_stream = "none"
  BY DropActiveMotionCalms
<1>2. Calms(a, b) /\ b.pending = <<>> /\ Keeps(a, b, {"pending", "blend_hold"})
  BY <1>1, DropPendingCalms DEF Calms
<1>3. Calms(b, t) /\ Keeps(b, t, {"completed_index", "finished", "completes"})
  BY <1>2, CompleteCancelledCalms, CompleteCancelledKeeps DEF Calms, CoreOK
<1>4. CancelAllMotion(s) = t
  BY DEF CancelAllMotion
<1> HIDE DEF a, b, l, t
<1>5. t.pending = <<>> /\ t.executing = NoCmd /\ t.tool_stops = <<>> /\ t.active_stream = "none"
  BY <1>1, <1>2, <1>3 DEF Keeps, Fields
<1>6. Quiet(t)
  BY <1>5 DEF Quiet, NoCmd, Elems
<1>7. QED
  BY <1>1, <1>2, <1>3, <1>4, <1>6, CalmsTrans

\* drop_planned, the planned half of a cancel: queue and motion, not the jaws.
LEMMA DropPlannedCalms ==
  ASSUME NEW s, CoreOK(s)
  PROVE  Calms(s, DropPlanned(s))
<1> DEFINE a == Send(s, [op |-> "Cancel"])
           b == DropActive(a)
<1>1. Calms(s, a)
  BY SendCalms, PlainRequests
<1>2. Calms(a, b) /\ b.planning = 0
  BY <1>1, DropActiveCalms DEF Calms
<1>3. Calms(b, DropPending(b))
  BY <1>2, DropPendingCalms DEF Calms
<1>4. QED
  BY <1>1, <1>2, <1>3, CalmsTrans DEF DropPlanned

\* cancel_planned starts nothing.
LEMMA CancelPlannedCalms ==
  ASSUME NEW s, CoreOK(s)
  PROVE  Calms(s, CancelPlanned(s))
<1>1. Calms(s, DropPlanned(s))
  BY DropPlannedCalms
<1>2. Calms(DropPlanned(s), CompleteCancelled(DropPlanned(s), DroppedPlanned(s)))
  BY <1>1, CompleteCancelledCalms DEF Calms
<1>3. QED
  BY <1>1, <1>2, CalmsTrans DEF CancelPlanned

\* A method that writes one stream or marker field to its idle value calms.
LEMMA NoStreamCalms ==
  ASSUME NEW s, NEW t, CoreOK(s), Keeps(s, t, {"active_stream"}),
         t.active_stream = "none"
  PROVE  Calms(s, t)
<1>1. /\ t.planning = s.planning /\ t.executing = s.executing
      /\ t.tool_stops = s.tool_stops
      /\ t.pending = s.pending /\ t.sent = s.sent /\ t.blend_hold = s.blend_hold
      /\ Keeps(s, t, Bookkeeping \cup Activity)
  BY DEF Keeps, Fields, Bookkeeping, Activity
<1>2. MarkerOK(t)
  BY <1>1 DEF CoreOK, MarkerOK, PlanningHead
<1>3. QED
  BY <1>1, <1>2, ActivityCalms DEF CoreOK

-----------------------------------------------------------------------------
(* Latches and held geometry. *)

\* clear_pause, on_motion_accepted, latch_refusal and a snapshot refresh write
\* bookkeeping alone.
LEMMA LatchesCalm ==
  ASSUME NEW s, CoreOK(s)
  PROVE  /\ Calms(s, ClearPause(s))
         /\ Calms(s, OnMotionAccepted(s))
         /\ \A busy \in BOOLEAN : Calms(s, LatchRefusal(s, busy))
         /\ \A sn : Calms(s, RefreshSnapshot(s, sn))
         /\ \A on : Calms(s, OnPause(s, on))
<1>1. DOMAIN s = Fields
  BY DEF CoreOK
<1>2. Keeps(s, ClearPause(s), Bookkeeping)
  BY <1>1 DEF Keeps, ClearPause, Fields, Bookkeeping
<1>3. Keeps(s, OnMotionAccepted(s), Bookkeeping)
  BY <1>1 DEF Keeps, OnMotionAccepted, Fields, Bookkeeping
<1>4. ASSUME NEW busy \in BOOLEAN PROVE Keeps(s, LatchRefusal(s, busy), Bookkeeping)
  BY <1>1 DEF Keeps, LatchRefusal, Fields, Bookkeeping
<1>5. ASSUME NEW sn PROVE Keeps(s, RefreshSnapshot(s, sn), Bookkeeping)
  BY <1>1 DEF Keeps, RefreshSnapshot, Fields, Bookkeeping
<1>6. ASSUME NEW on PROVE Keeps(s, OnPause(s, on), Bookkeeping)
  BY <1>1 DEF Keeps, OnPause, Fields, Bookkeeping
<1>7. QED
  BY <1>2, <1>3, <1>4, <1>5, <1>6, BookkeepingCalms

\* A new attachment epoch changes the held geometry alone.
LEMMA InvalidateCalms ==
  ASSUME NEW s, CoreOK(s)
  PROVE  /\ Calms(s, InvalidateAttachments(s))
         /\ Keeps(s, InvalidateAttachments(s),
                  {"shapes", "pending_shapes", "attachment_stop_pending"})
<1> DEFINE t == InvalidateAttachments(s)
           aged(p) == [p EXCEPT !.set = IF @ = "attached" THEN "stale" ELSE @]
<1>1. /\ Keeps(s, t, {"shapes", "pending_shapes", "attachment_stop_pending"})
      /\ t.shapes = IF s.shapes = "attached" THEN "stale" ELSE s.shapes
      /\ t.pending_shapes = {aged(p) : p \in s.pending_shapes}
  BY DEF Keeps, InvalidateAttachments, Fields, CoreOK
<1>2. ASSUME NEW p \in [tag : Nat, set : ShapeStates]
      PROVE  aged(p) \in [tag : Nat, set : ShapeStates]
  BY DEF ShapeStates
<1> HIDE DEF t, aged
<1>3. t.shapes \in ShapeStates /\ t.pending_shapes \subseteq [tag : Nat, set : ShapeStates]
  BY <1>1, <1>2 DEF CoreOK, ShapeStates
<1>4. /\ DOMAIN t = Fields
      /\ t.next_index = s.next_index /\ t.next_tag = s.next_tag
      /\ t.pending = s.pending /\ t.executing = s.executing
      /\ t.planning = s.planning /\ t.blend_hold = s.blend_hold
      /\ t.sent = s.sent /\ t.estop_latched = s.estop_latched
      /\ t.tool_stops = s.tool_stops /\ t.active_stream = s.active_stream
  BY <1>1 DEF Keeps, Fields
<1>5. CoreOK(t)
  BY <1>3, <1>4 DEF CoreOK, MarkerOK, PlanningHead
<1>6. Quieter(s, t)
  BY <1>4 DEF Quieter
<1>7. QED
  BY <1>1, <1>5, <1>6 DEF Calms, t

\* stop_invalid_attachments drops motion or does nothing.
LEMMA StopInvalidCalms ==
  ASSUME NEW s, CoreOK(s)
  PROVE  Calms(s, StopInvalidAttachments(s))
<1> DEFINE t == IF s.shapes = "attached" /\ ~ReferencedAndLive(s.snap)
                THEN InvalidateAttachments(s) ELSE s
           u == [t EXCEPT !.attachment_stop_pending = FALSE]
           v == CancelAllMotion(u)
           w == [v EXCEPT !.standing_error = Unattributed("attachment")]
<1>1. Calms(s, t)
  BY InvalidateCalms, CalmsSelf
<1> HIDE DEF t
<1>2. Calms(t, u)
  <2>1. Keeps(t, u, Bookkeeping)
    BY <1>1 DEF Keeps, Fields, Bookkeeping, Calms, CoreOK
  <2>2. QED
    BY <1>1, <2>1, BookkeepingCalms DEF Calms
<1> HIDE DEF u
<1>3. Calms(u, v)
  BY <1>2, CancelAllMotionQuiets DEF Calms
<1> HIDE DEF v
<1>4. Calms(v, w)
  <2>1. Keeps(v, w, Bookkeeping)
    BY <1>3 DEF Keeps, Fields, Bookkeeping, Calms, CoreOK
  <2>2. QED
    BY <1>3, <2>1, BookkeepingCalms DEF Calms
<1> HIDE DEF w
<1>5. Calms(s, w)
  BY <1>1, <1>2, <1>3, <1>4, CalmsTrans
<1>6. StopInvalidAttachments(s) = IF t.attachment_stop_pending THEN w ELSE t
  BY DEF StopInvalidAttachments, t, u, v, w
<1>7. QED
  BY <1>1, <1>5, <1>6

\* What every handler does first starts nothing.
LEMMA ArriveCalms ==
  ASSUME NEW s, NEW sn, CoreOK(s)
  PROVE  Calms(s, Arrive(s, sn))
<1>1. Calms(s, RefreshSnapshot(s, sn))
  BY LatchesCalm
<1>2. Calms(RefreshSnapshot(s, sn), StopInvalidAttachments(RefreshSnapshot(s, sn)))
  BY <1>1, StopInvalidCalms DEF Calms
<1>3. QED
  BY <1>1, <1>2, CalmsTrans DEF Arrive

\* defer_program_shapes hands out the next tag and sends the geometry.
LEMMA DeferShapesCalms ==
  ASSUME NEW s, NEW set \in ShapeStates, CoreOK(s)
  PROVE  Calms(s, DeferProgramShapes(s, set))
<1> DEFINE tag == s.next_tag + 1
           u == [s EXCEPT !.next_tag = tag,
                          !.pending_shapes = @ \cup {[tag |-> tag, set |-> set]}]
           req == [op |-> "SetShapes", tag |-> tag]
<1>1. tag \in Nat /\ req \in PlanRequest
  BY DEF CoreOK, PlanRequest
<1>2. /\ Keeps(s, u, {"next_tag", "pending_shapes"})
      /\ u.next_tag = tag
      /\ u.pending_shapes = s.pending_shapes \cup {[tag |-> tag, set |-> set]}
  BY DEF Keeps, Fields, CoreOK
<1> HIDE DEF u
<1>3. /\ DOMAIN u = Fields
      /\ u.next_index = s.next_index /\ u.shapes = s.shapes
      /\ u.pending = s.pending /\ u.executing = s.executing
      /\ u.planning = s.planning /\ u.blend_hold = s.blend_hold
      /\ u.sent = s.sent /\ u.estop_latched = s.estop_latched
      /\ u.tool_stops = s.tool_stops /\ u.active_stream = s.active_stream
  BY <1>2 DEF Keeps, Fields
<1>4. [tag |-> tag, set |-> set] \in [tag : Nat, set : ShapeStates]
  BY <1>1
<1>5. CoreOK(u)
  BY <1>1, <1>2, <1>3, <1>4 DEF CoreOK, MarkerOK, PlanningHead
<1>6. Calms(s, u)
  BY <1>3, <1>5 DEF Calms, Quieter
<1>7. Calms(u, Send(u, req))
  BY <1>1, <1>5, SendCalms
<1>8. DeferProgramShapes(s, set) = Send(u, req)
  BY DEF DeferProgramShapes, u
<1>9. QED
  BY <1>6, <1>7, <1>8, CalmsTrans

-----------------------------------------------------------------------------
(* The queue engine. *)

\* offer_head marks the head and sends a batch that begins with it.
LEMMA OfferHeadCalms ==
  ASSUME NEW s, CoreOK(s), s.pending # <<>>, s.executing = NoCmd
  PROVE  Calms(s, OfferHead(s))
<1> DEFINE n == Lesser(Len(s.pending), Greater(BlendLookahead, 1))
           batch == SubSeq(s.pending, 1, n)
           u == [s EXCEPT !.blend_hold = "none", !.planning = batch[1].index]
           req == [op |-> "Start", batch |-> batch]
<1>1. n \in 1..Len(s.pending)
  <2>1. Len(s.pending) \in Nat \ {0}
    BY EmptySeq DEF CoreOK
  <2>2. QED
    BY <2>1, CapacityAssumption DEF Lesser, Greater
<1> HIDE DEF n
<1>2. batch \in Seq(Entry) /\ Len(batch) = n /\ batch[1] = s.pending[1]
  <2>1. \A i \in 1..n : s.pending[i] \in Entry
    BY <1>1, ElementOfSeq DEF CoreOK
  <2>2. /\ batch \in Seq(Entry)
        /\ Len(batch) = IF 1 <= n THEN n - 1 + 1 ELSE 0
        /\ \A i \in 1..(n - 1 + 1) : batch[i] = s.pending[1 + i - 1]
    BY <1>1, <2>1, SubSeqProperties
  <2>3. QED
    BY <1>1, <2>2
<1> HIDE DEF batch
<1>3. batch # <<>>
  BY <1>1, <1>2
<1>4. req \in PlanRequest
  BY <1>2, <1>3 DEF PlanRequest
<1>5. /\ Keeps(s, u, {"blend_hold", "planning"})
      /\ u.blend_hold = "none" /\ u.planning = batch[1].index
  BY DEF Keeps, Fields, CoreOK
<1> HIDE DEF u
<1>6. /\ u.pending = s.pending /\ u.executing = s.executing /\ u.sent = s.sent
      /\ u.tool_stops = s.tool_stops /\ u.active_stream = s.active_stream
      /\ Keeps(s, u, Bookkeeping \cup Activity)
  BY <1>5 DEF Keeps, Fields, Bookkeeping, Activity
<1>7. MarkerOK(u)
  BY <1>2, <1>5, <1>6 DEF MarkerOK, PlanningHead
<1>8. Calms(s, u)
  BY <1>5, <1>6, <1>7, ActivityCalms DEF CoreOK
<1>9. Calms(u, Send(u, req))
  BY <1>4, <1>8, SendCalms DEF Calms
<1>10. OfferHead(s) = Send(u, req)
  BY DEF OfferHead, u, batch, n
<1>11. QED
  BY <1>8, <1>9, <1>10, CalmsTrans

\* pump offers the head, arms or clears the blend hold, or waits.
LEMMA PumpCalms ==
  ASSUME NEW s0, CoreOK(s0)
  PROVE  Calms(s0, Pump(s0))
<1> DEFINE s == StopInvalidAttachments(s0)
<1>1. Calms(s0, s)
  BY StopInvalidCalms
<1>2. CoreOK(s)
  BY <1>1 DEF Calms
<1> HIDE DEF s
<1>3. ASSUME NEW hold \in {"none", "armed"}
      PROVE  Calms(s, [s EXCEPT !.blend_hold = hold])
  <2> DEFINE u == [s EXCEPT !.blend_hold = hold]
  <2>1. Keeps(s, u, {"blend_hold"}) /\ u.blend_hold = hold
    BY <1>2 DEF Keeps, Fields, CoreOK
  <2> HIDE DEF u
  <2>2. /\ u.pending = s.pending /\ u.executing = s.executing /\ u.sent = s.sent
        /\ u.planning = s.planning
        /\ u.tool_stops = s.tool_stops /\ u.active_stream = s.active_stream
        /\ Keeps(s, u, Bookkeeping \cup Activity)
    BY <2>1 DEF Keeps, Fields, Bookkeeping, Activity
  <2>3. MarkerOK(u)
    BY <1>2, <2>2 DEF CoreOK, MarkerOK, PlanningHead
  <2>4. Calms(s, u)
    BY <1>2, <2>1, <2>2, <2>3, ActivityCalms DEF CoreOK
  <2>5. QED
    BY <2>4 DEF u
<1>4. \/ Pump(s0) = s
      \/ \E hold \in {"none", "armed"} : Pump(s0) = [s EXCEPT !.blend_hold = hold]
      \/ Pump(s0) = OfferHead(s) /\ s.pending # <<>> /\ s.executing = NoCmd
  BY DEF Pump, s
<1>5. Calms(s, Pump(s0))
  BY <1>2, <1>3, <1>4, CalmsSelf, OfferHeadCalms
<1>6. QED
  BY <1>1, <1>5, CalmsTrans

\* fail_command drops the queue behind the command that failed.
LEMMA FailCommandCalms ==
  ASSUME NEW s, NEW index, NEW blended, CoreOK(s), s.planning = 0
  PROVE  Calms(s, FailCommand(s, index, blended))
<1> DEFINE a == AdvanceCompleted(s, {index})
           t == [a EXCEPT !.standing_error = [code |-> "failed", index |-> index],
                          !.action_state = "error"]
           d == DropPending(t)
           e == PushComplete(d, <<index>>, "failed")
           f == CompleteCancelled(e, blended \o Indices(s.pending))
<1>1. Keeps(s, a, {"completed_index", "finished"})
  BY DEF Keeps, AdvanceCompleted, Fields, CoreOK
<1> HIDE DEF a
<1>2. Keeps(a, t, {"standing_error", "action_state"})
  BY <1>1 DEF Keeps, Fields
<1> HIDE DEF t
<1>3. Keeps(s, t, Bookkeeping) /\ t.planning = 0
  BY <1>1, <1>2 DEF Keeps, Fields, Bookkeeping
<1>4. Calms(s, t)
  BY <1>3, BookkeepingCalms
<1>5. Calms(t, d)
  BY <1>3, <1>4, DropPendingCalms DEF Calms
<1> HIDE DEF d
<1>6. Calms(d, e)
  <2>1. Keeps(d, e, Bookkeeping)
    BY <1>5 DEF Calms, CoreOK, Keeps, PushComplete, Fields, Bookkeeping
  <2>2. QED
    BY <1>5, <2>1, BookkeepingCalms DEF Calms
<1> HIDE DEF e
<1>7. Calms(e, f)
  BY <1>6, CompleteCancelledCalms DEF Calms
<1>8. FailCommand(s, index, blended) = f
  BY DEF FailCommand, a, t, d, e, f
<1>9. QED
  BY <1>4, <1>5, <1>6, <1>7, <1>8, CalmsTrans

-----------------------------------------------------------------------------
(* Planner events. *)

\* A tool change is a new attachment epoch or nothing.
LEMMA AdoptCalms ==
  ASSUME NEW s, NEW changed \in BOOLEAN, CoreOK(s)
  PROVE  Calms(s, AdoptToolSelection(s, changed))
  BY InvalidateCalms, CalmsSelf DEF AdoptToolSelection

\* Clearing the marker, with or without the head it names, or the executing
\* command, leaves a well-formed core with the marker down.
LEMMA ClearCalms ==
  ASSUME NEW s, NEW t, CoreOK(s), Keeps(s, t, {"planning", "pending", "executing"}),
         t.planning = 0,
         t.executing \in {s.executing, NoCmd},
         t.pending \in Seq(Entry), Len(t.pending) <= QueueCapacity,
         Elems(t.pending) \subseteq Elems(s.pending)
  PROVE  Calms(s, t)
<1>1. /\ t.blend_hold = s.blend_hold /\ t.sent = s.sent
      /\ t.tool_stops = s.tool_stops /\ t.active_stream = s.active_stream
      /\ Keeps(s, t, Bookkeeping \cup Activity)
  BY DEF Keeps, Fields, Bookkeeping, Activity
<1>2. MarkerOK(t)
  BY DEF MarkerOK
<1>3. QED
  BY <1>1, <1>2, ActivityCalms DEF CoreOK

\* on_plan_rejected fails the head, or ignores an answer nobody waits for.
LEMMA PlanRejectedCalms ==
  ASSUME NEW s, NEW index, CoreOK(s)
  PROVE  Calms(s, OnPlanRejected(s, index))
<1> DEFINE u == [s EXCEPT !.planning = 0]
           v == [s EXCEPT !.planning = 0, !.pending = Tail(@)]
<1>1. CASE s.planning # index
  BY <1>1, CalmsSelf DEF OnPlanRejected
<1>2. CASE s.planning = index /\ s.pending = <<>>
  <2>1. /\ Keeps(s, u, {"planning", "pending", "executing"}) /\ u.planning = 0
        /\ u.executing = s.executing /\ u.pending = s.pending
    BY DEF Keeps, Fields, CoreOK
  <2> HIDE DEF u
  <2>2. Calms(s, u)
    BY <2>1, ClearCalms DEF CoreOK
  <2>3. QED
    BY <1>2, <2>2 DEF OnPlanRejected, u
<1>3. CASE s.planning = index /\ s.pending # <<>>
  <2>1. /\ Keeps(s, v, {"planning", "pending", "executing"}) /\ v.planning = 0
        /\ v.executing = s.executing /\ v.pending = Tail(s.pending)
    BY DEF Keeps, Fields, CoreOK
  <2> HIDE DEF v
  <2>2. Calms(s, v)
    <3>1. /\ v.pending \in Seq(Entry) /\ Len(v.pending) <= QueueCapacity
          /\ Elems(v.pending) \subseteq Elems(s.pending)
      BY <1>3, <2>1, TailEntries, CapacityAssumption DEF CoreOK
    <3>2. QED
      BY <2>1, <3>1, ClearCalms
  <2>3. Calms(v, FailCommand(v, s.pending[1].index, <<>>))
    BY <2>1, <2>2, FailCommandCalms DEF Calms
  <2>4. OnPlanRejected(s, index) = FailCommand(v, s.pending[1].index, <<>>)
    BY <1>3 DEF OnPlanRejected, v
  <2>5. QED
    BY <2>2, <2>3, <2>4, CalmsTrans
<1>4. QED
  BY <1>1, <1>2, <1>3

\* on_outcome ends the executing command, or ignores a stale report.
LEMMA OutcomeCalms ==
  ASSUME NEW s, NEW index, NEW ok \in BOOLEAN, NEW changed \in BOOLEAN, CoreOK(s)
  PROVE  Calms(s, OnOutcome(s, index, ok, changed))
<1> DEFINE ex == s.executing
           t == [s EXCEPT !.executing = NoCmd]
           a == AdvanceCompleted(t, {ex.index} \cup Elems(ex.blended))
           b == [a EXCEPT !.action_state = "idle"]
           c == AdoptToolSelection(b, ex.kind = "select" /\ changed)
           d == PushComplete(c, <<ex.index>> \o ex.blended, "ok")
<1>1. CASE s.executing = NoCmd \/ s.executing.index # index
  BY <1>1, CalmsSelf DEF OnOutcome
<1>2. CASE ~(s.executing = NoCmd \/ s.executing.index # index)
  <2>1. s.planning = 0
    BY <1>2 DEF CoreOK, MarkerOK
  <2>2. Keeps(s, t, {"executing"}) /\ t.executing = NoCmd
    BY DEF Keeps, Fields, CoreOK
  <2> HIDE DEF t
  <2>3. /\ Keeps(s, t, {"planning", "pending", "executing"})
        /\ t.planning = 0 /\ t.pending = s.pending
    BY <2>1, <2>2 DEF Keeps, Fields
  <2>4. Calms(s, t)
    BY <2>2, <2>3, ClearCalms DEF CoreOK
  <2>5. Calms(t, FailCommand(t, ex.index, ex.blended))
    BY <2>3, <2>4, FailCommandCalms DEF Calms
  <2>6. Calms(t, b)
    <3>1. Keeps(t, a, {"completed_index", "finished"})
      BY <2>4 DEF Calms, CoreOK, Keeps, AdvanceCompleted, Fields
    <3> HIDE DEF a
    <3>2. Keeps(a, b, {"action_state"})
      BY <3>1 DEF Keeps, Fields
    <3> HIDE DEF b
    <3>3. Keeps(t, b, Bookkeeping)
      BY <3>1, <3>2 DEF Keeps, Fields, Bookkeeping
    <3>4. Calms(t, b)
      BY <2>4, <3>3, BookkeepingCalms DEF Calms
    <3>5. QED
      BY <3>4
  <2> HIDE DEF b
  <2>7. Calms(b, c)
    BY <2>6, AdoptCalms DEF Calms
  <2> HIDE DEF c
  <2>8. Calms(c, d)
    <3>1. Keeps(c, d, Bookkeeping)
      BY <2>7 DEF Calms, CoreOK, Keeps, PushComplete, Fields, Bookkeeping
    <3>2. QED
      BY <2>7, <3>1, BookkeepingCalms DEF Calms
  <2> HIDE DEF d
  <2>9. Calms(t, d)
    BY <2>6, <2>7, <2>8, CalmsTrans
  <2>10. OnOutcome(s, index, ok, changed) =
           IF ok THEN d ELSE FailCommand(t, ex.index, ex.blended)
    BY <1>2 DEF OnOutcome, t, b, c, d
  <2>11. QED
    BY <2>4, <2>5, <2>9, <2>10, CalmsTrans
<1>3. QED
  BY <1>1, <1>2

\* finish_tool_stops writes bookkeeping alone.
LEMMA FinishToolStopsCalms ==
  ASSUME NEW s, NEW stops, NEW ok \in BOOLEAN, CoreOK(s)
  PROVE  Calms(s, FinishToolStops(s, stops, ok))
<1> DEFINE a == AdvanceCompleted(s, Elems(Indices(stops)))
           r == IF ok THEN "ok" ELSE "failed"
           t == PushComplete(a, Indices(stops), r)
           u == [t EXCEPT !.standing_error =
                             [code |-> "failed", index |-> stops[Len(stops)].index],
                          !.action_state = "error"]
<1>1. Keeps(s, a, {"completed_index", "finished"})
  BY DEF CoreOK, Keeps, AdvanceCompleted, Fields
<1> HIDE DEF a
<1>2. Keeps(a, t, {"completes"})
  BY <1>1 DEF Keeps, PushComplete, Fields
<1> HIDE DEF t
<1>3. Keeps(t, u, {"standing_error", "action_state"})
  BY <1>2 DEF Keeps, Fields
<1> HIDE DEF u
<1>4. Keeps(s, t, Bookkeeping) /\ Keeps(s, u, Bookkeeping)
  BY <1>1, <1>2, <1>3 DEF Keeps, Fields, Bookkeeping
<1>5. FinishToolStops(s, stops, ok) = IF ok THEN t ELSE u
  BY DEF FinishToolStops, a, t, u
<1>6. QED
  BY <1>4, <1>5, BookkeepingCalms

\* While a tool stop is held, rearranging the held stops starts nothing.
LEMMA ToolStopsCalm ==
  ASSUME NEW s, NEW t, CoreOK(s), Keeps(s, t, {"tool_stops"}), s.tool_stops # <<>>
  PROVE  Calms(s, t)
<1>1. /\ t.planning = s.planning /\ t.executing = s.executing
      /\ t.active_stream = s.active_stream
      /\ t.pending = s.pending /\ t.sent = s.sent /\ t.blend_hold = s.blend_hold
      /\ Keeps(s, t, Bookkeeping \cup Activity)
  BY DEF Keeps, Fields, Bookkeeping, Activity
<1>2. MarkerOK(t)
  BY <1>1 DEF CoreOK, MarkerOK, PlanningHead
<1>3. QED
  BY <1>1, <1>2, ActivityCalms DEF CoreOK

\* A held tool stop ends: the stops change, COMPLETEs go out, the queue moves.
LEMMA ToolStopEndCalms ==
  ASSUME NEW s, NEW rest, NEW stops, NEW ok \in BOOLEAN, CoreOK(s), s.tool_stops # <<>>
  PROVE  Calms(s, Pump(FinishToolStops([s EXCEPT !.tool_stops = rest], stops, ok)))
<1> DEFINE t == [s EXCEPT !.tool_stops = rest]
           u == FinishToolStops(t, stops, ok)
<1>1. Keeps(s, t, {"tool_stops"})
  BY DEF Keeps, Fields, CoreOK
<1> HIDE DEF t
<1>2. Calms(s, t)
  BY <1>1, ToolStopsCalm
<1>3. Calms(t, u)
  BY <1>2, FinishToolStopsCalms DEF Calms
<1>4. Calms(u, Pump(u))
  BY <1>3, PumpCalms DEF Calms
<1>5. QED
  BY <1>2, <1>3, <1>4, CalmsTrans DEF t

\* on_tool_started confirms the stop, fails it, or finds it gone.
LEMMA ToolStartedCalms ==
  ASSUME NEW s, NEW tag, NEW ok \in BOOLEAN, CoreOK(s)
  PROVE  Calms(s, OnToolStarted(s, tag, ok))
<1> DEFINE at == {k \in 1..Len(s.tool_stops) : s.tool_stops[k].tag = tag}
           k == CHOOSE k \in at : \A j \in at : k <= j
           t == [s EXCEPT !.tool_stops[k].tag = 0]
           rest == SubSeq(s.tool_stops, 1, k - 1)
                     \o SubSeq(s.tool_stops, k + 1, Len(s.tool_stops))
<1>1. CASE at = {}
  BY <1>1, CalmsSelf DEF OnToolStarted
<1>2. CASE at # {}
  <2>1. s.tool_stops # <<>>
    BY <1>2
  <2>2. Keeps(s, t, {"tool_stops"})
    BY DEF Keeps, Fields, CoreOK
  <2>3. OnToolStarted(s, tag, ok) =
          IF ok THEN t
          ELSE Pump(FinishToolStops([s EXCEPT !.tool_stops = rest],
                                    <<s.tool_stops[k]>>, FALSE))
    BY <1>2 DEF OnToolStarted
  <2> HIDE DEF at, k, t, rest
  <2>4. Calms(s, t)
    BY <2>1, <2>2, ToolStopsCalm
  <2>5. Calms(s, Pump(FinishToolStops([s EXCEPT !.tool_stops = rest],
                                      <<s.tool_stops[k]>>, FALSE)))
    BY <2>1, ToolStopEndCalms
  <2>6. QED
    BY <2>3, <2>4, <2>5
<1>3. QED
  BY <1>1, <1>2

\* on_tool_outcome ends the stop and the ones it took over, or finds it gone.
LEMMA ToolOutcomeCalms ==
  ASSUME NEW s, NEW index, NEW ok \in BOOLEAN, CoreOK(s)
  PROVE  Calms(s, OnToolOutcome(s, index, ok))
<1> DEFINE at == {k \in 1..Len(s.tool_stops) :
                    s.tool_stops[k].index = index /\ s.tool_stops[k].tag = 0}
           k == CHOOSE k \in at : \A j \in at : k <= j
           rest == SubSeq(s.tool_stops, k + 1, Len(s.tool_stops))
           stops == SubSeq(s.tool_stops, 1, k)
<1>1. CASE at = {}
  BY <1>1, CalmsSelf DEF OnToolOutcome
<1>2. CASE at # {}
  <2>1. s.tool_stops # <<>>
    BY <1>2
  <2>2. OnToolOutcome(s, index, ok) =
          Pump(FinishToolStops([s EXCEPT !.tool_stops = rest], stops, ok))
    BY <1>2 DEF OnToolOutcome
  <2> HIDE DEF at, k, rest, stops
  <2>3. QED
    BY <2>1, <2>2, ToolStopEndCalms
<1>3. QED
  BY <1>1, <1>2

\* on_shapes_applied installs the geometry that was waiting under the tag.
LEMMA ShapesAppliedCalms ==
  ASSUME NEW s, NEW tag, NEW ok \in BOOLEAN, CoreOK(s)
  PROVE  Calms(s, OnShapesApplied(s, tag, ok))
<1> DEFINE p == {q \in s.pending_shapes : q.tag = tag}
           set == (CHOOSE q \in p : TRUE).set
           t == [s EXCEPT !.pending_shapes = @ \ p, !.shapes = IF ok THEN set ELSE @]
<1>1. CASE p = {}
  BY <1>1, CalmsSelf DEF OnShapesApplied
<1>2. CASE p # {}
  <2>1. set \in ShapeStates
    <3>1. (CHOOSE q \in p : TRUE) \in p
      BY <1>2
    <3>2. QED
      BY <3>1 DEF CoreOK
  <2> HIDE DEF set
  <2>2. /\ Keeps(s, t, {"pending_shapes", "shapes"})
        /\ t.pending_shapes \subseteq s.pending_shapes
        /\ t.shapes = IF ok THEN set ELSE s.shapes
    BY DEF Keeps, Fields, CoreOK
  <2>3. OnShapesApplied(s, tag, ok) = t
    BY <1>2 DEF OnShapesApplied, set
  <2> HIDE DEF t
  <2>4. /\ DOMAIN t = Fields
        /\ t.next_index = s.next_index /\ t.next_tag = s.next_tag
        /\ t.pending = s.pending /\ t.executing = s.executing
        /\ t.planning = s.planning /\ t.blend_hold = s.blend_hold
        /\ t.sent = s.sent /\ t.estop_latched = s.estop_latched
        /\ t.tool_stops = s.tool_stops /\ t.active_stream = s.active_stream
    BY <2>2 DEF Keeps, Fields
  <2>5. CoreOK(t)
    BY <2>1, <2>2, <2>4 DEF CoreOK, MarkerOK, PlanningHead
  <2>6. QED
    BY <2>3, <2>4, <2>5 DEF Calms, Quieter
<1>3. QED
  BY <1>1, <1>2

-----------------------------------------------------------------------------
(* The handlers that start something. *)

\* The latch holds: while it is set the engine is quiet.
Latched(s) == s.estop_latched => Quiet(s)

\* The handler keeps the core well-formed and the latch effective.
Holds(s, t) == CoreOK(t) /\ (Latched(s) => Latched(t))

\* A calming method keeps the latch effective.
LEMMA CalmsHolds ==
  ASSUME NEW s, NEW t, Calms(s, t)
  PROVE  Holds(s, t)
  BY DEF Calms, Quieter, Holds, Latched, Quiet, NoCmd

\* Holds composes.
LEMMA HoldsTrans ==
  ASSUME NEW s, NEW t, NEW u, Holds(s, t), Holds(t, u)
  PROVE  Holds(s, u)
  BY DEF Holds

\* on_plan_started moves the planned head, and what it blended, out of the
\* queue; under the latch the head can only be a configuration command.
LEMMA PlanStartedHolds ==
  ASSUME NEW s, NEW index, NEW taken \in Nat, CoreOK(s)
  PROVE  Holds(s, OnPlanStarted(s, index, taken))
<1> DEFINE n == Lesser(Greater(taken, 1), Len(s.pending))
           u == [s EXCEPT !.planning = 0]
           ex == [index |-> s.pending[1].index, kind |-> s.pending[1].kind,
                  blended |-> Indices(SubSeq(s.pending, 2, n))]
           t == [s EXCEPT !.planning = 0,
                          !.pending = SubSeq(@, n + 1, Len(@)),
                          !.action_state = "executing",
                          !.executing = ex]
<1>1. CASE s.planning # index
  BY <1>1, CalmsSelf, CalmsHolds DEF OnPlanStarted
<1>2. CASE s.planning = index /\ s.pending = <<>>
  <2>1. /\ Keeps(s, u, {"planning", "pending", "executing"}) /\ u.planning = 0
        /\ u.executing = s.executing /\ u.pending = s.pending
    BY DEF Keeps, Fields, CoreOK
  <2> HIDE DEF u
  <2>2. Calms(s, u)
    BY <2>1, ClearCalms DEF CoreOK
  <2>3. QED
    BY <1>2, <2>2, CalmsHolds DEF OnPlanStarted, u
<1>3. CASE s.planning = index /\ s.pending # <<>>
  <2>1. n \in 1..Len(s.pending)
    <3>1. Len(s.pending) \in Nat \ {0}
      BY <1>3, EmptySeq DEF CoreOK
    <3>2. QED
      BY <3>1 DEF Lesser, Greater
  <2>2. OnPlanStarted(s, index, taken) = t
    BY <1>3 DEF OnPlanStarted
  <2>3. /\ Keeps(s, t, {"planning", "pending", "action_state", "executing"})
        /\ t.planning = 0 /\ t.executing = ex
        /\ t.pending = SubSeq(s.pending, n + 1, Len(s.pending))
    BY DEF Keeps, Fields, CoreOK
  <2>4. s.pending[1] \in Entry /\ s.pending[1] \in Elems(s.pending)
    BY <2>1, ElementOfSeq DEF CoreOK, Elems
  <2>5. ex.index \in Nat /\ ex.kind \in QueuedKinds /\ ex.kind = s.pending[1].kind
    BY <2>4 DEF Entry
  <2> HIDE DEF n, t, ex
  <2>6. /\ t.pending \in Seq(Entry) /\ Len(t.pending) <= QueueCapacity
        /\ Elems(t.pending) \subseteq Elems(s.pending)
    <3>0. Len(s.pending) \in Nat /\ Len(s.pending) <= QueueCapacity
      BY LenProperties DEF CoreOK
    <3>1. \A i \in (n + 1)..Len(s.pending) : s.pending[i] \in Entry
      BY <2>1, ElementOfSeq DEF CoreOK
    <3>2. /\ t.pending \in Seq(Entry)
          /\ Len(t.pending) = IF n + 1 <= Len(s.pending) THEN Len(s.pending) - (n + 1) + 1 ELSE 0
          /\ \A i \in 1..(Len(s.pending) - (n + 1) + 1) : t.pending[i] = s.pending[(n + 1) + i - 1]
      BY <2>1, <2>3, <3>0, <3>1, SubSeqProperties
    <3>3. ASSUME NEW k \in 1..Len(t.pending)
          PROVE  n + k \in 1..Len(s.pending) /\ t.pending[k] = s.pending[n + k]
      <4>1. n \in Nat /\ k \in Nat /\ 1 <= k /\ Len(t.pending) <= Len(s.pending) - n
        BY <2>1, <3>0, <3>2
      <4>2. n + k \in 1..Len(s.pending) /\ k \in 1..(Len(s.pending) - (n + 1) + 1)
            /\ (n + 1) + k - 1 = n + k
        BY <2>1, <3>0, <3>3, <4>1, SMT
      <4>3. t.pending[k] = s.pending[(n + 1) + k - 1]
        BY <3>2, <4>2, Zenon
      <4>4. QED
        BY <4>2, <4>3
    <3>4. Elems(t.pending) \subseteq Elems(s.pending)
      BY <3>3, Zenon DEF Elems
    <3>5. QED
      BY <2>1, <3>0, <3>2, <3>4, CapacityAssumption
  <2>7. /\ DOMAIN t = Fields
        /\ t.next_index = s.next_index /\ t.next_tag = s.next_tag
        /\ t.blend_hold = s.blend_hold
        /\ t.shapes = s.shapes /\ t.pending_shapes = s.pending_shapes
        /\ t.estop_latched = s.estop_latched /\ t.sent = s.sent
        /\ t.tool_stops = s.tool_stops /\ t.active_stream = s.active_stream
    BY <2>3 DEF Keeps, Fields
  <2>8. CoreOK(t)
    BY <2>3, <2>5, <2>6, <2>7 DEF CoreOK, MarkerOK
  <2>9. Latched(s) => Latched(t)
    BY <2>3, <2>4, <2>5, <2>6, <2>7 DEF Latched, Quiet
  <2>10. QED
    BY <2>2, <2>8, <2>9 DEF Holds
<1>4. QED
  BY <1>1, <1>2, <1>3

\* accept: an index, its key in the window, and a cleared error.
LEMMA AcceptCalms ==
  ASSUME NEW s, NEW key, CoreOK(s)
  PROVE  /\ Calms(s, Accept(s, key))
         /\ Accept(s, key).pending = s.pending
<1> DEFINE u == [s EXCEPT !.next_index = @ + 1,
                          !.dedup = DedupInsert(@, key, s.next_index)]
<1>1. Keeps(s, u, {"next_index", "dedup"}) /\ u.next_index = s.next_index + 1
  BY DEF Keeps, Fields, CoreOK
<1> HIDE DEF u
<1>2. /\ DOMAIN u = Fields
      /\ u.next_tag = s.next_tag
      /\ u.pending = s.pending /\ u.executing = s.executing
      /\ u.planning = s.planning /\ u.blend_hold = s.blend_hold
      /\ u.shapes = s.shapes /\ u.pending_shapes = s.pending_shapes
      /\ u.sent = s.sent /\ u.estop_latched = s.estop_latched
      /\ u.tool_stops = s.tool_stops /\ u.active_stream = s.active_stream
  BY <1>1 DEF Keeps, Fields
<1>3. CoreOK(u)
  BY <1>1, <1>2 DEF CoreOK, MarkerOK, PlanningHead
<1>4. Calms(s, u)
  BY <1>2, <1>3 DEF Calms, Quieter
<1>5. Calms(u, OnMotionAccepted(u))
  BY <1>3, LatchesCalm
<1>6. OnMotionAccepted(u).pending = u.pending
  BY <1>2 DEF OnMotionAccepted, Fields
<1>7. QED
  BY <1>2, <1>4, <1>5, <1>6, CalmsTrans DEF Accept, u

\* The tool action a tool stop cancels.
LEMMA DropToolActionCalms ==
  ASSUME NEW s, CoreOK(s)
  PROVE  Calms(s, DropActiveToolAction(s))
<1> DEFINE u == [s EXCEPT !.executing = NoCmd, !.action_state = "idle"]
           v == [s EXCEPT !.planning = 0, !.pending = Tail(@)]
<1>1. CASE RunsTool(s)
  <2>1. s.planning = 0
    BY <1>1 DEF RunsTool, CoreOK, MarkerOK, NoCmd
  <2>2. Keeps(s, u, {"executing", "action_state"}) /\ u.executing = NoCmd
    BY DEF Keeps, Fields, CoreOK
  <2> HIDE DEF u
  <2>3. /\ u.planning = 0 /\ u.pending = s.pending /\ u.sent = s.sent
        /\ u.blend_hold = s.blend_hold
        /\ u.tool_stops = s.tool_stops /\ u.active_stream = s.active_stream
        /\ Keeps(s, u, Bookkeeping \cup Activity)
    BY <2>1, <2>2 DEF Keeps, Fields, Bookkeeping, Activity
  <2>4. MarkerOK(u)
    BY <2>3 DEF MarkerOK
  <2>5. Calms(s, u)
    BY <2>2, <2>3, <2>4, ActivityCalms DEF CoreOK
  <2>6. Calms(u, Send(u, [op |-> "Cancel"]))
    BY <2>5, SendCalms, PlainRequests DEF Calms
  <2>7. QED
    BY <1>1, <2>5, <2>6, CalmsTrans DEF DropActiveToolAction, u
<1>2. CASE StartsTool(s)
  <2>1. /\ Keeps(s, v, {"planning", "pending", "executing"}) /\ v.planning = 0
        /\ v.executing = s.executing /\ v.pending = Tail(s.pending)
    BY DEF Keeps, Fields, CoreOK
  <2> HIDE DEF v
  <2>2. /\ v.pending \in Seq(Entry) /\ Len(v.pending) <= QueueCapacity
        /\ Elems(v.pending) \subseteq Elems(s.pending)
    BY <1>2, <2>1, TailEntries, CapacityAssumption DEF CoreOK, StartsTool, PlanningHead
  <2>3. Calms(s, v)
    BY <2>1, <2>2, ClearCalms
  <2>4. Calms(v, Send(v, [op |-> "Cancel"]))
    BY <2>3, SendCalms, PlainRequests DEF Calms
  <2>5. ~RunsTool(s)
    BY <1>2 DEF StartsTool
  <2>6. QED
    BY <1>2, <2>3, <2>4, <2>5, CalmsTrans DEF DropActiveToolAction, v
<1>3. CASE ~RunsTool(s) /\ ~StartsTool(s)
  BY <1>3, CalmsSelf DEF DropActiveToolAction
<1>4. QED
  BY <1>1, <1>2, <1>3

\* start_tool_stop keeps the core well-formed; it leaves the latch alone.
LEMMA StartToolStopOK ==
  ASSUME NEW s, NEW index \in Nat, CoreOK(s)
  PROVE  /\ CoreOK(StartToolStop(s, index))
         /\ StartToolStop(s, index).estop_latched = s.estop_latched
<1> DEFINE a == DropActiveToolAction(s)
           t == CompleteCancelled(a, DroppedActiveToolAction(s))
           tag == t.next_tag + 1
           u == [t EXCEPT !.next_tag = tag,
                          !.tool_stops = Append(@, [index |-> index, tag |-> tag])]
           req == [op |-> "StartTool", tag |-> tag, index |-> index]
<1>1. Calms(s, a)
  BY DropToolActionCalms
<1>2. Calms(a, t)
  BY <1>1, CompleteCancelledCalms DEF Calms
<1> HIDE DEF t
<1>3. tag \in Nat /\ req \in PlanRequest
  BY <1>2 DEF Calms, CoreOK, PlanRequest
<1>4. Keeps(t, u, {"next_tag", "tool_stops"}) /\ u.next_tag = tag
  BY <1>2 DEF Keeps, Fields, Calms, CoreOK
<1> HIDE DEF u, tag
<1>5. /\ DOMAIN u = Fields
      /\ u.next_index = t.next_index
      /\ u.pending = t.pending /\ u.executing = t.executing
      /\ u.planning = t.planning /\ u.blend_hold = t.blend_hold
      /\ u.shapes = t.shapes /\ u.pending_shapes = t.pending_shapes
      /\ u.sent = t.sent /\ u.estop_latched = t.estop_latched
  BY <1>4 DEF Keeps, Fields
<1>6. CoreOK(u)
  BY <1>2, <1>3, <1>4, <1>5 DEF Calms, CoreOK, MarkerOK, PlanningHead
<1>7. Calms(u, Send(u, req))
  BY <1>3, <1>6, SendCalms
<1>8. StartToolStop(s, index) = Send(u, req)
  BY DEF StartToolStop, a, t, u, tag
<1>9. QED
  BY <1>1, <1>2, <1>5, <1>7, <1>8 DEF Calms, Quieter

\* on_queued: under the latch the gate admits configuration commands alone.
LEMMA QueuedHolds ==
  ASSUME NEW s, NEW key, NEW kind \in QueuedKinds \cup {"stop"}, CoreOK(s)
  PROVE  Holds(s, OnQueued(s, key, kind))
<1> DEFINE a == Accept(s, key)
           e == [index |-> s.next_index, kind |-> kind]
           b == [a EXCEPT !.active_stream = "none", !.pending = Append(@, e)]
<1>1. Calms(s, a) /\ a.pending = s.pending
  BY AcceptCalms
<1> HIDE DEF a
<1>2. CASE DedupHas(s, key) \/ GateRefuses(s, kind)
  BY <1>2, CalmsSelf, CalmsHolds DEF OnQueued
<1>3. CASE ~(DedupHas(s, key) \/ GateRefuses(s, kind)) /\ kind = "stop"
  <2>1. ~s.estop_latched
    BY <1>3 DEF GateRefuses, NeedsEnabled
  <2>2. CoreOK(StartToolStop(a, s.next_index))
           /\ StartToolStop(a, s.next_index).estop_latched = a.estop_latched
    BY <1>1, StartToolStopOK DEF Calms, CoreOK
  <2>3. ~StartToolStop(a, s.next_index).estop_latched
    BY <1>1, <2>1, <2>2 DEF Calms, Quieter
  <2>4. OnQueued(s, key, kind) = StartToolStop(a, s.next_index)
    BY <1>3 DEF OnQueued, a
  <2>5. QED
    BY <2>2, <2>3, <2>4 DEF Holds, Latched
<1>4. CASE /\ ~(DedupHas(s, key) \/ GateRefuses(s, kind)) /\ kind # "stop"
           /\ Len(s.pending) >= QueueCapacity
  BY <1>4, CalmsSelf, CalmsHolds DEF OnQueued
<1>5. CASE /\ ~(DedupHas(s, key) \/ GateRefuses(s, kind)) /\ kind # "stop"
           /\ ~(Len(s.pending) >= QueueCapacity)
  <2>1. e \in Entry
    BY <1>5 DEF Entry, CoreOK
  <2>2. s.estop_latched => e.kind = "config"
    BY <1>5 DEF GateRefuses, NeedsEnabled
  <2>3. /\ Keeps(a, b, {"active_stream", "pending"})
        /\ b.active_stream = "none" /\ b.pending = Append(s.pending, e)
    BY <1>1 DEF Keeps, Fields, Calms, CoreOK
  <2>4. OnQueued(s, key, kind) = Pump(b)
    BY <1>5 DEF OnQueued, a, b
  <2> HIDE DEF b, e
  <2>5. /\ b.pending \in Seq(Entry) /\ Len(b.pending) = Len(s.pending) + 1
        /\ s.pending # <<>> => b.pending[1] = s.pending[1]
        /\ \A c \in Elems(b.pending) : c \in Elems(s.pending) \/ c = e
    <3>1. s.pending \in Seq(Entry)
      BY DEF CoreOK
    <3>2. QED
      BY <2>1, <2>3, <3>1, AppendProperties DEF Elems
  <2>6. Len(b.pending) <= QueueCapacity
    <3>1. Len(s.pending) \in Nat
      BY DEF CoreOK
    <3>2. QED
      BY <1>5, <2>5, <3>1, CapacityAssumption
  <2>7. /\ DOMAIN b = Fields
        /\ b.next_index = a.next_index /\ b.next_tag = a.next_tag
        /\ b.executing = a.executing /\ b.planning = a.planning
        /\ b.blend_hold = a.blend_hold
        /\ b.shapes = a.shapes /\ b.pending_shapes = a.pending_shapes
        /\ b.estop_latched = a.estop_latched /\ b.sent = a.sent
        /\ b.tool_stops = a.tool_stops
    BY <2>3 DEF Keeps, Fields
  <2>8. MarkerOK(b)
    <3>1. MarkerOK(a)
      BY <1>1 DEF Calms, CoreOK
    <3>2. b.pending # <<>>
      BY <2>5 DEF CoreOK
    <3>3. QED
      BY <1>1, <2>5, <2>7, <3>1, <3>2 DEF MarkerOK, PlanningHead
  <2>9. CoreOK(b)
    BY <1>1, <2>5, <2>6, <2>7, <2>8 DEF Calms, CoreOK
  <2>10. Latched(s) => Latched(b)
    BY <1>1, <2>2, <2>3, <2>5, <2>7 DEF Calms, Quieter, Latched, Quiet, NoCmd
  <2>11. Holds(s, b)
    BY <2>9, <2>10 DEF Holds
  <2>12. Holds(b, Pump(b))
    BY <2>9, PumpCalms, CalmsHolds
  <2>13. QED
    BY <2>4, <2>11, <2>12, HoldsTrans
<1>6. QED
  BY <1>2, <1>3, <1>4, <1>5

\* on_faf: no stream passes the gate under the latch.
LEMMA FafHolds ==
  ASSUME NEW s, NEW stream \in {"jogj", "jogl", "servo"}, NEW ok \in BOOLEAN,
         NEW standoff \in BOOLEAN, CoreOK(s)
  PROVE  Holds(s, OnFaf(s, stream, ok, standoff))
<1>1. CASE GateRefuses(s, stream)
  <2>1. MotionInFlight(s) \in BOOLEAN
    BY DEF MotionInFlight
  <2>2. Calms(s, LatchRefusal(s, MotionInFlight(s)))
    BY <2>1, LatchesCalm
  <2>3. QED
    BY <1>1, <2>2, CalmsHolds DEF OnFaf
<1>2. CASE ~GateRefuses(s, stream)
  <2>1. ~s.estop_latched
    BY <1>2 DEF GateRefuses, NeedsEnabled
  <2>2. ASSUME NEW t, NEW u, CoreOK(t), ~t.estop_latched, Calms(t, u)
        PROVE  Holds(s, u)
    BY <2>2 DEF Holds, Latched, Calms, Quieter
  <2>3. CASE s.active_stream = stream
    <3> DEFINE t == [s EXCEPT !.active_stream = IF standoff THEN @ ELSE "none"]
               busy == t.executing # NoCmd \/ t.pending # <<>>
    <3>1. Calms(s, OnMotionAccepted(s))
      BY LatchesCalm
    <3>2. Calms(s, t)
      <4>1. CASE standoff
        <5>1. Keeps(s, t, Bookkeeping)
          BY <4>1 DEF Keeps, Fields, Bookkeeping, CoreOK
        <5>2. QED
          BY <5>1, BookkeepingCalms
      <4>2. CASE ~standoff
        <5>1. Keeps(s, t, {"active_stream"}) /\ t.active_stream = "none"
          BY <4>2 DEF Keeps, Fields, CoreOK
        <5>2. QED
          BY <5>1, NoStreamCalms
      <4>3. QED
        BY <4>1, <4>2
    <3> HIDE DEF t
    <3>3. Calms(t, LatchRefusal(t, busy))
      BY <3>2, LatchesCalm DEF Calms
    <3>4. OnFaf(s, stream, ok, standoff) =
            IF ok THEN OnMotionAccepted(s) ELSE LatchRefusal(t, busy)
      BY <1>2, <2>3 DEF OnFaf, t
    <3>5. QED
      BY <2>1, <2>2, <3>1, <3>2, <3>3, <3>4, CalmsTrans
  <2>4. CASE s.active_stream # stream
    <3> DEFINE n == [s EXCEPT !.active_stream = "none"]
               d == DropPlanned(n)
               w == [d EXCEPT !.active_stream = IF ok \/ standoff THEN stream ELSE "none"]
               t == CompleteCancelled(w, DroppedPlanned(s))
    <3>1. Calms(s, n)
      <4>1. Keeps(s, n, {"active_stream"}) /\ n.active_stream = "none"
        BY DEF Keeps, Fields, CoreOK
      <4>2. QED
        BY <4>1, NoStreamCalms
    <3> HIDE DEF n
    <3>2. Calms(n, d)
      BY <3>1, DropPlannedCalms DEF Calms
    <3> HIDE DEF d
    <3>3. Keeps(d, w, {"active_stream"})
      BY <3>2 DEF Keeps, Fields, Calms, CoreOK
    <3> HIDE DEF w
    <3>4. CoreOK(w) /\ ~w.estop_latched
      <4>1. /\ DOMAIN w = Fields
            /\ w.next_index = d.next_index /\ w.next_tag = d.next_tag
            /\ w.pending = d.pending /\ w.executing = d.executing
            /\ w.planning = d.planning /\ w.blend_hold = d.blend_hold
            /\ w.shapes = d.shapes /\ w.pending_shapes = d.pending_shapes
            /\ w.sent = d.sent /\ w.estop_latched = d.estop_latched
        BY <3>3 DEF Keeps, Fields
      <4>2. ~d.estop_latched
        BY <2>1, <3>1, <3>2 DEF Calms, Quieter
      <4>3. QED
        BY <3>2, <4>1, <4>2 DEF Calms, CoreOK, MarkerOK, PlanningHead
    <3>5. Calms(w, t)
      BY <3>4, CompleteCancelledCalms
    <3> HIDE DEF t
    <3>6. Calms(t, OnMotionAccepted(t))
             /\ \A busy \in BOOLEAN : Calms(t, LatchRefusal(t, busy))
      BY <3>5, LatchesCalm DEF Calms
    <3>7. \/ OnFaf(s, stream, ok, standoff) = OnMotionAccepted(t)
          \/ \E busy \in BOOLEAN : OnFaf(s, stream, ok, standoff) = LatchRefusal(t, busy)
      BY <1>2, <2>4 DEF OnFaf, MotionInFlight, n, d, w, t
    <3>8. Calms(t, OnFaf(s, stream, ok, standoff))
      BY <3>6, <3>7
    <3>9. QED
      BY <2>2, <3>4, <3>5, <3>8, CalmsTrans
  <2>5. QED
    BY <2>3, <2>4
<1>3. QED
  BY <1>1, <1>2

-----------------------------------------------------------------------------
(* System commands. *)

\* A stop, a teleport, a bus swap and a geometry change start nothing.
LEMMA SystemCalms ==
  ASSUME NEW s, NEW clear_queue \in BOOLEAN, NEW set \in ShapeStates, CoreOK(s)
  PROVE  /\ Calms(s, OnStop(s, clear_queue))
         /\ Calms(s, OnTeleport(s))
         /\ Calms(s, OnBusSwap(s))
         /\ Calms(s, OnResetState(s))
         /\ Calms(s, OnSetShapes(s, set))
<1>1. Calms(s, OnStop(s, clear_queue))
  <2> DEFINE t == ClearPause(CancelAllMotion(s))
             u == [t EXCEPT !.standing_error = Unattributed("cancelled")]
  <2>1. Calms(s, CancelActiveMotion(s))
    BY CancelActiveMotionCalms
  <2>2. Calms(s, CancelAllMotion(s))
    BY CancelAllMotionQuiets
  <2>3. Calms(CancelAllMotion(s), t)
    BY <2>2, LatchesCalm DEF Calms
  <2>4. Calms(s, t)
    BY <2>2, <2>3, CalmsTrans
  <2> HIDE DEF t
  <2>5. Keeps(t, u, Bookkeeping)
    BY <2>4 DEF Keeps, Fields, Bookkeeping, Calms, CoreOK
  <2>6. Calms(t, u)
    BY <2>4, <2>5, BookkeepingCalms DEF Calms
  <2>7. OnStop(s, clear_queue) \in {CancelActiveMotion(s), t, u}
    BY DEF OnStop, t
  <2>8. QED
    BY <2>1, <2>4, <2>6, <2>7, CalmsTrans
<1>2. Calms(s, OnTeleport(s))
  <2> DEFINE n == [s EXCEPT !.active_stream = "none"]
             d == CancelPlanned(n)
             t == [d EXCEPT !.teleport_homed = TRUE]
  <2>1. Keeps(s, n, {"active_stream"}) /\ n.active_stream = "none"
    BY DEF Keeps, Fields, CoreOK
  <2> HIDE DEF n
  <2>2. Calms(s, n)
    BY <2>1, NoStreamCalms
  <2>3. Calms(n, d)
    BY <2>2, CancelPlannedCalms DEF Calms
  <2> HIDE DEF d
  <2>4. Keeps(d, t, Bookkeeping)
    BY <2>3 DEF Keeps, Fields, Bookkeeping, Calms, CoreOK
  <2> HIDE DEF t
  <2>5. Calms(d, t)
    BY <2>3, <2>4, BookkeepingCalms DEF Calms
  <2>6. Calms(t, OnMotionAccepted(t))
    BY <2>5, LatchesCalm DEF Calms
  <2>7. OnTeleport(s) \in {s, OnMotionAccepted(t)}
    BY DEF OnTeleport, n, d, t
  <2>8. QED
    BY <2>2, <2>3, <2>5, <2>6, <2>7, CalmsSelf, CalmsTrans
<1>3. Calms(s, InvalidateAttachments(s))
         /\ Calms(InvalidateAttachments(s), CancelAllMotion(InvalidateAttachments(s)))
  BY InvalidateCalms, CancelAllMotionQuiets DEF Calms
<1>4. Calms(s, OnBusSwap(s))
  BY <1>3, CalmsTrans DEF OnBusSwap
<1>5. Calms(s, OnResetState(s))
  <2> DEFINE c == CancelAllMotion(InvalidateAttachments(s))
             t == [c EXCEPT !.standing_error = NoError, !.action_state = "idle"]
  <2>1. Calms(s, c)
    BY <1>3, CalmsTrans
  <2> HIDE DEF c
  <2>2. Keeps(c, t, Bookkeeping)
    BY <2>1 DEF Keeps, Fields, Bookkeeping, Calms, CoreOK
  <2> HIDE DEF t
  <2>3. Calms(c, t)
    BY <2>1, <2>2, BookkeepingCalms DEF Calms
  <2>4. Calms(t, ClearPause(t))
    BY <2>3, LatchesCalm DEF Calms
  <2>5. Calms(ClearPause(t), DeferProgramShapes(ClearPause(t), "plain"))
    BY <2>4, DeferShapesCalms DEF Calms, ShapeStates
  <2>6. QED
    BY <2>1, <2>3, <2>4, <2>5, CalmsTrans DEF OnResetState, c, t
<1>6. Calms(s, OnSetShapes(s, set))
  BY CalmsSelf, DeferShapesCalms DEF OnSetShapes
<1>7. QED
  BY <1>1, <1>2, <1>4, <1>5, <1>6

\* The e-stop latches over a quiet engine, whatever was in it.
LEMMA EstopHolds ==
  ASSUME NEW s, CoreOK(s)
  PROVE  Holds(s, OnEstop(s))
<1> DEFINE u == [s EXCEPT !.estop_latched = TRUE, !.standing_error = Unattributed("estop")]
           t == CancelAllMotion(u)
<1>1. Keeps(s, u, {"estop_latched", "standing_error"})
  BY DEF Keeps, Fields, CoreOK
<1> HIDE DEF u
<1>2. CoreOK(u)
  <2>1. /\ DOMAIN u = Fields
        /\ u.next_index = s.next_index /\ u.next_tag = s.next_tag
        /\ u.pending = s.pending /\ u.executing = s.executing
        /\ u.planning = s.planning /\ u.blend_hold = s.blend_hold
        /\ u.shapes = s.shapes /\ u.pending_shapes = s.pending_shapes
        /\ u.sent = s.sent
    BY <1>1 DEF Keeps, Fields
  <2>2. QED
    BY <2>1 DEF CoreOK, MarkerOK, PlanningHead
<1>3. CoreOK(t) /\ Quiet(t)
  BY <1>2, CancelAllMotionQuiets DEF Calms
<1> HIDE DEF t
<1>4. Holds(t, ClearPause(t))
  BY <1>3, LatchesCalm, CalmsHolds
<1>5. QED
  BY <1>3, <1>4 DEF Holds, Latched, OnEstop, t, u

\* A reset releases the latch.
LEMMA ResetHolds ==
  ASSUME NEW s, CoreOK(s)
  PROVE  Holds(s, OnReset(s))
<1> DEFINE a == InvalidateAttachments(s)
           t == [a EXCEPT !.estop_latched = FALSE, !.standing_error = NoError,
                          !.action_state = "idle"]
<1>1. CoreOK(a)
  BY InvalidateCalms DEF Calms
<1> HIDE DEF a
<1>2. /\ Keeps(a, t, {"estop_latched", "standing_error", "action_state"})
      /\ ~t.estop_latched
  BY <1>1 DEF Keeps, Fields, CoreOK
<1>3. OnReset(s) = t
  BY DEF OnReset, a
<1> HIDE DEF t
<1>4. /\ DOMAIN t = Fields
      /\ t.next_index = a.next_index /\ t.next_tag = a.next_tag
      /\ t.pending = a.pending /\ t.executing = a.executing
      /\ t.planning = a.planning /\ t.blend_hold = a.blend_hold
      /\ t.shapes = a.shapes /\ t.pending_shapes = a.pending_shapes
      /\ t.sent = a.sent
  BY <1>2 DEF Keeps, Fields
<1>5. CoreOK(t)
  BY <1>1, <1>4 DEF CoreOK, MarkerOK, PlanningHead
<1>6. QED
  BY <1>2, <1>3, <1>5 DEF Holds, Latched
=============================================================================
