------------------------------ MODULE ServerCore ------------------------------
(***************************************************************************)
(* The command plane's queue engine: the part of `struct Core`             *)
(* (crates/par6-server/src/server.rs) that owns the command queue, the     *)
(* completion bookkeeping, the latches and the idempotency window.         *)
(*                                                                         *)
(* The server is ONE tokio task: a handler runs to its end before the next *)
(* event is taken, so each handler is a function from the state of the     *)
(* core to the state after it.  The core is a record with one field per    *)
(* field of the struct that carries control; the operators below are the   *)
(* struct's methods.  Module CommandPlane makes them the actions of a      *)
(* state machine, with the planner thread on the other end of `sent`.      *)
(*                                                                         *)
(* Abstractions.  A queued command is its wire index and its kind; a COMPLETE *)
(* push is its index and result.  Held geometry (`shapes`) is reduced to   *)
(* whether it carries attachments, and whether those were declared against *)
(* the current attachment epoch.  Calls on the RT port (`RtCommands`) are  *)
(* not part of this module's state; module StopPath has them.  Requests    *)
(* that change no control state of the planner (Sync, ClearCollision,      *)
(* QueueEstimate) are left out.                                            *)
(***************************************************************************)
EXTENDS Integers, Sequences, FiniteSets

CONSTANTS QueueCapacity,   \* cfg.queue_capacity
          DedupWindow,     \* cfg.dedup_window
          BlendLookahead   \* cfg.blend_lookahead

ASSUME CapacityAssumption ==
         /\ QueueCapacity \in Nat \ {0}
         /\ DedupWindow \in Nat
         /\ BlendLookahead \in Nat

-----------------------------------------------------------------------------
(* Commands.  "move" stands for the planned moves that stop at their       *)
(* target, "blend" for those with a positive blend radius, "stop" for the  *)
(* tool action that skips the queue, "config" for SetTcpOffset and         *)
(* SetTcpTransform.                                                        *)

QueuedKinds == {"move", "blend", "home", "tool", "select", "delay", "config"}

NeedsEnabled(kind) == kind # "config"

NeedsHomed(kind) == kind \in {"move", "blend", "jogl", "servo"}

IsArmMotion(kind) == kind \in {"move", "blend", "jogj", "jogl", "servo", "teleport"}

WaitsForRest(kind) == kind \in {"move", "blend", "home", "select"}

Entry == [index : Nat \ {0}, kind : QueuedKinds]

ShapeStates == {"plain", "attached", "stale"}

\* PlanRequest, without the requests that change no control state.
PlanRequest ==
  [op : {"Cancel", "CancelTool"}]
    \cup [op : {"Start"}, batch : Seq(Entry) \ {<<>>}]
    \cup [op : {"StartTool"}, tag : Nat, index : Nat]
    \cup [op : {"SetShapes"}, tag : Nat]

NoCmd == [index |-> 0, kind |-> "none", blended |-> <<>>]

NoError == [code |-> "none", index |-> -1]

\* UNATTRIBUTED is -1: the error belongs to no command.
Unattributed(code) == [code |-> code, index |-> -1]

Indices(q) == [k \in 1..Len(q) |-> q[k].index]

Elems(q) == {q[k] : k \in 1..Len(q)}

Lesser(a, b) == IF a < b THEN a ELSE b

Greater(a, b) == IF a > b THEN a ELSE b

-----------------------------------------------------------------------------
(* Core::new *)

DedupCap == Greater(1, Greater(DedupWindow, QueueCapacity + 2))

InitCore(snap) ==
  [next_index |-> 1, dedup |-> <<>>, pending |-> <<>>, executing |-> NoCmd,
   planning |-> 0, blend_hold |-> "none", tool_stops |-> <<>>,
   completed_index |-> -1, finished |-> {}, completes |-> <<>>,
   standing_error |-> NoError, action_state |-> "idle",
   estop_latched |-> FALSE, teleport_homed |-> FALSE,
   active_stream |-> "none", execution_paused |-> FALSE,
   shapes |-> "plain", attachment_stop_pending |-> FALSE,
   pending_shapes |-> {}, next_tag |-> 0, snap |-> snap, sent |-> <<>>]

Send(s, req) == [s EXCEPT !.sent = Append(@, req)]

-----------------------------------------------------------------------------
(* Completion bookkeeping. *)

\* Mutant of AdvanceCompleted: a plain high-water mark.
AdvanceCompletedToMax(s, done) ==
  [s EXCEPT !.completed_index = CHOOSE m \in done \cup {@} : \A j \in done \cup {@} : j <= m]

\* advance_completed for every index of `done`: the mark moves over the
\* finished run above it and stops below the first index not finished.
AdvanceCompleted(s, done) ==
  LET all  == s.finished \cup done
      from == IF s.completed_index < 0 THEN 1 ELSE s.completed_index + 1
      gap  == CHOOSE g \in from..s.next_index :
                 g \notin all /\ \A j \in from..(g - 1) : j \in all
  IN  [s EXCEPT !.completed_index = IF gap = from THEN @ ELSE gap - 1,
                !.finished = all \ (from..(gap - 1))]

PushComplete(s, indices, result) ==
  [s EXCEPT !.completes =
     @ \o [k \in 1..Len(indices) |-> [index |-> indices[k], result |-> result]]]

CompleteCancelled(s, dropped) ==
  PushComplete(AdvanceCompleted(s, Elems(dropped)), dropped, "cancelled")

-----------------------------------------------------------------------------
(* Dropping motion.  Each `Drop...` is the state after the method and      *)
(* `Dropped...` the list the method returns.                               *)

PlanningHead(s) ==
  /\ s.planning # 0
  /\ s.pending # <<>>
  /\ s.pending[1].index = s.planning

\* Mutant of DroppedActive: the head being planned is not reported.
DroppedActiveForgetsHead(s) ==
  IF s.executing # NoCmd THEN <<s.executing.index>> \o s.executing.blended ELSE <<>>

DroppedActive(s) ==
  (IF PlanningHead(s) THEN <<s.planning>> ELSE <<>>) \o
  (IF s.executing # NoCmd THEN <<s.executing.index>> \o s.executing.blended
                          ELSE <<>>)

\* Mutant of DropActive: the in-flight marker stays.
DropActiveKeepsMarker(s) ==
  [s EXCEPT !.pending = IF PlanningHead(s) THEN Tail(@) ELSE @, !.executing = NoCmd]

DropActive(s) ==
  [s EXCEPT !.planning = 0,
            !.pending = IF PlanningHead(s) THEN Tail(@) ELSE @,
            !.action_state = IF s.executing # NoCmd THEN "idle" ELSE @,
            !.executing = NoCmd]

DropPending(s) == [s EXCEPT !.pending = <<>>, !.blend_hold = "none"]

DropToolStops(s) ==
  IF s.tool_stops = <<>> THEN s
  ELSE Send([s EXCEPT !.tool_stops = <<>>], [op |-> "CancelTool"])

DroppedActiveMotion(s) == DroppedActive(s) \o Indices(s.tool_stops)

\* Mutant of DropActiveMotion: the planner is not told.
DropActiveMotionNoCancel(s) ==
  [DropToolStops(DropActive(s)) EXCEPT !.active_stream = "none"]

DropActiveMotion(s) ==
  [DropToolStops(DropActive(Send(s, [op |-> "Cancel"])))
     EXCEPT !.active_stream = "none"]

DropPlanned(s) == DropPending(DropActive(Send(s, [op |-> "Cancel"])))

\* Mutant of DroppedPlanned: the queue behind the active motion is not reported.
DroppedPlannedActiveOnly(s) == DroppedActive(s)

DroppedPlanned(s) == DroppedActive(s) \o Indices(DropActive(s).pending)

CancelActiveMotion(s) ==
  CompleteCancelled(DropActiveMotion(s), DroppedActiveMotion(s))

CancelAllMotion(s) ==
  CompleteCancelled(DropPending(DropActiveMotion(s)),
                    DroppedActiveMotion(s) \o Indices(DropActive(s).pending))

CancelPlanned(s) == CompleteCancelled(DropPlanned(s), DroppedPlanned(s))

\* The tool action the queue is running or starting: what a tool stop cancels.
RunsTool(s) == s.executing.kind = "tool"

StartsTool(s) == ~RunsTool(s) /\ PlanningHead(s) /\ s.pending[1].kind = "tool"

DroppedActiveToolAction(s) ==
  IF RunsTool(s) THEN <<s.executing.index>> \o s.executing.blended
  ELSE IF StartsTool(s) THEN <<s.planning>> ELSE <<>>

DropActiveToolAction(s) ==
  IF RunsTool(s)
  THEN Send([s EXCEPT !.executing = NoCmd, !.action_state = "idle"],
            [op |-> "Cancel"])
  ELSE IF StartsTool(s)
  THEN Send([s EXCEPT !.planning = 0, !.pending = Tail(@)], [op |-> "Cancel"])
  ELSE s

ClearPause(s) == [s EXCEPT !.execution_paused = FALSE]

-----------------------------------------------------------------------------
(* Latches and held geometry. *)

OnMotionAccepted(s) ==
  [s EXCEPT !.standing_error = NoError,
            !.action_state = IF s.standing_error # NoError /\ @ = "error"
                             THEN "idle" ELSE @]

LatchRefusal(s, busy) ==
  IF busy \/ s.standing_error.index # -1 \/ s.snap.fault THEN s
  ELSE [s EXCEPT !.standing_error = Unattributed("refused")]

MotionInFlight(s) ==
  \/ s.executing # NoCmd
  \/ s.pending # <<>>
  \/ s.active_stream # "none"
  \/ s.tool_stops # <<>>

\* A new attachment epoch: whatever was declared against the old one is stale.
InvalidateAttachments(s) ==
  [s EXCEPT !.shapes = IF @ = "attached" THEN "stale" ELSE @,
            !.pending_shapes =
               {[p EXCEPT !.set = IF @ = "attached" THEN "stale" ELSE @] : p \in @},
            !.attachment_stop_pending = @ \/ s.shapes # "plain"]

ReferencedAndLive(snap) == snap.enabled /\ snap.homed /\ snap.link

StopInvalidAttachments(s) ==
  LET t == IF s.shapes = "attached" /\ ~ReferencedAndLive(s.snap)
           THEN InvalidateAttachments(s) ELSE s
  IN  IF t.attachment_stop_pending
      THEN [CancelAllMotion([t EXCEPT !.attachment_stop_pending = FALSE])
              EXCEPT !.standing_error = Unattributed("attachment")]
      ELSE t

RefreshSnapshot(s, snap) ==
  [s EXCEPT !.snap = snap, !.teleport_homed = @ /\ ~snap.homed]

\* What every handler does before it looks at its event.
Arrive(s, snap) == StopInvalidAttachments(RefreshSnapshot(s, snap))

AttachmentShapesRefused(s, set) ==
  \/ /\ set # "plain" \/ s.shapes # "plain"
     /\ \/ s.executing # NoCmd \/ s.planning # 0 \/ s.active_stream # "none"
        \/ s.pending # <<>> \/ s.pending_shapes # {}
  \/ set # "plain" /\ ~ReferencedAndLive(s.snap)
  \/ set = "stale"

DeferProgramShapes(s, set) ==
  LET tag == s.next_tag + 1
  IN  Send([s EXCEPT !.next_tag = tag,
                     !.pending_shapes = @ \cup {[tag |-> tag, set |-> set]}],
           [op |-> "SetShapes", tag |-> tag])

\* Mutant of GateRefuses: geometry still on its way to the planner is ignored.
GateIgnoresPendingShapes(s, kind) ==
  \/ IsArmMotion(kind) /\ s.shapes = "stale"
  \/ NeedsEnabled(kind) /\ (s.estop_latched \/ ~s.snap.enabled)
  \/ NeedsHomed(kind) /\ ~(s.snap.homed \/ s.teleport_homed)

\* check_gate, with the table of gating.rs.
GateRefuses(s, kind) ==
  \/ IsArmMotion(kind) /\ (s.shapes = "stale"
                             \/ \E p \in s.pending_shapes : p.set # "plain")
  \/ NeedsEnabled(kind) /\ (s.estop_latched \/ ~s.snap.enabled)
  \/ NeedsHomed(kind) /\ ~(s.snap.homed \/ s.teleport_homed)

-----------------------------------------------------------------------------
(* The queue engine. *)

ArmBraking(s) ==
  \/ s.snap.mode \in {"jog", "stream"}
  \/ s.snap.mode = "exec" /\ s.snap.unfinished

\* holding_for_blend's `wants_more`; `blend_hold` stands for the deadline:
\* "none", "armed" (in the future) or "expired".
WantsMore(s) ==
  Len(s.pending) < BlendLookahead /\ s.pending[Len(s.pending)].kind = "blend"

\* Mutant of HeadMustWait: a tool action does not wait for the tool stops.
HeadIgnoresToolStops(s) ==
  LET head == s.pending[1] IN
  \/ NeedsEnabled(head.kind) /\ (s.estop_latched \/ ~s.snap.enabled)
  \/ WaitsForRest(head.kind) /\ ArmBraking(s)

HeadMustWait(s) ==
  LET head == s.pending[1] IN
  \/ head.kind = "tool" /\ s.tool_stops # <<>>
  \/ NeedsEnabled(head.kind) /\ (s.estop_latched \/ ~s.snap.enabled)
  \/ WaitsForRest(head.kind) /\ ArmBraking(s)

OfferHead(s) ==
  LET batch == SubSeq(s.pending, 1,
                      Lesser(Len(s.pending), Greater(BlendLookahead, 1)))
  IN  Send([s EXCEPT !.blend_hold = "none", !.planning = batch[1].index],
           [op |-> "Start", batch |-> batch])

Pump(s0) ==
  LET s == StopInvalidAttachments(s0) IN
  IF \/ s.execution_paused \/ s.snap.held
     \/ s.executing # NoCmd \/ s.planning # 0 \/ s.active_stream # "none"
  THEN s
  ELSE IF s.pending = <<>> THEN [s EXCEPT !.blend_hold = "none"]
  ELSE IF HeadMustWait(s) THEN s
  ELSE IF WantsMore(s) /\ s.blend_hold # "expired"
  THEN [s EXCEPT !.blend_hold = "armed"]
  ELSE OfferHead(s)

FailCommand(s, index, blended) ==
  LET t == [AdvanceCompleted(s, {index})
              EXCEPT !.standing_error = [code |-> "failed", index |-> index],
                     !.action_state = "error"]
  IN  CompleteCancelled(PushComplete(DropPending(t), <<index>>, "failed"),
                        blended \o Indices(s.pending))

AdoptToolSelection(s, changed) ==
  IF changed THEN InvalidateAttachments(s) ELSE s

-----------------------------------------------------------------------------
(* Planner events. *)

\* Mutant of OnPlanStarted: any answer starts the head being planned.
OnPlanStartedUnchecked(s, index, taken) ==
  IF s.planning = 0 \/ s.pending = <<>> THEN [s EXCEPT !.planning = 0]
  ELSE [s EXCEPT !.planning = 0, !.pending = Tail(@), !.action_state = "executing",
                 !.executing = [index |-> s.pending[1].index, kind |-> s.pending[1].kind,
                                blended |-> <<>>]]

OnPlanStarted(s, index, taken) ==
  IF s.planning # index THEN s
  ELSE IF s.pending = <<>> THEN [s EXCEPT !.planning = 0]
  ELSE LET n == Lesser(Greater(taken, 1), Len(s.pending)) IN
       [s EXCEPT !.planning = 0,
                 !.pending = SubSeq(@, n + 1, Len(@)),
                 !.action_state = "executing",
                 !.executing = [index |-> s.pending[1].index,
                                kind |-> s.pending[1].kind,
                                blended |-> Indices(SubSeq(s.pending, 2, n))]]

\* Mutant of OnPlanRejected: the in-flight marker stays.
OnPlanRejectedKeepsMarker(s, index) ==
  IF s.planning # index \/ s.pending = <<>> THEN s
  ELSE FailCommand([s EXCEPT !.pending = Tail(@)], s.pending[1].index, <<>>)

OnPlanRejected(s, index) ==
  IF s.planning # index THEN s
  ELSE IF s.pending = <<>> THEN [s EXCEPT !.planning = 0]
  ELSE FailCommand([s EXCEPT !.planning = 0, !.pending = Tail(@)],
                   s.pending[1].index, <<>>)

OnOutcome(s, index, ok, changed) ==
  IF s.executing = NoCmd \/ s.executing.index # index THEN s
  ELSE LET ex == s.executing
           t  == [s EXCEPT !.executing = NoCmd]
       IN  IF ok
           THEN LET u == AdoptToolSelection(
                           [AdvanceCompleted(t, {ex.index} \cup Elems(ex.blended))
                              EXCEPT !.action_state = "idle"],
                           ex.kind = "select" /\ changed)
                IN  PushComplete(u, <<ex.index>> \o ex.blended, "ok")
           ELSE FailCommand(t, ex.index, ex.blended)

FinishToolStops(s, stops, ok) ==
  LET t == PushComplete(AdvanceCompleted(s, Elems(Indices(stops))),
                        Indices(stops), IF ok THEN "ok" ELSE "failed")
  IN  IF ok THEN t
      ELSE [t EXCEPT !.standing_error =
                        [code |-> "failed", index |-> stops[Len(stops)].index],
                     !.action_state = "error"]

OnToolStarted(s, tag, ok) ==
  LET at == {k \in 1..Len(s.tool_stops) : s.tool_stops[k].tag = tag} IN
  IF at = {} THEN s
  ELSE LET k == CHOOSE k \in at : \A j \in at : k <= j IN
       IF ok THEN [s EXCEPT !.tool_stops[k].tag = 0]
       ELSE Pump(FinishToolStops(
              [s EXCEPT !.tool_stops =
                 SubSeq(@, 1, k - 1) \o SubSeq(@, k + 1, Len(@))],
              <<s.tool_stops[k]>>, FALSE))

OnToolOutcome(s, index, ok) ==
  LET at == {k \in 1..Len(s.tool_stops) :
               s.tool_stops[k].index = index /\ s.tool_stops[k].tag = 0} IN
  IF at = {} THEN s
  ELSE LET k == CHOOSE k \in at : \A j \in at : k <= j IN
       Pump(FinishToolStops(
              [s EXCEPT !.tool_stops = SubSeq(@, k + 1, Len(@))],
              SubSeq(s.tool_stops, 1, k), ok))

OnShapesApplied(s, tag, ok) ==
  LET p == {q \in s.pending_shapes : q.tag = tag} IN
  IF p = {} THEN s
  ELSE [s EXCEPT !.pending_shapes = @ \ p,
                 !.shapes = IF ok THEN (CHOOSE q \in p : TRUE).set ELSE @]

-----------------------------------------------------------------------------
(* Datagrams. *)

DedupHas(s, key) == \E k \in 1..Len(s.dedup) : s.dedup[k].key = key

DedupInsert(d, key, index) ==
  LET e == Append(d, [key |-> key, index |-> index])
  IN  IF Len(e) > DedupCap THEN Tail(e) ELSE e

StartToolStop(s, index) ==
  LET t   == CompleteCancelled(DropActiveToolAction(s), DroppedActiveToolAction(s))
      tag == t.next_tag + 1
  IN  Send([t EXCEPT !.next_tag = tag,
                     !.tool_stops = Append(@, [index |-> index, tag |-> tag])],
           [op |-> "StartTool", tag |-> tag, index |-> index])

Accept(s, key) ==
  OnMotionAccepted([s EXCEPT !.next_index = @ + 1,
                             !.dedup = DedupInsert(@, key, s.next_index)])

\* on_queued; a key already in the window is re-acked and changes nothing.
OnQueued(s, key, kind) ==
  IF DedupHas(s, key) \/ GateRefuses(s, kind) THEN s
  ELSE IF kind = "stop" THEN StartToolStop(Accept(s, key), s.next_index)
  ELSE IF Len(s.pending) >= QueueCapacity THEN s
  ELSE Pump([Accept(s, key) EXCEPT
               !.active_stream = "none",
               !.pending = Append(@, [index |-> s.next_index, kind |-> kind])])

\* on_faf.  `ok` is the verdict of the runtime's stream(); `standoff` its
\* refusal_in_progress(): the collision gate still owns the arm.
OnFaf(s, stream, ok, standoff) ==
  IF GateRefuses(s, stream) THEN LatchRefusal(s, MotionInFlight(s))
  ELSE IF s.active_stream = stream
  THEN IF ok THEN OnMotionAccepted(s)
       ELSE LET t == [s EXCEPT !.active_stream = IF standoff THEN @ ELSE "none"]
            IN  LatchRefusal(t, t.executing # NoCmd \/ t.pending # <<>>)
  ELSE LET t == CompleteCancelled(
                  [DropPlanned([s EXCEPT !.active_stream = "none"])
                     EXCEPT !.active_stream = IF ok \/ standoff THEN stream ELSE "none"],
                  DroppedPlanned(s))
       IN  IF ok THEN OnMotionAccepted(t)
           ELSE IF standoff
           THEN LatchRefusal(t, t.executing # NoCmd \/ t.pending # <<>>)
           ELSE LatchRefusal(t, MotionInFlight(t))

\* Mutant of OnEstop: only the active motion is cancelled.
OnEstopKeepsQueue(s) ==
  ClearPause(CancelActiveMotion([s EXCEPT !.estop_latched = TRUE,
                                          !.standing_error = Unattributed("estop")]))

OnEstop(s) ==
  ClearPause(CancelAllMotion([s EXCEPT !.estop_latched = TRUE,
                                       !.standing_error = Unattributed("estop")]))

OnPause(s, on) == [s EXCEPT !.execution_paused = on]

OnStop(s, clear_queue) ==
  IF ~clear_queue THEN CancelActiveMotion(s)
  ELSE LET t == ClearPause(CancelAllMotion(s))
       IN  IF Len(t.completes) > Len(s.completes)
           THEN [t EXCEPT !.standing_error = Unattributed("cancelled")] ELSE t

OnTeleport(s) ==
  IF GateRefuses(s, "teleport") THEN s
  ELSE OnMotionAccepted(
         [CancelPlanned([s EXCEPT !.active_stream = "none"])
            EXCEPT !.teleport_homed = TRUE])

OnReset(s) ==
  [InvalidateAttachments(s) EXCEPT !.estop_latched = FALSE,
                                   !.standing_error = NoError,
                                   !.action_state = "idle"]

OnResetState(s) ==
  DeferProgramShapes(
    ClearPause([CancelAllMotion(InvalidateAttachments(s))
                  EXCEPT !.standing_error = NoError, !.action_state = "idle"]),
    "plain")

OnBusSwap(s) == CancelAllMotion(InvalidateAttachments(s))

OnSetShapes(s, set) ==
  IF AttachmentShapesRefused(s, set) THEN s ELSE DeferProgramShapes(s, set)

-----------------------------------------------------------------------------
(* The shape of the core between two handlers. *)

Fields ==
  {"next_index", "dedup", "pending", "executing", "planning", "blend_hold",
   "tool_stops", "completed_index", "finished", "completes", "standing_error",
   "action_state", "estop_latched", "teleport_homed", "active_stream",
   "execution_paused", "shapes", "attachment_stop_pending", "pending_shapes",
   "next_tag", "snap", "sent"}

\* `planning` names the head of the queue, and only while nothing executes.
MarkerOK(s) == s.planning # 0 => PlanningHead(s) /\ s.executing = NoCmd

CoreOK(s) ==
  /\ DOMAIN s = Fields
  /\ s.next_index \in Nat \ {0}
  /\ s.next_tag \in Nat
  /\ s.pending \in Seq(Entry) /\ Len(s.pending) <= QueueCapacity
  /\ s.executing.index \in Nat /\ s.executing.kind \in QueuedKinds \cup {"none"}
  /\ MarkerOK(s)
  /\ s.blend_hold \in {"none", "armed", "expired"}
  /\ s.shapes \in ShapeStates
  /\ s.pending_shapes \subseteq [tag : Nat, set : ShapeStates]
  /\ s.sent \in Seq(PlanRequest)

\* Nothing that moves is queued, executing, settling or streaming.
Quiet(s) ==
  /\ \A c \in Elems(s.pending) : c.kind = "config"
  /\ s.executing.kind \in {"none", "config"}
  /\ s.tool_stops = <<>>
  /\ s.active_stream = "none"
=============================================================================
