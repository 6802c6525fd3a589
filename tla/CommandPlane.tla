----------------------------- MODULE CommandPlane -----------------------------
(***************************************************************************)
(* The command plane and the planner plane as one state machine.           *)
(*                                                                         *)
(* The server task (module ServerCore, crates/par6-server/src/server.rs)   *)
(* and the planner thread (crates/par6d/src/planner.rs, driven by the loop *)
(* of crates/par6-server/src/plane.rs) share no state: the server sends    *)
(* requests down one FIFO channel, the planner answers with events up      *)
(* another, and either side may run ahead of the other.  An answer can     *)
(* therefore cross the cancellation of the command it is about.            *)
(*                                                                         *)
(* One server action is one turn of Core::run: the RT snapshot is          *)
(* refreshed (any member of `Snaps` may be the latest one), stale          *)
(* attachments are stopped, and the handler runs to its end.  One planner  *)
(* action is the service of one request or one `poll`.  The loop polls     *)
(* only between batches; a poll between any two requests is allowed here,  *)
(* which is a superset of its schedules (module PlannerLoop has the        *)
(* batches).                                                               *)
(***************************************************************************)
EXTENDS ServerCore

CONSTANTS Keys,        \* client idempotency keys (address, req_id)
          Kinds,       \* kinds of queued command the clients send
          Streams,     \* kinds of streamed command the clients send
          ShapeSets,   \* program geometry the clients declare
          Snaps,       \* RT snapshots the server may read
          Ops,         \* the other client operations of the instance
          MaxIndex,    \* bound: accepted commands
          MaxTag,      \* bound: reply tags handed out
          MaxChan      \* bound: messages in flight before clients wait

ASSUME InstanceAssumption ==
         /\ Kinds \subseteq QueuedKinds \cup {"stop"}
         /\ Streams \subseteq {"jogj", "jogl", "servo"}
         /\ ShapeSets \subseteq {"plain", "attached", "stale"}
         /\ Snaps \subseteq
              [enabled : BOOLEAN, homed : BOOLEAN, link : BOOLEAN,
               fault : BOOLEAN, held : BOOLEAN, unfinished : BOOLEAN,
               mode : {"idle", "jog", "stream", "exec", "homing", "error"}]
         /\ MaxIndex \in Nat /\ MaxTag \in Nat /\ MaxChan \in Nat

VARIABLES core,         \* struct Core
          requests,     \* mpsc channel, server to planner
          events,       \* mpsc channel, planner to server
          inflight,     \* Par6Planner.inflight: index and kind, or NoFlight
          tool_stop,    \* Par6Planner.tool_stop: index, 0 = None
          invalidated   \* Par6Planner.invalidated: index, 0 = None

planner == <<inflight, tool_stop, invalidated>>

vars == <<core, requests, events, inflight, tool_stop, invalidated>>

NoFlight == [index |-> 0, kind |-> "none"]

Init ==
  /\ core \in {InitCore(sn) : sn \in Snaps}
  /\ requests = <<>>
  /\ events = <<>>
  /\ inflight = NoFlight
  /\ tool_stop = 0
  /\ invalidated = 0

-----------------------------------------------------------------------------
(* The server task. *)

\* The handler ends in core `t`; what it sent is on the channel.
Commit(t) ==
  /\ core' = [t EXCEPT !.sent = <<>>]
  /\ requests' = requests \o t.sent
  /\ UNCHANGED planner

Room == Len(requests) + Len(events) < MaxChan

TagRoom == core.next_tag < MaxTag

Queued(sn) ==
  /\ core.next_index <= MaxIndex /\ Room
  /\ \E key \in Keys, kind \in Kinds :
       /\ kind = "stop" => TagRoom
       /\ Commit(OnQueued(Arrive(core, sn), key, kind))
  /\ UNCHANGED events

Streamed(sn) ==
  /\ Room
  /\ \E stream \in Streams, ok, standoff \in BOOLEAN :
       Commit(OnFaf(Arrive(core, sn), stream, ok, standoff))
  /\ UNCHANGED events

Estop(sn) ==
  /\ "estop" \in Ops /\ Room
  /\ Commit(OnEstop(Arrive(core, sn)))
  /\ UNCHANGED events

Stop(sn) ==
  /\ "stop" \in Ops /\ Room
  /\ \E clear_queue \in BOOLEAN :
       Commit(OnStop(Arrive(core, sn), clear_queue))
  /\ UNCHANGED events

Pause(sn) ==
  /\ "pause" \in Ops /\ Room
  /\ \E on \in BOOLEAN : Commit(OnPause(Arrive(core, sn), on))
  /\ UNCHANGED events

Teleport(sn) ==
  /\ "teleport" \in Ops /\ Room
  /\ Commit(OnTeleport(Arrive(core, sn)))
  /\ UNCHANGED events

Reset(sn) ==
  /\ "reset" \in Ops /\ Room
  /\ Commit(OnReset(Arrive(core, sn)))
  /\ UNCHANGED events

ResetState(sn) ==
  /\ "reset_state" \in Ops /\ Room /\ TagRoom
  /\ Commit(OnResetState(Arrive(core, sn)))
  /\ UNCHANGED events

BusSwap(sn) ==
  /\ "bus" \in Ops /\ Room
  /\ Commit(OnBusSwap(Arrive(core, sn)))
  /\ UNCHANGED events

SetShapes(sn) ==
  /\ Room /\ TagRoom
  /\ \E set \in ShapeSets : Commit(OnSetShapes(Arrive(core, sn), set))
  /\ UNCHANGED events

Poll(sn) ==
  /\ Commit(Pump(Arrive(core, sn)))
  /\ UNCHANGED events

\* Time passes the blend hold's deadline.
HoldExpires ==
  /\ core.blend_hold = "armed"
  /\ core' = [core EXCEPT !.blend_hold = "expired"]
  /\ UNCHANGED <<requests, events, planner>>

\* The events of enum PlanEvent the server acts on.
PlanEvents ==
  [op : {"Started"}, index : Nat \ {0}, taken : Nat]
    \cup [op : {"Rejected"}, index : Nat \ {0}]
    \cup [op : {"Outcome"}, index : Nat, ok : BOOLEAN, changed : BOOLEAN]
    \cup [op : {"ToolOutcome"}, index : Nat, ok : BOOLEAN]
    \cup [op : {"ToolStarted", "ShapesApplied"}, tag : Nat, ok : BOOLEAN]
    \cup [op : {"ToolFitted"}, changed : BOOLEAN]

OnPlanEvent(s, ev) ==
  CASE ev.op = "Started"       -> OnPlanStarted(s, ev.index, ev.taken)
    [] ev.op = "Rejected"      -> OnPlanRejected(s, ev.index)
    [] ev.op = "Outcome"       -> Pump(OnOutcome(s, ev.index, ev.ok, ev.changed))
    [] ev.op = "ToolOutcome"   -> OnToolOutcome(s, ev.index, ev.ok)
    [] ev.op = "ToolStarted"   -> OnToolStarted(s, ev.tag, ev.ok)
    [] ev.op = "ShapesApplied" -> OnShapesApplied(s, ev.tag, ev.ok)
    [] ev.op = "ToolFitted"    -> AdoptToolSelection(s, ev.changed)

PlanEvent(sn) ==
  /\ events # <<>>
  /\ Commit(OnPlanEvent(Arrive(core, sn), Head(events)))
  /\ events' = Tail(events)

-----------------------------------------------------------------------------
(* The planner thread. *)

Takes(op) == requests # <<>> /\ Head(requests).op = op

\* blend_chain_len + 1: a chain grows while its last move asks for a rounded
\* corner and the next command is a move.
Covered(batch) ==
  CHOOSE n \in 1..Len(batch) :
    /\ \A k \in 1..(n - 1) : batch[k].kind = "blend"
                               /\ batch[k + 1].kind \in {"move", "blend"}
    /\ n < Len(batch) => ~(batch[n].kind = "blend"
                             /\ batch[n + 1].kind \in {"move", "blend"})

\* take_fitted_tool after a start: a select_tool that swapped the tool.
Fitted(kind, changed) ==
  IF kind = "select" /\ changed
  THEN <<[op |-> "ToolFitted", changed |-> TRUE]>> ELSE <<>>

ServiceStart ==
  /\ Takes("Start")
  /\ LET batch == Head(requests).batch
         head  == batch[1]
     IN  \/ /\ inflight' = [index |-> head.index, kind |-> head.kind]
            /\ \E changed \in BOOLEAN :
                 events' = events \o Fitted(head.kind, changed) \o
                   <<[op |-> "Started", index |-> head.index, taken |-> Covered(batch)]>>
         \/ /\ UNCHANGED inflight
            /\ events' = Append(events, [op |-> "Rejected", index |-> head.index])
  /\ requests' = Tail(requests)
  /\ UNCHANGED <<core, tool_stop, invalidated>>

ServiceCancel ==
  /\ Takes("Cancel")
  /\ inflight' = NoFlight
  /\ requests' = Tail(requests)
  /\ UNCHANGED <<core, events, tool_stop, invalidated>>

\* Mutant of ServiceStartTool: a refused stop forgets the one still settling.
ServiceStartToolForgets ==
  /\ Takes("StartTool")
  /\ \E ok \in BOOLEAN :
       /\ tool_stop' = IF ok THEN Head(requests).index ELSE 0
       /\ events' = Append(events, [op |-> "ToolStarted",
                                    tag |-> Head(requests).tag, ok |-> ok])
  /\ requests' = Tail(requests)
  /\ UNCHANGED <<core, inflight, invalidated>>

ServiceStartTool ==
  /\ Takes("StartTool")
  /\ \E ok \in BOOLEAN :
       /\ tool_stop' = IF ok THEN Head(requests).index ELSE tool_stop
       /\ events' = Append(events, [op |-> "ToolStarted",
                                    tag |-> Head(requests).tag, ok |-> ok])
  /\ requests' = Tail(requests)
  /\ UNCHANGED <<core, inflight, invalidated>>

ServiceCancelTool ==
  /\ Takes("CancelTool")
  /\ tool_stop' = 0
  /\ requests' = Tail(requests)
  /\ UNCHANGED <<core, events, inflight, invalidated>>

\* The kinds that run as an EXEC trajectory: a home of a referenced arm is a
\* planned move, and so is the return at the end of a seek.
RunsExec(kind) == kind \in {"move", "blend", "home"}

\* set_shapes with revalidate_inflight: the new world may outlaw the rest of
\* the running trajectory, whose failure the next poll then reports.
ServiceSetShapes ==
  /\ Takes("SetShapes")
  /\ \E ok \in BOOLEAN :
       /\ events' = Append(events, [op |-> "ShapesApplied",
                                    tag |-> Head(requests).tag, ok |-> ok])
       /\ \/ UNCHANGED <<inflight, invalidated>>
          \/ /\ ok /\ RunsExec(inflight.kind)
             /\ invalidated' = inflight.index
             /\ inflight' = NoFlight
  /\ requests' = Tail(requests)
  /\ UNCHANGED <<core, tool_stop>>

\* poll when a verdict is in: an invalidated command is reported first.
PollOutcome ==
  /\ \E ok, changed \in BOOLEAN :
       \/ /\ invalidated # 0 /\ ~ok
          /\ events' = Append(events, [op |-> "Outcome", index |-> invalidated,
                                       ok |-> FALSE, changed |-> FALSE])
          /\ invalidated' = 0
          /\ UNCHANGED inflight
       \/ /\ invalidated = 0 /\ inflight # NoFlight
          /\ changed => inflight.kind = "select"
          /\ events' = Append(events, [op |-> "Outcome", index |-> inflight.index,
                                       ok |-> ok, changed |-> changed])
          /\ inflight' = NoFlight
          /\ UNCHANGED invalidated
  /\ UNCHANGED <<core, requests, tool_stop>>

PollTool ==
  /\ tool_stop # 0
  /\ \E ok \in BOOLEAN :
       events' = Append(events, [op |-> "ToolOutcome", index |-> tool_stop, ok |-> ok])
  /\ tool_stop' = 0
  /\ UNCHANGED <<core, requests, inflight, invalidated>>

\* follow_drive_tool: with nothing in flight, the gripper drive may report
\* another tool (while the RT boots, which is the planner's own snapshot).
DriveToolChanged ==
  /\ "drive_tool" \in Ops /\ Room
  /\ inflight = NoFlight
  /\ events' = Append(events, [op |-> "ToolFitted", changed |-> TRUE])
  /\ UNCHANGED <<core, requests, planner>>

-----------------------------------------------------------------------------

Client(sn) ==
  \/ Queued(sn) \/ Streamed(sn) \/ Estop(sn) \/ Stop(sn) \/ Pause(sn)
  \/ Teleport(sn) \/ Reset(sn) \/ ResetState(sn) \/ BusSwap(sn) \/ SetShapes(sn)

Planner ==
  \/ ServiceStart \/ ServiceCancel \/ ServiceStartTool \/ ServiceCancelTool
  \/ ServiceSetShapes \/ PollOutcome \/ PollTool \/ DriveToolChanged

Next ==
  \/ \E sn \in Snaps : Client(sn) \/ Poll(sn) \/ PlanEvent(sn)
  \/ HoldExpires
  \/ Planner

Spec == Init /\ [][Next]_vars

\* Scheduling: the planner thread and the server task both keep running, and
\* a snapshot that lets the head start is read again and again.
Ready(sn) == sn.enabled /\ sn.homed /\ sn.link /\ ~sn.held /\ sn.mode = "idle"

TakeRequest == requests # <<>> /\ requests' = Tail(requests)

TakeEvent == events # <<>> /\ events' = Tail(events)

Fairness ==
  /\ WF_requests(TakeRequest)
  /\ WF_events(TakeEvent)
  /\ WF_vars(PollOutcome)
  /\ WF_vars(PollTool)
  /\ WF_vars(HoldExpires)
  /\ \A sn \in Snaps : Ready(sn) => SF_vars(Poll(sn))

FairSpec == Spec /\ Fairness

-----------------------------------------------------------------------------
(* Properties. *)

Live(s) ==
  Elems(Indices(s.pending)) \cup Elems(Indices(s.tool_stops))
    \cup (IF s.executing = NoCmd THEN {}
          ELSE {s.executing.index} \cup Elems(s.executing.blended))

Pushed(s) == Elems(Indices(s.completes))

InRequests(op, f, x) ==
  \E k \in 1..Len(requests) :
    requests[k].op = op /\ (f # "" => requests[k][f] = x)

InEvents(op, f, x) ==
  \E k \in 1..Len(events) : events[k].op = op /\ events[k][f] = x

\* The shape of the state.  Beyond types: the marker `planning` names the head
\* of the queue and only while nothing executes, the queue is within its
\* capacity, no Start is sent without a command in it, and every request a
\* handler makes is on the channel when the handler ends.
TypeOK ==
  /\ CoreOK(core) /\ core.sent = <<>>
  /\ requests \in Seq(PlanRequest)
  /\ events \in Seq(PlanEvents)
  /\ inflight \in [index : Nat, kind : QueuedKinds \cup {"none"}]
  /\ tool_stop \in Nat /\ invalidated \in Nat

\* Every accepted command has exactly one fate: it is in exactly one place of
\* the engine (the queue, the executing motion or its blended tail, the tool
\* stops), or exactly one COMPLETE was pushed for it.  No path through
\* drop_active, drop_pending, fail_command, on_outcome or finish_tool_stop
\* loses a command or answers it twice, whatever answers cross its
\* cancellation.
ExactlyOneFate ==
  /\ 1..(core.next_index - 1) = Live(core) \cup Pushed(core)
  /\ Live(core) \cap Pushed(core) = {}
  /\ Cardinality(Pushed(core)) = Len(core.completes)
  /\ Cardinality(Live(core)) =
       Len(core.pending) + Len(core.tool_stops) +
         (IF core.executing = NoCmd THEN 0 ELSE 1 + Len(core.executing.blended))

\* The completion mark clients wait on (advance_completed): it stands on the
\* longest unbroken run of completed commands, and the set kept beside it is
\* exactly what completed above a command still running.
MarkIsExact ==
  /\ \A i \in 1..core.completed_index : i \in Pushed(core)
  /\ core.finished = {i \in Pushed(core) : i > core.completed_index}
  /\ Greater(core.completed_index, 0) + 1 \notin Pushed(core)

\* Every accepted command has one fate, and the mark clients wait on tells it
\* (fail_command, on_outcome, drop_active, drop_pending, advance_completed).
Accounted == ExactlyOneFate /\ MarkIsExact

\* The server never waits for an answer that cannot come: a head being planned
\* has its Start on the way or its answer on the way back, an executing
\* command is the planner's command in flight (with no Cancel about to hit it)
\* or its outcome is on the way.
AnswersOwed ==
  /\ core.planning # 0 =>
       \/ /\ \E k \in 1..Len(requests) :
              /\ requests[k].op = "Start"
              /\ requests[k].batch[1].index = core.planning
       \/ InEvents("Started", "index", core.planning)
       \/ InEvents("Rejected", "index", core.planning)
  /\ core.executing # NoCmd =>
       \/ inflight.index = core.executing.index /\ ~InRequests("Cancel", "", 0)
       \/ invalidated = core.executing.index
       \/ InEvents("Outcome", "index", core.executing.index)

\* A Start reaches the planner only after the previous motion ended or its
\* Cancel was serviced: Par6Planner.start never overwrites a running motion.
StartFindsPlannerIdle == Takes("Start") => inflight = NoFlight

\* Every tool stop the server holds is answered: its verdict is on the way,
\* or the planner watches it or a later stop that will finish it too.
ToolStopsBacked ==
  \A k \in 1..Len(core.tool_stops) :
    LET stop == core.tool_stops[k] IN
    IF stop.tag # 0
    THEN InRequests("StartTool", "tag", stop.tag) \/ InEvents("ToolStarted", "tag", stop.tag)
    ELSE \E j \in k..Len(core.tool_stops) :
           \/ tool_stop = core.tool_stops[j].index /\ ~InRequests("CancelTool", "", 0)
           \/ InEvents("ToolOutcome", "index", core.tool_stops[j].index)

\* The jaws have one owner: while a tool stop settles, no queued tool action
\* is executing, being planned, or in flight in the planner.
JawsHaveOneOwner ==
  /\ core.tool_stops # <<>> => ~RunsTool(core) /\ ~StartsTool(core)
  /\ ~(tool_stop # 0 /\ inflight.kind = "tool")

\* Server and planner keep step whatever crosses on the two channels: every answer the
\* server waits for is owed, every Start finds the planner free, every tool stop is
\* watched, and the jaws are driven by one side at a time (drop_active, start_head,
\* finish_tool_stop; Par6Planner start, cancel, poll).
PlannerInStep ==
  AnswersOwed /\ StartFindsPlannerIdle /\ ToolStopsBacked /\ JawsHaveOneOwner

\* While the software e-stop is latched nothing that moves is queued, planned,
\* executing or streaming; only the configuration commands the gate lets
\* through a disabled arm are.
EstopSilencesQueue ==
  core.estop_latched => Quiet(core)

\* Once geometry attached to the arm has gone stale (its reference, the link or
\* the tool changed under it) and the stop that follows has run, no arm motion
\* is queued, executing or streaming against it.
NoMotionOnStaleGeometry ==
  core.shapes = "stale" /\ ~core.attachment_stop_pending =>
    /\ \A c \in Elems(core.pending) : ~IsArmMotion(c.kind)
    /\ ~IsArmMotion(core.executing.kind)
    /\ core.active_stream = "none"

\* The idempotency window holds the key of every command still in the engine,
\* so a retransmission of one is re-acked and never enqueued again.
DedupCoversLive ==
  \A i \in Live(core) : \E k \in 1..Len(core.dedup) : core.dedup[k].index = i

\* Every accepted command is completed in the end, whatever is cancelled,
\* rejected, invalidated or blended on the way.
EveryAcceptedCompletes ==
  \A i \in 1..MaxIndex : (core.next_index > i) ~> (i \in Pushed(core))
=============================================================================
