------------------------------- MODULE MCLive -------------------------------
(***************************************************************************)
(* What must eventually happen, for TLC: every request serviced, command   *)
(* answered, stream ended, waiter told, process stopped; and that the      *)
(* configuration the process starts with is the merge of its layers.       *)
(* A behaviour is one component's: `part` names it, the variables of the   *)
(* others stay Off.  The planner loop's are the extended module's own.     *)
(***************************************************************************)
EXTENDS PlannerLoop

CONSTANT Parts

VARIABLE part

Off == "off"

ExpensiveOps == {"Start", "SetShapes"}
AllOps == ExpensiveOps \cup {"Cancel", "StartTool"}

ReadySnap ==
  [enabled |-> TRUE, homed |-> TRUE, link |-> TRUE, fault |-> FALSE, held |-> FALSE,
   mode |-> "idle", unfinished |-> FALSE]
BrakingSnap == [ReadySnap EXCEPT !.mode = "exec", !.unfinished = TRUE]
ReadyOrBusy == {ReadySnap, BrakingSnap}

\* ConfigLayers: values as ConfigLayers tags them, the shipped robot file under either
\* key, one overlay of every shape, and two sets of tool files.
S(v) == [k |-> "scalar", v |-> v]
T(f) == [k |-> "table", f |-> f]
A(s) == [k |-> "array", s |-> s]

Joint(n, g) == T([name |-> S(n), gains |-> T([p |-> S(g), i |-> S(2)])])
PerJointEntry(c) == T([current |-> S(c), dir |-> S(1)])
ActiveUnder(key) ==
  IF key = "new" THEN T([active_tool |-> S(1)]) ELSE T([active_gripper |-> S(1)])
ShippedFiles ==
  {[robot |-> ActiveUnder(key), joints |-> A(<<Joint(1, 1), Joint(2, 1)>>),
    per |-> A(<<PerJointEntry(1), PerJointEntry(2)>>), list |-> A(<<S(1), S(2)>>)] :
     key \in {"new", "old"}}

Gains(n, g) == T([name |-> S(n), gains |-> T([p |-> S(g)])])
ToolEntry(n) == T([name |-> S(n), tcp |-> T([x |-> S(7)])])
OverlayFiles ==
  {[joints |-> A(<<Gains(n, 9)>>)] : n \in {1, 2, 3}}
    \cup {[tools |-> A(<<ToolEntry(n)>>)] : n \in {1, 2, 4}}
    \cup {[robot |-> T([active_tool |-> S(n)])] : n \in {2, 4}}
    \cup {[joints |-> A(<<Gains(2, 8), Gains(1, 9)>>), list |-> A(<<S(5)>>)],
          [joints |-> A(<<T([gains |-> S(3)])>>)],
          [robot |-> T([active_gripper |-> S(2)])],
          [per |-> A(<<T([dir |-> S(1)]), T([current |-> S(8)])>>)],
          [tools |-> A(<<ToolEntry(2), ToolEntry(1)>>)],
          [tools |-> A(<<T([tcp |-> S(1)])>>)]}

ToolFile(n, id) ==
  [name |-> S(n), can_tool_id |-> S(id), tcp |-> T([x |-> S(1), y |-> S(2)])]
ToolFilesRead == {<<ToolFile(1, 1), ToolFile(2, 2)>>, <<ToolFile(1, 1), ToolFile(2, 1)>>}

-----------------------------------------------------------------------------
VARIABLES
  plane_core, plane_requests, plane_events, plane_inflight, plane_tool_stop,
  plane_invalidated

Plane == INSTANCE CommandPlane WITH
  core <- plane_core, requests <- plane_requests, events <- plane_events,
  inflight <- plane_inflight, tool_stop <- plane_tool_stop,
  invalidated <- plane_invalidated, Keys <- {"k1", "k2"},
  Kinds <- {"blend", "tool", "stop"}, Streams <- {}, ShapeSets <- {}, Snaps <- ReadyOrBusy,
  Ops <- {"stop"}, MaxIndex <- 2, MaxTag <- 1, MaxChan <- 2, QueueCapacity <- 2,
  DedupWindow <- 1, BlendLookahead <- 2

planeVars ==
  <<plane_core, plane_requests, plane_events, plane_inflight, plane_tool_stop, plane_invalidated>>

PlaneOff ==
  /\ plane_core = Off /\ plane_requests = Off /\ plane_events = Off /\ plane_inflight = Off
  /\ plane_tool_stop = Off /\ plane_invalidated = Off

VARIABLES
  bridge_stream, bridge_queue, bridge_slot, bridge_rt, bridge_moving, bridge_latch,
  bridge_active, bridge_call, bridge_lag, bridge_cmds

Bridge == INSTANCE StreamBridge WITH
  stream <- bridge_stream, queue <- bridge_queue, slot <- bridge_slot, rt <- bridge_rt,
  moving <- bridge_moving, latch <- bridge_latch, active <- bridge_active,
  call <- bridge_call, lag <- bridge_lag, cmds <- bridge_cmds, StreamTimeout <- 3,
  Grace <- 4, JogTicks <- 1, RampCap <- 1, Budget <- 1, StillTicks <- 1, Tries <- 2,
  Far <- 0, MaxLag <- 1, MaxCmds <- 2, Tags <- {"servo_l"}

bridgeVars ==
  <<bridge_stream, bridge_queue, bridge_slot, bridge_rt, bridge_moving, bridge_latch,
    bridge_active, bridge_call, bridge_lag, bridge_cmds>>

BridgeOff ==
  /\ bridge_stream = Off /\ bridge_queue = Off /\ bridge_slot = Off /\ bridge_rt = Off
  /\ bridge_moving = Off /\ bridge_latch = Off /\ bridge_active = Off /\ bridge_call = Off
  /\ bridge_lag = Off /\ bridge_cmds = Off

VARIABLES
  waits_rt, waits_cmds, waits_op, waits_enable, waits_flash, waits_swap, waits_snapS,
  waits_snapH, waits_parked, waits_srv, waits_sent, waits_told

Waits == INSTANCE Verdicts WITH
  rt <- waits_rt, cmds <- waits_cmds, op <- waits_op, enable <- waits_enable,
  flash <- waits_flash, swap <- waits_swap, snapS <- waits_snapS, snapH <- waits_snapH,
  parked <- waits_parked, srv <- waits_srv, sent <- waits_sent, told <- waits_told,
  Requests <- {"reset", "estop", "enter", "exit", "swap", "scan", "motion"}, Cap <- 2,
  ScanIds <- 1, Settle <- 1, MaxRequests <- 2

waitsVars ==
  <<waits_rt, waits_cmds, waits_op, waits_enable, waits_flash, waits_swap, waits_snapS,
    waits_snapH, waits_parked, waits_srv, waits_sent, waits_told>>

WaitsOff ==
  /\ waits_rt = Off /\ waits_cmds = Off /\ waits_op = Off /\ waits_enable = Off
  /\ waits_flash = Off /\ waits_swap = Off /\ waits_snapS = Off /\ waits_snapH = Off
  /\ waits_parked = Off /\ waits_srv = Off /\ waits_sent = Off /\ waits_told = Off

VARIABLES
  proc_boot, proc_sup, proc_asked, proc_up, proc_flags, proc_rt, proc_arm, proc_ops,
  proc_sending, proc_cmds, proc_grant, proc_left

Process == INSTANCE Daemon WITH
  boot <- proc_boot, sup <- proc_sup, asked <- proc_asked, up <- proc_up,
  flags <- proc_flags, rt <- proc_rt, arm <- proc_arm, ops <- proc_ops,
  sending <- proc_sending, cmds <- proc_cmds, grant <- proc_grant, left <- proc_left,
  Joints <- 1, Capacity <- 2, Driven <- {"ssg"}, Known <- {"flange"}, Attempts <- 1,
  SimChoices <- {TRUE}, Safe_park <- TRUE, ParkTicks <- 1, SettleTicks <- 1, MaxOps <- 1,
  MaxCmds <- 0, MaxFaults <- 0, MaxDeaths <- 1

procVars ==
  <<proc_boot, proc_sup, proc_asked, proc_up, proc_flags, proc_rt, proc_arm, proc_ops,
    proc_sending, proc_cmds, proc_grant, proc_left>>

ProcessOff ==
  /\ proc_boot = Off /\ proc_sup = Off /\ proc_asked = Off /\ proc_up = Off
  /\ proc_flags = Off /\ proc_rt = Off /\ proc_arm = Off /\ proc_ops = Off
  /\ proc_sending = Off /\ proc_cmds = Off /\ proc_grant = Off /\ proc_left = Off

VARIABLES
  layers_files, layers_fitted, layers_stage, layers_local, layers_robot, layers_tools

Layers == INSTANCE ConfigLayers WITH
  files <- layers_files, fitted <- layers_fitted, stage <- layers_stage,
  local <- layers_local, robot <- layers_robot, tools <- layers_tools,
  Shipped <- ShippedFiles, Overlays <- OverlayFiles, ToolFiles <- ToolFilesRead,
  Named <- {"explicit", "none", "missing"}, Fitted <- {0, 2, 3}, PerJoint <- {"per"}

layersVars ==
  <<layers_files, layers_fitted, layers_stage, layers_local, layers_robot, layers_tools>>

LayersOff ==
  /\ layers_files = Off /\ layers_fitted = Off /\ layers_stage = Off /\ layers_local = Off
  /\ layers_robot = Off /\ layers_tools = Off

-----------------------------------------------------------------------------

MCInit ==
  /\ part \in Parts
  /\ Init
  /\ IF part = "plane" THEN Plane!Init ELSE PlaneOff
  /\ IF part = "bridge" THEN Bridge!Init ELSE BridgeOff
  /\ IF part = "verdicts" THEN Waits!Init ELSE WaitsOff
  /\ IF part = "daemon" THEN Process!Init ELSE ProcessOff
  /\ IF part = "config" THEN Layers!Init ELSE LayersOff

MCNext ==
  /\ UNCHANGED part
  /\ IF part = "loop" THEN Next ELSE UNCHANGED vars
  /\ IF part = "plane" THEN Plane!Next ELSE UNCHANGED planeVars
  /\ IF part = "bridge" THEN Bridge!Next ELSE UNCHANGED bridgeVars
  /\ IF part = "verdicts" THEN Waits!Next ELSE UNCHANGED waitsVars
  /\ IF part = "daemon" THEN Process!Next ELSE UNCHANGED procVars
  /\ IF part = "config" THEN Layers!Next ELSE UNCHANGED layersVars

mcvars == <<part, vars, planeVars, bridgeVars, waitsVars, procVars, layersVars>>

MCSpec == MCInit /\ [][MCNext]_mcvars

\* Every module's own fairness: its threads are scheduled.
MCFairSpec ==
  /\ MCSpec
  /\ WF_vars(part = "loop" /\ Loop)
  /\ WF_plane_requests(part = "plane" /\ Plane!TakeRequest)
  /\ WF_plane_events(part = "plane" /\ Plane!TakeEvent)
  /\ WF_planeVars(part = "plane" /\ Plane!PollOutcome)
  /\ WF_planeVars(part = "plane" /\ Plane!PollTool)
  /\ WF_planeVars(part = "plane" /\ Plane!HoldExpires)
  /\ SF_planeVars(part = "plane" /\ Plane!Poll(ReadySnap))
  /\ WF_bridgeVars(part = "bridge" /\ Bridge!housekeeping)
  /\ SF_bridgeVars(part = "bridge" /\ Bridge!RtTick(TRUE))
  /\ WF_bridgeVars(part = "bridge" /\ Bridge!Server /\ bridge_call.pc # "idle")
  /\ WF_waitsVars(part = "verdicts" /\ Waits!LateScans)
  /\ WF_waitsVars(part = "verdicts" /\ Waits!SettleEnable)
  /\ WF_waitsVars(part = "verdicts" /\ Waits!SettleFlashing)
  /\ WF_waitsVars(part = "verdicts" /\ Waits!SettleBus)
  /\ WF_waitsVars(part = "verdicts" /\ Waits!PollEnable)
  /\ WF_waitsVars(part = "verdicts" /\ Waits!PollFlashing)
  /\ WF_waitsVars(part = "verdicts" /\ Waits!RunOp)
  /\ WF_procVars(part = "daemon" /\ Process!RtThread)
  /\ WF_procVars(part = "daemon" /\ Process!RaiseBreak)
  /\ WF_procVars(part = "daemon" /\ Process!WorkerEnds)
  /\ WF_procVars(part = "daemon" /\ Process!TeeEnds)
  /\ WF_procVars(part = "daemon" /\ Process!ServerEnds)
  /\ WF_procVars(part = "daemon" /\ Process!Supervisor)
  /\ WF_procVars(part = "daemon" /\ (Process!SpawnTee \/ Process!SpawnRest))

-----------------------------------------------------------------------------
(* Properties; ServicedInOrder and EveryRequestServiced are PlannerLoop's. *)

\* Whatever stops and refusals happen, every command Core accepted is answered
\* (CommandPlane!EveryAcceptedCompletes).
EveryAcceptedCompletes ==
  \A i \in 1..2 :
    (part = "plane" /\ plane_core.next_index > i) ~> (part = "plane" /\ i \in Plane!Pushed(plane_core))

\* Once the datagrams stop, the watchdogs, brakes and placements of the bridge's
\* housekeeping bring every streamed session to its end and the RT out of JOG and
\* STREAM (StreamBridge!StreamsEnd).
StreamsEnd ==
  <>[](part = "bridge" => bridge_stream.kind = "none" /\ bridge_rt.mode \notin {"Jog", "Stream"})

\* Every request the server parked for a verdict is answered, whatever supersedes it
\* and whether or not the RT ever does what it asks (Verdicts!EveryWaiterAnswered).
EveryWaiterAnswered ==
  \A n \in 0..1 :
    (part = "verdicts" /\ \E p \in waits_parked : p.n = n)
      ~> (part = "verdicts" /\ ~(\E p \in waits_parked : p.n = n))

\* A signal, a dead parent or a dead planner thread ends the process with every thread
\* joined, whatever stop's two stores meet in rt_loop (Daemon!StopCompletes).
StopCompletes ==
  (part = "daemon" /\ proc_sup = "watch" /\ (proc_asked \/ "planner" \notin proc_up))
    ~> proc_sup = "done"

\* The merged configuration holds what each layer says and nothing else
\* (ConfigLayers!LayeringIsExact).
LayeringIsExact == part = "config" => Layers!LayeringIsExact
=============================================================================
