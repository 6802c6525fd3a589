------------------------------ MODULE MCDaemon ------------------------------
(***************************************************************************)
(* The daemon's side for TLC: the process and its threads, the server's    *)
(* intake, verdicts and status, the planner, the stream bridge and its     *)
(* gate, the offline preview, calibration, and the client.                 *)
(* A behaviour is one component's: `part` names it, the variables of the   *)
(* others stay Off.                                                        *)
(***************************************************************************)
EXTENDS Integers, Sequences

CONSTANTS Parts,
          PlanCommands, PlanBatch, PlanStarts,  \* Par6Planner: what is planned, and how much
          CalPoses, CalLosses,                  \* Calibration
          WaitKinds, WaitCap, WaitScanIds, WaitSettle, WaitRequests,  \* Verdicts
          IntakeKinds, IntakeDrain, IntakeSent, \* ServerIntake
          ChunkRequests, ChunkTransferOf, ChunkPartsOf, ChunkMaxParts, ChunkMaxTransfers,
          ChunkAttempts,                        \* ChunkTransfer
          ClientRequests, ClientOthers, ClientRestarts, ClientStatus, ClientErrors,
          ClientAttempts, ClientKept,           \* ClientWait
          ProcJoints, ProcCapacity, ProcDriven, ProcKnown, ProcAttempts, ProcSim,
          ProcPark, ProcParkTicks, ProcSettleTicks, ProcOps, ProcCmds, ProcFaults,
          ProcDeaths,                           \* Daemon
          StatusStrides, StatusTransports, StatusSendErrors, StatusStale, StatusTicks,
          StatusQueued, StatusFaults,           \* StatusPlane
          ViewKinds, ViewStride, ViewLookahead, ViewCommands,   \* Preview
          RunKinds, RunLength, RunStride, RunBudget             \* PreviewRun

(* Numbers of chunks, of transfers in flight and of attempts. *)
ASSUME ChunkAssumption ==
  /\ ChunkPartsOf \in [ChunkRequests -> Nat]
  /\ ChunkMaxTransfers \in Nat /\ ChunkAttempts \in Nat

(* COMPLETIONS_KEPT is a length. *)
ASSUME ClientAssumption == ClientKept \in Nat

(* MAX_SEND_ERRORS is 3: a count of failures, and not of none. *)
ASSUME StatusAssumption == StatusSendErrors \in Nat \ {0}

(* DRAIN_LIMIT is a count of datagrams. *)
ASSUME IntakeAssumption == IntakeDrain \in Nat

(* The record keeps one row of every so many ticks. *)
ASSUME ViewAssumption == ViewStride \in Nat \ {0}

(* A previewed program is a finite list of lines. *)
ASSUME RunAssumption == RunLength \in Nat

VARIABLE part

Off == "off"

\* StreamBridge and StreamGate.
StreamTags == {"jog_l", "servo_j"}
GateSpeeds == -2..2

\* Preview: every kind of line; PreviewRun: what a program's lines do.
PreviewLines ==
  {"bad", "move", "blend", "home", "delay", "tool", "select", "unfit", "jog", "jogl",
   "servol", "servo", "teleport", "stop", "clear", "estop", "reset", "reset_state", "sim",
   "hardware", "flash", "unflash", "pause", "resume", "profile", "shapes", "set_homed"}
ProgramLines ==
  {"move", "blend", "select", "tool", "tool_stop", "jog", "system", "stop", "clear",
   "resume", "pause", "io", "shapes", "config"}

\* ServerIntake: one datagram of every class the intake treats alike.
Datagrams ==
  {"jog", "servo", "estop", "stop", "pause", "reset", "teleport", "configure", "rate",
   "commission", "move", "query"}

\* Verdicts: every kind of request that is parked, an e-stop and a motion.
ParkedKinds == {"reset", "estop", "enter", "exit", "swap", "scan", "motion"}

\* ChunkTransfer: two clients that drew one transfer id, and a third.
SharedTransfer == <<7, 7, 8>>
ShortAndLong == <<2, 2, 3>>

\* Par6Planner: single commands, and a two-move blend chain.
Command(f, t, r, b) == [fam |-> f, to |-> t, rel |-> r, blend |-> b]
Singles ==
  {Command("joint", 6, FALSE, FALSE), Command("cart", 4, TRUE, FALSE),
   Command("cart", -3, TRUE, FALSE), Command("home", 0, FALSE, FALSE),
   Command("home", 0, TRUE, FALSE), Command("delay", 1, FALSE, FALSE),
   Command("tool", 2, FALSE, FALSE), Command("tool", 3, FALSE, FALSE)}
Chain == {Command("joint", 5, FALSE, TRUE), Command("joint", 1, FALSE, FALSE)}

-----------------------------------------------------------------------------
VARIABLES
  bridge_stream, bridge_queue, bridge_slot, bridge_rt, bridge_moving, bridge_latch,
  bridge_active, bridge_call, bridge_lag, bridge_cmds

Bridge == INSTANCE StreamBridge WITH
  stream <- bridge_stream, queue <- bridge_queue, slot <- bridge_slot, rt <- bridge_rt,
  moving <- bridge_moving, latch <- bridge_latch, active <- bridge_active,
  call <- bridge_call, lag <- bridge_lag, cmds <- bridge_cmds, StreamTimeout <- 3,
  Grace <- 4, JogTicks <- 1, RampCap <- 1, Budget <- 1, StillTicks <- 1, Tries <- 1,
  Far <- 0, MaxLag <- 1, MaxCmds <- 2, Tags <- StreamTags

bridgeVars ==
  <<bridge_stream, bridge_queue, bridge_slot, bridge_rt, bridge_moving, bridge_latch,
    bridge_active, bridge_call, bridge_lag, bridge_cmds>>

BridgeOff ==
  /\ bridge_stream = Off /\ bridge_queue = Off /\ bridge_slot = Off /\ bridge_rt = Off
  /\ bridge_moving = Off /\ bridge_latch = Off /\ bridge_active = Off /\ bridge_call = Off
  /\ bridge_lag = Off /\ bridge_cmds = Off

VARIABLES
  gate_shape, gate_q, gate_v, gate_want, gate_phase, gate_left, gate_goal, gate_stop,
  gate_solvedAt, gate_worlds, gate_excused

Gate == INSTANCE StreamGate WITH
  shape <- gate_shape, q <- gate_q, v <- gate_v, want <- gate_want, phase <- gate_phase,
  left <- gate_left, goal <- gate_goal, stop <- gate_stop, solvedAt <- gate_solvedAt,
  worlds <- gate_worlds, excused <- gate_excused, SoftMax <- 14, Clearance <- 1,
  Shapes <- {<<>>, <<4, 6>>, <<7, 10>>}, SelfAt <- {0}, Speeds <- GateSpeeds,
  ReleaseTicks <- 1, EscapeTol <- 0, SegmentPitch <- 2, MinSamples <- 2, MaxSamples <- 8,
  GateStep <- 2, GateMaxSteps <- 8, BisectRounds <- 3, SettleMargin <- 1, Creep <- 1,
  Approach <- 4, MaxWorlds <- 1

gateVars ==
  <<gate_shape, gate_q, gate_v, gate_want, gate_phase, gate_left, gate_goal, gate_stop,
    gate_solvedAt, gate_worlds, gate_excused>>

GateOff ==
  /\ gate_shape = Off /\ gate_q = Off /\ gate_v = Off /\ gate_want = Off /\ gate_phase = Off
  /\ gate_left = Off /\ gate_goal = Off /\ gate_stop = Off /\ gate_solvedAt = Off
  /\ gate_worlds = Off /\ gate_excused = Off

VARIABLES
  client_srv, client_net, client_cl, client_others, client_restarts, client_errors

Client == INSTANCE ClientWait WITH
  srv <- client_srv, net <- client_net, cl <- client_cl, others <- client_others,
  restarts <- client_restarts, errors <- client_errors, MaxRequests <- ClientRequests,
  MaxOthers <- ClientOthers, MaxRestarts <- ClientRestarts, MaxStatus <- ClientStatus,
  MaxErrors <- ClientErrors, Attempts <- ClientAttempts, Kept <- ClientKept, Eager <- FALSE

clientVars ==
  <<client_srv, client_net, client_cl, client_others, client_restarts, client_errors>>

ClientOff ==
  /\ client_srv = Off /\ client_net = Off /\ client_cl = Off /\ client_others = Off
  /\ client_restarts = Off /\ client_errors = Off

VARIABLES
  cal_pc, cal_sweep, cal_result, cal_robot, cal_losses, cal_adrift

Cal == INSTANCE Calibration WITH
  pc <- cal_pc, sweep <- cal_sweep, result <- cal_result, robot <- cal_robot,
  losses <- cal_losses, adrift <- cal_adrift, Poses <- CalPoses, MaxLosses <- CalLosses

calVars ==
  <<cal_pc, cal_sweep, cal_result, cal_robot, cal_losses, cal_adrift>>

CalOff ==
  /\ cal_pc = Off /\ cal_sweep = Off /\ cal_result = Off /\ cal_robot = Off
  /\ cal_losses = Off /\ cal_adrift = Off

VARIABLES
  view_s, view_spans, view_rec, view_batch, view_gone

View == INSTANCE Preview WITH
  s <- view_s, spans <- view_spans, rec <- view_rec, batch <- view_batch, gone <- view_gone,
  Kinds <- ViewKinds, Stride <- ViewStride, Lookahead <- ViewLookahead,
  BeginPaused <- FALSE, MaxCommands <- ViewCommands

viewVars ==
  <<view_s, view_spans, view_rec, view_batch, view_gone>>

ViewOff ==
  /\ view_s = Off /\ view_spans = Off /\ view_rec = Off /\ view_batch = Off
  /\ view_gone = Off

VARIABLES
  run_prog, run_next, run_exec, run_spans, run_rows, run_since, run_ticks, run_held, run_pc,
  run_stop, run_ran

Run == INSTANCE PreviewRun WITH
  prog <- run_prog, next <- run_next, exec <- run_exec, spans <- run_spans,
  rows <- run_rows, since <- run_since, ticks <- run_ticks, held <- run_held, pc <- run_pc,
  stop <- run_stop, ran <- run_ran, Kinds <- RunKinds, MaxLength <- RunLength,
  Stride <- RunStride, Budget <- RunBudget

runVars ==
  <<run_prog, run_next, run_exec, run_spans, run_rows, run_since, run_ticks, run_held, run_pc,
    run_stop, run_ran>>

RunOff ==
  /\ run_prog = Off /\ run_next = Off /\ run_exec = Off /\ run_spans = Off /\ run_rows = Off
  /\ run_since = Off /\ run_ticks = Off /\ run_held = Off /\ run_pc = Off /\ run_stop = Off
  /\ run_ran = Off

VARIABLES
  waits_rt, waits_cmds, waits_op, waits_enable, waits_flash, waits_swap, waits_snapS,
  waits_snapH, waits_parked, waits_srv, waits_sent, waits_told

Waits == INSTANCE Verdicts WITH
  rt <- waits_rt, cmds <- waits_cmds, op <- waits_op, enable <- waits_enable,
  flash <- waits_flash, swap <- waits_swap, snapS <- waits_snapS, snapH <- waits_snapH,
  parked <- waits_parked, srv <- waits_srv, sent <- waits_sent, told <- waits_told,
  Requests <- WaitKinds, Cap <- WaitCap, ScanIds <- WaitScanIds, Settle <- WaitSettle,
  MaxRequests <- WaitRequests

waitsVars ==
  <<waits_rt, waits_cmds, waits_op, waits_enable, waits_flash, waits_swap, waits_snapS,
    waits_snapH, waits_parked, waits_srv, waits_sent, waits_told>>

WaitsOff ==
  /\ waits_rt = Off /\ waits_cmds = Off /\ waits_op = Off /\ waits_enable = Off
  /\ waits_flash = Off /\ waits_swap = Off /\ waits_snapS = Off /\ waits_snapH = Off
  /\ waits_parked = Off /\ waits_srv = Off /\ waits_sent = Off /\ waits_told = Off

VARIABLES
  plan_world, plan_rt, plan_cmds, plan_swap, plan_fl, plan_pl, plan_out, plan_left

Planner == INSTANCE Par6Planner WITH
  world <- plan_world, rt <- plan_rt, cmds <- plan_cmds, swap <- plan_swap, fl <- plan_fl,
  pl <- plan_pl, out <- plan_out, left <- plan_left, Commands <- PlanCommands,
  MaxBatch <- PlanBatch, SoftMax <- 6, HomePose <- 1, HomeEnd <- 0,
  Zones <- {{2, 3}, {4, 5, 6}}, NoIk <- {6}, Singular <- {4}, Reported <- 2, Pitch <- 2,
  EscapeTol <- 0, Brake <- 1, Starts <- {0, 4}, MaxStarts <- PlanStarts, MaxWorlds <- 1,
  MaxStops <- 1, MaxFaults <- 1

planVars ==
  <<plan_world, plan_rt, plan_cmds, plan_swap, plan_fl, plan_pl, plan_out, plan_left>>

PlannerOff ==
  /\ plan_world = Off /\ plan_rt = Off /\ plan_cmds = Off /\ plan_swap = Off
  /\ plan_fl = Off /\ plan_pl = Off /\ plan_out = Off /\ plan_left = Off

VARIABLES
  proc_boot, proc_sup, proc_asked, proc_up, proc_flags, proc_rt, proc_arm, proc_ops,
  proc_sending, proc_cmds, proc_grant, proc_left

Process == INSTANCE Daemon WITH
  boot <- proc_boot, sup <- proc_sup, asked <- proc_asked, up <- proc_up,
  flags <- proc_flags, rt <- proc_rt, arm <- proc_arm, ops <- proc_ops,
  sending <- proc_sending, cmds <- proc_cmds, grant <- proc_grant, left <- proc_left,
  Joints <- ProcJoints, Capacity <- ProcCapacity, Driven <- ProcDriven, Known <- ProcKnown,
  Attempts <- ProcAttempts, SimChoices <- ProcSim, Safe_park <- ProcPark,
  ParkTicks <- ProcParkTicks, SettleTicks <- ProcSettleTicks, MaxOps <- ProcOps,
  MaxCmds <- ProcCmds, MaxFaults <- ProcFaults, MaxDeaths <- ProcDeaths

procVars ==
  <<proc_boot, proc_sup, proc_asked, proc_up, proc_flags, proc_rt, proc_arm, proc_ops,
    proc_sending, proc_cmds, proc_grant, proc_left>>

ProcessOff ==
  /\ proc_boot = Off /\ proc_sup = Off /\ proc_asked = Off /\ proc_up = Off
  /\ proc_flags = Off /\ proc_rt = Off /\ proc_arm = Off /\ proc_ops = Off
  /\ proc_sending = Off /\ proc_cmds = Off /\ proc_grant = Off /\ proc_left = Off

VARIABLES
  intake_sock, intake_deferred, intake_cur, intake_stream, intake_refusing, intake_planned,
  intake_server, intake_snap, intake_sent, intake_done, intake_dropped

Intake == INSTANCE ServerIntake WITH
  sock <- intake_sock, deferred <- intake_deferred, cur <- intake_cur,
  stream <- intake_stream, refusing <- intake_refusing, planned <- intake_planned,
  server <- intake_server, snap <- intake_snap, sent <- intake_sent, done <- intake_done,
  dropped <- intake_dropped, Kinds <- IntakeKinds, DrainLimit <- IntakeDrain,
  MaxSent <- IntakeSent

intakeVars ==
  <<intake_sock, intake_deferred, intake_cur, intake_stream, intake_refusing, intake_planned,
    intake_server, intake_snap, intake_sent, intake_done, intake_dropped>>

IntakeOff ==
  /\ intake_sock = Off /\ intake_deferred = Off /\ intake_cur = Off /\ intake_stream = Off
  /\ intake_refusing = Off /\ intake_planned = Off /\ intake_server = Off
  /\ intake_snap = Off /\ intake_sent = Off /\ intake_done = Off /\ intake_dropped = Off

VARIABLES
  status_rt, status_taken, status_snap, status_age, status_last, status_stride,
  status_queue, status_asked, status_verdict, status_planner, status_report, status_link,
  status_net, status_frame, status_lost, status_twice, status_faults

Status == INSTANCE StatusPlane WITH
  rt <- status_rt, taken <- status_taken, snap <- status_snap, age <- status_age,
  last <- status_last, stride <- status_stride, queue <- status_queue,
  asked <- status_asked, verdict <- status_verdict, planner <- status_planner,
  report <- status_report, link <- status_link, net <- status_net, frame <- status_frame,
  lost <- status_lost, twice <- status_twice, faults <- status_faults, Strides <- StatusStrides,
  Transports <- StatusTransports, MaxSendErrors <- StatusSendErrors, LinkStale <- StatusStale,
  MaxTick <- StatusTicks, MaxQueued <- StatusQueued, MaxFaults <- StatusFaults

\* The same with a longer queue, on a network that holds.
Frames == INSTANCE StatusPlane WITH
  rt <- status_rt, taken <- status_taken, snap <- status_snap, age <- status_age,
  last <- status_last, stride <- status_stride, queue <- status_queue,
  asked <- status_asked, verdict <- status_verdict, planner <- status_planner,
  report <- status_report, link <- status_link, net <- status_net, frame <- status_frame,
  lost <- status_lost, twice <- status_twice, faults <- status_faults, Strides <- StatusStrides,
  Transports <- StatusTransports, MaxSendErrors <- StatusSendErrors, LinkStale <- StatusStale,
  MaxTick <- StatusTicks, MaxQueued <- StatusQueued + 2, MaxFaults <- 0

statusVars ==
  <<status_rt, status_taken, status_snap, status_age, status_last, status_stride, status_queue,
    status_asked, status_verdict, status_planner, status_report, status_link, status_net,
    status_frame, status_lost, status_twice, status_faults>>

StatusOff ==
  /\ status_rt = Off /\ status_taken = Off /\ status_snap = Off /\ status_age = Off
  /\ status_last = Off /\ status_stride = Off /\ status_queue = Off /\ status_asked = Off
  /\ status_verdict = Off /\ status_planner = Off /\ status_report = Off
  /\ status_link = Off /\ status_net = Off /\ status_frame = Off /\ status_lost = Off
  /\ status_twice = Off /\ status_faults = Off

VARIABLES
  chunks_sends, chunks_outcome, chunks_net, chunks_replies, chunks_transfers, chunks_addrs,
  chunks_accepted, chunks_payloads

Chunks == INSTANCE ChunkTransfer WITH
  sends <- chunks_sends, outcome <- chunks_outcome, net <- chunks_net,
  replies <- chunks_replies, transfers <- chunks_transfers, addrs <- chunks_addrs,
  accepted <- chunks_accepted, payloads <- chunks_payloads, Requests <- ChunkRequests,
  TransferOf <- ChunkTransferOf, PartsOf <- ChunkPartsOf, MaxParts <- ChunkMaxParts,
  MaxTransfers <- ChunkMaxTransfers, Attempts <- ChunkAttempts

chunksVars ==
  <<chunks_sends, chunks_outcome, chunks_net, chunks_replies, chunks_transfers, chunks_addrs,
    chunks_accepted, chunks_payloads>>

ChunksOff ==
  /\ chunks_sends = Off /\ chunks_outcome = Off /\ chunks_net = Off /\ chunks_replies = Off
  /\ chunks_transfers = Off /\ chunks_addrs = Off /\ chunks_accepted = Off
  /\ chunks_payloads = Off

-----------------------------------------------------------------------------

MCInit ==
  /\ part \in Parts
  /\ IF part = "bridge" THEN Bridge!Init ELSE BridgeOff
  /\ IF part = "gate" THEN Gate!Init ELSE GateOff
  /\ IF part = "client" THEN Client!Init ELSE ClientOff
  /\ IF part = "calibrate" THEN Cal!Init ELSE CalOff
  /\ IF part = "preview" THEN View!Init ELSE ViewOff
  /\ IF part = "run" THEN Run!Init ELSE RunOff
  /\ IF part = "verdicts" THEN Waits!Init ELSE WaitsOff
  /\ IF part = "planner" THEN Planner!Init ELSE PlannerOff
  /\ IF part = "process" THEN Process!Init ELSE ProcessOff
  /\ IF part = "intake" THEN Intake!Init ELSE IntakeOff
  /\ CASE part = "status" -> Status!Init [] part = "frames" -> Frames!Init [] OTHER -> StatusOff
  /\ IF part = "chunks" THEN Chunks!Init ELSE ChunksOff

MCNext ==
  /\ UNCHANGED part
  /\ CASE part = "status" -> Status!Next [] part = "frames" -> Frames!Next
       [] OTHER -> UNCHANGED statusVars
  /\ IF part = "calibrate" THEN Cal!Next ELSE UNCHANGED calVars
  /\ IF part = "intake" THEN Intake!Next ELSE UNCHANGED intakeVars
  /\ IF part = "process" THEN Process!Next ELSE UNCHANGED procVars
  /\ IF part = "run" THEN Run!Next ELSE UNCHANGED runVars
  /\ IF part = "client" THEN Client!Next ELSE UNCHANGED clientVars
  /\ IF part = "chunks" THEN Chunks!Next ELSE UNCHANGED chunksVars
  /\ IF part = "planner" THEN Planner!Next ELSE UNCHANGED planVars
  /\ IF part = "gate" THEN Gate!Next ELSE UNCHANGED gateVars
  /\ IF part = "preview" THEN View!Next ELSE UNCHANGED viewVars
  /\ IF part = "bridge" THEN Bridge!Next ELSE UNCHANGED bridgeVars
  /\ IF part = "verdicts" THEN Waits!Next ELSE UNCHANGED waitsVars

mcvars == <<part, bridgeVars, gateVars, clientVars, calVars, viewVars, runVars, waitsVars, planVars,
           procVars, intakeVars, statusVars, chunksVars>>

MCSpec == MCInit /\ [][MCNext]_mcvars

-----------------------------------------------------------------------------
(* Properties, each its component's own. *)

\* The stream watchdog never reports a lost link that the daemon's own stop caused
\* (StreamBridge!NoLinkLost).
NoLinkLost == part = "bridge" => Bridge!NoLinkLost

\* What the collision gate lets through, and what it parks, ends outside every keep-out
\* (StreamGate!GateHolds).
GateHolds == part = "gate" => Gate!GateHolds

\* A wait that says TRUE saw its own command succeed, across restarts of the daemon
\* (ClientWait!TrueIsOwnSuccess).
TrueIsOwnSuccess == part = "client" => Client!TrueIsOwnSuccess

\* A calibration leaves the arm as it found it on every way out (Calibration!LeftAsFound).
LeftAsFound == part = "calibrate" => Cal!LeftAsFound

\* The preview's rows are those of the lines that made them (Preview!RowsAreTheLines).
RowsAreTheLines == part = "preview" => View!RowsAreTheLines

\* The record of a previewed run tells what ran and how it ended
\* (PreviewRun!RecordTellsTheRun).
RecordTellsTheRun == part = "run" => Run!RecordTellsTheRun

\* An ok answers what the RT really did for that request (Verdicts!OkIsEarned).
OkIsEarned == part = "verdicts" => Waits!OkIsEarned

\* The RT never plays the arm into a keep-out however the world changes under a path
\* (Par6Planner!NeverDrivenIn).
NeverDrivenIn == [][part = "planner" => Planner!StepKeepsOut]_planVars

\* An op posted to the RT loop always breaks it out of its run (Daemon!OpsBreakTheLoop).
OpsBreakTheLoop == part = "process" => Process!OpsBreakTheLoop

\* Draining stale stream datagrams neither loses nor reorders anything else
\* (ServerIntake!HandledInOrder).
HandledInOrder == part = "intake" => Intake!HandledInOrder

\* A listener hears the status, whatever transport fails (StatusPlane!StatusHeard).
StatusHeard == part \in {"status", "frames"} => Status!StatusHeard

\* What a status frame says of queue and collision is of that moment
\* (StatusPlane!FrameIsCurrent).
FrameIsCurrent == part \in {"status", "frames"} => Status!FrameIsCurrent

\* A reassembled transfer is the one that was sent (ChunkTransfer!TransfersAreSound).
TransfersAreSound == part = "chunks" => Chunks!TransfersAreSound
=============================================================================
