------------------------------ MODULE MCDrives ------------------------------
(***************************************************************************)
(* The arm's side of the runtime for TLC: the channels to and from the RT  *)
(* thread, homing, the jaws, the drives' telemetry, the frames, the CAN    *)
(* link, the box and the simulated drives.                                 *)
(* A behaviour is one component's: `part` names it, the variables of the   *)
(* others stay Off (the two channels rest in their initial states).        *)
(***************************************************************************)
EXTENDS SnapshotChannel, Sequences

CONSTANTS
  Parts,
  BusNodes, BusTargets, BusGripper,       \* HwBus: the drives, those polled, the gripper's,
  BusStale, BusLost, BusShots,            \* the windows, the scheduled shots,
  BusSelfcheck, BusSettle, BusOps,        \* the boot's check, the link's settle, the operator
  InitUps,                                \* the sets of drives that may be up at start,
  BusCuts, BusCmds,                       \* power cuts and operator commands at most
  RingCapacity,     \* SampleRing: its slots,
  RingMarkers,      \* the holders of a flush marker,
  RingPushes,       \* the samples pushed
  RingGenerations,  \* and the generations opened at most
  HomeJoints, HomeGripper, HomeGripperMode,     \* Homing: the actuators, how the jaws home,
  HomeHalls, HomeTwoPass, HomeReleases, HomePosts,  \* what the joints are configured to do,
  HomeSteps, HomeGlobalPost,                    \* the script,
  HomeTimeout, HomeBackoff, HomeRamp, HomeDwell, HomePause, HomeSettle, HomePreclear,
  HomeStall, HomeGuard, HomeHold, HomeSample, HomePostTicks, HomeStreak, HomePrePost,
  HomeMove, HomeMoveTo, HomeCalTimeout, HomeCalMin, HomeCheck, HomeSlack,  \* its times,
  HomeLosses, HomeRuns,                         \* answers lost in a row and runs at most
  LinkEvents,       \* BusLink: bus-offs and re-creations at most,
  LinkClears,       \* latches cleared and buses replaced at most
  ScopeLen,         \* Capture: samples of the drive's buffer,
  ScopeWanted,      \* the lengths asked for,
  ScopeDivisors,    \* the control loops per sample asked for,
  ScopePerTick,     \* the stream's frames of a tick,
  ScopeCaptures,    \* captures started at most
  ScopeDrops,       \* and replies dropped at most
  PollTargets,      \* HwPoll: the joints and the gripper,
  PollFallback,     \* combined polls left unanswered before the vendor's,
  PollSweep,        \* slots between device-info sweeps,
  PollWrap,         \* where the cursor wraps
  PollRepeats,      \* and repeats of an override at most
  BoxReads,         \* BoxIo: reads that agree before a level counts,
  BoxWrites,        \* output writes at most
  JawsClosed, JawsObstacles,   \* GripperLoop: the closed byte, what the jaws jam at,
  JawsGrace, JawsDebounce, JawsMoveTimeout, JawsCalTimeout, JawsCalMin,  \* SettleTicks,
  JawsRepeats, JawsSweep, JawsWatchdog,  \* the release's frames, the sweep, the watchdog
  JawsActions, JawsLosses,     \* actions and losses at most
  SimSpan, SimTurn, SimHallAt, \* SimBus: the joint's range, a turn, its hall sensor,
  SimWatchdog, SimDelay, SimRxCap, SimRxPerTick, SimInfoPeriod,  \* the drive and its queue,
  SimIds, SimCommands,         \* the ids and the commands of the drive,
  SimOps, SimDrops             \* operations and dropped replies at most

\* sample_ring panics on a capacity of 0.
ASSUME RingAssumption == RingCapacity \in Nat \ {0} /\ RingPushes \in Nat

\* CAPTURE_LEN is positive; the frames that fit a tick, lengths and divisors are unsigned
\* integers.
ASSUME ScopeAssumption ==
  /\ ScopeLen \in Nat \ {0} /\ ScopePerTick \in Nat
  /\ ScopeWanted \subseteq Nat /\ ScopeDivisors \subseteq Nat

\* PollScheduler::step does nothing without targets; DEVICE_INFO_PERIOD_SLOTS is positive.
ASSUME PollAssumption ==
  /\ PollTargets \in Nat \ {0} /\ PollFallback \in Nat
  /\ PollSweep \in Nat \ {0} /\ PollWrap \in Nat \ {0} /\ PollRepeats \in Nat

\* DEBOUNCE_READS is positive.
ASSUME BoxAssumption == BoxReads \in Nat \ {0}

\* The windows are positive, the grace covers a command's way to the bus, its reply and
\* what is lost between (SettleTicks::new), and a loss is single, as the announcement's
\* length takes it to be (IDLE_PACK_REPEATS).
ASSUME JawsAssumption ==
  /\ JawsClosed \in Nat /\ JawsObstacles \subseteq Int \X Int
  /\ JawsMoveTimeout \in Nat \ {0} /\ JawsCalTimeout \in Nat \ {0} /\ JawsCalMin \in Nat
  /\ JawsDebounce \in Nat /\ JawsSweep \in Nat \ {0} /\ JawsRepeats \in Nat \ {0}
  /\ JawsWatchdog \in Nat /\ JawsWatchdog >= 2
  /\ JawsLosses \in 0..1 /\ JawsGrace \in Nat /\ JawsGrace >= JawsLosses + 2

\* lost_s is greater than stale_warn_s, both at least a tick; the last scheduled shot comes
\* after the stale window and after the settle of a cycled link, as in the shipped
\* configuration (1.2 s, 0.04 s and 0.5 s), or a drive that boots in between is missed.
ASSUME BusAssumption ==
  /\ BusTargets \in Seq(BusNodes) /\ BusGripper \in BusNodes
  /\ BusStale \in Nat \ {0} /\ BusLost \in Nat /\ BusLost >= BusStale
  /\ BusShots \subseteq Nat /\ BusSettle \in Nat
  /\ \E last \in BusShots : /\ \A k \in BusShots : k <= last
                            /\ BusStale <= last /\ BusSettle < last
  /\ InitUps \subseteq SUBSET BusNodes

\* Joints and gripper are slots of their own, a sequence has a step, and the pre-clear guard
\* (PRECLEAR_GUARD_S, 0.5 s) is longer than the first answer of an approach can be late.
ASSUME HomeAssumption ==
  /\ HomeGripper \notin HomeJoints /\ HomeHalls \subseteq HomeJoints
  /\ Len(HomeSteps) \in Nat \ {0} /\ DOMAIN HomeSteps = 1..Len(HomeSteps)
  /\ HomeLosses \in Nat /\ HomePreclear \in Nat /\ HomePreclear >= HomeLosses + 2

\* A delay, the frames drained in a tick and a CAN id are unsigned; the drive has an id.
ASSUME SimAssumption ==
  /\ SimDelay \in Nat /\ SimRxPerTick \in Nat
  /\ SimIds \subseteq Nat /\ SimIds # {}

VARIABLE part

Off == "off"

\* A two-step sequence: j1 homes on its hall sensor and clears the way, then j2 and the
\* gripper, with j1 held; the jaws are set when all is done.
HomingSteps ==
  <<[pre |-> {[kind |-> "nudge", on |-> "j2"]}, home |-> {"j1"}, moveTo |-> {"j1"},
     post |-> {}],
    [pre |-> {[kind |-> "position", on |-> "j1"]}, home |-> {"j2", "g"}, moveTo |-> {},
     post |-> {[kind |-> "idle", on |-> "j1"]}]>>
HomingPost == {[kind |-> "gripper", on |-> "g"]}

\* Jaws that close on nothing, and on a part.
FreeOrJammed == {<<-1, -1>>, <<1, 1>>}

\* One drive position command, hall seeks on either trigger, and idle.
SeekCommands ==
  {[kind |-> "pos", arg |-> 1], [kind |-> "hall", arg |-> 2], [kind |-> "hall", arg |-> 1],
   [kind |-> "idle"]}

\* The joint's drive and the gripper's.
JointAndGripper == <<0, 2>>

\* Every state the interface may be found in.
Interfaces ==
  [here : BOOLEAN, up : BOOLEAN, rate : {"want", "other", "none"},
   queue : {"short", "long", "unread"}, counters : BOOLEAN, offs : {0}, errs : {0},
   restarts : {0}, state : {"up"}]

\* Every mode of a joint frame, at the edges of its fields; two commands have no frame.
WireCommands ==
  {[pack |-> "pid", pos |-> <<8388607>>, vel |-> <<-8388608>>, cur |-> <<>>],
   [pack |-> "pid", pos |-> <<8388613>>, vel |-> <<-1>>, cur |-> <<-32768>>],
   [pack |-> "pid", pos |-> <<>>, vel |-> <<70000>>, cur |-> <<300>>],
   [pack |-> "pid", pos |-> <<>>, vel |-> <<>>, cur |-> <<-300>>],
   [pack |-> "pid", pos |-> <<>>, vel |-> <<>>, cur |-> <<>>],
   [pack |-> "pid", pos |-> <<5>>, vel |-> <<>>, cur |-> <<1>>],
   [pack |-> "pd", pos |-> <<-5>>, vel |-> <<>>, cur |-> <<-2>>],
   [pack |-> "hall", vel |-> <<-900>>, trigger |-> 2], [pack |-> "idle"], [pack |-> "poll"]}

WireGrips ==
  {[position |-> 255, speed |-> 128, current |-> -700, activate |-> TRUE, action |-> TRUE,
    estop |-> FALSE, release |-> FALSE],
   [position |-> 1, speed |-> 0, current |-> 300, activate |-> TRUE, action |-> FALSE,
    estop |-> TRUE, release |-> TRUE]}

\* An unknown command, a reserved reply, an echoed request, a short reply, a host
\* command, a short device info.
WireStrays ==
  {[cmd |-> 63, dlc |-> 8, rtr |-> FALSE], [cmd |-> 5, dlc |-> 8, rtr |-> FALSE],
   [cmd |-> 28, dlc |-> 0, rtr |-> TRUE], [cmd |-> 3, dlc |-> 7, rtr |-> FALSE],
   [cmd |-> 2, dlc |-> 8, rtr |-> FALSE], [cmd |-> 25, dlc |-> 6, rtr |-> FALSE]}

BoxChips == [n \in {0, 1, 4} |-> IF n = 4 THEN "other" ELSE IF n = 0 THEN "header" ELSE "unnamed"]

-----------------------------------------------------------------------------
VARIABLES
  ring_buf, ring_head, ring_tail, ring_fill_generation, ring_flush_generation,
  ring_producer, ring_consumer, ring_marking, ring_played

Ring == INSTANCE SampleRing WITH
  buf <- ring_buf, head <- ring_head, tail <- ring_tail,
  fill_generation <- ring_fill_generation, flush_generation <- ring_flush_generation,
  producer <- ring_producer, consumer <- ring_consumer, marking <- ring_marking,
  played <- ring_played, Capacity <- RingCapacity, Markers <- RingMarkers,
  MaxPushes <- RingPushes, MaxGeneration <- RingGenerations

ringVars ==
  <<ring_buf, ring_head, ring_tail, ring_fill_generation, ring_flush_generation, ring_producer,
    ring_consumer, ring_marking, ring_played>>

VARIABLES
  home_run, home_homers, home_statuses, home_seeking, home_limit, home_moves, home_cal,
  home_hall, home_band, home_known, home_sent, home_homed, home_ref, home_cut

Home == INSTANCE Homing WITH
  run <- home_run, homers <- home_homers, statuses <- home_statuses,
  seeking <- home_seeking, limit <- home_limit, moves <- home_moves, cal <- home_cal,
  hall <- home_hall, band <- home_band, known <- home_known, sent <- home_sent,
  homed <- home_homed, ref <- home_ref, cut <- home_cut, Joints <- HomeJoints,
  Gripper <- HomeGripper, GripperMode <- HomeGripperMode, HallJoints <- HomeHalls,
  TwoPass <- HomeTwoPass, Releases <- HomeReleases, Posts <- HomePosts, Steps <- HomeSteps,
  GlobalPost <- HomeGlobalPost, Timeout <- HomeTimeout, Backoff <- HomeBackoff,
  Ramp <- HomeRamp, Dwell <- HomeDwell, Pause <- HomePause, SettleTicks <- HomeSettle,
  Preclear <- HomePreclear, StallTicks <- HomeStall, Guard <- HomeGuard,
  ReleaseHold <- HomeHold, ReleaseSample <- HomeSample, PostTicks <- HomePostTicks,
  Streak <- HomeStreak, PrePost <- HomePrePost, MoveTicks <- HomeMove,
  MoveToExtra <- HomeMoveTo, CalTimeout <- HomeCalTimeout, CalMinWait <- HomeCalMin,
  CheckTicks <- HomeCheck, Slack <- HomeSlack, MaxLost <- HomeLosses, MaxRuns <- HomeRuns

homeVars ==
  <<home_run, home_homers, home_statuses, home_seeking, home_limit, home_moves, home_cal,
    home_hall, home_band, home_known, home_sent, home_homed, home_ref, home_cut>>

HomeOff ==
  /\ home_run = Off /\ home_homers = Off /\ home_statuses = Off /\ home_seeking = Off
  /\ home_limit = Off /\ home_moves = Off /\ home_cal = Off /\ home_hall = Off
  /\ home_band = Off /\ home_known = Off /\ home_sent = Off /\ home_homed = Off
  /\ home_ref = Off /\ home_cut = Off

VARIABLES
  poll_poll, poll_missed, poll_silent, poll_vendor, poll_asked, poll_blind

Poll == INSTANCE HwPoll WITH
  poll <- poll_poll, missed <- poll_missed, silent <- poll_silent, vendor <- poll_vendor,
  asked <- poll_asked, blind <- poll_blind, Targets <- PollTargets,
  FallbackPolls <- PollFallback, SweepPeriod <- PollSweep, CursorWrap <- PollWrap,
  MaxRepeats <- PollRepeats

pollVars ==
  <<poll_poll, poll_missed, poll_silent, poll_vendor, poll_asked, poll_blind>>

PollOff ==
  /\ poll_poll = Off /\ poll_missed = Off /\ poll_silent = Off /\ poll_vendor = Off
  /\ poll_asked = Off /\ poll_blind = Off

VARIABLES
  bus_bus, bus_core, bus_drives, bus_seen

Bus == INSTANCE HwBus WITH
  bus <- bus_bus, core <- bus_core, drives <- bus_drives, seen <- bus_seen, Nodes <- BusNodes,
  Targets <- BusTargets, GripperNode <- BusGripper, StaleTicks <- BusStale,
  LostTicks <- BusLost, Shots <- BusShots, SelfcheckTick <- BusSelfcheck,
  SettleTicks <- BusSettle, UserOps <- BusOps, InitUp <- InitUps, MaxCuts <- BusCuts,
  MaxCmds <- BusCmds

busVars ==
  <<bus_bus, bus_core, bus_drives, bus_seen>>

BusOff ==
  /\ bus_bus = Off /\ bus_core = Off /\ bus_drives = Off /\ bus_seen = Off

VARIABLES
  jaws_plan, jaws_queue, jaws_gate, jaws_settle, jaws_pending, jaws_reply, jaws_rx,
  jaws_jaw, jaws_drive, jaws_actions, jaws_losses, jaws_done

Jaws == INSTANCE GripperLoop WITH
  plan <- jaws_plan, queue <- jaws_queue, gate <- jaws_gate, settle <- jaws_settle,
  pending <- jaws_pending, reply <- jaws_reply, rx <- jaws_rx, jaw <- jaws_jaw,
  drive <- jaws_drive, actions <- jaws_actions, losses <- jaws_losses, done <- jaws_done,
  Closed <- JawsClosed, Obstacles <- JawsObstacles, Grace <- JawsGrace,
  Debounce <- JawsDebounce, MoveTimeout <- JawsMoveTimeout,
  CalibrateTimeout <- JawsCalTimeout, CalibrateMin <- JawsCalMin, Repeats <- JawsRepeats,
  Sweep <- JawsSweep, Watchdog <- JawsWatchdog, MaxActions <- JawsActions,
  MaxLosses <- JawsLosses

jawsVars ==
  <<jaws_plan, jaws_queue, jaws_gate, jaws_settle, jaws_pending, jaws_reply, jaws_rx, jaws_jaw,
    jaws_drive, jaws_actions, jaws_losses, jaws_done>>

JawsOff ==
  /\ jaws_plan = Off /\ jaws_queue = Off /\ jaws_gate = Off /\ jaws_settle = Off
  /\ jaws_pending = Off /\ jaws_reply = Off /\ jaws_rx = Off /\ jaws_jaw = Off
  /\ jaws_drive = Off /\ jaws_actions = Off /\ jaws_losses = Off /\ jaws_done = Off

VARIABLES
  sim_drive, sim_q, sim_rx, sim_seen, sim_bus, sim_seed, sim_ops, sim_drops

Sim == INSTANCE SimBus WITH
  drive <- sim_drive, q <- sim_q, rx <- sim_rx, seen <- sim_seen, bus <- sim_bus,
  seed <- sim_seed, ops <- sim_ops, drops <- sim_drops, Span <- SimSpan,
  Turn <- SimTurn, HallAt <- SimHallAt, Watchdog <- SimWatchdog, Delay <- SimDelay,
  RxCap <- SimRxCap, RxPerTick <- SimRxPerTick, InfoPeriod <- SimInfoPeriod, Ids <- SimIds,
  Commands <- SimCommands, MaxOps <- SimOps, MaxDrops <- SimDrops

simVars ==
  <<sim_drive, sim_q, sim_rx, sim_seen, sim_bus, sim_seed, sim_ops, sim_drops>>

SimOff ==
  /\ sim_drive = Off /\ sim_q = Off /\ sim_rx = Off /\ sim_seen = Off /\ sim_bus = Off
  /\ sim_seed = Off /\ sim_ops = Off /\ sim_drops = Off

VARIABLES
  link_iface, link_opened, link_cycled, link_shared, link_sampler, link_query, link_rt,
  link_unseen, link_torn, link_reported, link_missed, link_events, link_clears

Link == INSTANCE BusLink WITH
  iface <- link_iface, opened <- link_opened, cycled <- link_cycled, shared <- link_shared,
  sampler <- link_sampler, query <- link_query, rt <- link_rt, unseen <- link_unseen,
  torn <- link_torn, reported <- link_reported, missed <- link_missed,
  events <- link_events, clears <- link_clears, Interfaces <- Interfaces,
  MaxEvents <- LinkEvents, MaxClears <- LinkClears

linkVars ==
  <<link_iface, link_opened, link_cycled, link_shared, link_sampler, link_query, link_rt,
    link_unseen, link_torn, link_reported, link_missed, link_events, link_clears>>

LinkOff ==
  /\ link_iface = Off /\ link_opened = Off /\ link_cycled = Off /\ link_shared = Off
  /\ link_sampler = Off /\ link_query = Off /\ link_rt = Off /\ link_unseen = Off
  /\ link_torn = Off /\ link_reported = Off /\ link_missed = Off /\ link_events = Off
  /\ link_clears = Off

VARIABLES
  box_chip, box_line, box_estop, box_input, box_hw_estop, box_out, box_told, box_estops,
  box_held, box_writes

Box == INSTANCE BoxIo WITH
  chip <- box_chip, line <- box_line, estop <- box_estop, input <- box_input,
  hw_estop <- box_hw_estop, out <- box_out, told <- box_told, estops <- box_estops,
  held <- box_held, writes <- box_writes, Reads <- BoxReads, Chips <- BoxChips, Named <- 100,
  MaxWrites <- BoxWrites

boxVars ==
  <<box_chip, box_line, box_estop, box_input, box_hw_estop, box_out, box_told, box_estops,
    box_held, box_writes>>

BoxOff ==
  /\ box_chip = Off /\ box_line = Off /\ box_estop = Off /\ box_input = Off
  /\ box_hw_estop = Off /\ box_out = Off /\ box_told = Off /\ box_estops = Off
  /\ box_held = Off /\ box_writes = Off

VARIABLES
  wire_drive, wire_jaw, wire_rx, wire_state, wire_ops, wire_meant, wire_truth

Wire == INSTANCE SpectralWire WITH
  drive <- wire_drive, jaw <- wire_jaw, rx <- wire_rx, state <- wire_state, ops <- wire_ops,
  meant <- wire_meant, truth <- wire_truth, Joint <- 9, Gripper <- 6,
  Commands <- WireCommands, Grips <- WireGrips, Values <- {-2, 1078530011},
  Poses <- {8388606, -8388608, 8388613}, Strays <- WireStrays, MaxOps <- 3

wireVars ==
  <<wire_drive, wire_jaw, wire_rx, wire_state, wire_ops, wire_meant, wire_truth>>

WireOff ==
  /\ wire_drive = Off /\ wire_jaw = Off /\ wire_rx = Off /\ wire_state = Off
  /\ wire_ops = Off /\ wire_meant = Off /\ wire_truth = Off

VARIABLES
  scope_drive, scope_stream, scope_rx, scope_buf, scope_left

Scope == INSTANCE Capture WITH
  drive <- scope_drive, stream <- scope_stream, rx <- scope_rx, buf <- scope_buf,
  left <- scope_left, CaptureLen <- ScopeLen, Wanted <- ScopeWanted,
  Divisors <- ScopeDivisors, PerTick <- ScopePerTick, MaxCaptures <- ScopeCaptures,
  MaxDrops <- ScopeDrops

scopeVars ==
  <<scope_drive, scope_stream, scope_rx, scope_buf, scope_left>>

ScopeOff ==
  /\ scope_drive = Off /\ scope_stream = Off /\ scope_rx = Off /\ scope_buf = Off
  /\ scope_left = Off

-----------------------------------------------------------------------------

MCInit ==
  /\ part \in Parts
  /\ Init
  /\ Ring!Init
  /\ IF part = "homing" THEN Home!Init ELSE HomeOff
  /\ IF part = "poll" THEN Poll!Init ELSE PollOff
  /\ IF part = "bus" THEN Bus!Init ELSE BusOff
  /\ IF part = "gripper" THEN Jaws!Init ELSE JawsOff
  /\ IF part = "sim" THEN Sim!Init ELSE SimOff
  /\ IF part = "link" THEN Link!Init ELSE LinkOff
  /\ IF part = "box" THEN Box!Init ELSE BoxOff
  /\ IF part = "wire" THEN Wire!Init ELSE WireOff
  /\ IF part = "capture" THEN Scope!Init ELSE ScopeOff

MCNext ==
  /\ UNCHANGED part
  /\ IF part = "snapshot" THEN Next ELSE UNCHANGED vars
  /\ IF part = "ring" THEN Ring!Next ELSE UNCHANGED ringVars
  /\ IF part = "homing" THEN Home!Next ELSE UNCHANGED homeVars
  /\ IF part = "poll" THEN Poll!Next ELSE UNCHANGED pollVars
  /\ IF part = "bus" THEN Bus!Next ELSE UNCHANGED busVars
  /\ IF part = "gripper" THEN Jaws!Next ELSE UNCHANGED jawsVars
  /\ IF part = "sim" THEN Sim!Next ELSE UNCHANGED simVars
  /\ IF part = "link" THEN Link!Next ELSE UNCHANGED linkVars
  /\ IF part = "box" THEN Box!Next ELSE UNCHANGED boxVars
  /\ IF part = "wire" THEN Wire!Next ELSE UNCHANGED wireVars
  /\ IF part = "capture" THEN Scope!Next ELSE UNCHANGED scopeVars

mcvars == <<part, vars, ringVars, homeVars, pollVars, busVars, jawsVars, simVars, linkVars, boxVars,
           wireVars, scopeVars>>

MCSpec == MCInit /\ [][MCNext]_mcvars

-----------------------------------------------------------------------------
(* The homing sequence above is one the configuration accepts. *)
ASSUME HomingConfigIsValid == Home!Validate

-----------------------------------------------------------------------------
(* Properties; NeverTorn is SnapshotChannel's own. *)

\* Whatever the producer, the consumer and two flush markers interleave, the sample ring
\* is an atomic queue, and no flush leaves what it marked (SampleRing!RingIsAQueue).
RingIsAQueue == Ring!RingIsAQueue

\* "Homed" rests on evidence of this run: every joint referenced since it began, hall
\* joints at an edge of their band (Homing!HomedOnOwnEvidence).
HomedOnOwnEvidence == part = "homing" => Home!HomedOnOwnEvidence

\* A blind seek is gentle and bounded on every path out of the sequence
\* (Homing!SeekIsBounded).
SeekIsBounded == part = "homing" => Home!SeekIsBounded

\* A drive that flags a fault stays visible to the runtime whichever telemetry it can
\* answer with (HwPoll!FaultsStayVisible).
FaultsStayVisible == part = "poll" => Poll!FaultsStayVisible

\* A drive that is heard holds its configuration, one that is quiet is reported
\* (HwBus!DrivesAccounted).
DrivesAccounted == part = "bus" => Bus!DrivesAccounted

\* A gripper move settles on replies to its own target, and a release reaches the drive
\* although frames are lost (GripperLoop!SettledOnOwnTarget, GripperLoop!ReleaseReaches).
JawsAreHeard == part = "gripper" => Jaws!SettledOnOwnTarget /\ Jaws!ReleaseReaches

\* Host and drives mean the same by the bytes on the bus (SpectralWire!WireIsFaithful).
WireIsFaithful == part = "wire" => Wire!WireIsFaithful

\* What the runtime reads of a simulated drive is of this arm and this seek, although
\* replies queue across a re-seed (SimBus!NoPhantomPose, SimBus!EdgeIsThisSeeks).
SimIsCurrent ==
  /\ [](part = "sim" => Sim!EdgeIsThisSeeks)
  /\ [][part = "sim" => Sim!PoseIsMeasuredHere]_simVars

\* The CAN link is as configured, and no bus-off of it goes unseen
\* (BusLink!LinkIsTrusted).
LinkIsTrusted == part = "link" => Link!LinkIsTrusted

\* The e-stop button is seen within the debounce, and a bounce is not
\* (BoxIo!PressIsSeen).
PressIsSeen == [][part = "box" => Box!Debounced]_boxVars

\* A capture reads back whole, in order and from one recording (Capture!ReadBackIsWhole).
ReadBackIsWhole == part = "capture" => Scope!ReadBackIsWhole
=============================================================================
