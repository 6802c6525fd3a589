------------------------------- MODULE Daemon -------------------------------
(***************************************************************************)
(* The daemon process: the boot that refuses an arm it cannot run, the     *)
(* threads it spawns, the RT thread's outer loop with its break flag, the  *)
(* tee that publishes the bus claim, the supervisor's loop, and the stop   *)
(* with the RT thread's retreat, halt and limp frame.                      *)
(***************************************************************************)
EXTENDS Naturals, Sequences, FiniteSets

CONSTANTS
  Joints,        \* joints on the bus
  Capacity,      \* frames one tick of the bus carries
  Driven,        \* the tools with a CAN drive
  Known,         \* the tools the configuration carries
  Attempts,      \* opens of the bus before the boot gives up
  SimChoices,    \* whether --sim was given
  Safe_park,     \* [shutdown] safe_park
  ParkTicks,     \* ticks the retreat may take
  SettleTicks,   \* ticks the halt may take
  MaxOps, MaxCmds, MaxFaults, MaxDeaths    \* bounds on the environment

VARIABLES
  boot,     \* the boot: its stage and what it found
  sup,      \* the supervisor: "boot", "watch", "grace", "join", "done", "refused"
  asked,    \* a signal arrived, or the parent died
  up,       \* the threads and tasks that run
  flags,    \* the two flags: shutdown, rt_break
  rt,       \* the RT thread: where it is, and the ticks it has left there
  arm,      \* the core: mode, hard error, motion, the last frame's law
  ops,      \* core ops in the channel
  sending,  \* an op was sent and its sender has not raised rt_break yet
  cmds,     \* tick-loop commands in the channel
  grant,    \* the bus claim the vendor's tools read
  left      \* what the environment may still do

vars == <<boot, sup, asked, up, flags, rt, arm, ops, sending, cmds, grant, left>>

Workers == {"planner", "rt", "tee", "housekeeping", "vitals"}

None == "none"

Init ==
  /\ boot \in [stage : {"config"}, sim : SimChoices, tool : Known,
               reports : Known \cup {None, "unknown"}, tries : {0}]
  /\ boot.sim => boot.reports = None      \* the simulator has no drive to ask
  /\ sup = "boot" /\ asked = FALSE /\ up = {}
  /\ flags = [shutdown |-> FALSE, rt_break |-> FALSE]
  /\ rt = [at |-> "top", left |-> 0]
  /\ arm = [mode |-> "Idle", hard |-> FALSE, moving |-> FALSE, frame |-> None]
  /\ ops = 0 /\ sending = 0 /\ cmds = <<>> /\ grant = None
  /\ left = [ops |-> MaxOps, cmds |-> MaxCmds, faults |-> MaxFaults, deaths |-> MaxDeaths]

-----------------------------------------------------------------------------
(* Daemon::start: every refusal comes before the threads. *)

running == <<asked, flags, rt, arm, ops, sending, cmds, left>>

Refuse ==
  /\ sup' = "refused"
  /\ UNCHANGED <<boot, up, grant, running>>

Goes(b) ==
  /\ boot' = b
  /\ UNCHANGED <<sup, up, grant, running>>

At(stage) == sup = "boot" /\ boot.stage = stage

\* bus_budget: a motion frame per joint, one for a driven gripper, one poll.
Frames(tool) == Joints + (IF tool \in Driven THEN 1 ELSE 0) + 1

Fits(tool) == Frames(tool) <= Capacity

\* A file that does not load or validate refuses; a simulator has no wire to fit.
LoadConfig ==
  /\ At("config")
  /\ \/ Refuse
     \/ boot.sim /\ Goes([boot EXCEPT !.stage = "timing"])
     \/ ~boot.sim /\ ~Fits(boot.tool) /\ Refuse
     \/ ~boot.sim /\ Fits(boot.tool) /\ Goes([boot EXCEPT !.stage = "open"])

\* open_with_retry: the first attempt always runs, the last error is reported.
OpenBus ==
  /\ At("open")
  /\ \/ Goes([boot EXCEPT !.stage = "probe", !.tries = 0])
     \/ boot.tries + 1 < Attempts /\ Goes([boot EXCEPT !.tries = @ + 1])
     \/ boot.tries + 1 = Attempts /\ Refuse

\* The drive says which tool is on the arm: silence leaves the configured one,
\* an unknown id refuses, another tool is fitted and judged against the wire.
ProbeTool ==
  /\ At("probe")
  /\ \/ boot.reports = None /\ Goes([boot EXCEPT !.stage = "timing"])
     \/ boot.reports = "unknown" /\ Refuse
     \/ /\ boot.reports \in Known
        /\ \/ boot.reports # boot.tool /\ ~Fits(boot.reports) /\ Refuse
           \/ /\ boot.reports # boot.tool => Fits(boot.reports)
              /\ Goes([boot EXCEPT !.tool = boot.reports, !.stage = "timing"])

\* The bands, the stream timeout and the STATUS rate, judged once resolved.
ResolveTiming ==
  At("timing") /\ (Refuse \/ Goes([boot EXCEPT !.stage = "models"]))

\* load_kin_stack: every model instance, for the fitted tool.
BuildModels ==
  At("models") /\ (Refuse \/ Goes([boot EXCEPT !.stage = "engines"]))

\* The STREAM and JOG limits and the motion engines.
BuildEngines ==
  At("engines") /\ (Refuse \/ Goes([boot EXCEPT !.stage = "estop"]))

\* estop_source: hardware refuses an e-stop line it cannot read; the simulator
\* has none.
OpenEstop ==
  /\ At("estop")
  /\ \/ ~boot.sim /\ Refuse
     \/ Goes([boot EXCEPT !.stage = "lines"])

\* io_source: the declared lines, on the chip that carries the header.
OpenLines ==
  /\ At("lines")
  /\ \/ ~boot.sim /\ Refuse
     \/ Goes([boot EXCEPT !.stage = "core"])

\* RtCore::new, Par6Planner::new, the bridge.
BuildCore ==
  At("core") /\ (Refuse \/ Goes([boot EXCEPT !.stage = "layer"]))

\* install_layer: a keep-out that cannot be enforced stops the boot while the
\* planner is still in hand.
InstallLayer ==
  At("layer") /\ (Refuse \/ Goes([boot EXCEPT !.stage = "planner"]))

Spawn(thread, next) ==
  /\ up' = up \cup thread
  /\ boot' = [boot EXCEPT !.stage = next]
  /\ UNCHANGED <<sup, running>>

SpawnPlanner == At("planner") /\ Spawn({"planner"}, "server") /\ UNCHANGED grant

\* par6_server::spawn: a port that is taken refuses; the planner thread it was
\* given ends with the handle that is dropped.
SpawnServer ==
  /\ At("server")
  /\ \/ Spawn({"server"}, "rt") /\ UNCHANGED grant
     \/ sup' = "refused" /\ up' = {} /\ UNCHANGED <<boot, grant, running>>

SpawnRt == At("rt") /\ Spawn({"rt"}, "tee") /\ UNCHANGED grant

\* BusGrant::create: both segments, or a failure that is not fatal.
Claim == grant' \in {"claimed", "failed"}

SpawnTee == At("tee") /\ Spawn({"tee"}, "rest") /\ Claim

SpawnRest ==
  /\ At("rest") /\ sup' = "watch"
  /\ up' = up \cup {"housekeeping", "vitals"}
  /\ boot' = [boot EXCEPT !.stage = "up"]
  /\ UNCHANGED <<grant, running>>

Boot ==
  \/ LoadConfig \/ OpenBus \/ ProbeTool \/ ResolveTiming \/ BuildModels \/ BuildEngines
  \/ OpenEstop \/ OpenLines
  \/ BuildCore \/ InstallLayer \/ SpawnPlanner \/ SpawnServer \/ SpawnRt \/ SpawnTee
  \/ SpawnRest

-----------------------------------------------------------------------------
(* One tick of the core, as far as the process is concerned. *)

Halting == {"Idle", "Booting", "ActiveError", "SafetyStop", "Flashing"}

\* request_mode for what the other threads send: IDLE, a working mode, FLASHING
\* (the park asserted with it).
Requested(m, target) ==
  CASE target = "Idle" -> "Idle"
    [] target = "Work" /\ m = "Idle" /\ ~arm.hard -> "Work"
    [] target = "Flashing" /\ m \in {"Idle", "ActiveError"} -> "Flashing"
    [] OTHER -> m

Polled(m) == IF cmds = <<>> THEN m ELSE Requested(m, Head(cmds))

Reacted(m, hard) ==
  CASE hard /\ m \notin {"ActiveError", "Flashing", "SafetyStop"} -> "ActiveError"
    [] ~hard /\ m = "ActiveError" -> "Idle"
    [] OTHER -> m

\* The law each mode puts on the wire.
Law(m) ==
  CASE m = "SafetyStop" -> "limp"
    [] m = "Flashing" -> "silent"
    [] m \in {"Work", "Stream"} -> "drive"
    [] OTHER -> "still"

\* tick: a command, the error check, the dispatch.  A standing law lets the arm
\* come to rest; a driving one may move it.
Tick(m) ==
  /\ \E hard \in {arm.hard, TRUE} :
       LET next == Reacted(Polled(m), hard) IN
       /\ hard # arm.hard => left.faults > 0
       /\ left' = IF hard # arm.hard THEN [left EXCEPT !.faults = @ - 1] ELSE left
       /\ \E moving \in {Law(next) = "drive", FALSE, arm.moving /\ Law(next) # "limp"} :
            arm' = [mode |-> next, hard |-> hard, moving |-> moving, frame |-> Law(next)]
  /\ cmds' = IF cmds = <<>> THEN cmds ELSE Tail(cmds)

-----------------------------------------------------------------------------
(* rt_loop. *)

rest == <<boot, sup, asked, ops, sending>>

Rt(at) == "rt" \in up /\ rt.at = at

Step(at) == rt' = [rt EXCEPT !.at = at]

\* The loop's top reads shutdown.
RtTop ==
  /\ Rt("top") /\ Step(IF flags.shutdown THEN "stop" ELSE "reset")
  /\ UNCHANGED <<rest, up, flags, arm, cmds, grant, left>>

\* The flag is put down BEFORE the drain: an op that races it raises it again.
RtReset ==
  /\ Rt("reset") /\ Step("drain")
  /\ flags' = [flags EXCEPT !.rt_break = FALSE]
  /\ UNCHANGED <<rest, up, arm, cmds, grant, left>>

RtDrain ==
  /\ Rt("drain")
  /\ \/ ops > 0 /\ ops' = ops - 1 /\ UNCHANGED rt
     \/ ops = 0 /\ Step("look") /\ UNCHANGED ops
  /\ UNCHANGED <<boot, sup, asked, sending, up, flags, arm, cmds, grant, left>>

\* Mutant of RtLook: shutdown is not read again.
RtLookOnce ==
  /\ Rt("look") /\ Step(IF flags.rt_break THEN "top" ELSE "run")
  /\ UNCHANGED <<rest, up, flags, arm, cmds, grant, left>>

\* Mutant of RtLook: the flag is put down on the way into run.
RtLookResets ==
  /\ Rt("look") /\ Step(IF flags.shutdown THEN "top" ELSE "run")
  /\ flags' = [flags EXCEPT !.rt_break = FALSE]
  /\ UNCHANGED <<rest, up, arm, cmds, grant, left>>

\* An op that raced the drain re-set the flag, and stop raises shutdown first.
RtLook ==
  /\ Rt("look")
  /\ Step(IF flags.rt_break \/ flags.shutdown THEN "top" ELSE "run")
  /\ UNCHANGED <<rest, up, flags, arm, cmds, grant, left>>

\* run: a tick, until rt_break.
RtRun ==
  /\ Rt("run")
  /\ IF flags.rt_break THEN Step("top") /\ UNCHANGED <<arm, cmds, left>>
     ELSE Tick(arm.mode) /\ UNCHANGED rt
  /\ UNCHANGED <<rest, up, flags, grant>>

-----------------------------------------------------------------------------
(* shutdown_stop_paced. *)

\* shutdown_park_begin: an enabled, error-free arm idles and enters STREAM.
Retreats == Safe_park /\ ~arm.hard /\ arm.mode # "SafetyStop"

\* shutdown_halt.
Halted(m) == IF m \in Halting THEN m ELSE "Idle"

BeginStop ==
  /\ Rt("stop")
  /\ IF arm.mode = "Flashing" THEN rt' = [at |-> "off", left |-> 0] /\ UNCHANGED arm
     ELSE IF Retreats
     THEN rt' = [at |-> "park", left |-> ParkTicks] /\ arm' = [arm EXCEPT !.mode = "Stream"]
     ELSE rt' = [at |-> "settle", left |-> SettleTicks]
            /\ arm' = [arm EXCEPT !.mode = Halted(@)]
  /\ UNCHANGED <<rest, up, flags, cmds, grant, left>>

EndPark ==
  /\ rt' = [at |-> "settle", left |-> SettleTicks]
  /\ arm' = [arm EXCEPT !.mode = Halted(@)]
  /\ UNCHANGED <<cmds, left>>

\* The rest pose is fed until it is reached, the mode is lost or time is up.
Park ==
  /\ Rt("park")
  /\ \/ EndPark
     \/ /\ arm.mode = "Stream" /\ rt.left > 0
        /\ Tick(arm.mode) /\ rt' = [rt EXCEPT !.left = @ - 1]
  /\ UNCHANGED <<rest, up, flags, grant>>

\* Ticks under the halt until the arm measures at rest or the budget is spent.
Settle ==
  /\ Rt("settle") /\ rt.left > 0
  /\ Tick(arm.mode)
  /\ rt' = IF ~arm'.moving \/ rt.left = 1 THEN [at |-> "limp", left |-> 0]
           ELSE [rt EXCEPT !.left = @ - 1]
  /\ UNCHANGED <<rest, up, flags, grant>>

\* shutdown_limp: SAFETY_STOP, which FLASHING does not take, and one tick.
Limp ==
  /\ Rt("limp")
  /\ Tick(IF arm.mode = "Flashing" THEN arm.mode ELSE "SafetyStop")
  /\ Step("off")
  /\ UNCHANGED <<rest, up, flags, grant>>

RtEnds ==
  /\ Rt("off") /\ up' = up \ {"rt"}
  /\ UNCHANGED <<rest, flags, rt, arm, cmds, grant, left>>

RtThread ==
  RtTop \/ RtReset \/ RtDrain \/ RtLook \/ RtRun \/ BeginStop \/ Park \/ Settle \/ Limp \/ RtEnds

-----------------------------------------------------------------------------
(* The other threads. *)

\* CoreLink::op: the channel first, the flag second.  The bridge runs on the
\* server's task, the planner and housekeeping have links of their own.
SendOp ==
  /\ sup # "boot" /\ left.ops > 0
  /\ \E w \in {"server", "planner", "housekeeping"} : w \in up
  /\ ops' = ops + 1 /\ sending' = sending + 1
  /\ left' = [left EXCEPT !.ops = @ - 1]
  /\ UNCHANGED <<boot, sup, asked, up, flags, rt, arm, cmds, grant>>

RaiseBreak ==
  /\ sending > 0 /\ sending' = sending - 1
  /\ flags' = [flags EXCEPT !.rt_break = TRUE]
  /\ UNCHANGED <<boot, sup, asked, up, rt, arm, ops, cmds, grant, left>>

\* CoreLink::send.
SendCommand ==
  /\ sup # "boot" /\ left.cmds > 0
  /\ \E w \in {"server", "planner", "housekeeping"} : w \in up
  /\ \E c \in {"Idle", "Work", "Flashing"} : cmds' = Append(cmds, c)
  /\ left' = [left EXCEPT !.cmds = @ - 1]
  /\ UNCHANGED <<boot, sup, asked, up, flags, rt, arm, ops, sending, grant>>

\* The planner, housekeeping and vitals loops end on the flag.
WorkerEnds ==
  /\ flags.shutdown
  /\ \E w \in up \cap {"planner", "housekeeping", "vitals"} : up' = up \ {w}
  /\ UNCHANGED <<boot, sup, asked, flags, rt, arm, ops, sending, cmds, grant, left>>

\* Dropping a BusGrant removes its segments.
Unclaim == grant' = IF grant = "claimed" THEN "removed" ELSE grant

\* tee_loop: on the flag the thread ends, and its BusGrant with it.
TeeEnds ==
  /\ flags.shutdown /\ "tee" \in up
  /\ up' = up \ {"tee"}
  /\ Unclaim
  /\ UNCHANGED <<boot, sup, asked, flags, rt, arm, ops, sending, cmds, left>>

\* The planner thread dies; its channels close.
PlannerDies ==
  /\ left.deaths > 0 /\ "planner" \in up /\ sup # "boot"
  /\ up' = up \ {"planner"}
  /\ left' = [left EXCEPT !.deaths = @ - 1]
  /\ UNCHANGED <<boot, sup, asked, flags, rt, arm, ops, sending, cmds, grant>>

\* The server task reads closed channels as a shutdown, or was told to stop.
ServerEnds ==
  /\ "server" \in up
  /\ "planner" \notin up \/ sup \in {"grace", "join"}
  /\ up' = up \ {"server"}
  /\ UNCHANGED <<boot, sup, asked, flags, rt, arm, ops, sending, cmds, grant, left>>

-----------------------------------------------------------------------------
(* The supervisor: main's loop, then Daemon::stop. *)

Signal ==
  /\ sup # "done" /\ ~asked /\ asked' = TRUE
  /\ UNCHANGED <<boot, sup, up, flags, rt, arm, ops, sending, cmds, grant, left>>

\* A signal, a dead parent, or command_plane_gone.
Watch ==
  /\ sup = "watch" /\ (asked \/ "server" \notin up)
  /\ sup' = "grace"
  /\ UNCHANGED <<boot, asked, up, flags, rt, arm, ops, sending, cmds, grant, left>>

\* The grace is over: the server's task is aborted, then shutdown is raised.
RaiseShutdown ==
  /\ sup = "grace" /\ ~flags.shutdown
  /\ up' = up \ {"server"}
  /\ flags' = [flags EXCEPT !.shutdown = TRUE]
  /\ UNCHANGED <<boot, sup, asked, rt, arm, ops, sending, cmds, grant, left>>

RaiseRtBreak ==
  /\ sup = "grace" /\ flags.shutdown
  /\ flags' = [flags EXCEPT !.rt_break = TRUE]
  /\ sup' = "join"
  /\ UNCHANGED <<boot, asked, up, rt, arm, ops, sending, cmds, grant, left>>

Join ==
  /\ sup = "join" /\ up \cap Workers = {}
  /\ sup' = "done"
  /\ UNCHANGED <<boot, asked, up, flags, rt, arm, ops, sending, cmds, grant, left>>

Supervisor == Watch \/ RaiseShutdown \/ RaiseRtBreak \/ Join

Next ==
  \/ Boot \/ RtThread \/ SendOp \/ RaiseBreak \/ SendCommand \/ WorkerEnds \/ TeeEnds
  \/ PlannerDies \/ ServerEnds \/ Signal \/ Supervisor

Spec == Init /\ [][Next]_vars

\* The operating system schedules every thread; Rust's joins wait for all.
FairSpec ==
  /\ Spec
  /\ WF_vars(RtThread) /\ WF_vars(RaiseBreak) /\ WF_vars(WorkerEnds) /\ WF_vars(TeeEnds)
  /\ WF_vars(ServerEnds) /\ WF_vars(Supervisor) /\ WF_vars(SpawnTee \/ SpawnRest)

-----------------------------------------------------------------------------
(* Properties. *)

\* No op waits behind a running loop: while run() ticks with an op in the
\* channel, rt_break is up or its sender is about to raise it (CoreLink::op sends
\* before it raises, rt_loop puts the flag down before it drains).
OpsBreakTheLoop == Rt("run") /\ ops > 0 => flags.rt_break \/ sending > 0

\* A signal, a dead parent or a dead command plane ends the process: every
\* thread is joined, whatever stop's two stores meet in rt_loop.
StopCompletes ==
  /\ (sup = "watch" /\ asked) ~> sup = "done"
  /\ (sup = "watch" /\ "planner" \notin up) ~> sup = "done"

\* While this runtime puts frames on the bus its claim stands ("A runtime that
\* publishes neither is read as 'no runtime, bus is free'", grant.rs).
BusClaimStands ==
  sup # "boot" /\ "rt" \in up /\ rt.at \in {"run", "park", "settle", "limp"} =>
    (arm.mode = "Flashing" \/ grant # "removed")

=============================================================================
