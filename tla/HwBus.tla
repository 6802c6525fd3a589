---------------------------- MODULE HwBus ----------------------------
(***************************************************************************)
(* The SocketCAN backend's picture of its drives (par6-bus hw/mod.rs,      *)
(* hw/sched.rs) and the part of the RT core that keeps them configured:    *)
(* the freshness clock, the single override slot of the poll schedule, the *)
(* paced boot load, and the four ways a drive gets its stored              *)
(* configuration (boot, scheduled shots, reconnect edge, self-heal).       *)
(* Drives lose power and come back without configuration, are reflashed    *)
(* while the bus is silent, and lose any frame.                            *)
(*                                                                         *)
(* Times are ages in RT ticks.  Every test on an age is `age >= threshold` *)
(* so an age stops growing at LostTicks.  The round robin itself is HwPoll; *)
(* here a poll slot only matters when an override holds it.                *)
(***************************************************************************)
EXTENDS Naturals, Sequences, FiniteSets, FiniteSetsExt, SequencesExt, Functions

CONSTANTS
    Nodes,         \* node ids: natural numbers
    Targets,       \* poll targets in order: the joint nodes, then the gripper's
    GripperNode,
    StaleTicks, LostTicks,   \* bus.stale_warn_s and bus.lost_s, floored at 1
    Shots,         \* bus.config_resend ticks after an arm point
    SelfcheckTick, SettleTicks,
    UserOps,       \* the operator commands this instance exercises
    InitUp,        \* the sets of drives that may be up at boot
    MaxCuts,       \* bound: power losses and reflashes
    MaxCmds        \* bound: operator commands

VARIABLES
    bus,      \* SocketCanBus
    core,     \* the RT core's bookkeeping about the bus
    drives,   \* the drives on the wire (environment)
    seen      \* history: what the properties talk about

vars == <<bus, core, drives, seen>>

Never == LostTicks + 1   \* no age: every use tests for it first
NoOverride == [what |-> "none", node |-> 0]
Nothing == [op |-> "none"]
Arm == Range(Targets) \ {GripperNode}
LastShot == Max(Shots)

-----------------------------------------------------------------------------
(* FreshnessClock *)

ClockConfigured == [age |-> [n \in Nodes |-> Never], latched |-> {}]

Aged(c) ==
    [c EXCEPT !.age = [n \in Nodes |->
        IF @[n] = Never \/ @[n] = LostTicks THEN @[n] ELSE @[n] + 1]]

LatchLost(c) ==
    [c EXCEPT !.latched = @ \cup {n \in Nodes : c.age[n] # Never /\ c.age[n] >= LostTicks}]

(* A stale-to-fresh edge, or the first frame ever of a node the boot scan
   did not see. *)
IsEdge(c, n, booted) ==
    IF c.age[n] = Never THEN ~booted ELSE c.age[n] >= StaleTicks

Mark(c, S) == [c EXCEPT !.age = [n \in Nodes |-> IF n \in S THEN 0 ELSE @[n]]]

Classify(c, n) ==
    IF n \in c.latched THEN "lost"
    ELSE IF c.age[n] = Never THEN "unknown"
    ELSE IF c.age[n] >= LostTicks THEN "lost"
    ELSE IF c.age[n] >= StaleTicks THEN "stale" ELSE "fresh"

(* mutant: the observation is forgotten with the latch *)
ClearLatchToNever(c, S) ==
    [age |-> [n \in Nodes |-> IF n \in S THEN Never ELSE c.age[n]], latched |-> c.latched \ S]
(* "Forget" is "seen now", never "never seen". *)
ClearLatch(c, S) ==
    [age |-> [n \in Nodes |-> IF n \in S THEN 0 ELSE c.age[n]], latched |-> c.latched \ S]

RefitGripper(c) == ClearLatch(c, {GripperNode})

Rebase(c) == [age |-> [n \in Nodes |-> 0], latched |-> {}]

-----------------------------------------------------------------------------
(* A tick is a pipeline over x = [bus, core, drives, seen].  `in` is what the
   world decides for the tick: the nodes whose frames the TX queue refuses
   (full), whether the bring-up's load fits the queue (fits), who answers the
   bring-up (answers), the nodes with a frame in the drain (heard), and the
   operator's command (cmd). *)

(* The override slot of the poll schedule is single: the last one wins. *)
QueueOverride(x, what, n) == [x EXCEPT !.bus.override = [what |-> what, node |-> n]]

EnsureReady(x) == ~x.bus.silent   \* configured from the first boot on

(* A drive that is up takes a configuration whose every frame was queued. *)
Configure(x, S) == [x EXCEPT !.drives.configured = @ \cup (S \cap x.drives.up)]

ResendAccepted(x, n, in) == EnsureReady(x) /\ n \in x.bus.stored /\ n \notin in.full

(* resend_config for each node of S: a refusal queues the node for a retry. *)
ResendConfig(x, S, in) ==
    LET sent == {n \in S : ResendAccepted(x, n, in)}
    IN [Configure(x, sent) EXCEPT !.core.pending = (@ \cup S) \ sent]

HasCanGripper(x) == GripperNode \in x.bus.stored
Checked(x) == Arm \cup {n \in {GripperNode} : HasCanGripper(x)}

ConfigRepush(x, in) == ResendConfig(x, Checked(x), in)

(* One queued node a tick, the lowest id first. *)
DrainConfigResends(x, in) ==
    IF x.core.pending = {} \/ x.bus.silent THEN x
    ELSE ResendConfig(x, {Min(x.core.pending)}, in)

(* boot_configure: the paced load to every stored node, ended by a refused
   frame, then the kt, telemetry, scan and encoder probes. *)
BootConfigure(x, in) ==
    LET fresh == [x EXCEPT !.bus.clock = ClockConfigured, !.bus.override = NoOverride,
                           !.bus.connected = {},
                           !.seen.quiet = [n \in Nodes |-> Never]]
    IN IF ~in.fits THEN fresh
       ELSE [Configure(fresh, x.bus.stored) EXCEPT
                !.bus.clock.age = [n \in Nodes |-> IF n \in in.answers THEN 0 ELSE Never],
                !.bus.connected = in.answers,
                !.seen.quiet = [n \in Nodes |-> IF n \in in.answers THEN 0 ELSE Never]]

-----------------------------------------------------------------------------
(* Phases 1 and 4: begin_tick and the boot one-shots. *)

BeginTick(x) ==
    LET c == Aged(x.bus.clock)
    IN [x EXCEPT !.bus.clock = IF x.bus.silent THEN c ELSE LatchLost(c),
                 !.core.sinceArm = IF @ <= LastShot THEN @ + 1 ELSE @,
                 !.core.sinceBoot = IF @ <= SelfcheckTick THEN @ + 1 ELSE @,
                 !.drives.down = [n \in Nodes |->
                     IF n \in x.drives.up \/ @[n] = StaleTicks THEN @[n] ELSE @[n] + 1],
                 !.seen.quiet = [n \in Nodes |->
                     IF @[n] >= LostTicks \/ x.bus.silent THEN @[n] ELSE @[n] + 1]]

Rescans(x) == x.core.rescan = 1
BringsUpAgain(x) == Rescans(x) /\ ~x.core.reconfigured
Judges(x) == x.core.sinceBoot = SelfcheckTick \/ Rescans(x)
CyclesLink(x) ==
    Judges(x) /\ ~BringsUpAgain(x) /\ x.bus.connected \cap Arm = {} /\ ~x.core.recovered

(* The tool hold asks the drive's identity through the poll slot. *)
AskIdentity(x) ==
    IF Judges(x) /\ GripperNode \in x.bus.connected
    THEN QueueOverride(x, "deviceinfo", GripperNode)
    ELSE x

ScheduledShot(x, in) ==
    IF x.core.sinceArm \in Shots /\ ~x.bus.silent THEN ConfigRepush(x, in) ELSE x

(* Whole-bus silence cycles the link once, the bus is brought up again after
   the settle and judged a tick later.  Both of those ticks return before the
   shots and the retries. *)
BootOneShots(x, in) ==
    IF BringsUpAgain(x)
    THEN [BootConfigure(x, in) EXCEPT !.core.reconfigured = TRUE, !.core.rescan = 1]
    ELSE IF CyclesLink(x)
    THEN [x EXCEPT !.core.recovered = TRUE, !.core.sinceArm = 0, !.core.rescan = SettleTicks]
    ELSE DrainConfigResends(
             ScheduledShot([AskIdentity(x) EXCEPT
                               !.core.rescan = IF @ > 0 THEN @ - 1 ELSE 0], in), in)

-----------------------------------------------------------------------------
(* Phase 5: the operator. *)

(* begin_clear: every node with an entry in the error list. *)
ClearErrors(x, S) ==
    [x EXCEPT !.bus.clock = ClearLatch(@, S),
              !.seen.quiet = [n \in Nodes |-> IF n \in S THEN 0 ELSE @[n]],
              !.seen.masked = @ \cup (S \ x.seen.heard)]

EnterFlashing(x) == [x EXCEPT !.bus.silent = TRUE]

(* mutant: the exit pushes once and does not re-arm the shots *)
LeaveFlashingOnce(x, in) ==
    ConfigRepush([x EXCEPT !.bus.silent = FALSE, !.bus.clock = Rebase(@),
                           !.seen.quiet = [n \in Nodes |-> 0]], in)
(* Leaving FLASHING: the silence is no disconnect, and it hid every reconnect,
   so the exit pushes the configuration and re-arms the shots. *)
LeaveFlashing(x, in) ==
    LET loud == [x EXCEPT !.bus.silent = FALSE, !.bus.clock = Rebase(@),
                          !.core.sinceArm = 0,
                          !.seen.quiet = [n \in Nodes |-> 0]]
    IN ConfigRepush(loud, in)

(* set_gripper_tool: what the node said was the old tool's; a driven tool's
   limits are pushed once, and a refusal is only logged. *)
FitTool(x, driven, in) ==
    LET fitted == [x EXCEPT !.bus.clock = RefitGripper(@),
                            !.bus.stored = IF driven THEN @ \cup {GripperNode}
                                                     ELSE @ \ {GripperNode},
                            !.seen.quiet = [n \in Nodes |-> IF n = GripperNode THEN 0 ELSE @[n]]]
        sent == driven /\ ResendAccepted(fitted, GripperNode, in)
    IN IF sent /\ GripperNode \in x.drives.up
       THEN Configure(fitted, {GripperNode})
       ELSE [fitted EXCEPT !.seen.masked = @ \cup {GripperNode}]

RescanBus(x) ==
    IF x.bus.silent THEN x
    ELSE [x EXCEPT !.core.scan = SetToSortSeq(Nodes, <)]

Command(y, in) ==
    LET x == IF in.cmd = Nothing THEN y ELSE [y EXCEPT !.seen.cmds = @ + 1] IN
    CASE in.cmd.op = "none"   -> x
      [] in.cmd.op = "clear"  -> ClearErrors(x, in.cmd.nodes)
      [] in.cmd.op = "flash"  -> IF x.bus.silent THEN LeaveFlashing(x, in) ELSE EnterFlashing(x)
      [] in.cmd.op = "fit"    -> FitTool(x, in.cmd.driven, in)
      [] in.cmd.op = "rescan" -> RescanBus(x)

-----------------------------------------------------------------------------
(* Phase 6: the drain. *)

(* A frame is presence and freshness even when its payload is refused; of the
   frames of one node only the first can be an edge. *)
ApplyRx(x, S) ==
    LET edges == {n \in S : IsEdge(x.bus.clock, n, n \in x.bus.connected)}
    IN [x EXCEPT !.bus.clock = Mark(@, S),
                 !.bus.connected = @ \cup S,
                 !.bus.edges = @ \cup edges,
                 !.seen.heard = @ \cup (S \cap x.drives.up),
                 !.seen.masked = @ \ edges,
                 !.seen.quiet = [n \in Nodes |-> IF n \in S THEN 0 ELSE @[n]]]

(* While silent the frames are read and discarded. *)
DrainRx(x, in) == IF x.bus.silent THEN x ELSE ApplyRx(x, in.heard)

-----------------------------------------------------------------------------
(* Phase 7: freshness_check and the reconnect path. *)

Quiet(x, n) == Classify(x.bus.clock, n) \in {"stale", "lost"}

(* The last of the targets, in the order they are gone through. *)
LastOf(S) == Targets[Max({i \in DOMAIN Targets : Targets[i] \in S})]

(* One config resend per silence, through the poll slot; re-armed only by a
   recovery. *)
SelfHeal(x) ==
    LET quiet == {n \in Checked(x) : Quiet(x, n)} \cap x.core.armed
        fresh == {n \in Checked(x) : Classify(x.bus.clock, n) = "fresh"}
        y == [x EXCEPT !.core.armed = (@ \ quiet) \cup fresh, !.seen.shot = @ \ fresh]
    IN IF quiet = {} THEN y ELSE QueueOverride(y, "config", LastOf(quiet))

CheckErrors(x, in) ==
    IF x.bus.silent THEN x ELSE ResendConfig(SelfHeal(x), x.bus.edges, in)

-----------------------------------------------------------------------------
(* Phase 8: the scan ping and the poll slot. *)

StepScan(x) ==
    IF x.core.scan = <<>> THEN x
    ELSE QueueOverride([x EXCEPT !.core.scan = Tail(@)], "ping", Head(x.core.scan))

(* An override takes the slot once; a config one resends the whole stored
   configuration. *)
PollStep(x, in) ==
    LET o == x.bus.override
        y == [x EXCEPT !.bus.override = NoOverride]
    IN IF o.what # "config" THEN y
       ELSE [(IF ResendAccepted(x, o.node, in) THEN Configure(y, {o.node}) ELSE y)
                EXCEPT !.seen.shot = @ \cup {o.node}]

Dispatch(x, in) == IF x.bus.silent THEN x ELSE PollStep(StepScan(x), in)

(* The tick's pipeline, and what it leaves. *)
Ticked(in) ==
    LET x1 == BeginTick([bus |-> bus, core |-> core, drives |-> drives, seen |-> seen])
        x3 == Command(BootOneShots(x1, in), in)
    IN  Dispatch(CheckErrors(DrainRx(x3, in), in), in)

Tick(in) ==
    \E x \in {Ticked(in)} :
       /\ bus' = [x.bus EXCEPT !.edges = {}]
       /\ core' = x.core /\ drives' = x.drives /\ seen' = x.seen

-----------------------------------------------------------------------------
(* The drives (environment). *)

PowerCut(n) ==
    /\ n \in drives.up /\ drives.cuts < MaxCuts
    /\ drives' = [drives EXCEPT !.up = @ \ {n}, !.configured = @ \ {n},
                                !.down[n] = 0, !.cuts = @ + 1]
    /\ seen' = [seen EXCEPT !.heard = @ \ {n}]
    /\ UNCHANGED <<bus, core>>

(* A drive takes longer than the stale window to boot. *)
PowerUp(n) ==
    /\ n \notin drives.up /\ drives.down[n] = StaleTicks
    /\ drives' = [drives EXCEPT !.up = @ \cup {n}]
    /\ UNCHANGED <<bus, core, seen>>

(* While the bus is silent the flasher rewrites a drive's firmware. *)
Reflash(n) ==
    /\ bus.silent /\ n \in drives.up /\ drives.cuts < MaxCuts
    /\ drives' = [drives EXCEPT !.configured = @ \ {n}, !.cuts = @ + 1]
    /\ seen' = [seen EXCEPT !.heard = @ \ {n}]
    /\ UNCHANGED <<bus, core>>

-----------------------------------------------------------------------------
Commands ==
    {Nothing}
    \cup {[op |-> o] : o \in UserOps \cap {"flash", "rescan"}}
    \cup {[op |-> o, driven |-> d] : o \in UserOps \cap {"fit"}, d \in BOOLEAN}
    \cup {[op |-> o, nodes |-> Range(Targets)] : o \in UserOps \cap {"clear"}}

(* A live drive answers its joint command or a ping, or its frame is lost; the
   bring-up's part is chosen when there is one. *)
Inputs ==
    LET again == BringsUpAgain([core |-> core])
    IN [full : SUBSET Nodes, heard : SUBSET drives.up,
        fits : IF again THEN BOOLEAN ELSE {TRUE},
        answers : IF again THEN SUBSET drives.up ELSE {{}},
        cmd : IF seen.cmds = MaxCmds THEN {Nothing} ELSE Commands]

Init ==
    /\ \E up \in InitUp :
         drives = [up |-> up, configured |-> up \cap Range(Targets),
                   down |-> [n \in Nodes |-> 0], cuts |-> 0]
    /\ bus = [clock |-> [ClockConfigured EXCEPT
                            !.age = [n \in Nodes |-> IF n \in drives.up THEN 0 ELSE Never]],
              connected |-> drives.up, stored |-> Range(Targets), silent |-> FALSE,
              override |-> NoOverride, edges |-> {}]
    /\ core = [armed |-> Range(Targets), pending |-> {}, sinceArm |-> 0, scan |-> <<>>,
               sinceBoot |-> 0, recovered |-> FALSE, rescan |-> 0, reconfigured |-> FALSE]
    /\ seen = [heard |-> {}, masked |-> {}, shot |-> {}, cmds |-> 0,
               quiet |-> [n \in Nodes |-> IF n \in drives.up THEN 0 ELSE Never]]

Next ==
    \/ \E in \in Inputs : Tick(in)
    \/ \E n \in Nodes : PowerCut(n) \/ PowerUp(n) \/ Reflash(n)

Spec == Init /\ [][Next]_vars

-----------------------------------------------------------------------------
(* A configured drive that has lost and regained power, and has been heard
   since, holds its configuration, or its node is queued for a retry, or a
   scheduled shot is still to come: no drive is driven on firmware defaults.
   Excepted are drives whose silence an operator wiped while they were down
   (ReconnectIsConfigured is that case). *)
HeardDriveIsConfigured ==
    \A n \in seen.heard \cap bus.stored :
        n \in drives.configured \/ n \in core.pending \/ core.sinceArm < LastShot
            \/ bus.silent \/ n \in seen.masked

(* clear_latch says of a node it stamps "seen now" that "one that comes back
   is a reconnect": coming back always brings its configuration. *)
ReconnectIsConfigured ==
    \A n \in seen.heard \cap bus.stored :
        n \in drives.configured \/ n \in core.pending \/ core.sinceArm < LastShot
            \/ bus.silent

(* However the latch was cleared, rebased or refitted, a node that has then
   been silent for the lost window is reported lost again. *)
SilenceIsReported ==
    \A n \in Nodes : seen.quiet[n] = LostTicks /\ ~bus.silent => Classify(bus.clock, n) = "lost"

(* "One shot per silence episode": a node whose self-heal was spent while it
   is still silent has had its config resent. *)
SelfHealShotIsSent ==
    \A n \in Checked([bus |-> bus]) \ core.armed : n \in seen.shot

(* What the scheduler says of a node is true of the drive behind it: heard means
   configured, quiet means reported (Sched::classify, drain_config_resends). *)
DrivesAccounted == HeardDriveIsConfigured /\ SilenceIsReported
=============================================================================
