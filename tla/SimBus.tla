------------------------------- MODULE SimBus -------------------------------
(***************************************************************************)
(* The simulated CAN bus and one virtual joint drive on it (par6-bus       *)
(* sim/mod.rs, sim/driver.rs, sim/scenario.rs): the drive's modes, its     *)
(* command watchdog, its latched faults and its hall trigger; the bus's    *)
(* reply queue with its capacity, delay and dropouts, the silent and the   *)
(* deaf link, the telemetry cycle with its override slot, and the          *)
(* re-seeds: teleport, tool change and node id change.                     *)
(*                                                                         *)
(* The joint angle is an integer 0..Span; the hall sensor sits at HallAt   *)
(* modulo Turn, so a joint that spans two turns passes it twice.  A reply  *)
(* carries the pose it describes and, as a label the wire does not have,   *)
(* the seed of the pose it was measured on.                                *)
(***************************************************************************)
EXTENDS Integers, Sequences, FiniteSets

CONSTANTS Span, Turn, HallAt,
          Watchdog,      \* watchdog_ticks once configured
          Delay,         \* scenario.delay_ticks
          RxCap,         \* RX_QUEUE_CAP
          RxPerTick,     \* rx_frames_per_tick_cap
          InfoPeriod,    \* DEVICE_INFO_PERIOD_SLOTS
          Ids,           \* the CAN ids the joint drive may be given
          Commands,      \* the joint commands the runtime sends
          MaxOps,        \* bound: operations between ticks
          MaxDrops       \* bound: replies the scenario drops

VARIABLES drive, q, rx, seen, bus, seed, ops, drops

vars == <<drive, q, rx, seen, bus, seed, ops, drops>>

Targets == 2   \* poll_targets: the joint and the gripper node
Nothing == [kind |-> "none", repeats |-> 0]

\* boot_configure, with the configuration frames it sends applied.
Init ==
  /\ drive = [mode |-> "idle", goal |-> 0, trig |-> 2, armed |-> FALSE, since |-> 0,
              fault |-> FALSE, configured |-> TRUE, inBand |-> FALSE, trigger |-> TRUE,
              edge |-> FALSE, needs |-> TRUE, latched |-> -1, on |-> 2, crossed |-> FALSE]
  /\ q \in 0..Span /\ rx = <<>> /\ seed = 0 /\ ops = 0 /\ drops = 0
  /\ seen = [i \in Ids |-> [pos |-> -1, seed |-> 0]]
  /\ bus = [id |-> CHOOSE i \in Ids : \A k \in Ids : i <= k, power |-> TRUE, silent |-> FALSE,
            deaf |-> FALSE, dead |-> FALSE, landed |-> FALSE, gripper |-> TRUE,
            connected |-> {CHOOSE i \in Ids : \A k \in Ids : i <= k}, cursor |-> 0,
            slot |-> 0, info |-> 0, override |-> Nothing]

----------------------------------------------------------------------------
(* The virtual drive. *)

\* age_watchdog: the fault latches on the tick the count meets the limit.
AgeWatchdog(d) ==
  IF ~d.armed THEN d
  ELSE LET since == IF d.since <= Watchdog THEN d.since + 1 ELSE d.since
       IN  IF d.configured /\ since = Watchdog
           THEN [d EXCEPT !.since = since, !.mode = "idle", !.fault = TRUE]
           ELSE [d EXCEPT !.since = since]

\* control_law's first line: a faulted drive drops to idle.
Controlled(d) == IF d.fault THEN [d EXCEPT !.mode = "idle"] ELSE d

Toward(a, b) == IF a < b THEN a + 1 ELSE IF a > b THEN a - 1 ELSE a

\* Where one step of the control law and the plant can leave the joint; the
\* landing clamp of a teleport holds it, an unpowered one sags.
Moves(d) ==
  LET free == CASE bus.landed -> {q}
                [] ~bus.power \/ d.mode = "idle" -> {q, q - 1}
                [] d.mode = "pos" -> {Toward(q, d.goal)}
                [] d.mode = "vel" -> {q + 1}
                [] d.mode = "hall" -> {IF d.trigger THEN q + 1 ELSE Toward(q, d.latched)}
                [] OTHER -> {q - 1, q, q + 1}
  IN  {p \in 0..Span : p \in free \/ (p = 0 /\ -1 \in free) \/ (p = Span /\ Span + 1 \in free)}

InBand(p) == p % Turn = HallAt

(* mutant of SampleHall: the first sample after entering the mode counts *)
SampleHallAtOnce(d, p) ==
  LET hit == IF d.trig = 2 THEN d.inBand # InBand(p) ELSE (IF InBand(p) THEN 1 ELSE 0) = d.trig
      e == [d EXCEPT !.inBand = InBand(p)]
  IN  IF d.mode # "hall" THEN e
      ELSE IF hit /\ d.trigger
           THEN [e EXCEPT !.latched = p, !.trigger = FALSE, !.edge = TRUE, !.on = d.trig]
           ELSE e

\* sample_hall: on any edge (trigger value 2) the first sample of a run only
\* sets the reference; on a level, leaving it arms the trigger again.  What
\* was crossed in this run is recorded alongside.
SampleHall(d, p) ==
  LET changed == d.inBand # InBand(p)
      e == [d EXCEPT !.inBand = InBand(p)]
      hit == IF d.trig = 2 THEN changed ELSE (IF InBand(p) THEN 1 ELSE 0) = d.trig
      f == [e EXCEPT !.needs = FALSE, !.crossed = @ \/ (changed /\ ~d.needs)]
  IN  IF d.mode # "hall" THEN e
      ELSE IF d.needs /\ d.trig = 2 THEN f
      ELSE IF hit /\ d.trigger
      THEN [f EXCEPT !.latched = p, !.trigger = FALSE, !.edge = TRUE, !.on = d.trig]
      ELSE IF ~hit /\ d.trig # 2 THEN [f EXCEPT !.trigger = TRUE] ELSE f

\* clear_faults: the faults go, and the mode with them.
ClearFaults(d) == [d EXCEPT !.mode = "idle", !.fault = FALSE]

\* A hall frame arms the trigger only on the way into the mode.
EnterHall(d, trig) ==
  IF d.mode = "hall" THEN [d EXCEPT !.trig = trig]
  ELSE [d EXCEPT !.mode = "hall", !.trig = trig, !.trigger = TRUE, !.edge = FALSE,
                 !.latched = -1, !.needs = TRUE, !.crossed = FALSE]

\* on_data_frame: the motion frames feed the watchdog and arm it, one of the
\* wrong length changes nothing and is answered all the same.
OnDataFrame(d, c) ==
  LET fed == [d EXCEPT !.armed = TRUE, !.since = 0] IN
  CASE c.kind = "pos" -> [fed EXCEPT !.mode = "pos", !.goal = c.arg]
    [] c.kind \in {"vel", "cur", "pd"} -> [fed EXCEPT !.mode = c.kind]
    [] c.kind = "hall" -> EnterHall(fed, c.arg)
    [] c.kind = "idle" -> [d EXCEPT !.mode = "idle"]
    [] c.kind = "estop" -> [d EXCEPT !.mode = "idle", !.fault = TRUE]
    [] c.kind = "clear" -> ClearFaults(d)
    [] c.kind = "config" -> [d EXCEPT !.configured = TRUE]
    [] OTHER -> d   \* wrong_motion, wrong_hall

ReplyKind(c) ==
  CASE c.kind \in {"pos", "vel", "cur", "pd", "wrong_motion"} -> "motion"
    [] c.kind \in {"hall", "wrong_hall"} -> "hall"
    [] OTHER -> "none"

\* deliver_rtr: an answered poll is traffic, and feeds the watchdog.
FeedPoll(d) == [d EXCEPT !.since = 0]

----------------------------------------------------------------------------
(* The bus. *)

Reply(kind, p) ==
  [node |-> bus.id, placed |-> kind \in {"motion", "hall", "encoder"},
   pos |-> p, age |-> 0, seed |-> seed]

\* enqueue: the scenario's dropout and a full queue both lose the reply.
Enqueue(r, f, drop) == IF drop \/ Len(r) >= RxCap THEN r ELSE Append(r, f)

\* deliver_data and deliver_rtr on the joint's node: <<drive, rx>>.
DeliverData(d, r, c, p, drop) ==
  IF ~bus.power THEN <<d, r>>
  ELSE LET e == OnDataFrame(d, c)
       IN  <<e, IF ReplyKind(c) = "none" THEN r ELSE Enqueue(r, Reply(ReplyKind(c), p), drop)>>

DeliverRtr(d, r, kind, p, drop) ==
  IF ~bus.power THEN <<d, r>>
  ELSE <<FeedPoll(d), Enqueue(r, Reply(kind, p), drop)>>

\* drain_rx: the front of the queue that is old enough, up to the cap.
Ripe(r) == {i \in 1..Len(r) : /\ i <= RxPerTick
                              /\ \A k \in 1..i : r[k].age >= Delay}

\* apply: the position the drained frames of one node leave in the shared
\* state; their flags and measurements are left out.
Apply(s, r, n, i) ==
  LET at == {k \in 1..n : r[k].node = i /\ r[k].placed}
      last == r[CHOOSE k \in at : \A m \in at : m <= k]
  IN  IF at = {} THEN s[i] ELSE [pos |-> last.pos, seed |-> last.seed]

Drain(s, r) ==
  LET n == Cardinality(Ripe(r))
  IN  <<IF bus.silent \/ bus.deaf THEN s ELSE [i \in Ids |-> Apply(s, r, n, i)],
        SubSeq(r, n + 1, Len(r))>>

Aged(r) == [i \in 1..Len(r) |-> [r[i] EXCEPT !.age = IF @ < Delay THEN @ + 1 ELSE @]]

\* poll_step: the override slot, then a device-info sweep, then the cycle;
\* only the joint's own slots reach the drive: <<drive, rx, bus>>.
PollStep(d, r, p, drop) ==
  LET o == bus.override
      slot == (bus.slot + 1) % InfoPeriod
      joint(t) == t = 0
      ask(t, kind) == IF joint(t) THEN DeliverRtr(d, r, kind, p, drop) ELSE <<d, r>>
  IN  CASE o.kind # "none" ->
             (IF o.kind = "poll" THEN DeliverRtr(d, r, "encoder", p, drop)
              ELSE DeliverData(d, r, o, p, drop))
             \o <<[bus EXCEPT !.override = IF o.repeats > 1 THEN [o EXCEPT !.repeats = @ - 1]
                                           ELSE Nothing]>>
        [] o.kind = "none" /\ bus.info > 0 ->
             ask(Targets - bus.info, "info")
             \o <<[bus EXCEPT !.info = @ - 1, !.slot = slot]>>
        [] OTHER ->
             ask(bus.cursor, "telemetry")
             \o <<[bus EXCEPT !.cursor = (@ + 1) % Targets, !.slot = slot,
                              !.info = IF slot = 0 THEN Targets ELSE 0]>>

Drained == Drain(seen, Aged(rx))

\* What the joint frame and the poll slot leave of the drive, the queue and the bus; a
\* silent bus takes neither frame.
Served(c, drop, p) ==
  LET d == SampleHall(Controlled(AgeWatchdog(drive)), p)
      sent == DeliverData(d, Drained[2], c, p, drop)
  IN  IF bus.silent THEN <<d, Drained[2], bus>> ELSE PollStep(sent[1], sent[2], p, FALSE)

\* One tick of the runtime: begin_tick's physics, the drain, the joint frame,
\* the poll slot.
Tick(c, drop) ==
  /\ drop => drops < MaxDrops
  /\ drops' = drops + (IF drop THEN 1 ELSE 0)
  /\ q' \in Moves(Controlled(AgeWatchdog(drive)))
  /\ seen' = Drained[1]
  /\ \E x \in {Served(c, drop, q')} :
       /\ drive' = x[1] /\ rx' = x[2]
       /\ bus' = [x[3] EXCEPT !.landed = bus.landed /\ bus.silent]
  /\ UNCHANGED <<seed, ops>>

----------------------------------------------------------------------------
(* Between ticks. *)

Op == ops < MaxOps /\ ops' = ops + 1 /\ UNCHANGED drops

Ready == ~bus.silent   \* ensure_ready, once configured

(* mutant of Voided: a re-seed leaves the queued replies to be drained *)
VoidedNever(r) == r

\* The replies queued before a teleport describe the pose the arm left.
Voided(r) == <<>>

\* teleport_joint_rad, reseed_hold: the drive holds the landed pose; neither
\* its watchdog nor its faults are touched.
Teleport(p) ==
  /\ Op /\ Ready /\ q' = p /\ seed' = seed + 1
  /\ drive' = [drive EXCEPT !.mode = "pos", !.goal = p]
  /\ rx' = Voided(rx) /\ bus' = [bus EXCEPT !.landed = TRUE]
  /\ UNCHANGED seen

\* inject_fault and the scenario's driver_fault.
InjectFault == Op /\ drive' = [drive EXCEPT !.fault = TRUE]
               /\ UNCHANGED <<q, rx, seen, bus, seed>>

\* The scenario's supply window.
SwitchPower == Op /\ bus' = [bus EXCEPT !.power = ~@]
               /\ UNCHANGED <<drive, q, rx, seen, seed>>

\* set_deaf, set_dead
SetDeaf(dead) == /\ Op /\ ~bus.deaf /\ bus' = [bus EXCEPT !.deaf = TRUE, !.dead = dead]
                 /\ UNCHANGED <<drive, q, rx, seen, seed>>

\* recover_link: a dead link stays deaf, a live one has every node back.
RecoverLink ==
  /\ Op /\ bus' = IF bus.dead THEN bus ELSE [bus EXCEPT !.deaf = FALSE, !.connected = {bus.id}]
  /\ UNCHANGED <<drive, q, rx, seen, seed>>

SetSilent == Op /\ bus' = [bus EXCEPT !.silent = ~@]
             /\ UNCHANGED <<drive, q, rx, seen, seed>>

QueuePollOverride(kind, repeats) ==
  /\ Op /\ bus' = [bus EXCEPT !.override = [kind |-> kind, repeats |-> repeats]]
  /\ UNCHANGED <<drive, q, rx, seen, seed>>

\* send_clear_error, and the two ways a configuration is sent again.
SendFrame(kind) ==
  /\ Op /\ Ready
  /\ drive' = DeliverData(drive, rx, [kind |-> kind], q, FALSE)[1]
  /\ UNCHANGED <<q, rx, seen, bus, seed>>

\* set_can_id: routing, stored configuration and presence move together.
SetCanId(i) ==
  /\ Op /\ Ready /\ i # bus.id
  /\ bus' = [bus EXCEPT !.id = i, !.connected = (@ \ {bus.id}) \cup {i}]
  /\ UNCHANGED <<drive, q, rx, seen, seed>>

\* fit_tool: the plant is rebuilt where it stands; the replies stay true.
FitTool == Op /\ bus' = [bus EXCEPT !.gripper = ~@]
           /\ UNCHANGED <<drive, q, rx, seen, seed>>

Next ==
  \/ \E c \in Commands, drop \in BOOLEAN : Tick(c, drop)
  \/ \E p \in 0..Span : Teleport(p)
  \/ InjectFault \/ SwitchPower \/ RecoverLink \/ SetSilent \/ FitTool
  \/ \E dead \in BOOLEAN : SetDeaf(dead)
  \/ \E kind \in {"poll", "clear", "config"} : QueuePollOverride(kind, 2)
  \/ \E kind \in {"clear", "config"} : SendFrame(kind)
  \/ \E i \in Ids : SetCanId(i)

Spec == Init /\ [][Next]_vars

----------------------------------------------------------------------------
(* Homing takes a hall reply's edge bit for the sensor passing under the
   joint in this seek: a drive on the any-edge trigger reports an edge only
   if the band was entered or left since the seek began, not because the seek
   began on the other side of an earlier sample. *)
EdgeIsThisSeeks == (drive.mode = "hall" /\ drive.edge /\ drive.on = 2) => drive.crossed

(* A reply that is still on its way when the arm is re-seeded is never read
   under the new reference, whatever the delay, the node's id or the queue:
   what the runtime next records of the joint was measured where the joint
   now is. *)
PoseIsMeasuredHere == \A i \in Ids : seen'[i].pos # seen[i].pos => seen'[i].seed = seed

NoPhantomPose == [][PoseIsMeasuredHere]_vars
=============================================================================
