----------------------------- MODULE GripperLoop -----------------------------
(***************************************************************************)
(* A jaw action end to end: the planner sends it and waits for a verdict   *)
(* (par6d planner.rs), the RT's gate decides the tick's gripper frame and  *)
(* its settle machine judges the replies (par6-rt gripper_gate.rs,         *)
(* gripper_settle.rs), and the gripper's firmware, as the simulated bus    *)
(* models it (par6-bus sim/gripper.rs), moves the jaws and answers every   *)
(* frame with the code its last control cycle computed.                    *)
(*                                                                         *)
(* Jaw bytes are 0..Closed, one per tick; the tolerance band is the byte   *)
(* itself.  An answer says which target it was judged against, which the   *)
(* wire does not carry: it is what the verdicts are compared with.         *)
(***************************************************************************)
EXTENDS Integers, Sequences

CONSTANTS Closed,         \* the fully closed byte
          Obstacles,      \* <<close, open>> bytes the jaws jam at, -1 for none
          Grace, Debounce, MoveTimeout, CalibrateTimeout, CalibrateMin,
          Repeats,        \* IDLE_PACK_REPEATS
          Sweep,          \* calibration_total_ticks
          Watchdog,       \* gripper drive watchdog, in ticks
          MaxActions,     \* bound: planner actions
          MaxLosses       \* frames and answers the wire may lose

VARIABLES plan,     \* the planner's tool action in flight
          queue,    \* RtCommand channel
          gate, settle,
          pending,  \* calibrate_pending
          reply,    \* bus_state.gripper.reply, NoReply before the first
          rx,       \* the answer to last tick's frame
          jaw, drive, actions, losses,
          done      \* history: the action last completed, and on what

vars == <<plan, queue, gate, settle, pending, reply, rx, jaw, drive, actions, losses, done>>

Bytes == 0..Closed
NoCmd == [pos |-> 0, action |-> FALSE, live |-> FALSE]
Cmd(pos, action) == [pos |-> pos, action |-> action, live |-> TRUE]
NoReply == [pos |-> 0, code |-> "moving", calibrated |-> FALSE, action |-> FALSE,
            fault |-> FALSE, judged |-> -1]
NoPlan == [kind |-> "none", target |-> -1, epoch |-> 0]

Init ==
  /\ plan = NoPlan /\ queue = <<>> /\ pending = FALSE
  /\ gate = [standing |-> NoCmd, repeats |-> 0]
  /\ settle = [wait |-> "none", age |-> 0, closing |-> FALSE, streak |-> 0,
               verdict |-> "unarmed", epoch |-> 0, on |-> -1]
  /\ reply = NoReply /\ rx = <<>>
  /\ jaw \in [pos : {0, Closed}, cmd : {NoCmd}, calibrated : BOOLEAN, left : {0},
              code : {"moving"}, latched : {FALSE}, judged : {-1},
              close : {o[1] : o \in Obstacles}, open : {o[2] : o \in Obstacles}]
  /\ drive = [since |-> 0, timeout |-> FALSE]
  /\ actions = 0 /\ losses = 0 /\ done = [target |-> -1, on |-> -1]

----------------------------------------------------------------------------
(* The planner. *)

\* start_tool_action: the epoch is read before the command is sent, and a move
\* is refused while the gripper says it is not calibrated.
StartAction(kind, target) ==
  /\ plan.kind = "none" /\ actions < MaxActions /\ actions' = actions + 1
  /\ kind = "move" => reply.calibrated
  /\ (kind = "move") = (target \in Bytes)
  /\ plan' = [kind |-> kind, target |-> target, epoch |-> settle.epoch]
  /\ queue' = Append(queue, [kind |-> kind, target |-> target])
  /\ UNCHANGED <<gate, settle, pending, reply, rx, jaw, drive, losses, done>>

\* tool_settle, polled at the planner's own cadence.
PollAction ==
  /\ plan.kind # "none" /\ settle.epoch # plan.epoch
  /\ settle.verdict # "running"
  /\ plan' = NoPlan
  /\ done' = IF plan.kind = "move" /\ settle.verdict = "settled"
             THEN [target |-> plan.target, on |-> settle.on] ELSE done
  /\ UNCHANGED <<queue, gate, settle, pending, reply, rx, jaw, drive, actions, losses>>

\* cancel(halt_tool): the jaws halt, the action is forgotten.
CancelAction ==
  /\ plan.kind # "none" /\ plan' = NoPlan
  /\ queue' = Append(queue, [kind |-> "stop", target |-> -1])
  /\ UNCHANGED <<gate, settle, pending, reply, rx, jaw, drive, actions, losses, done>>

----------------------------------------------------------------------------
(* The RT tick. *)

Arm(s, wait, closing) ==
  [s EXCEPT !.wait = wait, !.age = 0, !.streak = 0, !.verdict = "running",
            !.epoch = @ + 1, !.closing = closing]

(* mutant of Idled: the release is announced once *)
IdledOnce(g) == [standing |-> [g.standing EXCEPT !.action = FALSE], repeats |-> 1]

Idled(g) == [standing |-> [g.standing EXCEPT !.action = FALSE], repeats |-> Repeats]

\* What a command leaves: the gate, the settle machine, calibrate_pending.
Applied(g, s, p) == [gate |-> g, settle |-> s, pending |-> p]

\* gripper_halt_in_place: hold the freshest byte, or let go.
HaltInPlace(g, s, r, p) ==
  IF r.calibrated /\ g.standing.live
  THEN Applied([g EXCEPT !.standing = Cmd(r.pos, TRUE)], Arm(s, "hold", FALSE), p)
  ELSE Applied(Idled(g), Arm(s, "idle", FALSE), p)

\* apply_command on the gripper's verbs.
ApplyGripper(c, g, s, r, p) ==
  CASE c.kind = "move" ->
         Applied([g EXCEPT !.standing = Cmd(c.target, TRUE)], Arm(s, "move", c.target > r.pos), p)
    [] c.kind = "calibrate" ->
         Applied([standing |-> NoCmd, repeats |-> 0], Arm(s, "calibrate", FALSE), TRUE)
    [] c.kind = "stop" -> HaltInPlace(g, s, r, p)
    [] OTHER -> Applied(Idled(g), Arm(s, "idle", FALSE), p)

Sends(frame, g) == [frame |-> frame, gate |-> g]

\* GripperGate::tick.
GateTick(g, calibrated) ==
  IF g.standing.action /\ calibrated
  THEN Sends(g.standing, [g EXCEPT !.repeats = Repeats])
  ELSE IF g.repeats > 0
       THEN Sends([g.standing EXCEPT !.action = FALSE, !.live = TRUE], [g EXCEPT !.repeats = @ - 1])
       ELSE Sends([kind |-> "poll"], g)

(* mutant of Settles: the command grace is not waited out *)
SettlesAtOnce(s, r) == s.verdict = "running"

\* A reply counts once the grace is over.
Settles(s, r) == s.verdict = "running" /\ s.age >= Grace

\* tick_move: the At_position code at once, contact after the debounce and only
\* in the commanded direction.
TickMove(s, r) ==
  LET contact == r.code = (IF s.closing THEN "closing" ELSE "opening")
      streak == IF contact THEN s.streak + 1 ELSE 0
  IN  IF r.code = "reached" \/ (contact /\ streak >= Debounce)
      THEN [s EXCEPT !.verdict = "settled", !.on = r.judged]
      ELSE [s EXCEPT !.streak = streak]

Judge(s, r) ==
  IF r.fault THEN [s EXCEPT !.verdict = "fault"]
  ELSE CASE s.wait = "move" -> TickMove(s, r)
    [] s.wait = "calibrate" /\ s.age >= CalibrateMin /\ r.calibrated -> [s EXCEPT !.verdict = "done"]
    [] s.wait = "hold" /\ r.code # "moving" -> [s EXCEPT !.verdict = "done"]
    [] s.wait = "idle" /\ ~r.action -> [s EXCEPT !.verdict = "done"]
    [] OTHER -> s

TimeoutOf(wait) == IF wait = "calibrate" THEN CalibrateTimeout ELSE MoveTimeout

\* GripperSettle::tick; a verdict stands until the next arm.
SettleTick(s, r, heard) ==
  LET judged == IF Settles(s, r) /\ heard THEN Judge(s, r) ELSE s
      ended == IF judged.verdict = "running" /\ s.age >= TimeoutOf(s.wait)
               THEN [judged EXCEPT !.verdict = "timeout"] ELSE judged
  IN  IF s.verdict # "running" THEN s ELSE [ended EXCEPT !.age = @ + 1]

----------------------------------------------------------------------------
(* The gripper: VirtualDriver's watchdog and GripperSim. *)

\* age_watchdog, before the jaws step.
Aged(d) ==
  [since |-> IF d.since < Watchdog THEN d.since + 1 ELSE d.since,
   timeout |-> d.timeout \/ d.since + 1 = Watchdog]

Fired(d) == d.since >= Watchdog

\* The calibration sweep ends open and calibrated; silence halts it.
SweepStep(j, d) ==
  IF Fired(d) THEN [j EXCEPT !.left = 0]
  ELSE [j EXCEPT !.left = @ - 1, !.code = "moving", !.judged = -1,
                 !.pos = IF j.left = 1 THEN 0 ELSE Closed,
                 !.calibrated = j.left = 1]

\* One control cycle toward the commanded byte, or the obstruction before it.
MoveStep(j) ==
  LET closing == j.cmd.pos > j.pos
      block == IF closing THEN j.close >= 0 /\ j.close < j.cmd.pos
               ELSE j.open >= 0 /\ j.open > j.cmd.pos
      stop == IF ~block THEN j.cmd.pos ELSE IF closing THEN j.close ELSE j.open
      pos == IF stop > j.pos THEN j.pos + 1 ELSE IF stop < j.pos THEN j.pos - 1 ELSE j.pos
      latched == j.latched \/ pos = j.cmd.pos
  IN  [j EXCEPT !.pos = pos, !.latched = latched, !.judged = j.cmd.pos,
                !.code = IF latched THEN "reached" ELSE IF ~block THEN "moving"
                         ELSE IF closing THEN "closing" ELSE "opening"]

FirmwareStep(j, d) ==
  IF j.left > 0 THEN SweepStep(j, d)
  ELSE IF Fired(d) \/ ~j.cmd.action THEN j ELSE MoveStep(j)

\* deliver_gripper_data: a real frame overwrites command and sweep, a poll
\* neither; either feeds the watchdog and is answered.
OnFrame(j, frame) ==
  CASE frame = [kind |-> "calibrate"] ->
         [j EXCEPT !.calibrated = FALSE, !.left = Sweep, !.cmd = NoCmd, !.latched = FALSE]
    [] frame = [kind |-> "poll"] -> j
    [] OTHER -> [j EXCEPT !.cmd = frame, !.left = 0, !.latched = j.latched /\ frame = j.cmd]

\* firmware_reply: the code of the last cycle, the echo of the command.
Answer(j, d) ==
  [pos |-> j.pos, code |-> j.code, calibrated |-> j.calibrated,
   action |-> j.cmd.action /\ j.left = 0, fault |-> d.timeout, judged |-> j.judged]

\* One tick: the gripper steps, one command is applied to what is known of it,
\* the answer to the last frame is drained, the gate's frame goes out.
Tick(lostFrame, lostReply) ==
  LET d == Aged(drive)
      stepped == FirmwareStep(jaw, d)
      r == IF rx # <<>> /\ ~lostReply THEN rx[1] ELSE reply
      heard == reply # NoReply \/ r # NoReply
      a == IF queue = <<>> THEN Applied(gate, settle, pending)
           ELSE ApplyGripper(Head(queue), gate, settle, reply, pending)
      g == IF a.pending THEN Sends([kind |-> "calibrate"], [standing |-> NoCmd, repeats |-> 0])
           ELSE GateTick(a.gate, r.calibrated)
  IN  /\ losses + (IF lostFrame THEN 1 ELSE 0) + (IF lostReply THEN 1 ELSE 0) <= MaxLosses
      /\ lostReply => rx # <<>>
      /\ losses' = losses + (IF lostFrame THEN 1 ELSE 0) + (IF lostReply THEN 1 ELSE 0)
      /\ queue' = IF queue = <<>> THEN queue ELSE Tail(queue)
      /\ reply' = r /\ gate' = g.gate /\ pending' = FALSE
      /\ settle' = SettleTick(a.settle, r, heard)
      /\ IF lostFrame
         THEN jaw' = stepped /\ drive' = d /\ rx' = <<>>
         ELSE /\ jaw' = OnFrame(stepped, g.frame) /\ drive' = [d EXCEPT !.since = 0]
              /\ rx' = <<Answer(jaw', d)>>
      /\ UNCHANGED <<plan, actions, done>>

\* begin_clear: a fault the watchdog raised is cleared on request.
ClearError ==
  /\ drive.timeout /\ drive' = [drive EXCEPT !.timeout = FALSE]
  /\ UNCHANGED <<plan, queue, gate, settle, pending, reply, rx, jaw, actions, losses, done>>

Next ==
  \/ \E k \in {"move", "calibrate", "stop", "idle"}, t \in Bytes \cup {-1} : StartAction(k, t)
  \/ PollAction \/ CancelAction
  \/ \E lostFrame, lostReply \in BOOLEAN : Tick(lostFrame, lostReply)
  \/ ClearError

Spec == Init /\ [][Next]_vars

----------------------------------------------------------------------------
(* A move the planner reports as settled was judged by the gripper against its
   own target: no code the jaws latched for the action before it, and no
   verdict on another action's arm, completes it. *)
SettledOnOwnTarget == done.on = done.target

(* A release is repeated so that a lost frame cannot strand the jaws holding:
   once the gate polls again after fewer losses than repeats, the firmware's
   action bit is down. *)
ReleaseReaches ==
  (gate.repeats = 0 /\ gate.standing.live /\ ~gate.standing.action /\ losses < Repeats)
     => ~jaw.cmd.action
=============================================================================
