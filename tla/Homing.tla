-------------------------------- MODULE Homing --------------------------------
(***************************************************************************)
(* The homing subsystem (par6-rt homing.rs) with its caller in core.rs:    *)
(* the scripted sequence of steps, the per-actuator FSM that seeks one     *)
(* endstop, the current limits a seek runs under, and the verdict the core *)
(* draws from it (`homed`).                                                *)
(*                                                                         *)
(* One action is one HOMING tick of the RT loop.  What the tick reads of   *)
(* each node is a choice: no position at all (blind), a moving joint       *)
(* (free), one pressed on its stop (stop), one stalled somewhere else      *)
(* (slip), one at its commanded target (there); a node that has ever       *)
(* answered is never blind again.  A hall joint is on its sensor's band or *)
(* off it, a forward drive may take it on, a reverse one off; its node     *)
(* answers the frame of the tick before, or the answer is lost, at most    *)
(* MaxLost in a row.  Profiles (hermite), speeds and currents are left     *)
(* out: of a command only what it does to the joint is kept.               *)
(***************************************************************************)
EXTENDS Integers, Sequences, FiniteSets, FiniteSetsExt, Functions

CONSTANTS Joints,       \* the arm's joints
          Gripper,      \* the gripper's slot; Gripper \notin Joints
          GripperMode,  \* "motor", "firmware", or "none" (no CAN gripper)
          HallJoints,   \* strategy = Hall, the others are Stall
          TwoPass, Releases, Posts,  \* two_pass, release, post_home of a joint
          Steps,        \* sequence of [pre, home, moveTo, post]
          GlobalPost,   \* the trailing moves
          Timeout, Backoff, Ramp, Dwell, Pause, SettleTicks, Preclear, StallTicks,
          Guard, ReleaseHold, ReleaseSample, PostTicks, Streak, PrePost,
          MoveTicks, MoveToExtra, CalTimeout, CalMinWait, CheckTicks, Slack,
          MaxLost,      \* cmd-32 answers lost in a row, at most
          MaxRuns       \* bound: sequences started

Actuators == Joints \cup {Gripper}
Stalls == Actuators \ HallJoints

\* JointHoming::validate: seeks and releases take time; a hall joint has no release.
\* That a second pass may not differ by the whole backoff is the choice of "slip" as a
\* place of its own.
ValidJoint(j) ==
  /\ Timeout > 0 /\ Backoff >= 0
  /\ j \in Releases => j \notin HallJoints /\ ReleaseHold > 0
  /\ j \in Posts => PostTicks > 0

\* validate_moves.
ValidMoves(ms) ==
  \A m \in ms :
    /\ MoveTicks > 0 /\ m.kind \in {"idle", "nudge", "position", "gripper"}
    /\ m.on \in (IF m.kind = "gripper" THEN {Gripper} ELSE Joints)

\* HomingConfig::validate: no step is empty, and the sequence homes every joint.
Validate ==
  /\ \A j \in Joints : ValidJoint(j)
  /\ \A i \in DOMAIN Steps :
       LET s == Steps[i] IN
       /\ s.pre # {} \/ s.home # {} \/ s.moveTo # {} \/ s.post # {}
       /\ ValidMoves(s.pre) /\ ValidMoves(s.post)
       /\ s.home \subseteq Actuators /\ s.moveTo \subseteq Joints
  /\ Joints \subseteq UNION {Steps[i].home : i \in DOMAIN Steps}
  /\ ValidMoves(GlobalPost)

VARIABLES run,      \* active, elapsed, step, part, checkLeft; count of starts
          homers,   \* the FSM of each actuator
          statuses, \* HomingJointStatus of each
          seeking,  \* seeking_limits
          limit,    \* what limit the drive was last sent: "normal" or "seek"
          moves,    \* the moves of the part that is running
          cal,      \* the firmware calibration: "none" or a record
          hall,     \* the node's cached cmd-32 answer
          band,     \* the joint on its band, the leg that crossed onto it, answers lost
          known,    \* the actuators whose position was ever read
          sent,     \* what the last tick sent: kind of command, and the leg
          homed,    \* RtCore::homed
          ref,      \* history: how each actuator's reference was obtained
          cut       \* history: the whole-sequence deadline fired

vars == <<run, homers, statuses, seeking, limit, moves, cal, hall, band, known, sent, homed, ref, cut>>

NoHall == [on |-> FALSE, leg |-> 0, edge |-> FALSE]   \* leg 0: no answer (hall = None)
NoCmd == [kind |-> "idle", leg |-> 0]

FreshHomer == [phase |-> "Finished", elapsed |-> 0, pass |-> 1, hits |-> <<"none", "none">>,
               latched |-> "none", clear |-> FALSE, spent |-> 0, still |-> 0, at |-> "none",
               started |-> FALSE, postElapsed |-> 0, streak |-> 0, leg |-> 0]

-----------------------------------------------------------------------------
(* The per-actuator FSM: Homer::tick and its helpers. *)

\* Homer::start; a leg is one approach or pre-clear, numbered for the history.
StartHomer(h) == [FreshHomer EXCEPT !.phase = "Approach", !.leg = h.leg + 1]

Running(h) == h.phase \notin {"Finished", "Failed"}

\* A tick's result: the FSM, the command it sends, the node's hall cache and
\* the event it reports.
Result(h, cmd, hc, event) == [h |-> h, cmd |-> [kind |-> cmd, leg |-> h.leg], hall |-> hc, event |-> event]

FailHomer(h, hc) == Result([h EXCEPT !.phase = "Failed"], "idle", hc, "failed")

\* detect_stall: the plateau must last StallTicks ticks at one place, with the
\* current behind it, past the start-up guard.  A blind tick keeps the window.
DetectStall(h, read) ==
  IF read = "blind" THEN [still |-> h.still, at |-> h.at, hit |-> FALSE]
  ELSE IF read \notin {"stop", "slip"} \/ read # h.at
       THEN [still |-> 0, at |-> read, hit |-> FALSE]
       ELSE [still |-> h.still + 1, at |-> read,
             hit |-> h.still + 1 >= StallTicks /\ h.elapsed > Guard]

Brake(h, hc) ==
  LET e == h.elapsed + 1 IN
  Result(IF e >= Ramp THEN [h EXCEPT !.phase = "Settle", !.elapsed = 0] ELSE [h EXCEPT !.elapsed = e],
         "brake", hc, "none")

DwellTick(h, hc) ==
  LET e == h.elapsed + 1 IN
  Result(IF e >= Dwell THEN [h EXCEPT !.phase = "Backoff", !.elapsed = 0] ELSE [h EXCEPT !.elapsed = e],
         "idle", hc, "none")

\* Ramped at both ends: one ramp past the configured time.
BackoffTick(h, hc) ==
  LET e == h.elapsed + 1
      ramp == Max({1, Min({Ramp, Backoff})})
  IN  Result(IF e >= Backoff + ramp THEN [h EXCEPT !.phase = "Pause", !.elapsed = 0]
                                    ELSE [h EXCEPT !.elapsed = e],
             "reverse", hc, "none")

PauseTick(h, hc) ==
  LET e == h.elapsed + 1 IN
  Result(IF e >= Pause
         THEN [h EXCEPT !.phase = "Approach", !.elapsed = 0, !.pass = 2, !.still = 0,
                        !.at = "none", !.leg = @ + 1]
         ELSE [h EXCEPT !.elapsed = e],
         "idle", hc, "none")

\* Ramp in, hold, ramp out; the reference is sampled inside the hold.
ReleaseTick(h, read, hc) ==
  LET e == h.elapsed + 1
      l == IF e = Ramp + ReleaseSample /\ read # "blind" THEN h.at ELSE h.latched
  IN  Result(IF e >= 2 * Ramp + ReleaseHold
             THEN [h EXCEPT !.phase = "Settle", !.elapsed = 0, !.latched = l]
             ELSE [h EXCEPT !.elapsed = e, !.latched = l],
             "current", hc, "none")

\* A position that is never valid within twice the settle time fails; so does
\* a second pass that stalled elsewhere than the first.
SettleTick(h, j, read, hc) ==
  LET e == h.elapsed + 1
      l == IF h.latched = "none" /\ read # "blind" THEN h.at ELSE h.latched
      g == [h EXCEPT !.elapsed = e, !.latched = l]
  IN  IF e < SettleTicks \/ (l = "none" /\ e < 2 * SettleTicks)
      THEN Result(g, "idle", hc, "none")
      ELSE IF l = "none" \/ (j \in TwoPass /\ h.hits[1] # h.hits[2])
      THEN FailHomer(g, hc)
      ELSE Result([g EXCEPT !.phase = IF j \in Posts THEN "PostMove" ELSE "Finished",
                            !.elapsed = 0],
                  "idle", hc, "reference")

\* The profile starts on the first tick with a position; arrival is a streak
\* of ticks at the target once the profile has run out.
PostMoveTick(h, read, hc) ==
  LET s == h.started \/ read # "blind"
      pe == IF s THEN Min({h.postElapsed + 1, PostTicks}) ELSE 0
      dur == IF s THEN PostTicks ELSE 0
      k == IF read = "there" THEN Min({h.streak + 1, Streak}) ELSE 0
      g == [h EXCEPT !.elapsed = @ + 1, !.started = s, !.postElapsed = pe, !.streak = k]
      cmd == IF s THEN "position" ELSE "idle"
  IN  IF pe >= dur /\ k >= Streak THEN Result([g EXCEPT !.phase = "Finished"], cmd, hc, "none")
      ELSE IF g.elapsed > dur + PrePost THEN FailHomer(g, hc)
      ELSE Result(g, cmd, hc, "none")

\* A hit ends the approach: the tick is the first of the phase that follows.
\* A hall hit latches the position it was read at.
HitTick(h, j, read, hc) ==
  IF j \in HallJoints
  THEN Brake([h EXCEPT !.phase = "Brake", !.elapsed = 0,
                       !.latched = IF hc.edge THEN "edge" ELSE "inside"], hc)
  ELSE LET g == [h EXCEPT !.hits = [@ EXCEPT ![h.pass] = read], !.elapsed = 0] IN
       IF h.pass = 1 /\ j \in TwoPass THEN DwellTick([g EXCEPT !.phase = "Dwell"], hc)
       ELSE IF j \in Releases THEN ReleaseTick([g EXCEPT !.phase = "Release"], read, hc)
       ELSE SettleTick([g EXCEPT !.phase = "Settle"], j, read, hc)

\* Only an answer this approach asked for is evidence: the cache is dropped on
\* its first tick.
OwnAnswers(hc, first) == IF first THEN NoHall ELSE hc

\* Mutant of Spent: a pre-clear gives its time back.
SpentForgotten(h) == 0

\* The per-joint timeout bounds approaches and pre-clears together.
Spent(h) == h.spent + h.elapsed

\* Mutant of BeganOnBand: an early trigger is trusted.
EarlyTriggerTrusted(h) == FALSE

\* The pre-clear guard: a trigger right at the start means the joint began on
\* the sensor, unless a pre-clear has seen it off.
BeganOnBand(h) == h.elapsed <= Preclear /\ ~h.clear

ApproachTick(h, j, read, hc) ==
  LET e == [h EXCEPT !.elapsed = @ + 1]
      c == OwnAnswers(hc, e.elapsed = 1)
      d == DetectStall(e, read)
      g == IF j \in HallJoints THEN e ELSE [e EXCEPT !.still = d.still, !.at = d.at]
      hit == IF j \in HallJoints THEN c.leg # 0 /\ c.on ELSE d.hit
      cmd == IF j \in HallJoints THEN "hall" ELSE "push"
  IN  IF e.spent + e.elapsed > Timeout THEN FailHomer(e, hc)
      ELSE IF ~hit THEN Result(g, cmd, c, "none")
      ELSE IF j \in HallJoints /\ BeganOnBand(e)
      THEN Result([g EXCEPT !.phase = "Preclear", !.spent = Spent(e), !.elapsed = 0,
                            !.leg = @ + 1],
                  "idle", NoHall, "none")
      ELSE HitTick(g, j, read, c)

\* Reversing until the sensor reads clear.
PreclearTick(h, hc) ==
  LET e == [h EXCEPT !.elapsed = @ + 1] IN
  IF e.spent + e.elapsed > Timeout THEN FailHomer(e, hc)
  ELSE IF hc.leg # 0 /\ ~hc.on
  THEN Result([e EXCEPT !.phase = "Approach", !.spent = Spent(e), !.elapsed = 0, !.clear = TRUE,
                        !.still = 0, !.at = "none", !.leg = @ + 1],
              "idle", hc, "none")
  ELSE Result(e, "reverseHall", hc, "none")

HomerTick(h, j, read, hc) ==
  CASE h.phase = "Approach" -> ApproachTick(h, j, read, hc)
    [] h.phase = "Preclear" -> PreclearTick(h, hc)
    [] h.phase = "Brake" -> Brake(h, hc)
    [] h.phase = "Dwell" -> DwellTick(h, hc)
    [] h.phase = "Backoff" -> BackoffTick(h, hc)
    [] h.phase = "Pause" -> PauseTick(h, hc)
    [] h.phase = "Release" -> ReleaseTick(h, read, hc)
    [] h.phase = "Settle" -> SettleTick(h, j, read, hc)
    [] h.phase = "PostMove" -> PostMoveTick(h, read, hc)
    [] OTHER -> Result(h, "idle", hc, "none")

-----------------------------------------------------------------------------
(* The orchestrator: HomingSystem. *)

\* for_tool: a tool without a CAN driver runs the sequence without its gripper
\* work.
Home(i) == IF GripperMode = "none" THEN Steps[i].home \ {Gripper} ELSE Steps[i].home
GripperFree(ms) == IF GripperMode = "none" THEN {m \in ms : m.on # Gripper} ELSE ms

FreshMove == [elapsed |-> 0, started |-> FALSE, streak |-> 0, done |-> FALSE]
Fresh(ms) == [m \in GripperFree(ms) |-> FreshMove]

\* plan_sequence: the parts of each step; the moves of a part of step i, reset when the step (or the trailing part)
\* begins, and untouched until the part runs.
MovesOf(i, part) ==
  CASE part = "Pre" -> Fresh(Steps[i].pre)
    [] part = "MoveTo" -> Fresh({[kind |-> "moveTo", on |-> j] : j \in Steps[i].moveTo})
    [] part = "Post" -> Fresh(Steps[i].post)
    [] part = "GlobalPost" -> Fresh(GlobalPost)
    [] OTHER -> <<>>

\* tick_move_to: there for a streak of ticks, from a known start.
MoveToArrived(started, streak) == started /\ streak >= Streak

\* tick_move: a position move needs a start position and ends at its target; a
\* move fails past its allowance.
MoveTick(m, s, read) ==
  LET e == s.elapsed + 1
      st == s.started \/ (m.kind \in {"position", "moveTo"} /\ read # "blind")
      k == IF read = "there" THEN Min({s.streak + 1, Streak}) ELSE 0
      there == CASE m.kind = "position" -> st /\ read = "there"
                 [] m.kind = "moveTo" -> MoveToArrived(st, k)
                 [] OTHER -> TRUE
  IN  IF s.done THEN s
      ELSE [elapsed |-> e, started |-> st, streak |-> k, done |-> e >= MoveTicks /\ there]

Expired(m, s) ==
  /\ ~s.done
  /\ CASE m.kind = "position" -> s.elapsed > MoveTicks + PrePost
       [] m.kind = "moveTo" -> s.elapsed > MoveTicks + MoveToExtra
       [] OTHER -> FALSE

\* sequence_budget_ticks.
HomerBudget(j) ==
  Timeout + Backoff + 4 * Ramp + Dwell + Pause + SettleTicks
    + (IF j \in Releases THEN ReleaseHold ELSE 0) + (IF j \in Posts THEN PostTicks ELSE 0) + PrePost
MovesBudget(ms) == Cardinality(GripperFree(ms)) * (MoveTicks + PrePost)
GripperBudget == IF GripperMode = "firmware" THEN CalTimeout ELSE HomerBudget(Gripper)
StepBudget(i) ==
  MovesBudget(Steps[i].pre) + MovesBudget(Steps[i].post)
    + Cardinality(Steps[i].moveTo) * (MoveTicks + MoveToExtra)
    + Max({HomerBudget(j) : j \in Home(i) \cap Joints}
            \cup (IF Gripper \in Home(i) THEN {GripperBudget} ELSE {0}))
SequenceBudget ==
  FoldFunction(+, MovesBudget(GlobalPost) + CheckTicks + Slack, [i \in DOMAIN Steps |-> StepBudget(i)])

\* apply_phase_limits: who needs the reduced limit in the part that runs.
\* Nodes without homing parameters (a firmware gripper) have no limit frames.
Limited == Joints \cup (IF GripperMode = "motor" THEN {Gripper} ELSE {})

Wanted ==
  LET moving == {m.on : m \in {n \in DOMAIN moves : ~moves[n].done /\ n.kind \in {"nudge", "position", "moveTo"}}}
      group == IF run.part \in {"HomeStart", "Home"} THEN Home(run.step) ELSE moving
  IN  [i \in Limited |-> i \in group /\ statuses[i] # "Done"]

\* Mutant of ApplyLimits: the limit frame is sent only when a seek begins.
ApplyLimitsUp(want) == [i \in Limited |-> IF want[i] /\ ~seeking[i] THEN "seek" ELSE limit[i]]

ApplyLimits(want) ==
  [i \in Limited |-> IF want[i] # seeking[i] THEN (IF want[i] THEN "seek" ELSE "normal") ELSE limit[i]]

\* restore_all, config_repush: every node's stored configuration is resent.
Restored == [i \in Limited |-> "normal"]

IdleCommands == [i \in Actuators |-> NoCmd]
Readings == {"blind", "free", "stop", "slip", "there"}

Init ==
  /\ run = [active |-> FALSE, elapsed |-> 0, step |-> 1, part |-> "Pre", checkLeft |-> 0, count |-> 0]
  /\ homers = [i \in Actuators |-> FreshHomer]
  /\ statuses = [i \in Actuators |-> "Idle"]
  /\ seeking = [i \in Limited |-> FALSE] /\ limit = Restored
  /\ moves = <<>> /\ cal = [sent |-> FALSE, elapsed |-> 0, failed |-> FALSE, on |-> FALSE]
  /\ hall = [i \in HallJoints |-> NoHall] /\ sent = IdleCommands /\ known = {}
  /\ band \in [HallJoints -> [on : BOOLEAN, crossed : {0}, lost : {0}]]
  /\ homed = FALSE /\ ref = [j \in Joints |-> [run |-> 0, at |-> "none"]] /\ cut = FALSE

\* HomingSystem::start from enter_mode(HOMING).
Start ==
  /\ ~run.active /\ run.count < MaxRuns
  /\ run' = [active |-> TRUE, elapsed |-> 0, step |-> 1, part |-> "Pre",
             checkLeft |-> CheckTicks, count |-> run.count + 1]
  /\ homers' = [i \in Actuators |-> [FreshHomer EXCEPT !.leg = homers[i].leg]]
  /\ statuses' = [i \in Actuators |-> "Idle"]
  /\ seeking' = [i \in Limited |-> FALSE] /\ limit' = Restored
  /\ moves' = MovesOf(1, "Pre")
  /\ cal' = [sent |-> FALSE, elapsed |-> 0, failed |-> FALSE, on |-> FALSE]
  /\ homed' = FALSE /\ sent' = IdleCommands
  /\ band' \in [HallJoints -> [on : BOOLEAN, crossed : {0}, lost : {0}]]  \* moved since
  /\ UNCHANGED <<hall, known, ref, cut>>

\* abort: a hard error or a mode exit.
Abort ==
  /\ run.active
  /\ run' = [run EXCEPT !.active = FALSE]
  /\ statuses' = [i \in Actuators |-> "Idle"] /\ cal' = [cal EXCEPT !.on = FALSE]
  /\ limit' = Restored /\ homed' = FALSE /\ sent' = IdleCommands
  /\ UNCHANGED <<homers, seeking, moves, hall, band, known, ref, cut>>

\* HomingSystem::fail and the core's Failed arm.
EndFailed ==
  /\ run' = [run EXCEPT !.active = FALSE]
  /\ limit' = Restored /\ sent' = IdleCommands /\ homed' = FALSE

\* status: the current limit published for a drive.
EffectiveLimit(i) == IF run.active /\ seeking[i] THEN "seek" ELSE "normal"

\* The whole-sequence deadline: every running actuator is failed.
Expire(late) ==
  /\ late
  /\ LET still == {i \in Actuators : statuses[i] = "Running"} IN
       /\ homers' = [i \in Actuators |-> IF i \in still THEN [homers[i] EXCEPT !.phase = "Failed"] ELSE homers[i]]
       /\ statuses' = [i \in Actuators |-> IF i \in still THEN "Failed" ELSE statuses[i]]
  /\ EndFailed
  /\ cut' = TRUE
  /\ UNCHANGED <<seeking, moves, cal, hall, band, known, ref>>

\* The tick's prelude: the limits are brought to the part's needs before any
\* command is computed.
Limits == /\ seeking' = Wanted /\ limit' = ApplyLimits(Wanted)

NextPart(p) == IF p = "Pre" THEN "HomeStart" ELSE IF p = "MoveTo" THEN "Post" ELSE "Pre"

\* Pre, MoveTo and Post: the part's moves tick in parallel; one that runs out
\* of time fails the sequence, and the part ends when all are done.
MovePart(read) ==
  /\ run.part \in {"Pre", "MoveTo", "Post"}
  /\ LET after == [m \in DOMAIN moves |-> MoveTick(m, moves[m], read[m.on])]
         lost == {m.on : m \in {n \in DOMAIN moves : Expired(n, after[n])}}
         done == \A m \in DOMAIN after : after[m].done
         last == run.part = "Post" /\ run.step = Len(Steps)
         step == IF run.part = "Post" THEN run.step + 1 ELSE run.step
         part == IF last THEN "GlobalPost" ELSE NextPart(run.part)
     IN  /\ statuses' = [i \in Actuators |-> IF i \in lost THEN "Failed" ELSE statuses[i]]
         /\ IF lost # {}
            THEN /\ EndFailed /\ moves' = after /\ UNCHANGED seeking
            ELSE /\ Limits /\ UNCHANGED homed
                 /\ sent' = [i \in Actuators |->
                       IF \E m \in DOMAIN moves : m.on = i /\ ~moves[m].done
                       THEN [kind |-> (CHOOSE m \in DOMAIN moves : m.on = i /\ ~moves[m].done).kind, leg |-> 0]
                       ELSE NoCmd]
                 /\ IF done
                    THEN /\ run' = [run EXCEPT !.elapsed = @ + 1, !.part = part, !.step = step]
                         /\ moves' = MovesOf(step, part)
                    ELSE /\ run' = [run EXCEPT !.elapsed = @ + 1]
                         /\ moves' = after
  /\ UNCHANGED <<homers, cal, hall, ref, cut>>

\* HomeStart: the group's FSMs start; the calibration is armed.
HomeStart ==
  /\ run.part = "HomeStart" /\ Limits
  /\ LET group == Home(run.step)
         driven == group \ (IF GripperMode = "firmware" THEN {Gripper} ELSE {})
     IN  /\ homers' = [i \in Actuators |-> IF i \in driven THEN StartHomer(homers[i]) ELSE homers[i]]
         /\ statuses' = [i \in Actuators |-> IF i \in group THEN "Running" ELSE statuses[i]]
         /\ cal' = IF Gripper \in group \ driven THEN [cal EXCEPT !.sent = FALSE, !.elapsed = 0, !.on = TRUE] ELSE cal
  /\ run' = [run EXCEPT !.elapsed = @ + 1, !.part = "Home"]
  /\ sent' = IdleCommands
  /\ UNCHANGED <<moves, hall, homed, ref, cut>>

\* The firmware calibration: one cmd-62, then polls; the calibrated bit may be
\* a leftover, so it counts after the minimum wait only.
CalTick(bit) ==
  LET e == cal.elapsed + 1 IN
  IF ~cal.on THEN [cal |-> cal, done |-> FALSE]
  ELSE IF ~cal.sent THEN [cal |-> [cal EXCEPT !.sent = TRUE, !.elapsed = e], done |-> FALSE]
  ELSE IF e >= CalMinWait /\ bit
  THEN [cal |-> [cal EXCEPT !.on = FALSE, !.elapsed = e], done |-> TRUE]
  ELSE IF e >= CalTimeout
  THEN [cal |-> [cal EXCEPT !.on = FALSE, !.elapsed = e, !.failed = TRUE], done |-> FALSE]
  ELSE [cal |-> [cal EXCEPT !.elapsed = e], done |-> FALSE]

\* tick_home: every running FSM of the group ticks; a reference restores the
\* joint's normal limits at once, a failure fails the sequence.
HomePart(read, bit, cached) ==
  /\ run.part = "Home"
  /\ LET group == {i \in Home(run.step) : Running(homers[i])}
         res == [i \in group |-> HomerTick(homers[i], i, read[i],
                                           IF i \in HallJoints THEN cached[i] ELSE NoHall)]
         refs == {i \in group : res[i].event = "reference"}
         lost == {i \in group : res[i].event = "failed"}
         c == CalTick(bit)
         h == [i \in Actuators |-> IF i \in group THEN res[i].h ELSE homers[i]]
         done == /\ \A i \in Home(run.step) : ~Running(h[i])
                 /\ ~c.cal.on
     IN  /\ homers' = h /\ cal' = c.cal
         /\ hall' = [i \in HallJoints |-> IF i \in group THEN res[i].hall ELSE cached[i]]
         /\ statuses' = [i \in Actuators |->
               IF i \in refs \/ (i = Gripper /\ cal.on /\ c.done) THEN "Done"
               ELSE IF i \in lost \/ (i = Gripper /\ cal.on /\ c.cal.failed) THEN "Failed"
               ELSE statuses[i]]
         /\ ref' = [j \in Joints |-> IF j \in refs THEN [run |-> run.count, at |-> res[j].h.latched]
                                     ELSE ref[j]]
         /\ IF lost # {} \/ (cal.on /\ c.cal.failed)
            THEN EndFailed /\ UNCHANGED seeking
            ELSE /\ seeking' = [i \in Limited |-> Wanted[i] /\ i \notin refs]
                 /\ limit' = [i \in Limited |-> IF i \in refs THEN "normal" ELSE ApplyLimits(Wanted)[i]]
                 /\ sent' = [i \in Actuators |-> IF i \in group THEN res[i].cmd ELSE NoCmd]
                 /\ run' = [run EXCEPT !.elapsed = @ + 1, !.part = IF done THEN "MoveTo" ELSE @]
                 /\ UNCHANGED homed
         /\ moves' = IF done THEN MovesOf(run.step, "MoveTo") ELSE moves
  /\ UNCHANGED cut

\* check_reference: a joint whose mean holding residual at the ready pose is
\* beyond its bound has its reference refused.
CheckReference(refused) == [i \in Actuators |-> IF i \in refused THEN "Failed" ELSE statuses[i]]

\* tick_global_post: the trailing moves, the hold under which the reference is
\* checked, then the verdict: homed when every joint was referenced and the
\* core's check_reference refused none.
GlobalPostPart(read, refused) ==
  /\ run.part = "GlobalPost"
  /\ LET after == [m \in DOMAIN moves |-> MoveTick(m, moves[m], read[m.on])]
         lost == {m.on : m \in {n \in DOMAIN moves : Expired(n, after[n])}}
         done == \A m \in DOMAIN after : after[m].done
         verdict == CheckReference(refused)
     IN  /\ moves' = after
         /\ \/ /\ lost # {}
               /\ EndFailed /\ UNCHANGED seeking
               /\ statuses' = [i \in Actuators |-> IF i \in lost THEN "Failed" ELSE statuses[i]]
            \/ /\ lost = {} /\ (~done \/ run.checkLeft > 0)
               /\ Limits /\ sent' = IdleCommands /\ UNCHANGED <<statuses, homed>>
               /\ run' = [run EXCEPT !.elapsed = @ + 1, !.checkLeft = IF done THEN @ - 1 ELSE @]
            \/ /\ lost = {} /\ done /\ run.checkLeft <= 0
               /\ statuses' = verdict
               /\ homed' = (\A j \in Joints : verdict[j] = "Done")
               /\ run' = [run EXCEPT !.active = FALSE, !.elapsed = @ + 1]
               /\ seeking' = Wanted /\ limit' = Restored /\ sent' = IdleCommands
  /\ UNCHANGED <<homers, cal, hall, ref, cut>>

Watched == CASE run.part = "Home" -> {i \in Home(run.step) : Running(homers[i])}
             [] run.part = "HomeStart" -> {}
             [] OTHER -> {m.on : m \in DOMAIN moves}

\* Who was sent a cmd-31 frame last tick, and whether it can cross the band's
\* edge: forward onto it, reverse off it.
Asked == {i \in HallJoints : sent[i].kind \in {"hall", "reverseHall"}}
Crosses(i) == band[i].on <=> sent[i].kind = "reverseHall"

\* What the tick finds: the readings, the joint on its band or off it and the leg that
\* crossed onto it, the answers.
Reads(r) == [i \in Actuators |-> IF i \in Watched THEN r[i] ELSE "free"]
OnBand(i, moved) == IF i \in moved THEN ~band[i].on ELSE band[i].on
CrossedBy(i, moved) == IF i \in moved /\ OnBand(i, moved) THEN sent[i].leg ELSE band[i].crossed
Answers(answered, moved) ==
  [i \in HallJoints |->
     IF i \in answered
     THEN [on |-> OnBand(i, moved), leg |-> sent[i].leg, edge |-> CrossedBy(i, moved) = sent[i].leg]
     ELSE hall[i]]

Senses(r, answered, moved) ==
  /\ \A i \in Asked \ answered : band[i].lost < MaxLost
  /\ \A i \in Watched : r[i] = "blind" => i \notin known \cup answered
  /\ known' = known \cup answered \cup {i \in Watched : r[i] # "blind"}
  /\ band' = [i \in HallJoints |->
                [on |-> OnBand(i, moved), crossed |-> CrossedBy(i, moved),
                 lost |-> IF i \in Asked \ answered THEN band[i].lost + 1 ELSE 0]]

\* The part that is running; a choice no part looks at is made once.
RunPart(read, bit, refused, answered, cached) ==
  \/ bit /\ refused = {} /\ answered = {} /\ MovePart(read)
  \/ bit /\ refused = {} /\ answered = {} /\ HomeStart
  \/ refused = {} /\ (cal.on \/ bit) /\ HomePart(read, bit, cached)
  \/ bit /\ answered = {} /\ (CheckTicks > 0 \/ refused = {}) /\ GlobalPostPart(read, refused)

\* One HOMING tick.
Tick ==
  /\ run.active
  /\ \/ Expire(run.elapsed + 1 >= SequenceBudget)
     \/ /\ run.elapsed + 1 < SequenceBudget
        /\ \E r \in [Watched -> Readings], bit \in BOOLEAN, refused \in SUBSET Joints,
              answered \in SUBSET Asked, moved \in SUBSET {i \in Asked : Crosses(i)} :
             /\ Senses(r, answered, moved)
             /\ RunPart(Reads(r), bit, refused, answered, Answers(answered, moved))

Next == Start \/ Abort \/ Tick

Spec == Init /\ [][Next]_vars

-----------------------------------------------------------------------------
(* Properties. *)

\* The arm is reported homed only when every joint was referenced by this very
\* sequence, and a hall joint at the edge of its band: one that began on the
\* sensor, or whose trigger is an answer left by an earlier approach, is never
\* latched where it happens to be.
HomedOnOwnEvidence ==
  homed => \A j \in Joints : ref[j].run = run.count /\ (j \in HallJoints => ref[j].at = "edge")

\* The drive pushes towards a stop, or moves an axis that has no reference yet,
\* only under the seeking limit; outside a sequence every drive has its normal
\* limit back, however the sequence ended; and what the status publishes
\* (EffectiveLimit) is what the drive was sent.
SeekUnderLimit ==
  /\ \A i \in Limited :
       sent[i].kind \in {"push", "hall", "reverse", "reverseHall", "nudge", "moveTo"}
         => limit[i] = "seek" \/ statuses[i] = "Done"
  /\ ~run.active => limit = Restored
  /\ run.active => \A i \in Limited : EffectiveLimit(i) = limit[i]

\* The whole-sequence deadline is a backstop: it cuts no joint that is inside
\* its own bounds, except in a second pass, which has a seek budget of its own
\* that sequence_budget_ticks does not count.
DeadlineIsBackstop ==
  cut => \E i \in Actuators : homers[i].pass = 2

\* What the comment on SEQUENCE_SLACK_S says: a part that times out reports its
\* own failure rather than the deadline's.
PartsReportThemselves == ~cut

\* A joint that is sought blind is pushed gently and for a bounded time: the limit
\* apply_phase_limits sent, and the budget sequence_budget_ticks gave, hold on every path out of
\* the sequence.
SeekIsBounded == SeekUnderLimit /\ DeadlineIsBackstop
=============================================================================
