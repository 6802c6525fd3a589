-------------------------------- MODULE RtCore --------------------------------
(***************************************************************************)
(* The real-time core's mode machine (par6-rt core.rs, errors.rs): one     *)
(* thread, one tick at a time, each tick in four steps:                    *)
(*                                                                         *)
(*   ReadInputs   phases 2-4: e-stop line, boot one-shots                  *)
(*   <command>    phase 5: at most one external command                    *)
(*   CheckErrors  phases 6-7: measurements, latches, reactions             *)
(*   Dispatch     phases 8-10: the mode's law, the clear countdown         *)
(*                                                                         *)
(* Between the steps the planner fills the sample ring; between ticks the  *)
(* core ops (bus swap, teleport, tool change) run.  What a tick finds is a *)
(* choice: which faults it latches, whether a heartbeat or a setpoint came *)
(* (not which one: the slot's content is not modelled), when a ramp or a   *)
(* brake reaches rest, how far playback gets.  Warnings, the contents of   *)
(* the frames and the commands that touch neither mode nor latch (IO,      *)
(* payload, scale, pause, rescans, drive configuration) are left out; a    *)
(* pause is a playback that does not get on.  A CAN gripper is fitted.     *)
(***************************************************************************)
EXTENDS Integers

CONSTANTS SettleTicks,      \* clear sequence: countdown before the wipe
          StreamTimeout,    \* stream_timeout_ticks, at least 2 by construction
          HbTimeout,        \* hb_timeout_ticks
          SelfcheckTick,    \* boot_selfcheck_tick
          RecoverySettle,   \* ticks from a link cycle to the rescan
          HoldTicks         \* how long the tool hold waits for the drive's id

ASSUME RtCoreAssumption ==
         /\ SettleTicks \in Nat \ {0} /\ HbTimeout \in Nat \ {0}
         /\ StreamTimeout \in Nat /\ StreamTimeout >= 2
         /\ SelfcheckTick \in Nat \ {0} /\ RecoverySettle \in Nat \ {0}
         /\ HoldTicks \in Nat \ {0}

VARIABLES pc,       \* the tick's next step
          arm,      \* what a mode change may touch, see ArmType
          enabled,  \* state = ArmState::Enabled
          latched,  \* hard error codes in the latch
          settle,   \* settle_left of the clear sequence, 0 = not clearing
          estop,    \* hw_estop, soft_estop, estop_standing
          boot,     \* selfcheck and rescan countdowns, the tool hold
          regrip,   \* history: the jaws were commanded under this e-stop
          cut       \* history: a bus swap cut a braking stop short

vars == <<pc, arm, enabled, latched, settle, estop, boot, regrip, cut>>
history == <<regrip, cut>>

Working == {"Homing", "Jog", "Stream", "Exec"}

Modes == Working \cup {"Booting", "Idle", "ActiveError", "SafetyStop", "Flashing"}

\* The hard codes, in the classes that are treated alike: the two e-stops, what
\* phases 4 and 7 latch (lost nodes and links, drive, bus, torque, loop and
\* calibration faults), and what phase 8 latches after the tick's reactions
\* (ExecSettleTimeout, StreamFault).
Codes == {"Estop", "Fault", "Late"}

\* samples: the kinds of samples in the ring, cancelled ones ahead of live ones.
\* released is jog_released in JOG and stream_released in STREAM.
ArmType ==
  [mode : Modes, homed : BOOLEAN, silent : BOOLEAN, park : BOOLEAN,
   homing : BOOLEAN, cal_failed : BOOLEAN, jaws : {"idle", "driving", "held"},
   released : BOOLEAN, age : Nat, samples : SUBSET {"cancelled", "live"},
   stopping : BOOLEAN, settling : BOOLEAN, faulted : BOOLEAN,
   hb_silence : 0..HbTimeout]

BootType ==
  [check : 0..SelfcheckTick, rescan : 0..RecoverySettle, configured : BOOLEAN,
   recovered : BOOLEAN, hold : BOOLEAN, patience : 0..HoldTicks]

FreshBoot ==
  [check |-> SelfcheckTick, rescan |-> 0, configured |-> FALSE,
   recovered |-> FALSE, hold |-> FALSE, patience |-> 0]

Init ==
  /\ pc = "begin"
  /\ arm = [mode |-> "Booting", homed |-> FALSE, silent |-> FALSE, park |-> FALSE,
            homing |-> FALSE, cal_failed |-> FALSE, jaws |-> "idle",
            released |-> FALSE, age |-> 0, samples |-> {}, stopping |-> FALSE, settling |-> FALSE,
            faulted |-> FALSE, hb_silence |-> 0]
  /\ enabled = FALSE /\ latched = {} /\ settle = 0
  /\ estop = [hw |-> FALSE, soft |-> FALSE, standing |-> FALSE]
  /\ boot = FreshBoot
  /\ regrip = FALSE /\ cut = FALSE

Pressed(e) == e.hw \/ e.soft

-----------------------------------------------------------------------------
(* Mode changes: request_mode, enter_mode, leave_mode, rest_into_hold. *)

\* ExecPlayback::flush.
Flush(a) == [a EXCEPT !.samples = @ \ {"cancelled"}, !.settling = FALSE]

FinishStop(a) == Flush([a EXCEPT !.stopping = FALSE])

\* Mutant of LeaveMode: a stop cut short forgets its flush.
LeaveModeNoFlush(a, flashed) ==
  CASE a.mode = "Homing" /\ a.homing ->
         [a EXCEPT !.homing = FALSE, !.homed = FALSE, !.jaws = "idle", !.park = FALSE]
    [] a.mode = "Flashing" ->
         [a EXCEPT !.silent = FALSE, !.jaws = "idle", !.homed = @ /\ ~flashed, !.park = FALSE]
    [] OTHER -> [a EXCEPT !.park = FALSE]

\* leave_mode: an active homing aborts and un-homes, FLASHING ends the silence
\* (`flashed`: the window changed firmware), a braking stop is finished; any
\* transition drops the park assertion.
LeaveMode(a, flashed) ==
  LET b == CASE a.mode = "Homing" /\ a.homing ->
                  [a EXCEPT !.homing = FALSE, !.homed = FALSE, !.jaws = "idle"]
             [] a.mode = "Flashing" ->
                  [a EXCEPT !.silent = FALSE, !.jaws = "idle", !.homed = @ /\ ~flashed]
             [] a.mode = "Exec" /\ a.stopping -> FinishStop(a)
             [] OTHER -> a
  IN  [b EXCEPT !.park = FALSE]

\* What the entry hooks of JOG, STREAM and EXEC reset (activate and the flags
\* beside it).  A session's fields are read in its own mode only, so they are
\* reset on every change of mode.
NewSession(a) ==
  [a EXCEPT !.released = FALSE, !.age = 0, !.settling = FALSE, !.faulted = FALSE,
            !.hb_silence = 0]

\* ExecPlayback::activate also forgets a brake.
ActivateExec(a) == [NewSession(a) EXCEPT !.mode = "Exec", !.stopping = FALSE]

EnterMode(a, target, flashed) ==
  LET b == [NewSession(LeaveMode(a, flashed)) EXCEPT !.mode = target] IN
  CASE target = "Homing" -> [b EXCEPT !.homed = FALSE, !.homing = TRUE, !.cal_failed = FALSE]
    [] target = "Exec" -> ActivateExec(b)
    [] target = "Flashing" -> [b EXCEPT !.silent = TRUE]
    [] OTHER -> b

\* The transition table of request_mode; BOOTING and ACTIVE_ERROR are never
\* request targets.
Allowed(from, target) ==
  /\ target \notin {"Booting", "ActiveError"}
  /\ CASE from = "Idle" -> TRUE
       [] from = "ActiveError" -> target \in {"Idle", "Flashing", "SafetyStop"}
       [] from = "SafetyStop" -> target = "Idle"
       [] OTHER -> target \in {"Idle", "SafetyStop"}

\* The gates of request_mode, in its order.
Granted(a, target) ==
  CASE target \in {"Idle", "SafetyStop"} -> TRUE
    [] target = "Flashing" -> a.park
    [] OTHER -> enabled /\ latched = {} /\ (target \in {"Stream", "Exec"} => a.homed)

\* A STREAM request while STREAM brakes resumes the session; a request for the
\* current mode is otherwise a no-op, a refused one too.
Resume(a) == [a EXCEPT !.released = FALSE, !.age = 0]

RequestMode(a, target, flashed) ==
  CASE target = a.mode /\ target = "Stream" /\ a.released -> Resume(a)
    [] target # a.mode /\ Allowed(a.mode, target) /\ Granted(a, target) ->
         EnterMode(a, target, flashed)
    [] OTHER -> a

\* Mutant of RestIntoHold: the arm is held without asking whether it may be.
RestIntoHoldAlways(a, codes) == ActivateExec(LeaveMode(a, FALSE))

\* Where a jog or stream ends: EXEC's hold when the arm may be held, else IDLE.
RestIntoHold(a, codes) ==
  IF a.homed /\ enabled /\ codes = {}
  THEN ActivateExec(LeaveMode(a, FALSE))
  ELSE EnterMode(a, "Idle", FALSE)

-----------------------------------------------------------------------------
(* Phases 2-4. *)

\* Mutant of Down: the countdown is not stopped at zero.
DownUnchecked(n) == n - 1

Down(n) == IF n = 0 THEN 0 ELSE n - 1

Counted == [boot EXCEPT !.check = Down(@), !.rescan = Down(@), !.patience = Down(@)]

\* A tick on the stream's clock: tick - stream_last_rx_tick.
Aged(a) == IF a.mode = "Stream" /\ ~a.released THEN [a EXCEPT !.age = @ + 1] ELSE a

\* release_tool_hold, while a hold stands: the drive's identity is unheard, or
\* another tool's, or agrees with the fitted one.
ReleaseToolHold(b) ==
  IF ~b.hold THEN boot' = b /\ arm' = Aged(arm)
  ELSE \E drive \in {"unheard", "other", "agrees"} :
         LET waits == drive = "other" \/ (drive = "unheard" /\ b.patience > 0) IN
         IF arm.mode = "Booting" /\ waits THEN boot' = b /\ arm' = Aged(arm)
         ELSE /\ boot' = [b EXCEPT !.hold = FALSE]
              /\ arm' = IF arm.mode = "Booting" THEN RequestMode(arm, "Idle", FALSE)
                        ELSE Aged(arm)

Judged == boot.check = 1 \/ (boot.rescan = 1 /\ boot.configured)

\* The recovered link gets the whole bring-up again; judged on the next tick.
Reconfigure ==
  /\ boot.rescan = 1 /\ ~boot.configured
  /\ boot' = [Counted EXCEPT !.configured = TRUE, !.rescan = 1]
  /\ arm' = Aged(arm) /\ UNCHANGED latched

\* A bus found silent as a whole is cycled, once.
RecoverLink ==
  /\ Judged /\ ~boot.recovered
  /\ boot' = [Counted EXCEPT !.recovered = TRUE, !.rescan = RecoverySettle]
  /\ arm' = Aged(arm) /\ UNCHANGED latched

\* The selfcheck: a node that does not answer latches, and a core that is still
\* booting holds for the tool.
Selfcheck ==
  /\ Judged
  /\ latched' \in {latched, latched \cup {"Fault"}}
  /\ ReleaseToolHold(IF arm.mode = "Booting"
                     THEN [Counted EXCEPT !.rescan = 0, !.hold = TRUE, !.patience = HoldTicks]
                     ELSE [Counted EXCEPT !.rescan = 0])

NoSelfcheck ==
  /\ ~Judged /\ boot.rescan # 1
  /\ ReleaseToolHold(Counted) /\ UNCHANGED latched

ReadInputs ==
  /\ pc = "begin" /\ pc' = "command"
  /\ \E hw \in BOOLEAN : estop' = [estop EXCEPT !.hw = hw]
  /\ Reconfigure \/ RecoverLink \/ Selfcheck \/ NoSelfcheck
  /\ UNCHANGED <<enabled, settle, regrip, cut>>

-----------------------------------------------------------------------------
(* Phase 5: apply_command, one action per command. *)

Command == pc = "command" /\ pc' = "check"

NoCommand == Command /\ UNCHANGED <<arm, enabled, latched, settle, estop, boot, history>>

\* Only the drive's own tool ends the hold: SetMode(Idle) is refused under it.
SetMode(target) ==
  /\ Command
  /\ ~(target = "Idle" /\ boot.hold)
  /\ \E flashed \in BOOLEAN : arm' = RequestMode(arm, target, flashed)
  /\ cut' = (cut /\ "cancelled" \in arm'.samples)
  /\ UNCHANGED <<enabled, latched, settle, estop, boot, regrip>>

MayEnable == arm.mode # "Booting" /\ ~Pressed(estop) /\ latched = {} /\ settle = 0

Enable ==
  /\ Command /\ MayEnable
  /\ enabled' = TRUE
  /\ UNCHANGED <<arm, latched, settle, estop, boot, history>>

Disable ==
  /\ Command
  /\ enabled' = FALSE
  /\ UNCHANGED <<arm, latched, settle, estop, boot, history>>

\* begin_clear: the settle countdown starts over; the latch stands until it ends.
ClearErrors ==
  /\ Command
  /\ arm' = [arm EXCEPT !.cal_failed = FALSE]
  /\ settle' = SettleTicks
  /\ UNCHANGED <<enabled, latched, estop, boot, history>>

SetSoftEstop(on) ==
  /\ Command
  /\ estop' = [estop EXCEPT !.soft = on]
  /\ UNCHANGED <<arm, enabled, latched, settle, boot, history>>

\* The commands that change the arm record alone.
Alter(a) ==
  /\ Command
  /\ arm' = a
  /\ UNCHANGED <<enabled, latched, settle, estop, boot, regrip>>
  /\ cut' = (cut /\ "cancelled" \in arm'.samples)

AssertParked == Alter([arm EXCEPT !.park = TRUE])

Jog == arm.mode = "Jog" /\ Alter([arm EXCEPT !.released = FALSE])

JogRelease == arm.mode = "Jog" /\ Alter([arm EXCEPT !.released = TRUE])

StreamRelease == arm.mode = "Stream" /\ Alter([arm EXCEPT !.released = TRUE])

ExecFlush == Alter(Flush(arm))

\* The server marked what the ring holds before it sent the stop: those samples
\* are the cancelled ones.  EXEC brakes; HOMING aborts to IDLE; elsewhere the
\* samples go at once.
ExecStop ==
  LET a == [arm EXCEPT !.samples = IF @ = {} THEN {} ELSE {"cancelled"}] IN
  Alter(CASE a.mode = "Exec" -> [a EXCEPT !.stopping = TRUE]
          [] a.mode = "Homing" -> Flush(RequestMode(a, "Idle", FALSE))
          [] OTHER -> Flush(a))

Hold == arm.mode \in {"Jog", "Stream"} /\ Alter(RestIntoHold(arm, latched))

\* SetGravityComp(true): a program that is over hands EXEC's hold back to IDLE.
GravityComp ==
  /\ arm.mode = "Exec" /\ ~arm.faulted /\ ~arm.settling /\ arm.samples = {}
  /\ Alter(RequestMode(arm, "Idle", FALSE))

\* Gripper: a move becomes the standing command.
Gripper ==
  /\ Command
  /\ arm' = [arm EXCEPT !.jaws = "driving"]
  /\ regrip' = (regrip \/ estop.standing)
  /\ UNCHANGED <<enabled, latched, settle, estop, boot, cut>>

\* GripperStop and gripper_halt_in_place: hold at the reported byte, or let go
\* of an uncalibrated or never-commanded gripper.
GripperStop == \E jaws \in {"held", "idle"} : Alter([arm EXCEPT !.jaws = jaws])

\* GripperIdle, and GripperCalibrate, which wipes the standing command.
GripperIdle == Alter([arm EXCEPT !.jaws = "idle"])

ApplyCommand ==
  \/ NoCommand \/ (\E target \in Modes : SetMode(target))
  \/ Enable \/ Disable \/ ClearErrors \/ (\E on \in BOOLEAN : SetSoftEstop(on))
  \/ AssertParked \/ Jog \/ JogRelease \/ StreamRelease
  \/ ExecFlush \/ ExecStop \/ Hold \/ GravityComp
  \/ Gripper \/ GripperStop \/ GripperIdle

-----------------------------------------------------------------------------
(* Phases 6 and 7: check_errors. *)

ExecLinkLost(a) ==
  a.mode = "Exec" /\ a.samples # {} /\ ~a.stopping /\ a.hb_silence >= HbTimeout

\* Mutant of StreamLinkLost: the boundary tick is let through.
StreamLinkLostLate(a) == a.mode = "Stream" /\ ~a.released /\ a.age > StreamTimeout

StreamLinkLost(a) == a.mode = "Stream" /\ ~a.released /\ a.age >= StreamTimeout

\* What the e-stop, the watchdogs, homing and the measurements (`fault`) latch.
Latches(a, fault) ==
  latched
    \cup (IF Pressed(estop) THEN {"Estop"} ELSE {})
    \cup (IF fault \/ ExecLinkLost(a) \/ StreamLinkLost(a) \/ a.cal_failed
          THEN {"Fault"} ELSE {})

\* The EXEC heartbeat is consumed, or its silence counted.
Listened(a) ==
  IF a.mode # "Exec" THEN {a}
  ELSE {[a EXCEPT !.hb_silence = 0],
        [a EXCEPT !.hb_silence = IF @ < HbTimeout THEN @ + 1 ELSE @]}

\* Mutant of HaltJaws: the edge is taken from the hardware line alone.
HaltJawsHwOnly(a) ==
  IF estop.hw /\ ~estop.standing /\ a.jaws # "idle"
  THEN {[a EXCEPT !.jaws = "held"], [a EXCEPT !.jaws = "idle"]} ELSE {a}

\* The e-stop's rising edge halts a live grip where it is (an uncalibrated one
\* is let go).
HaltJaws(a) ==
  IF Pressed(estop) /\ ~estop.standing /\ a.jaws # "idle"
  THEN {[a EXCEPT !.jaws = "held"], [a EXCEPT !.jaws = "idle"]} ELSE {a}

\* What the drain measured: nothing wrong, a fault, or a node lost, which also
\* takes the reference; a silent bus loses no node.
Findings == {"clean", "fault"} \cup (IF arm.silent THEN {} ELSE {"lost"})

\* A hard error forces ACTIVE_ERROR from every mode but the protective and the
\* maintenance one; a clean latch recovers from it.
Reaction(a, codes) ==
  CASE codes # {} /\ a.mode \notin {"ActiveError", "Flashing", "SafetyStop"} ->
         EnterMode(a, "ActiveError", FALSE)
    [] codes = {} /\ a.mode = "ActiveError" -> EnterMode(a, "Idle", FALSE)
    [] OTHER -> a

CheckErrors ==
  /\ pc = "check" /\ pc' = "dispatch"
  /\ \E found \in Findings :
     \E b \in Listened([arm EXCEPT !.homed = @ /\ found # "lost"]) : \E a \in HaltJaws(b) :
       LET codes == Latches(a, found # "clean")
       IN  /\ latched' = codes
           /\ enabled' = (enabled /\ (codes = {} \/ arm.mode = "Booting"))
           /\ arm' = Reaction(a, codes)
  /\ estop' = [estop EXCEPT !.standing = Pressed(estop)]
  /\ regrip' = (regrip /\ Pressed(estop))
  /\ cut' = (cut /\ "cancelled" \in arm'.samples)
  /\ UNCHANGED <<settle, boot>>

-----------------------------------------------------------------------------
(* Phases 8 and 9: dispatch_and_send, then the clear countdown. *)

\* errors.tick: the whole latch is wiped when the countdown expires.
Wiped(codes) == IF settle = 1 THEN {} ELSE codes

Dispatched(a, late) ==
  /\ pc = "dispatch" /\ pc' = "begin"
  /\ arm' = a
  /\ latched' = Wiped(latched \cup late)
  /\ settle' = Down(settle)
  /\ cut' = (cut /\ "cancelled" \in arm'.samples)
  /\ UNCHANGED <<enabled, estop, boot, regrip>>

\* BOOTING, IDLE, ACTIVE_ERROR, SAFETY_STOP and FLASHING have a law and no state.
Steady == arm.mode \notin Working /\ Dispatched(arm, {})

\* A released jog ramps down and rests in a hold.
JogTick ==
  /\ arm.mode = "Jog"
  /\ \/ Dispatched(arm, {})
     \/ arm.released /\ Dispatched(RestIntoHold(arm, latched), {})

\* A setpoint feeds the watchdog; a releasing stream ignores it.
Intake(a) == IF a.released THEN {a} ELSE {a, [a EXCEPT !.age = 0]}

StreamTick ==
  /\ arm.mode = "Stream"
  /\ \E late \in SUBSET {"Late"}, a \in Intake(arm) :
       \/ Dispatched(a, late)
       \/ arm.released /\ Dispatched(RestIntoHold(a, latched \cup late), late)

\* The brake ends: the clock is still, nothing is left to brake along.
Braked(a) ==
  CASE ~a.stopping -> {a}
    [] a.stopping /\ (a.faulted \/ a.settling) -> {FinishStop(a)}
    [] OTHER -> {a, FinishStop(a)}

\* Playback goes on from the head of the ring, may empty it of what is at the
\* head, and may end a command, which then settles.
Plays(a) ==
  {a, [a EXCEPT !.settling = TRUE],
   [a EXCEPT !.samples = IF "cancelled" \in @ THEN @ \ {"cancelled"} ELSE {}]}

\* ExecPlayback::tick: frozen by a fault, settling, or playing.
PlayTicks(a) ==
  CASE a.faulted -> {a}
    [] ~a.faulted /\ a.settling ->
         {a, [a EXCEPT !.settling = FALSE, !.faulted = TRUE]}
           \cup Plays([a EXCEPT !.settling = FALSE])
    [] OTHER -> Plays(a)

ExecTick ==
  /\ arm.mode = "Exec"
  /\ \E b \in Braked(arm) : \E a \in PlayTicks(b) :
       Dispatched(a, IF a.faulted /\ ~b.faulted THEN {"Late"} ELSE {})

\* The homing sequence owns the bus; its end hands the jaws back idle and goes
\* to IDLE, homed only when every joint was referenced.
HomingTick ==
  /\ arm.mode = "Homing"
  /\ \/ Dispatched(arm, {})
     \/ \E homed \in BOOLEAN, cal_failed \in BOOLEAN :
          /\ homed => ~cal_failed
          /\ Dispatched(EnterMode([arm EXCEPT !.homing = FALSE, !.homed = homed,
                                              !.jaws = "idle", !.cal_failed = cal_failed],
                                  "Idle", FALSE), {})

Dispatch == Steady \/ JogTick \/ StreamTick \/ ExecTick \/ HomingTick

-----------------------------------------------------------------------------
(* The planner's thread, and the ops that run between ticks. *)

Fill ==
  /\ arm' = [arm EXCEPT !.samples = @ \cup {"live"}]
  /\ UNCHANGED <<pc, enabled, latched, settle, estop, boot, history>>

\* replace_bus; a simulator keeps the pose it is seeded at (adopt_landed_pose).
ReplaceBus(sim) ==
  /\ pc = "begin"
  /\ arm' = [arm EXCEPT !.mode = "Booting", !.silent = FALSE, !.homed = sim]
  /\ enabled' = FALSE
  /\ boot' = FreshBoot
  /\ cut' = (cut \/ (arm.stopping /\ "cancelled" \in arm.samples))
  /\ UNCHANGED <<pc, latched, settle, estop, regrip>>

Teleport ==
  /\ pc = "begin"
  /\ arm' = [arm EXCEPT !.homed = TRUE]
  /\ UNCHANGED <<pc, enabled, latched, settle, estop, boot, history>>

\* set_gripper_tool: the new tool's gate has no standing command.
FitTool ==
  /\ pc = "begin"
  /\ arm' = [arm EXCEPT !.jaws = "idle"]
  /\ UNCHANGED <<pc, enabled, latched, settle, estop, boot, history>>

Ops == (\E sim \in BOOLEAN : ReplaceBus(sim)) \/ Teleport \/ FitTool

Next == ReadInputs \/ ApplyCommand \/ CheckErrors \/ Dispatch \/ Fill \/ Ops

Spec == Init /\ [][Next]_vars

-----------------------------------------------------------------------------
(* Properties. *)

\* The types of the state: every countdown of the tick (core.rs boot_oneshots,
\* errors.rs tick) stays within its bound.
TypeOK ==
  /\ pc \in {"begin", "command", "check", "dispatch"}
  /\ arm \in ArmType
  /\ enabled \in BOOLEAN /\ latched \in SUBSET Codes /\ settle \in 0..SettleTicks
  /\ estop \in [hw : BOOLEAN, soft : BOOLEAN, standing : BOOLEAN]
  /\ boot \in BootType /\ regrip \in BOOLEAN /\ cut \in BOOLEAN

\* Whatever commands, faults, clears and swaps came before: when a tick sends
\* its frames nothing works under an e-stop or a latched error, when it ends an
\* enabled or working arm has at most this tick's own late fault latched, and
\* the modes that take absolute targets have a reference at all times
\* (core.rs request_mode, check_errors, rest_into_hold).
NoWorkUnderAFault ==
  /\ pc = "dispatch" /\ (enabled \/ arm.mode \in Working) => ~Pressed(estop) /\ latched = {}
  /\ pc = "begin" /\ (enabled \/ arm.mode \in Working) => ~Pressed(estop) /\ latched \subseteq {"Late"}
  /\ arm.mode \in {"Stream", "Exec"} => arm.homed

\* The samples of a program a stop cancelled are not played once the brake is
\* over, however the stop ends: at rest, by an error, by a mode change or by a
\* stop that follows it (core.rs leave_mode, "A stop cut short still owes its
\* flush").  A bus swap does not go through leave_mode and is excepted.
CancelledNeverPlayed ==
  pc = "dispatch" /\ arm.mode = "Exec" /\ ~arm.stopping /\ ~cut =>
    "cancelled" \notin arm.samples

\* Jaws that were closing when an e-stop began, from either source, are not
\* driven on: only a gripper command given under the e-stop moves them again.
EstopHaltsJaws ==
  pc \in {"begin", "dispatch"} /\ Pressed(estop) /\ estop.standing /\ arm.jaws = "driving" =>
    regrip

\* A stream that was not released never goes on for StreamTimeout ticks without
\* a setpoint (core.rs, stream watchdog).
StreamIsFed ==
  pc = "dispatch" /\ arm.mode = "Stream" /\ ~arm.released => arm.age < StreamTimeout
=============================================================================
