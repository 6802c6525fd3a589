----------------------------- MODULE StreamBridge -----------------------------
(***************************************************************************)
(* The streaming half of the daemon (par6d bridge.rs): jogs and servo      *)
(* streams, kept as one shared record by three threads.                    *)
(*                                                                         *)
(*   server        a datagram: cancel the superseded stream, ask the gate, *)
(*                 start, update or refuse, clear the collision verdict    *)
(*   housekeeping  one pass per tick: watchdogs, keep-alive, the brake and *)
(*                 the placement of a refused stream                       *)
(*   RT tick       one queued command, the stream watchdog, rest into hold *)
(*                                                                         *)
(* The jog handlers drop the shared lock while they query the gate, so a   *)
(* call is split where the lock is released.  What a query answers (clear, *)
(* blocked, failed), where the arm is and whether it rests are choices.    *)
(* Time is the RT tick; a deadline is the ticks left to it.  The arm is    *)
(* homed, enabled and free of drive faults; jog accelerations are equal.   *)
(***************************************************************************)
EXTENDS Integers, Sequences

CONSTANTS StreamTimeout,  \* RT stream watchdog, in ticks
          Grace,          \* servo_grace, longer than the watchdog
          JogTicks,       \* duration of a jog datagram
          RampCap,        \* ramp_cap
          Budget,         \* standoff_budget_ticks
          StillTicks,     \* STANDOFF_STILL_TICKS
          Tries,          \* STANDOFF_PLACEMENT_TRIES
          Far,            \* how often a placement can make headway
          MaxLag,         \* ticks a housekeeping pass may fall behind
          MaxCmds,        \* bound: datagrams, operator commands, world changes
          Tags            \* the streamable commands clients send

VARIABLES stream,    \* SharedState::stream, NoStream when None
          queue,     \* RtCommand channel, consumed one per tick
          slot,      \* a setpoint waits in the stream input
          rt,        \* mode, released, age of the last setpoint, jogging
          moving,    \* the measured speed is above STREAM_MOVING_RAD_S
          latch,     \* the gate's collision verdict
          active,    \* the server's active_stream tag
          call,      \* the datagram the server is working on
          lag,       \* ticks since housekeeping last ran
          cmds

vars == <<stream, queue, slot, rt, moving, latch, active, call, lag, cmds>>

AllTags == {"jog_j", "jog_l", "servo_j", "servo_l"}

NoStream ==
  [kind |-> "none", deadline |-> 0, releasing |-> FALSE, phase |-> "none",
   parked |-> FALSE, target |-> FALSE, jog |-> FALSE, stale |-> FALSE,
   tries |-> 0, until |-> 0, best |-> 0, still |-> 0, counted |-> FALSE,
   stepped |-> FALSE]

Session(kind, ticks) == [NoStream EXCEPT !.kind = kind, !.deadline = ticks]

Braking(base) ==
  [base EXCEPT !.kind = "servo", !.phase = "braking", !.until = Budget,
               !.target = FALSE, !.jog = FALSE]

RefusedSession == Braking(Session("servo", Grace))

Idle == [pc |-> "idle", tag |-> "none", zero |-> FALSE, updating |-> FALSE,
         owner |-> FALSE, verdict |-> "none", ok |-> FALSE]

RefusalInProgress == stream.phase # "none" \/ stream.parked

enterStreamMode(m) == <<"toIdle", m>>
(* mutant of releaseStreamCommands: only the jog is released *)
releaseJogOnly == <<"jogRelease">>

releaseStreamCommands == <<"jogRelease", "streamRelease">>
stopStreamCommands == releaseStreamCommands \o <<"toIdle">>
endCartStream == <<"streamRelease", "hold">>

Init ==
  /\ stream = NoStream /\ queue = <<>> /\ slot = FALSE
  /\ rt = [mode |-> "Idle", released |-> FALSE, age |-> 0, jogging |-> FALSE]
  /\ moving = FALSE /\ latch = FALSE /\ active = "none" /\ call = Idle
  /\ lag = 0 /\ cmds = 0

Send(s) == queue' = queue \o s

----------------------------------------------------------------------------
(* The server thread. *)

\* A cartesian limiter takes the brake itself; any other record is dropped and
\* the RT told to ramp down.
CancelStream ==
  IF stream.kind \in {"cartjog", "cartservo"} /\ stream.phase = "none"
  THEN /\ stream' = IF stream.releasing THEN stream
                    ELSE [stream EXCEPT !.releasing = TRUE, !.deadline = RampCap]
       /\ UNCHANGED queue
  ELSE stream' = NoStream /\ Send(releaseStreamCommands)

\* on_faf, up to the call into the runtime.
Datagram(tag, zero) ==
  /\ call.pc = "idle" /\ cmds < MaxCmds
  /\ zero => tag \in {"jog_j", "jog_l"}
  /\ cmds' = cmds + 1
  /\ call' = [Idle EXCEPT !.pc = "begin", !.tag = tag, !.zero = zero,
                          !.updating = active = tag]
  /\ active' = IF active = tag THEN active ELSE "none"
  /\ IF active \in {"none", tag} \/ RefusalInProgress
     THEN UNCHANGED <<stream, queue>> ELSE CancelStream
  /\ UNCHANGED <<slot, rt, moving, latch, lag>>

Return(ok) == call' = [call EXCEPT !.pc = "done", !.ok = ok]

\* The server is not on the path of the RT, of housekeeping or of the world.
ServerStep(tag, pc) ==
  /\ call.tag = tag /\ call.pc = pc
  /\ UNCHANGED <<rt, moving, active, lag, cmds>>

\* refusal_owns: a refusal putting the arm down outlives the datagram.
RefusalOwns(release) ==
  /\ RefusalInProgress
  /\ stream' = [stream EXCEPT !.deadline = Grace,
                              !.releasing = @ \/ (release /\ stream.phase # "none")]
  /\ Return(FALSE) /\ UNCHANGED <<queue, slot, latch>>

\* The session a jog_j starts or updates: a command only when the speeds change.
CommitJog ==
  LET joined == stream.kind = "jog"
      change == ~call.zero # (joined /\ stream.jog)
  IN  /\ Send((IF joined THEN <<>> ELSE enterStreamMode("toJog"))
              \o (IF ~change THEN <<>> ELSE IF call.zero THEN <<"jogRelease">> ELSE <<"jog">>))
      /\ stream' = [Session("jog", JogTicks) EXCEPT !.jog = ~call.zero]
      /\ Return(TRUE) /\ UNCHANGED <<slot, latch>>

\* placement_target: a refusal owns the arm against the jog being read.
BeginJog ==
  /\ ServerStep("jog_j", "begin")
  /\ IF call.zero
     THEN IF RefusalInProgress THEN RefusalOwns(TRUE) ELSE CommitJog
     ELSE /\ call' = [call EXCEPT !.pc = "gate", !.owner = RefusalInProgress]
          /\ UNCHANGED <<stream, queue, slot, latch>>

\* The gate is queried with the shared state released: "owned" is a jog refused
\* from the standoff, "clear" and "blocked" the verdict on the jog itself.
QueryJog(verdict) ==
  /\ ServerStep(call.tag, "gate") /\ call.tag \in {"jog_j", "jog_l"}
  /\ verdict = "owned" => call.owner /\ ~call.zero
  /\ verdict = "blocked" => ~call.zero
  /\ call' = [call EXCEPT !.pc = "commit", !.verdict = verdict]
  /\ latch' = (latch \/ verdict = "blocked")
  /\ UNCHANGED <<stream, queue, slot>>

\* What both jogs do with an answer that is not clear.
Refused ==
  \/ /\ call.verdict = "owned"
     /\ stream' = IF stream.kind = "none" THEN stream ELSE [stream EXCEPT !.deadline = Grace]
     /\ UNCHANGED queue
  \/ call.verdict = "failed" /\ UNCHANGED <<stream, queue>>
  \/ call.verdict = "blocked" /\ stream' = RefusedSession /\ Send(releaseStreamCommands)

EndJog ==
  /\ ServerStep("jog_j", "commit")
  /\ \/ Refused /\ Return(FALSE) /\ UNCHANGED <<slot, latch>>
     \/ /\ call.verdict = "clear"
        /\ IF ~call.owner /\ RefusalInProgress THEN RefusalOwns(FALSE) ELSE CommitJog

\* The verdict on a servo target, under the lock throughout.  A ServoJPose the
\* solver cannot reach is refused before any of this ("unsolved").
ServoJ(verdict) ==
  /\ ServerStep("servo_j", "begin")
  /\ IF RefusalInProgress
     THEN /\ stream' = IF stream.phase = "braking" /\ ~stream.parked /\ verdict = "blocked"
                       THEN [stream EXCEPT !.until = Budget] ELSE stream
          /\ Return(FALSE) /\ UNCHANGED <<queue, slot, latch>>
     ELSE \/ /\ verdict \in {"failed", "unsolved"}
             /\ Return(FALSE) /\ UNCHANGED <<stream, queue, slot, latch>>
          \/ /\ verdict = "blocked" /\ latch' = TRUE
             /\ IF moving THEN stream' = RefusedSession /\ Send(releaseStreamCommands)
                ELSE UNCHANGED <<stream, queue>>
             /\ Return(FALSE) /\ UNCHANGED slot
          \/ /\ verdict = "clear"
             /\ Send(IF stream.kind = "servo" THEN <<>> ELSE enterStreamMode("toStream"))
             /\ slot' = TRUE
             /\ stream' = [Session("servo", Grace) EXCEPT !.target = TRUE]
             /\ Return(TRUE) /\ UNCHANGED latch

\* A cartesian stream already running is retargeted, its brake included; a new
\* one is claimed with the lock released around the forward kinematics.
RunningCart(kind, ticks) ==
  /\ stream.kind = kind
  /\ stream' = [stream EXCEPT !.releasing = FALSE, !.deadline = ticks]
  /\ Return(TRUE) /\ UNCHANGED <<queue, slot, latch>>

Claiming ==
  call' = [call EXCEPT !.pc = "claim"] /\ UNCHANGED <<stream, queue, slot, latch>>

ServoL ==
  /\ ServerStep("servo_l", "begin")
  /\ IF RefusalInProgress THEN RefusalOwns(FALSE)
     ELSE IF stream.kind = "cartservo" THEN RunningCart("cartservo", Grace) ELSE Claiming

BeginJogL ==
  /\ ServerStep("jog_l", "begin")
  /\ call' = [call EXCEPT !.pc = "gate", !.owner = RefusalInProgress /\ ~call.zero]
  /\ UNCHANGED <<stream, queue, slot, latch>>

EndJogL ==
  /\ ServerStep("jog_l", "commit")
  /\ \/ Refused /\ Return(FALSE) /\ UNCHANGED <<slot, latch>>
     \/ /\ call.verdict = "clear"
        /\ IF ~call.owner /\ RefusalInProgress THEN RefusalOwns(call.zero)
           ELSE IF stream.kind = "cartjog" THEN RunningCart("cartjog", JogTicks) ELSE Claiming

\* CartServoState::new / CartJogState::new, then the lock again.  A limiter that
\* cannot be built refuses a servo_l and silently drops a jog_l.
Claim(kind, built) ==
  /\ ServerStep(IF kind = "cartjog" THEN "jog_l" ELSE "servo_l", "claim")
  /\ IF ~built
     THEN Return(kind = "cartjog") /\ UNCHANGED <<stream, queue, slot, latch>>
     ELSE IF RefusalInProgress /\ ~call.owner THEN RefusalOwns(call.zero)
     ELSE /\ Send(enterStreamMode("toStream"))
          /\ stream' = Session(kind, IF kind = "cartjog" THEN JogTicks ELSE Grace)
          /\ Return(TRUE) /\ UNCHANGED <<slot, latch>>

\* on_faf, from the outcome on; the verdict is cleared in a step of its own,
\* after the cancelled moves have been completed.
Finish ==
  /\ call.pc = "done"
  /\ IF call.ok
     THEN /\ active' = call.tag /\ call' = [call EXCEPT !.pc = "clear"]
          /\ UNCHANGED <<stream, queue>>
     ELSE /\ call' = Idle
          /\ IF RefusalInProgress
             THEN active' = call.tag /\ UNCHANGED <<stream, queue>>
             ELSE /\ active' = IF call.updating THEN "none" ELSE active
                  /\ IF call.updating THEN CancelStream ELSE UNCHANGED <<stream, queue>>
  /\ UNCHANGED <<slot, rt, moving, latch, lag, cmds>>

\* on_motion_accepted
ClearCollision ==
  /\ call.pc = "clear" /\ call' = Idle /\ latch' = FALSE
  /\ UNCHANGED <<stream, queue, slot, rt, moving, active, lag, cmds>>

\* halt: a stop, or a queued move taking the arm over.
Halt ==
  /\ call.pc = "idle" /\ cmds < MaxCmds /\ cmds' = cmds + 1
  /\ active' = "none" /\ CancelStream
  /\ UNCHANGED <<slot, rt, moving, latch, call, lag>>

\* A teleport and a bus swap both end the record: the arm is another one next.
Reseed ==
  /\ call.pc = "idle" /\ cmds < MaxCmds /\ cmds' = cmds + 1
  /\ active' = "none" /\ stream' = NoStream
  /\ IF stream.kind = "none" THEN UNCHANGED queue ELSE Send(stopStreamCommands)
  /\ UNCHANGED <<slot, rt, moving, latch, call, lag>>

\* set_shapes: the gate's epoch moves on.
SetShapes ==
  /\ call.pc = "idle" /\ cmds < MaxCmds /\ cmds' = cmds + 1
  /\ stream' = [stream EXCEPT !.stale = stream.kind = "servo"]
  /\ UNCHANGED <<queue, slot, rt, moving, latch, active, call, lag>>

Server ==
  \/ \E tag \in Tags, zero \in BOOLEAN : Datagram(tag, zero)
  \/ BeginJog \/ EndJog \/ ServoL \/ BeginJogL \/ EndJogL
  \/ \E v \in {"owned", "clear", "blocked", "failed"} : QueryJog(v)
  \/ \E v \in {"clear", "blocked", "failed", "unsolved"} : ServoJ(v)
  \/ \E k \in {"cartjog", "cartservo"}, built \in BOOLEAN : Claim(k, built)
  \/ Finish \/ ClearCollision \/ Halt \/ Reseed \/ SetShapes

----------------------------------------------------------------------------
(* Housekeeping: one arm of the match per pass, in the code's order. *)

\* The loop sleeps one period per pass: it may fall behind the RT by MaxLag ticks
\* and, on a late tick, run twice in one.
Paced == lag >= 0 /\ lag' = IF lag > 0 THEN 0 ELSE -1

Pass == /\ Paced /\ stream.kind # "none"
        /\ UNCHANGED <<rt, moving, active, call, cmds>>

Quiet == UNCHANGED <<queue, slot, latch>>

RampedOut == stream.releasing /\ stream.kind = "jog" /\ rt.mode # "Jog"

DropRampedJog == Pass /\ RampedOut /\ stream' = NoStream /\ Quiet

Parked(base) ==
  [base EXCEPT !.phase = "none", !.parked = TRUE, !.target = TRUE, !.deadline = Grace]

Feed == slot' = TRUE /\ UNCHANGED <<queue, latch>>

InStandoff == ~RampedOut /\ stream.phase # "none"

\* The world moved under a placement and now blocks it: stop and solve again.
WorldBlocksPlacement ==
  /\ Pass /\ InStandoff /\ stream.stale /\ stream.phase \in {"placing", "settling"}
  /\ IF rt.mode = "Stream"
     THEN stream' = [Braking(stream) EXCEPT !.stale = FALSE, !.target = TRUE, !.still = 0,
                                            !.counted = FALSE] /\ Quiet
     ELSE /\ stream' = [Braking(stream) EXCEPT !.stale = FALSE, !.still = 0, !.counted = FALSE]
          /\ Send(<<"streamRelease">>) /\ UNCHANGED <<slot, latch>>

Checked == [stream EXCEPT !.stale = stream.stale /\ stream.phase = "braking"]

LetGoOutside ==
  /\ Pass /\ InStandoff /\ stream.releasing /\ stream.phase \in {"placing", "settling"}
  /\ stream' = Parked(Checked) /\ Feed

Expired == stream.until = 0

CountStill(s) ==
  IF s.counted THEN s
  ELSE [s EXCEPT !.counted = TRUE, !.still = IF moving THEN 0 ELSE IF @ < StillTicks THEN @ + 1 ELSE @]

Rested == CountStill(stream).still >= StillTicks \/ rt.mode \in {"Idle", "Exec"}

Brake ==
  /\ Pass /\ InStandoff /\ stream.phase = "braking"
  /\ \/ /\ ~Rested /\ ~Expired /\ stream' = CountStill(stream)
        /\ slot' = (slot \/ stream.target) /\ UNCHANGED <<queue, latch>>
     \/ ~Rested /\ Expired /\ stream' = NoStream /\ Send(<<"toIdle">>) /\ UNCHANGED <<slot, latch>>

Placing(base, tries, best) ==
  [base EXCEPT !.phase = "placing", !.tries = tries, !.best = best, !.until = Budget,
               !.target = FALSE, !.still = 0, !.counted = FALSE]

Settling(base, tries) ==
  [base EXCEPT !.phase = "settling", !.tries = tries, !.until = Budget, !.target = FALSE,
               !.still = 0, !.counted = FALSE]

\* At rest: let go of outside the clearance, unsolvable, already on the standoff
\* (held there by EXEC or not), or a placement to run.
Solve(answer) ==
  /\ Pass /\ InStandoff /\ stream.phase = "braking" /\ Rested
  /\ answer = "left" => stream.releasing
  /\ answer = "held" => rt.mode = "Exec"
  /\ \/ answer \in {"left", "held"} /\ stream' = Parked(stream) /\ Quiet
     \/ answer = "unsolved" /\ stream' = NoStream /\ Send(<<"toIdle">>) /\ UNCHANGED <<slot, latch>>
     \/ /\ answer = "on" /\ stream' = Settling(stream, 1)
        /\ Send(<<"toIdle">>) /\ UNCHANGED <<slot, latch>>
     \/ /\ answer = "off" /\ stream' = Placing(stream, 1, Far) /\ slot' = TRUE
        /\ Send(IF rt.mode \in {"Stream", "Idle"} THEN <<"toStream">> ELSE <<"toIdle", "toStream">>)
        /\ UNCHANGED latch

\* Headway earns another budget; a placement that stopped making any is held
\* where it is.
Place(answer) ==
  /\ Pass /\ InStandoff /\ stream.phase = "placing"
  /\ \/ /\ answer = "headway" /\ Checked.best > 0
        /\ stream' = [Checked EXCEPT !.best = @ - 1, !.until = Budget] /\ Feed
     \/ /\ answer = "arrived" /\ ~moving /\ stream' = Settling(Checked, stream.tries)
        /\ Send(<<"toIdle">>) /\ UNCHANGED <<slot, latch>>
     \/ answer = "short" /\ Expired /\ stream' = Parked(Checked) /\ Quiet
     \/ answer = "short" /\ ~Expired /\ stream' = Checked /\ Feed

Settle(landed) ==
  LET s == CountStill(Checked)
      ended == s.still >= StillTicks \/ Expired
      done == landed \/ Expired \/ stream.tries >= Tries
  IN  /\ Pass /\ InStandoff /\ stream.phase = "settling"
      /\ \/ ~ended /\ stream' = s /\ Quiet
         \/ ended /\ done /\ stream' = Parked(s) /\ Send(<<"toExec">>) /\ UNCHANGED <<slot, latch>>
         \/ /\ ended /\ ~done /\ stream' = Placing(s, stream.tries + 1, Far + 1)
            /\ slot' = TRUE /\ Send(<<"toStream">>) /\ UNCHANGED latch

Plain == ~RampedOut /\ stream.phase = "none"

(* mutant of DeadlinePasses: a ramp whose cap runs out is given another *)
DeadlineRearms ==
  /\ Pass /\ Plain /\ stream.deadline = 0 /\ UNCHANGED <<slot, latch>>
  /\ IF stream.kind # "servo" 
     THEN /\ stream' = [stream EXCEPT !.releasing = TRUE, !.jog = FALSE, !.deadline = RampCap]
          /\ Send(IF stream.kind = "jog" THEN <<"jogRelease">> ELSE <<>>)
     ELSE /\ stream' = NoStream
          /\ Send(CASE stream.kind = "jog" -> <<"hold">>
                    [] stream.kind = "servo" -> <<"streamRelease">>
                    [] OTHER -> endCartStream)

\* A stream past its deadline ramps down if it can and is held if it cannot.
DeadlinePasses ==
  /\ Pass /\ Plain /\ stream.deadline = 0 /\ UNCHANGED <<slot, latch>>
  /\ IF stream.kind # "servo" /\ ~stream.releasing
     THEN /\ stream' = [stream EXCEPT !.releasing = TRUE, !.jog = FALSE, !.deadline = RampCap]
          /\ Send(IF stream.kind = "jog" THEN <<"jogRelease">> ELSE <<>>)
     ELSE /\ stream' = NoStream
          /\ Send(CASE stream.kind = "jog" -> <<"hold">>
                    [] stream.kind = "servo" -> <<"streamRelease">>
                    [] OTHER -> endCartStream)

Live == Plain /\ stream.deadline > 0

CollisionStop == latch' = TRUE /\ Send(releaseStreamCommands) /\ UNCHANGED slot

RecheckJog(verdict) ==
  /\ Pass /\ Live /\ stream.kind = "jog" /\ stream.jog
  /\ \/ verdict = "clear" /\ UNCHANGED stream /\ Quiet
     \/ verdict = "blocked" /\ CollisionStop
        /\ stream' = [Braking(stream) EXCEPT !.releasing = FALSE, !.deadline = Grace]
     \/ /\ verdict = "failed" /\ stream' = NoStream
        /\ Send(<<"jogRelease", "hold">>) /\ UNCHANGED <<slot, latch>>

\* A released jog has nothing to check until its ramp ends.
RestingJog == Pass /\ Live /\ stream.kind = "jog" /\ ~stream.jog /\ UNCHANGED stream /\ Quiet

RecheckServo(verdict) ==
  /\ Pass /\ Live /\ stream.kind = "servo" /\ ~stream.parked /\ moving
  /\ \/ /\ verdict = "clear" /\ UNCHANGED <<stream, queue, latch>>
        /\ slot' = (slot \/ stream.target)
     \/ verdict = "blocked" /\ CollisionStop /\ stream' = Braking(stream)
     \/ /\ verdict = "failed" /\ stream' = NoStream
        /\ Send(<<"hold">>) /\ UNCHANGED <<slot, latch>>

\* A held target is tested again only when the world has moved.
HoldServo(verdict) ==
  /\ Pass /\ Live /\ stream.kind = "servo" /\ (stream.parked \/ ~moving)
  /\ \/ /\ (stream.stale /\ stream.target) => verdict = "clear"
        /\ stream' = [stream EXCEPT !.stale = @ /\ ~stream.target]
        /\ slot' = (slot \/ (stream.target /\ (~stream.parked \/ rt.mode = "Stream")))
        /\ UNCHANGED <<queue, latch>>
     \/ stream.stale /\ stream.target /\ verdict = "blocked" /\ CollisionStop /\ stream' = NoStream
     \/ /\ stream.stale /\ stream.target /\ verdict = "failed" /\ stream' = NoStream
        /\ Send(<<"hold">>) /\ UNCHANGED <<slot, latch>>

\* One limiter step per RT tick: a target to feed, the end of the brake, a
\* refusal (braked and placed for a jog, braked for a servo), a failed query.
StepCart(verdict) ==
  /\ Pass /\ Live /\ stream.kind \in {"cartjog", "cartservo"}
  /\ IF stream.stepped THEN UNCHANGED stream /\ Quiet
     ELSE \/ verdict = "clear" /\ stream' = [stream EXCEPT !.stepped = TRUE] /\ Feed
          \/ /\ verdict = "rest" /\ stream.releasing /\ stream' = NoStream
             /\ slot' = TRUE /\ Send(endCartStream) /\ UNCHANGED latch
          \/ /\ verdict = "blocked" /\ CollisionStop
             /\ stream' = IF stream.kind = "cartservo" THEN NoStream
                          ELSE [Braking(stream) EXCEPT !.releasing = FALSE, !.deadline = Grace]
          \/ /\ verdict = "failed" /\ stream' = NoStream
             /\ Send(endCartStream) /\ UNCHANGED <<slot, latch>>

NothingToDo ==
  /\ stream.kind = "none" /\ Paced
  /\ UNCHANGED <<stream, queue, slot, rt, moving, latch, active, call, cmds>>

housekeeping ==
  \/ NothingToDo \/ DropRampedJog \/ WorldBlocksPlacement \/ LetGoOutside \/ Brake
  \/ \E a \in {"left", "held", "unsolved", "on", "off"} : Solve(a)
  \/ \E a \in {"headway", "arrived", "short"} : Place(a)
  \/ \E landed \in BOOLEAN : Settle(landed)
  \/ DeadlinePasses \/ RestingJog
  \/ \E v \in {"clear", "blocked", "failed"} : RecheckJog(v) \/ RecheckServo(v) \/ HoldServo(v)
  \/ \E v \in {"clear", "rest", "blocked", "failed"} : StepCart(v)

----------------------------------------------------------------------------
(* The RT tick, as far as streams reach it: apply_command, the watchdog, the
   JOG and STREAM laws. *)

Enter(m) == [mode |-> m, released |-> FALSE, age |-> 0, jogging |-> FALSE]

ApplyCommand(cmd, r) ==
  CASE cmd = "toIdle" -> Enter("Idle")
    [] cmd \in {"toJog", "toExec"} /\ r.mode = "Idle" ->
         Enter(IF cmd = "toJog" THEN "Jog" ELSE "Exec")
    [] cmd = "toStream" /\ r.mode = "Idle" -> Enter("Stream")
    [] cmd = "toStream" /\ r.mode = "Stream" /\ r.released ->
         [r EXCEPT !.released = FALSE, !.age = 0]
    [] cmd = "jog" /\ r.mode = "Jog" -> [r EXCEPT !.jogging = TRUE, !.released = FALSE]
    [] cmd = "jogRelease" /\ r.mode = "Jog" -> [r EXCEPT !.jogging = FALSE, !.released = TRUE]
    [] cmd = "streamRelease" /\ r.mode = "Stream" -> [r EXCEPT !.released = TRUE]
    [] cmd = "hold" /\ r.mode \in {"Jog", "Stream"} -> Enter("Exec")
    [] OTHER -> r

\* The stream watchdog, before the law consumes the slot.
WatchStream(r) ==
  IF r.mode = "Stream" /\ ~r.released /\ r.age >= StreamTimeout THEN Enter("ActiveError") ELSE r

RunLaw(r, rest) ==
  CASE r.mode \in {"Jog", "Stream"} /\ r.released /\ rest -> Enter("Exec")
    [] r.mode = "Stream" /\ ~r.released -> [r EXCEPT !.age = IF slot THEN 1 ELSE @ + 1]
    [] OTHER -> r

Dec(n) == IF n > 0 THEN n - 1 ELSE 0

RtTick(rest) ==
  LET r == WatchStream(IF queue = <<>> THEN rt ELSE ApplyCommand(Head(queue), rt))
  IN  /\ lag < MaxLag /\ lag' = (IF lag < 0 THEN 0 ELSE lag) + 1
      /\ queue' = IF queue = <<>> THEN queue ELSE Tail(queue)
      /\ rt' = RunLaw(r, rest)
      /\ slot' = (slot /\ r.mode # "Stream")
      /\ moving' = ~rest
      /\ stream' = [stream EXCEPT !.deadline = Dec(@), !.until = Dec(@),
                                  !.counted = FALSE, !.stepped = FALSE]
      /\ UNCHANGED <<latch, active, call, cmds>>

Next == Server \/ housekeeping \/ \E rest \in BOOLEAN : RtTick(rest)

Spec == Init /\ [][Next]_vars

\* Both threads are paced by the tick and never block; a braked arm comes to
\* rest; the server finishes a call it began.
Fairness ==
  /\ WF_vars(housekeeping) /\ SF_vars(RtTick(TRUE))
  /\ WF_vars(Server /\ call.pc # "idle")

FairSpec == Spec /\ Fairness

----------------------------------------------------------------------------
(* A client that simply stops streaming, is refused, is stopped or has its
   arm swapped never trips the RT's link watchdog: whoever ends a stream feeds
   it or releases it first, whatever is still queued. *)
NoLinkLost == rt.mode # "ActiveError"

(* Once the datagrams stop every session ends: the watchdogs, brakes and
   placements of housekeeping bring the record to None and the RT out of JOG
   and STREAM. *)
StreamsEnd == <>[](stream.kind = "none" /\ rt.mode \notin {"Jog", "Stream"})

(* The session's doc: "a datagram arriving meanwhile just becomes the ramp's
   new target".  A jog the record holds as driven is driven by the RT, or the
   command that drives it is queued behind the mode it needs. *)
DrivenJogIsDriven ==
  (stream.kind = "jog" /\ stream.jog) =>
     \/ rt.mode = "Jog" /\ rt.jogging
     \/ \E i \in 1..Len(queue) :
          /\ queue[i] = "jog"
          /\ rt.mode = "Jog" \/ \E k \in 1..i : queue[k] = "toJog"

(* While a refusal is putting the arm down the collision verdict stands: no
   acceptance the refusal has overtaken wipes it. *)
VerdictStands == stream.phase # "none" => latch
=============================================================================
