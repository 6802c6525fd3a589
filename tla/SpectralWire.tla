----------------------------- MODULE SpectralWire -----------------------------
(***************************************************************************)
(* What travels on the CAN bus: the Spectral frame codec (par6-bus         *)
(* spectral/codec.rs), the drive that reads the host's frames and answers  *)
(* them (sim/driver.rs, sim/mod.rs, the build every drive is meant to      *)
(* run), and the host that applies the answers (hw/mod.rs).                *)
(*                                                                         *)
(* Identifiers and payloads are bits and bytes; the four layouts of a      *)
(* configuration frame (what the host writes, what the drive takes, the    *)
(* length it wants, what the host reads back) are four tables here, as     *)
(* they are four pieces of code there.  An f32 is its 32-bit pattern.  A   *)
(* frame that is lost on the way leaves no trace; answers queue.  The      *)
(* plant, the jaws and faults are choices of the environment.              *)
(***************************************************************************)
EXTENDS Integers, Sequences, FiniteSets, Functions, SequencesExt

CONSTANTS Joint, Gripper,  \* the node ids of a joint and of the gripper
          Commands,        \* joint commands: [pack, pos, vel, cur, trigger], <<>> for None
          Grips,           \* firmware gripper commands
          Values,          \* the values a configuration field may be given
          Poses,           \* motor positions [ticks]
          Strays,          \* frames of other senders, as [cmd, dlc]
          MaxOps           \* bound: frames sent and changes of the environment

VARIABLES drive,   \* the joint's drive
          jaw,     \* the firmware gripper
          rx,      \* the answers in flight: [frame, says]
          state,   \* BusState: what the host knows of each node
          ops,
          meant,   \* history: the mode, settings and grip the landed frames ask for
          truth    \* history: what each node said in the answers received

vars == <<drive, jaw, rx, state, ops, meant, truth>>

Last8(v) == v % 256

\* CommandId: the six-bit command of each name; 5 and 7 are reserved replies.
Raw == [Estop |-> 0, ClearError |-> 1, DataPack1 |-> 2, RespondDataPack1 |-> 3, DataPackPd |-> 4,
        RespondDataPack2 |-> 5, RespondDataPack3 |-> 7, RespondHeartbeat |-> 9, Ping |-> 10,
        SetCanId |-> 11, Idle |-> 12, SaveConfig |-> 13, Reset |-> 14, Watchdog |-> 15,
        PdGains |-> 16, CurrentGains |-> 17, VelocityGains |-> 18, PositionGains |-> 19,
        Limits |-> 20, Kt |-> 22, Temperature |-> 23, Voltage |-> 24, DeviceInfo |-> 25,
        StateOfErrors |-> 26, IqData |-> 27, EncoderData |-> 28, HeartbeatSetup |-> 30,
        DataPackHall |-> 31, RespondDataHall |-> 32, RespondKt |-> 33, VoltageLimit |-> 34,
        SetGripperId |-> 36, Telemetry |-> 37, Capture |-> 38, CaptureRead |-> 39,
        Ripple |-> 40, VelocityWindow |-> 41, CaptureStream |-> 42, CaptureStreamData |-> 43,
        RespondGripperData |-> 60, GripperDataPack |-> 61, GripperCalibrate |-> 62]

\* CommandId::from_raw; "none" outside the table.
CommandOf ==
  [raw \in 0..63 |-> IF raw \in Range(Raw) THEN CHOOSE c \in DOMAIN Raw : Raw[c] = raw ELSE "none"]
FromRaw(raw) == CommandOf[raw]

-----------------------------------------------------------------------------
(* Identifiers, primitives and layouts. *)

\* The command not shifted past the error bit.
PackCanIdUnshifted(node, cmd, err) == (node % 16) * 128 + (Raw[cmd] % 64) + (IF err THEN 1 ELSE 0)

PackCanId(node, cmd, err) == (node % 16) * 128 + (Raw[cmd] % 64) * 2 + (IF err THEN 1 ELSE 0)

UnpackCanId(id) == [node |-> (id \div 128) % 16, cmd |-> (id \div 2) % 64, err |-> id % 2 = 1]

DataFrame(node, cmd, err, bytes) == [id |-> PackCanId(node, cmd, err), rtr |-> FALSE, data |-> bytes]
RtrFrame(node, cmd) == [id |-> PackCanId(node, cmd, FALSE), rtr |-> TRUE, data |-> <<>>]

Width == [u8 |-> 1, bits |-> 1, i16 |-> 2, u16 |-> 2, i24 |-> 3, i32 |-> 4, u32 |-> 4, f32 |-> 4]

\* fold_bits_msb_first, unfold_bits_msb_first: the first of the list is bit 7.
FoldBits(bits) == FoldLeft(LAMBDA n, b : 2 * n + (IF b THEN 1 ELSE 0), 0, bits)
UnfoldBits(byte) == [i \in 1..8 |-> (byte \div 2 ^ (8 - i)) % 2 = 1]

\* pack_i16, pack_i24, ...: big-endian two's complement, modulo the width.
PackField(kind, v) ==
  IF kind = "bits" THEN <<FoldBits(v)>>
  ELSE LET w == Width[kind] IN [i \in 1..w |-> Last8(v \div 256 ^ (w - i))]

\* unpack_i24 and the other signed fields: the top byte carries the sign.
Signed(bytes) ==
  FoldLeft(LAMBDA n, b : 256 * n + b, IF bytes[1] >= 128 THEN bytes[1] - 256 ELSE bytes[1], Tail(bytes))
Unsigned(bytes) == FoldLeft(LAMBDA n, b : 256 * n + b, 0, bytes)

\* A 24-bit field taken as if it were unsigned.
UnpackFieldUnsigned(kind, bytes) ==
  CASE kind = "bits" -> UnfoldBits(bytes[1])
    [] kind \in {"u8", "u16", "u32", "i24"} -> Unsigned(bytes)
    [] OTHER -> Signed(bytes)

UnpackField(kind, bytes) ==
  CASE kind = "bits" -> UnfoldBits(bytes[1])
    [] kind \in {"u8", "u16", "u32"} -> Unsigned(bytes)
    [] OTHER -> Signed(bytes)

Dlc(layout) == FoldLeft(LAMBDA n, k : n + Width[k], 0, layout)

Pack(layout, vals) == FlattenSeq([i \in DOMAIN layout |-> PackField(layout[i], vals[i])])

Unpack(layout, bytes) ==
  [i \in DOMAIN layout |->
     LET at == Dlc(SubSeq(layout, 1, i - 1))
     IN  UnpackField(layout[i], SubSeq(bytes, at + 1, at + Width[layout[i]]))]

-----------------------------------------------------------------------------
(* Encoding: host to drive. *)

ConfigKinds ==
  {"Watchdog", "Limits", "VoltageLimit", "PdGains", "CurrentGains", "VelocityGains", "PositionGains"}

\* encode_watchdog, encode_limits, encode_voltage_limit, encode_*_gains.
WriteLayout == [Watchdog |-> <<"u32", "u8">>, Limits |-> <<"f32", "f32">>, VoltageLimit |-> <<"u32">>,
                PdGains |-> <<"f32", "f32">>, CurrentGains |-> <<"f32", "f32">>,
                VelocityGains |-> <<"f32", "f32">>, PositionGains |-> <<"f32">>]

EncodeConfig(node, kind, vals) == DataFrame(node, kind, FALSE, Pack(WriteLayout[kind], vals))
EncodeReadbackRequest(node, kind) == RtrFrame(node, kind)

Or0(opt) == IF opt = <<>> THEN 0 ELSE opt[1]

NoWireForm == [id |-> -1, rtr |-> FALSE, data |-> <<>>]   \* PositionWithoutVelocity

\* The length of a cmd-2 frame is its mode; all channels None: no frame at all.
EncodePid(node, c) ==
  LET cur == Or0(c.cur)
      f(layout, vals) == <<DataFrame(node, "DataPack1", FALSE, Pack(layout, vals))>>
  IN  CASE c.pos # <<>> /\ c.vel # <<>> -> f(<<"i24", "i24", "i16">>, <<c.pos[1], c.vel[1], cur>>)
        [] c.pos = <<>> /\ c.vel # <<>> -> f(<<"i24", "i16">>, <<c.vel[1], cur>>)
        [] c.pos = <<>> /\ c.vel = <<>> -> IF c.cur = <<>> THEN <<>> ELSE f(<<"i16">>, <<cur>>)
        [] OTHER -> <<NoWireForm>>

EncodeJointCommand(node, c) ==
  CASE c.pack = "pid" -> EncodePid(node, c)
    [] c.pack = "pd" -> <<DataFrame(node, "DataPackPd", FALSE,
                            Pack(<<"i24", "i24", "i16">>, <<Or0(c.pos), Or0(c.vel), Or0(c.cur)>>))>>
    [] c.pack = "hall" -> <<DataFrame(node, "DataPackHall", FALSE,
                              Pack(<<"i24", "u8">>, <<Or0(c.vel), c.trigger>>))>>
    [] c.pack = "idle" -> <<DataFrame(node, "Idle", FALSE, <<>>)>>
    [] c.pack = "poll" -> <<RtrFrame(node, "EncoderData")>>

EncodeFirmwareGripper(node, g) ==
  DataFrame(node, "GripperDataPack", FALSE,
    Pack(<<"u8", "u8", "i16", "bits">>,
         <<g.position, g.speed, g.current,
           <<g.activate, g.action, g.estop, g.release, FALSE, FALSE, FALSE, FALSE>>>>))

\* poll_command: the command a telemetry request goes to.
PollCommand == [Telemetry |-> "Telemetry", Temperature |-> "Temperature", Voltage |-> "Voltage",
                Errors |-> "StateOfErrors", DeviceInfo |-> "DeviceInfo", Encoder |-> "EncoderData",
                Kt |-> "RespondKt", Ping |-> "Ping"]
EncodePoll(node, kind) == RtrFrame(node, PollCommand[kind])

\* encode_gripper_id, encode_velocity_window: one byte.
EncodeByte(node, cmd, v) == DataFrame(node, cmd, FALSE, Pack(<<"u8">>, <<v>>))

EncodeRipple(node, slot, harmonic, a, b) ==
  DataFrame(node, "Ripple", FALSE, Pack(<<"u8", "u8", "i16", "i16">>, <<slot, harmonic, a, b>>))

\* encode_kt, encode_heartbeat_setup, encode_set_can_id, and the commands with no payload.
EncodeSetting(node, cmd, v) ==
  LET layout == CASE cmd = "Kt" -> <<"f32">> [] cmd = "HeartbeatSetup" -> <<"u32">>
                  [] cmd = "SetCanId" -> <<"u8">> [] OTHER -> <<>>
  IN  DataFrame(node, cmd, FALSE, Pack(layout, IF layout = <<>> THEN <<>> ELSE <<v>>))

-----------------------------------------------------------------------------
(* Decoding: drive to host. *)

\* decode_frame: the payload of each reply.
ReplyLayout ==
  [RespondDataPack1 |-> <<"i24", "i24", "i16">>, EncoderData |-> <<"i32", "i32">>,
   RespondDataHall |-> <<"i24", "bits">>, Temperature |-> <<"i16">>, Voltage |-> <<"i16">>,
   IqData |-> <<"i16">>, StateOfErrors |-> <<"bits", "bits">>,
   Telemetry |-> <<"i16", "i16", "bits", "bits", "i16">>,
   CaptureRead |-> <<"u8", "u16", "i16", "i16">>, CaptureStreamData |-> <<"u8", "u16", "i16", "i16">>,
   RespondKt |-> <<"f32">>, RespondGripperData |-> <<"u8", "i16", "bits">>,
   Watchdog |-> <<"u32", "u8">>, Limits |-> <<"f32", "f32">>, VoltageLimit |-> <<"u32">>,
   PdGains |-> <<"f32", "f32">>, CurrentGains |-> <<"f32", "f32">>,
   VelocityGains |-> <<"f32", "f32">>, PositionGains |-> <<"f32">>]

\* The vendor's device info is seven bytes, the par6 firmware's has the tool id too.
InfoLayout(dlc) == <<"u8", "u8", "u8", "i32">> \o (IF dlc = 8 THEN <<"u8">> ELSE <<>>)

Refused(id, why) == [ok |-> FALSE, node |-> id.node, err |-> id.err, why |-> why]
Decoded(id, cmd, vals) == [ok |-> TRUE, node |-> id.node, err |-> id.err, cmd |-> cmd, vals |-> vals]

\* Every refusal is of the whole frame and still names the node and its error bit.
DecodeFrame(frame) ==
  LET id == UnpackCanId(frame.id)
      cmd == FromRaw(id.cmd)
      dlc == Len(frame.data)
      layout == IF cmd = "DeviceInfo" THEN InfoLayout(dlc) ELSE ReplyLayout[cmd]
  IN  CASE cmd = "none" -> Refused(id, "UnknownCommand")
        [] frame.rtr -> Refused(id, "NotAReply")
        [] cmd \in {"RespondDataPack2", "RespondDataPack3"} -> Refused(id, "Reserved")
        [] cmd \in {"Ping", "RespondHeartbeat"} -> Decoded(id, cmd, <<>>)
        [] cmd \in DOMAIN ReplyLayout \cup {"DeviceInfo"} ->
             IF dlc # Dlc(layout) THEN Refused(id, "WrongDlc")
                                  ELSE Decoded(id, cmd, Unpack(layout, frame.data))
        [] OTHER -> Refused(id, "NotAReply")

\* unpack_error_flags: the two State_of_Errors bytes by name.
ErrorFlags(b0, b1) ==
  [error |-> b0[1], temperature |-> b0[2], encoder |-> b0[3], vbus |-> b0[4], driver |-> b0[5],
   velocity |-> b0[6], current |-> b0[7], estop |-> b0[8],
   calibrated |-> b1[1], activated |-> b1[2], watchdog |-> b1[3]]

\* The bits taken in the byte's own order.
ObjectDetectionByPlace(msb, lsb) ==
  CASE ~msb /\ ~lsb -> "Moving" [] ~msb /\ lsb -> "DetectedOpening"
    [] msb /\ ~lsb -> "DetectedClosing" [] OTHER -> "ReachedNoObject"

ObjectDetection(msb, lsb) ==
  CASE ~msb /\ ~lsb -> "Moving" [] ~msb /\ lsb -> "DetectedClosing"
    [] msb /\ ~lsb -> "DetectedOpening" [] OTHER -> "ReachedNoObject"

GripperReply(v) ==
  [position |-> v[1], current |-> v[2], activated |-> v[3][1], action |-> v[3][2],
   object |-> ObjectDetection(v[3][4], v[3][3]), temperature |-> v[3][5], timeout |-> v[3][6],
   estop |-> v[3][7], calibrated |-> v[3][8]]

\* apply_payload: the fields of the node's state a payload writes; captures go
\* to the backend's buffer (module Capture).
Writes(cmd, v) ==
  CASE cmd = "RespondDataPack1" -> [position |-> <<v[1]>>, speed |-> <<v[2]>>, current |-> <<v[3]>>]
    [] cmd = "EncoderData" -> [position |-> <<v[1]>>, speed |-> <<v[2]>>]
    [] cmd = "RespondDataHall" ->
         [position |-> <<v[1]>>, hall |-> <<[trigger |-> v[2][1], pin2 |-> v[2][2], edge |-> v[2][3]]>>]
    [] cmd = "Temperature" -> [temperature |-> <<v[1]>>]
    [] cmd = "Voltage" -> [voltage |-> <<v[1]>>]
    [] cmd = "IqData" -> [current |-> <<v[1]>>]
    [] cmd = "StateOfErrors" -> [flags |-> <<ErrorFlags(v[1], v[2])>>]
    [] cmd = "Telemetry" -> [temperature |-> <<v[1]>>, voltage |-> <<v[2]>>,
                             flags |-> <<ErrorFlags(v[3], v[4])>>, current |-> <<v[5]>>]
    [] cmd \in ConfigKinds -> [x \in {cmd} |-> <<v>>]
    [] cmd = "DeviceInfo" ->
         [info |-> <<[hw |-> v[1], batch |-> v[2], sw |-> v[3], serial |-> v[4],
                      tool |-> IF Len(v) = 5 THEN v[5] ELSE 0]>>]
    [] cmd = "RespondKt" -> [kt |-> <<v[1]>>]
    [] cmd = "RespondGripperData" -> [reply |-> <<GripperReply(v)>>]
    [] OTHER -> <<>>

NodeFields ==
  {"position", "speed", "current", "hall", "temperature", "voltage", "flags", "info", "kt", "reply"}
    \cup ConfigKinds
NoNews == [x \in NodeFields |-> <<>>]

\* s with the fields of w and the live error bit.
Updated(s, w, err) ==
  [known |-> [x \in NodeFields |-> IF x \in DOMAIN w THEN w[x] ELSE s.known[x]], err |-> err]

\* apply_rx: the error bit is taken before the payload, refused frames included.
ApplyRx(s, d) ==
  [s EXCEPT ![d.node] = Updated(@, IF d.ok THEN Writes(d.cmd, d.vals) ELSE <<>>, d.err)]

-----------------------------------------------------------------------------
(* The drive. *)

\* config_dlc, and the fields on_data_frame takes of each configuration frame.
ConfigDlc == [Watchdog |-> 5, VoltageLimit |-> 4, PositionGains |-> 4, Limits |-> 8, PdGains |-> 8,
              CurrentGains |-> 8, VelocityGains |-> 8]
TakeLayout == [Watchdog |-> <<"u32">>, Limits |-> <<"f32", "f32">>, VoltageLimit |-> <<"u32">>,
               PdGains |-> <<"f32", "f32">>, CurrentGains |-> <<"f32", "f32">>,
               VelocityGains |-> <<"f32", "f32">>, PositionGains |-> <<"f32">>]

ErrBit(fl) ==
  fl.error \/ fl.temperature \/ fl.encoder \/ fl.vbus \/ fl.driver \/ fl.velocity \/ fl.current
    \/ fl.estop \/ fl.watchdog

\* Mode of a data pack by its command and length; "keep": a wrong length.
ModeOf(cmd, d) ==
  LET m(kind, layout) == [kind |-> kind, vals |-> Unpack(layout, d)] IN
  CASE cmd = "DataPack1" /\ Len(d) = 8 -> m("Position", <<"i24", "i24", "i16">>)
    [] cmd = "DataPack1" /\ Len(d) = 5 -> m("Velocity", <<"i24", "i16">>)
    [] cmd = "DataPack1" /\ Len(d) = 2 -> m("Current", <<"i16">>)
    [] cmd = "DataPackPd" /\ Len(d) = 8 -> m("Pd", <<"i24", "i24", "i16">>)
    [] cmd = "DataPackHall" /\ Len(d) = 4 -> m("Hall", <<"i24", "u8">>)
    [] OTHER -> [kind |-> "keep", vals |-> <<>>]

NoFlags == ErrorFlags([i \in 1..8 |-> FALSE], [i \in 1..8 |-> i <= 2])

\* A drive number in 4..64.
Clamped(window) == IF window < 4 THEN 4 ELSE IF window > 64 THEN 64 ELSE window

\* VirtualDriver::on_data_frame: the state the frame leaves.
OnDataFrame(d, cmd, data) ==
  LET mode == ModeOf(cmd, data)
      n == Len(data)
  IN  CASE cmd \in {"DataPack1", "DataPackPd", "DataPackHall"} ->
             IF mode.kind = "keep" THEN d ELSE [d EXCEPT !.mode = mode]
        [] cmd \in ConfigKinds ->
             IF n # ConfigDlc[cmd] THEN d
             ELSE [d EXCEPT !.written[cmd] = <<data>>, !.params[cmd] = Unpack(TakeLayout[cmd], data)]
        [] cmd = "SetGripperId" /\ n = 1 -> [d EXCEPT !.tool = data[1]]
        [] cmd = "VelocityWindow" /\ n = 1 -> [d EXCEPT !.window = Clamped(data[1])]
        [] cmd = "Ripple" /\ n = 6 /\ data[1] < 8 ->
             [d EXCEPT !.ripple[data[1]] = Tail(Unpack(<<"u8", "u8", "i16", "i16">>, data))]
        [] cmd = "Kt" /\ n = 4 -> [d EXCEPT !.kt = Signed(data)]
        [] cmd = "ClearError" /\ n = 0 -> [d EXCEPT !.flags = NoFlags]
        [] cmd = "Idle" /\ n = 0 -> [d EXCEPT !.mode = [kind |-> "Idle", vals |-> <<>>]]
        [] cmd = "Estop" /\ n = 0 -> [d EXCEPT !.mode = [kind |-> "Idle", vals |-> <<>>],
                                               !.flags.estop = TRUE, !.flags.error = TRUE]
        [] OTHER -> d

\* errors_payload.
ErrorsPayload(fl) ==
  <<FoldBits(<<fl.error, fl.temperature, fl.encoder, fl.vbus, fl.driver, fl.velocity, fl.current, fl.estop>>),
    FoldBits(<<fl.calibrated, fl.activated, fl.watchdog, FALSE, FALSE, FALSE, FALSE, FALSE>>)>>

\* The centred remainder: what a 24-bit field can say of a position.
Wrap24(v) == ((v + 8388608) % 16777216) - 8388608

\* An answer with what it says, in the terms of the node's state.
Answer(node, cmd, err, bytes, says) ==
  [frame |-> DataFrame(node, cmd, err, bytes), node |-> node, err |-> err, says |-> says]

Speed(d) == -d.pos \div 4096
Amps(d) == IF d.flags.error THEN -32768 ELSE 250

MotionReply(d) ==
  Answer(Joint, "RespondDataPack1", ErrBit(d.flags),
         Pack(<<"i24", "i24", "i16">>, <<d.pos, Speed(d), Amps(d)>>),
         [position |-> <<Wrap24(d.pos)>>, speed |-> <<Speed(d)>>, current |-> <<Amps(d)>>])

HallReply(d) ==
  Answer(Joint, "RespondDataHall", ErrBit(d.flags),
         Pack(<<"i24", "bits">>, <<d.pos, <<TRUE, FALSE, d.flags.error, FALSE, FALSE, FALSE, FALSE, FALSE>>>>),
         [position |-> <<Wrap24(d.pos)>>,
          hall |-> <<[trigger |-> TRUE, pin2 |-> FALSE, edge |-> d.flags.error]>>])

\* deliver_data: what a data frame is answered with; a wrong length too.
DataAnswer(d, cmd) ==
  CASE cmd \in {"DataPack1", "DataPackPd"} -> <<MotionReply(d)>>
    [] cmd = "DataPackHall" -> <<HallReply(d)>>
    [] OTHER -> <<>>

\* deliver_rtr: the answer to each request.
PollAnswer(d, kind) ==
  LET err == ErrBit(d.flags)
      info == [hw |-> 1, batch |-> 1, sw |-> 3, serial |-> 1000 + Joint, tool |-> d.tool]
      a(cmd, bytes, says) == <<Answer(Joint, cmd, err, bytes, says)>>
  IN  CASE kind = "Telemetry" ->
             a("Telemetry", Pack(<<"i16", "i16">>, <<-5, 24000>>) \o ErrorsPayload(d.flags) \o PackField("i16", Amps(d)),
               [temperature |-> <<-5>>, voltage |-> <<24000>>, flags |-> <<d.flags>>, current |-> <<Amps(d)>>])
        [] kind = "Temperature" -> a("Temperature", PackField("i16", -5), [temperature |-> <<-5>>])
        [] kind = "Voltage" -> a("Voltage", PackField("i16", 24000), [voltage |-> <<24000>>])
        [] kind = "Errors" -> a("StateOfErrors", ErrorsPayload(d.flags), [flags |-> <<d.flags>>])
        [] kind = "DeviceInfo" ->
             a("DeviceInfo", Pack(<<"u8", "u8", "u8", "i32", "u8">>, <<1, 1, 3, info.serial, d.tool>>),
               [info |-> <<info>>])
        [] kind = "Kt" -> a("RespondKt", PackField("f32", d.kt), [kt |-> <<d.kt>>])
        [] kind = "Ping" -> a("Ping", <<>>, <<>>)
        [] kind = "Encoder" ->
             a("EncoderData", Pack(<<"i32", "i32">>, <<d.pos, Speed(d)>>),
               [position |-> <<d.pos>>, speed |-> <<Speed(d)>>])

\* config_readback, deliver_frame: what was last written, nothing if nothing was.
ReadbackAnswer(d, kind) ==
  IF d.written[kind] = <<>> THEN <<>>
  ELSE <<Answer(Joint, kind, ErrBit(d.flags), d.written[kind][1], [x \in {kind} |-> <<meant.config[kind]>>])>>

\* deliver_gripper_data: what the jaws take of a data pack.
OnGripperPack(data) ==
  LET v == Unpack(<<"u8", "u8", "i16", "bits">>, data) IN
  [position |-> v[1], speed |-> v[2], current |-> v[3], activate |-> v[4][1], action |-> v[4][2],
   estop |-> v[4][3], release |-> v[4][4]]

\* enqueue_gripper_reply: the detection's low bit goes before its high one.
GripperAnswer(j) ==
  LET det == CHOOSE n \in 0..3 :
               j.object = <<"Moving", "DetectedClosing", "DetectedOpening", "ReachedNoObject">>[n + 1]
      bits == <<j.cmd.activate, j.cmd.action, det % 2 = 1, det \div 2 = 1, FALSE, FALSE, j.cmd.estop, TRUE>>
  IN  Answer(Gripper, "RespondGripperData", FALSE,
             Pack(<<"u8", "i16", "bits">>, <<j.cmd.position, j.cmd.current, bits>>),
             [reply |-> <<[position |-> j.cmd.position, current |-> j.cmd.current, activated |-> j.cmd.activate,
                           action |-> j.cmd.action, object |-> j.object, temperature |-> FALSE,
                           timeout |-> FALSE, estop |-> j.cmd.estop, calibrated |-> TRUE]>>])

-----------------------------------------------------------------------------
(* The actions. *)

IdleGrip == [position |-> 0, speed |-> 0, current |-> 0, activate |-> FALSE, action |-> FALSE,
             estop |-> FALSE, release |-> FALSE]
IdleMode == [kind |-> "Idle", vals |-> <<>>]
Unwritten == [k \in ConfigKinds |-> <<>>]

Init ==
  /\ drive = [mode |-> IdleMode, written |-> Unwritten, params |-> Unwritten, flags |-> NoFlags, tool |-> 0,
              kt |-> 0, window |-> 20, ripple |-> [s \in 0..7 |-> <<0, 0, 0>>], pos |-> 0]
  /\ jaw = [cmd |-> IdleGrip, object |-> "Moving"]
  /\ rx = <<>> /\ ops = 0
  /\ state = [n \in {Joint, Gripper} |-> [known |-> NoNews, err |-> FALSE]]
  /\ meant = [mode |-> IdleMode, config |-> Unwritten, grip |-> IdleGrip, tool |-> 0, kt |-> 0,
              window |-> 20, ripple |-> [s \in 0..7 |-> <<0, 0, 0>>]]
  /\ truth = state

Step == ops < MaxOps /\ ops' = ops + 1
Send(answers) == rx' = rx \o answers

\* A data frame reaches its drive, which acts on it and answers.
Deliver(frame) ==
  LET id == UnpackCanId(frame.id)
      cmd == FromRaw(id.cmd)
  IN  /\ drive' = IF id.node = Joint THEN OnDataFrame(drive, cmd, frame.data) ELSE drive
      /\ Send(IF id.node = Joint THEN DataAnswer(drive', cmd) ELSE <<>>)

\* What a joint command asks for: the mode its channels select.
Meaning(c) ==
  LET w(opt) == Wrap24(Or0(opt)) IN
  CASE c.pack = "pid" /\ c.pos # <<>> -> [kind |-> "Position", vals |-> <<w(c.pos), w(c.vel), Or0(c.cur)>>]
    [] c.pack = "pid" /\ c.vel # <<>> -> [kind |-> "Velocity", vals |-> <<w(c.vel), Or0(c.cur)>>]
    [] c.pack = "pid" -> [kind |-> "Current", vals |-> <<Or0(c.cur)>>]
    [] c.pack = "pd" -> [kind |-> "Pd", vals |-> <<w(c.pos), w(c.vel), Or0(c.cur)>>]
    [] c.pack = "hall" -> [kind |-> "Hall", vals |-> <<w(c.vel), c.trigger>>]
    [] c.pack = "idle" -> IdleMode

SendJointCommand ==
  \E c \in Commands : \E f \in Range(EncodeJointCommand(Joint, c)) \ {NoWireForm} :
    /\ Step
    /\ IF c.pack = "poll" THEN Send(PollAnswer(drive, "Encoder")) /\ UNCHANGED <<drive, meant>>
       ELSE Deliver(f) /\ meant' = [meant EXCEPT !.mode = Meaning(c)]
    /\ UNCHANGED <<jaw, state, truth>>

\* The values of one configuration frame; the only watchdog action is Idle, 0.
Settable(kind) ==
  CASE kind = "Watchdog" -> {<<v, 0>> : v \in Values \cap Nat}
    [] kind = "VoltageLimit" -> {<<v>> : v \in Values \cap Nat}
    [] OTHER -> {vals \in [1..Len(WriteLayout[kind]) -> Values] : IsInjective(vals)}

\* resend_node_config, retune_node, send_limits: one configuration frame.
SendConfig ==
  \E kind \in ConfigKinds : \E vals \in Settable(kind) :
    /\ Step
    /\ Deliver(EncodeConfig(Joint, kind, vals))
    /\ meant' = [meant EXCEPT !.config[kind] = vals]
    /\ UNCHANGED <<jaw, state, truth>>

\* A request on a configuration command or a telemetry one; nothing else is answered.
Request ==
  /\ Step
  /\ \/ \E kind \in ConfigKinds :
          LET id == UnpackCanId(EncodeReadbackRequest(Joint, kind).id)
          IN  Send(ReadbackAnswer(drive, FromRaw(id.cmd)))
     \/ \E kind \in DOMAIN PollCommand :
          LET id == UnpackCanId(EncodePoll(Joint, kind).id)
          IN  Send(PollAnswer(drive, CHOOSE k \in DOMAIN PollCommand : PollCommand[k] = FromRaw(id.cmd)))
  /\ UNCHANGED <<drive, jaw, state, meant, truth>>

\* set_tool_id, set_velocity_window, set_ripple, and the commands without a mode: the
\* frame and what it asks for.
Settings ==
  {[frame |-> EncodeByte(Joint, "SetGripperId", 7), asks |-> [meant EXCEPT !.tool = 7]],
   [frame |-> EncodeByte(Joint, "VelocityWindow", 200), asks |-> [meant EXCEPT !.window = 64]],
   [frame |-> EncodeSetting(Joint, "Estop", 0), asks |-> [meant EXCEPT !.mode = IdleMode]]}
  \cup {[frame |-> EncodeRipple(Joint, 7, 2, v, v + 1),
         asks |-> [meant EXCEPT !.ripple[7] = <<2, v, v + 1>>]] : v \in {-32768, 255}}
  \cup {[frame |-> EncodeSetting(Joint, "Kt", v), asks |-> [meant EXCEPT !.kt = v]] : v \in Values}
  \cup {[frame |-> EncodeSetting(Joint, cmd, 0), asks |-> meant] :
          cmd \in {"ClearError", "HeartbeatSetup", "SaveConfig"}}

SendSetting ==
  /\ Step
  /\ \E s \in Settings : Deliver(s.frame) /\ meant' = s.asks
  /\ UNCHANGED <<jaw, state, truth>>

\* send_gripper; the empty pack (DLC 0) only asks.
SendGripper ==
  /\ Step
  /\ \/ \E g \in Grips :
          /\ jaw' = [jaw EXCEPT !.cmd = OnGripperPack(EncodeFirmwareGripper(Gripper, g).data)]
          /\ meant' = [meant EXCEPT !.grip = g] /\ Send(<<GripperAnswer(jaw')>>)
     \/ Send(<<GripperAnswer(jaw)>>) /\ UNCHANGED <<jaw, meant>>
  /\ UNCHANGED <<drive, state, truth>>

\* The plant moves, the drive faults, the jaws meet something.
Environment ==
  /\ Step
  /\ \/ \E p \in Poses : drive' = [drive EXCEPT !.pos = p] /\ UNCHANGED jaw
     \/ drive' = [drive EXCEPT !.flags.error = TRUE, !.flags.velocity = TRUE] /\ UNCHANGED jaw
     \/ \E o \in {"DetectedClosing", "DetectedOpening", "ReachedNoObject"} :
          jaw' = [jaw EXCEPT !.object = o] /\ UNCHANGED drive
  /\ UNCHANGED <<rx, state, meant, truth>>

\* Another sender's frame: a bootloader's, an echo of a request, a reserved or short reply.
Stray ==
  \E s \in Strays :
    /\ Step
    /\ Send(<<[frame |-> [id |-> Joint * 128 + s.cmd * 2 + 1, rtr |-> s.rtr, data |-> [i \in 1..s.dlc |-> 255]],
               node |-> Joint, err |-> TRUE, says |-> <<>>]>>)
    /\ UNCHANGED <<drive, jaw, state, meant, truth>>

\* drain_rx, one frame, decoded once.
Receive ==
  /\ rx # <<>>
  /\ LET a == Head(rx) IN
     /\ \E d \in {DecodeFrame(a.frame)} : state' = ApplyRx(state, d)
     /\ truth' = [truth EXCEPT ![a.node] = Updated(@, a.says, a.err)]
  /\ rx' = Tail(rx)
  /\ UNCHANGED <<drive, jaw, ops, meant>>

Next ==
  \/ SendJointCommand \/ SendConfig \/ Request \/ SendSetting \/ SendGripper
  \/ Environment \/ Stray \/ Receive

Spec == Init /\ [][Next]_vars

-----------------------------------------------------------------------------
(* Properties. *)

\* Host and drives understand each other over the bytes of the bus (codec.rs with
\* sim/driver.rs and apply_rx): the drive runs the mode, gains, limits and grip the landed
\* frames ask for, positions modulo 2^24; what the host holds of a node is what that node
\* said in the answers received, its read-back the values that were written, and a frame
\* that is refused (unknown, reserved, a request, a wrong length) leaves nothing behind but
\* its error bit.
WireIsFaithful ==
  /\ drive.mode = meant.mode
  /\ \A k \in ConfigKinds :
       drive.params[k] = SubSeq(meant.config[k], 1, Len(drive.params[k]))
  /\ drive.tool = meant.tool /\ drive.kt = meant.kt /\ drive.window = meant.window /\ drive.ripple = meant.ripple
  /\ jaw.cmd = meant.grip
  /\ state = truth
=============================================================================
