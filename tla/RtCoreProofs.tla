----------------------------- MODULE RtCoreProofs -----------------------------
(***************************************************************************)
(* The RT core's safety properties, for every length of its windows, and   *)
(* the stop path's, for every number of moves and stops, every trajectory  *)
(* length and every ring.                                                  *)
(*                                                                         *)
(* The core.  Every change of the arm record but the e-stop edge, a lost   *)
(* node and a teleport is one the record may follow with (Follows): it     *)
(* keeps the reference of the modes that need one, never makes up a        *)
(* BOOTING mode or a driving grip, and leaves no cancelled sample that no  *)
(* stop will flush.  The lemmas say so of each mode change and each        *)
(* playback step; the step lemmas then only have to look at the latch, the *)
(* e-stop and the enable.                                                  *)
(*                                                                         *)
(* The stop path.  The planner fills one move at a time, each under the    *)
(* generation after its number, so the ring holds samples of dropped moves *)
(* and then what the newest one has left to play (Filled); the requests    *)
(* in flight start the moves in order, and a cancel follows only answered  *)
(* ones (InOrder).  A tick works on the ring and the playback record       *)
(* (Intact, Leads); every other step only moves what those are about.      *)
(* That the flush reaches every sample of a move cut in execution needs    *)
(* the move to have been pushed whole, which a ring with room for a        *)
(* trajectory per stop ensures (Roomy, Room).                              *)
(***************************************************************************)
EXTENDS MCRt, SequenceTheorems, FiniteSetTheorems, WellFoundedInduction, TLAPS

\* The modes that take absolute targets have a reference.
Sound(a) == a.mode \in {"Stream", "Exec"} => a.homed

\* Cancelled samples are owed a flush by a braking stop, or a bus swap cut it.
Owed(a, c) == "cancelled" \in a.samples => c \/ (a.mode = "Exec" /\ a.stopping)

\* r may follow a: what every mode change, command and playback step keeps.
Follows(r, a) ==
  /\ r \in ArmType
  /\ Sound(a) => Sound(r)
  /\ r.mode = "Booting" => a.mode = "Booting"
  /\ r.jaws = "driving" => a.jaws = "driving"
  /\ \A c \in BOOLEAN : Owed(a, c) => Owed(r, c)

\* A flush leaves no cancelled sample and changes nothing a mode depends on
\* (exec.rs flush).
LEMMA FlushFacts ==
  ASSUME NEW a \in ArmType
  PROVE  /\ Flush(a) \in ArmType
         /\ Flush(a).mode = a.mode /\ Flush(a).homed = a.homed
         /\ Flush(a).jaws = a.jaws /\ Flush(a).stopping = a.stopping
         /\ "cancelled" \notin Flush(a).samples
  BY DEF Flush, ArmType

\* So does the end of a brake (exec.rs finish_stop).
LEMMA FinishStopFacts ==
  ASSUME NEW a \in ArmType
  PROVE  /\ FinishStop(a) \in ArmType
         /\ FinishStop(a).mode = a.mode /\ FinishStop(a).homed = a.homed
         /\ FinishStop(a).jaws = a.jaws
         /\ "cancelled" \notin FinishStop(a).samples
<1>. DEFINE b == [a EXCEPT !.stopping = FALSE]
<1>1. b \in ArmType /\ b.mode = a.mode /\ b.homed = a.homed /\ b.jaws = a.jaws
  BY DEF ArmType
<1>. QED  BY <1>1, FlushFacts DEF FinishStop

\* Leaving a mode ends a brake with its flush, and un-homes only from HOMING and
\* FLASHING (core.rs leave_mode).
LEMMA LeaveModeFacts ==
  ASSUME NEW a \in ArmType, NEW f \in BOOLEAN
  PROVE  LET b == LeaveMode(a, f) IN
         /\ b \in ArmType /\ b.mode = a.mode
         /\ a.mode \notin {"Homing", "Flashing"} => b.homed = a.homed
         /\ b.jaws \in {a.jaws, "idle"}
         /\ "cancelled" \in b.samples =>
              "cancelled" \in a.samples /\ ~(a.mode = "Exec" /\ a.stopping)
<1>1. CASE a.mode = "Homing" /\ a.homing
  BY <1>1 DEF LeaveMode, ArmType
<1>2. CASE a.mode = "Flashing"
  BY <1>2 DEF LeaveMode, ArmType
<1>3. CASE a.mode = "Exec" /\ a.stopping
  <2>1. LeaveMode(a, f) = [FinishStop(a) EXCEPT !.park = FALSE]
    BY <1>3 DEF LeaveMode
  <2>2. PICK c \in ArmType : c = FinishStop(a)
    BY FinishStopFacts
  <2>3. c.mode = a.mode /\ c.homed = a.homed /\ c.jaws = a.jaws /\ "cancelled" \notin c.samples
    BY <2>2, FinishStopFacts
  <2>4. LeaveMode(a, f) = [c EXCEPT !.park = FALSE]
    BY <2>1, <2>2
  <2>. HIDE DEF LeaveMode
  <2>. QED  BY <2>3, <2>4, <1>3 DEF ArmType
<1>4. CASE ~(a.mode = "Homing" /\ a.homing) /\ a.mode # "Flashing"
           /\ ~(a.mode = "Exec" /\ a.stopping)
  <2>1. LeaveMode(a, f) = [a EXCEPT !.park = FALSE]
    BY <1>4 DEF LeaveMode
  <2>. QED  BY <2>1, <1>4 DEF ArmType
<1>. QED  BY <1>1, <1>2, <1>3, <1>4

\* A new session resets its own fields only (core.rs enter_mode).
LEMMA NewSessionFacts ==
  ASSUME NEW a \in ArmType
  PROVE  LET b == NewSession(a) IN
         /\ b \in ArmType /\ b.mode = a.mode /\ b.homed = a.homed /\ b.jaws = a.jaws
         /\ b.samples = a.samples /\ b.stopping = a.stopping
<1>1. 0 \in 0..HbTimeout /\ 0 \in Nat
  BY RtCoreAssumption DEF RtCoreAssumption
<1>. QED  BY <1>1 DEF NewSession, ArmType

\* Opening EXEC keeps reference, jaws and samples (exec.rs activate).
LEMMA ActivateExecFacts ==
  ASSUME NEW a \in ArmType
  PROVE  LET b == ActivateExec(a) IN
         /\ b \in ArmType /\ b.mode = "Exec" /\ b.homed = a.homed /\ b.jaws = a.jaws
         /\ b.samples = a.samples
<1>1. PICK c \in ArmType : c = NewSession(a)
  BY NewSessionFacts
<1>2. c.homed = a.homed /\ c.jaws = a.jaws /\ c.samples = a.samples
  BY <1>1, NewSessionFacts
<1>3. ActivateExec(a) = [c EXCEPT !.mode = "Exec", !.stopping = FALSE]
  BY <1>1 DEF ActivateExec
<1>. QED  BY <1>2, <1>3 DEF ArmType, Modes, Working

\* A mode change keeps the reference but for HOMING, and a cancelled sample it
\* leaves was not owed a flush by this mode (core.rs enter_mode).
LEMMA EnterModeFacts ==
  ASSUME NEW a \in ArmType, NEW target \in Modes, NEW f \in BOOLEAN
  PROVE  LET r == EnterMode(a, target, f) IN
         /\ r \in ArmType /\ r.mode = target
         /\ target # "Homing" /\ a.mode \notin {"Homing", "Flashing"} => r.homed = a.homed
         /\ r.jaws = "driving" => a.jaws = "driving"
         /\ "cancelled" \in r.samples =>
              "cancelled" \in a.samples /\ ~(a.mode = "Exec" /\ a.stopping)
<1>1. PICK l \in ArmType : l = LeaveMode(a, f)
  BY LeaveModeFacts
<1>2. /\ a.mode \notin {"Homing", "Flashing"} => l.homed = a.homed
      /\ l.jaws = "driving" => a.jaws = "driving"
      /\ "cancelled" \in l.samples =>
           "cancelled" \in a.samples /\ ~(a.mode = "Exec" /\ a.stopping)
  BY <1>1, LeaveModeFacts
<1>3. PICK n \in ArmType : n = NewSession(l)
  BY NewSessionFacts
<1>4. n.homed = l.homed /\ n.jaws = l.jaws /\ n.samples = l.samples
  BY <1>3, NewSessionFacts
<1>5. PICK b \in ArmType : b = [n EXCEPT !.mode = target]
  BY DEF ArmType
<1>6. b.mode = target /\ b.homed = l.homed /\ b.jaws = l.jaws /\ b.samples = l.samples
  BY <1>4, <1>5 DEF ArmType
<1>7. b = [NewSession(LeaveMode(a, f)) EXCEPT !.mode = target]
  BY <1>1, <1>3, <1>5
<1>8. CASE target = "Exec"
  <2>1. EnterMode(a, target, f) = ActivateExec(b)
    BY <1>7, <1>8 DEF EnterMode
  <2>. QED  BY <1>2, <1>6, <1>8, <2>1, ActivateExecFacts
<1>9. CASE target = "Homing"
  <2>1. EnterMode(a, target, f) = [b EXCEPT !.homed = FALSE, !.homing = TRUE, !.cal_failed = FALSE]
    BY <1>7, <1>9 DEF EnterMode
  <2>a. [b EXCEPT !.homed = FALSE, !.homing = TRUE, !.cal_failed = FALSE] \in ArmType
    BY DEF ArmType
  <2>2. PICK r \in ArmType : r = [b EXCEPT !.homed = FALSE, !.homing = TRUE, !.cal_failed = FALSE]
    BY <2>a
  <2>3. r.mode = b.mode /\ r.jaws = b.jaws /\ r.samples = b.samples
    BY <2>2 DEF ArmType
  <2>. QED  BY <1>2, <1>6, <1>9, <2>1, <2>2, <2>3
<1>10. CASE target = "Flashing"
  <2>1. EnterMode(a, target, f) = [b EXCEPT !.silent = TRUE]
    BY <1>7, <1>10 DEF EnterMode
  <2>. QED  BY <1>2, <1>6, <1>10, <2>1 DEF ArmType
<1>11. CASE target \notin {"Exec", "Homing", "Flashing"}
  <2>1. EnterMode(a, target, f) = b
    BY <1>7, <1>11 DEF EnterMode
  <2>. QED  BY <1>2, <1>6, <2>1
<1>. QED  BY <1>8, <1>9, <1>10, <1>11

\* Whatever is requested, granted or refused (core.rs request_mode).
LEMMA RequestModeFacts ==
  ASSUME NEW a \in ArmType, NEW target \in Modes, NEW f \in BOOLEAN
  PROVE  Follows(RequestMode(a, target, f), a)
<1>1. CASE RequestMode(a, target, f) = a
  BY <1>1 DEF Follows
<1>2. CASE RequestMode(a, target, f) = Resume(a)
  <2>1. /\ Resume(a) \in ArmType
        /\ Resume(a).mode = a.mode /\ Resume(a).homed = a.homed /\ Resume(a).jaws = a.jaws
        /\ Resume(a).samples = a.samples /\ Resume(a).stopping = a.stopping
    BY DEF Resume, ArmType
  <2>. QED  BY <1>2, <2>1 DEF Follows, Sound, Owed
<1>3. CASE /\ RequestMode(a, target, f) = EnterMode(a, target, f)
           /\ Allowed(a.mode, target) /\ Granted(a, target)
  <2>1. /\ target # "Booting"
        /\ target \in {"Stream", "Exec"} => a.mode = "Idle" /\ a.homed
    BY <1>3 DEF Allowed, Granted, ArmType, Modes, Working
  <2>2. PICK r : r = EnterMode(a, target, f)
    OBVIOUS
  <2>3. /\ r \in ArmType /\ r.mode = target
        /\ target # "Homing" /\ a.mode \notin {"Homing", "Flashing"} => r.homed = a.homed
        /\ r.jaws = "driving" => a.jaws = "driving"
        /\ "cancelled" \in r.samples =>
             "cancelled" \in a.samples /\ ~(a.mode = "Exec" /\ a.stopping)
    BY <2>2, EnterModeFacts
  <2>4. Follows(r, a)
    BY <2>1, <2>3 DEF Follows, Sound, Owed
  <2>. QED  BY <1>3, <2>2, <2>4
<1>. QED  BY <1>1, <1>2, <1>3 DEF RequestMode

\* A jog or stream ends in a hold with a reference, or in IDLE
\* (core.rs rest_into_hold).
LEMMA RestIntoHoldFacts ==
  ASSUME NEW a \in ArmType, NEW codes, a.mode \in {"Jog", "Stream"}
  PROVE  LET r == RestIntoHold(a, codes) IN
         Follows(r, a) /\ r.mode \in {"Exec", "Idle"}
<1>1. CASE a.homed /\ enabled /\ codes = {}
  <2>1. PICK l \in ArmType : l = LeaveMode(a, FALSE)
    BY LeaveModeFacts
  <2>2. /\ l.homed /\ (l.jaws = "driving" => a.jaws = "driving")
        /\ "cancelled" \in l.samples =>
             "cancelled" \in a.samples /\ ~(a.mode = "Exec" /\ a.stopping)
    BY <1>1, <2>1, LeaveModeFacts
  <2>3. PICK r : r = ActivateExec(l)
    OBVIOUS
  <2>4. /\ r \in ArmType /\ r.mode = "Exec" /\ r.homed = l.homed /\ r.jaws = l.jaws
        /\ r.samples = l.samples
    BY <2>3, ActivateExecFacts
  <2>5. RestIntoHold(a, codes) = r
    BY <1>1, <2>1, <2>3 DEF RestIntoHold
  <2>. QED  BY <2>2, <2>4, <2>5 DEF Follows, Sound, Owed
<1>2. CASE ~(a.homed /\ enabled /\ codes = {})
  <2>1. RestIntoHold(a, codes) = EnterMode(a, "Idle", FALSE)
    BY <1>2 DEF RestIntoHold
  <2>2. "Idle" \in Modes
    BY DEF Modes
  <2>3. PICK r : r = EnterMode(a, "Idle", FALSE)
    OBVIOUS
  <2>4. /\ r \in ArmType /\ r.mode = "Idle"
        /\ r.jaws = "driving" => a.jaws = "driving"
        /\ "cancelled" \in r.samples =>
             "cancelled" \in a.samples /\ ~(a.mode = "Exec" /\ a.stopping)
    BY <2>2, <2>3, EnterModeFacts
  <2>. QED  BY <2>1, <2>3, <2>4 DEF Follows, Sound, Owed
<1>. QED  BY <1>1, <1>2

\* Follows composes: a tick applies several changes in a row.
LEMMA FollowsTransitive ==
  ASSUME NEW a, NEW b, NEW c, Follows(b, a), Follows(c, b)
  PROVE  Follows(c, a)
  BY DEF Follows

\* Flush and the end of a brake, as changes of the record (exec.rs).
LEMMA FlushFollows ==
  ASSUME NEW a \in ArmType
  PROVE  Follows(Flush(a), a) /\ Follows(FinishStop(a), a)
<1>1. PICK r : r = Flush(a)
  OBVIOUS
<1>2. PICK t : t = FinishStop(a)
  OBVIOUS
<1>3. /\ r \in ArmType /\ r.mode = a.mode /\ r.homed = a.homed /\ r.jaws = a.jaws
      /\ "cancelled" \notin r.samples
  BY <1>1, FlushFacts
<1>4. /\ t \in ArmType /\ t.mode = a.mode /\ t.homed = a.homed /\ t.jaws = a.jaws
      /\ "cancelled" \notin t.samples
  BY <1>2, FinishStopFacts
<1>. QED  BY <1>1, <1>2, <1>3, <1>4 DEF Follows, Sound, Owed

-----------------------------------------------------------------------------

\* The inductive invariant: the properties of the run, a booting core is not
\* enabled (Reaction keeps `enabled` in BOOTING), every cancelled sample is owed,
\* and the jaw property at every step of the tick.
IInv ==
  /\ TypeOK /\ NoWorkUnderAFault /\ StreamIsFed
  /\ arm.mode = "Booting" => ~enabled
  /\ Owed(arm, cut)
  /\ estop.standing /\ arm.jaws = "driving" => regrip

\* The core as constructed satisfies the invariant.
LEMMA InitInv == Init => IInv
<1>. SUFFICES ASSUME Init PROVE IInv
  OBVIOUS
<1>1. /\ 0 \in 0..HbTimeout /\ 0 \in Nat /\ 0 \in 0..SettleTicks /\ SelfcheckTick \in 0..SelfcheckTick
      /\ 0 \in 0..RecoverySettle /\ 0 \in 0..HoldTicks
  BY RtCoreAssumption DEF RtCoreAssumption
<1>2. arm \in ArmType
  BY <1>1 DEF Init, ArmType, Modes
<1>3. boot \in BootType
  BY <1>1 DEF Init, FreshBoot, BootType
<1>4. arm.mode = "Booting" /\ arm.samples = {} /\ ~enabled /\ ~estop.standing
  BY DEF Init
<1>5. TypeOK
  BY <1>1, <1>2, <1>3 DEF Init, TypeOK
<1>. QED
  BY <1>4, <1>5 DEF IInv, NoWorkUnderAFault, StreamIsFed, Owed, Working, Init

\* Phases 2-5: a change of the record that may follow, with nothing enabled, keeps
\* the invariant; what is latched and pressed is judged in phase 7 only.
LEMMA QuietStep ==
  ASSUME IInv, pc \in {"begin", "command"}, pc' \in {"command", "check"},
         Follows(arm', arm), TypeOK',
         cut' \in {cut, (cut /\ "cancelled" \in arm'.samples)},
         enabled' => enabled,
         estop'.standing = estop.standing, regrip' = regrip
  PROVE  IInv'
<1>1. Sound(arm') /\ (arm'.mode = "Booting" => arm.mode = "Booting")
      /\ (arm'.jaws = "driving" => arm.jaws = "driving")
  BY DEF IInv, NoWorkUnderAFault, Follows, Sound
<1>2. Owed(arm', cut')
  BY DEF IInv, TypeOK, Follows, Owed
<1>3. NoWorkUnderAFault' /\ StreamIsFed'
  BY <1>1 DEF NoWorkUnderAFault, StreamIsFed, Sound
<1>. QED  BY <1>1, <1>2, <1>3 DEF IInv, Owed

\* Phases 8 and 9: a change of the record that starts no work, a late fault, and
\* the clear countdown keep the invariant (core.rs tick, errors.rs tick).
LEMMA DispatchedStep ==
  ASSUME IInv, NEW a, NEW late \in SUBSET {"Late"}, Dispatched(a, late), Follows(a, arm),
         a.mode \in Working => arm.mode \in Working
  PROVE  IInv'
<1>1. settle' \in 0..SettleTicks
  BY RtCoreAssumption DEF IInv, TypeOK, Dispatched, Down, RtCoreAssumption
<1>2. latched' \in SUBSET Codes
  BY DEF IInv, TypeOK, Dispatched, Wiped, Codes
<1>3. TypeOK'
  BY <1>1, <1>2 DEF IInv, TypeOK, Dispatched, Follows
<1>4. Owed(arm', cut')
  BY DEF IInv, TypeOK, Dispatched, Follows, Owed
<1>5. NoWorkUnderAFault' /\ StreamIsFed'
  BY DEF IInv, NoWorkUnderAFault, StreamIsFed, Dispatched, Follows, Sound, Wiped, Pressed
<1>. QED  BY <1>3, <1>4, <1>5 DEF IInv, Dispatched, Follows, Owed

\* Phases 2-4 keep the invariant (core.rs boot_oneshots, release_tool_hold).
LEMMA ReadInputsStep == IInv /\ ReadInputs => IInv'
<1>. SUFFICES ASSUME IInv, ReadInputs PROVE IInv'
  OBVIOUS
<1>0. /\ 0 \in 0..RecoverySettle /\ 1 \in 0..RecoverySettle /\ RecoverySettle \in 0..RecoverySettle
      /\ HoldTicks \in 0..HoldTicks
  BY RtCoreAssumption DEF RtCoreAssumption
<1>1. arm \in ArmType /\ boot \in BootType /\ "Idle" \in Modes /\ Counted \in BootType
  <2>1. boot \in BootType
    BY DEF IInv, TypeOK
  <2>2. /\ Down(boot.check) \in 0..SelfcheckTick /\ Down(boot.rescan) \in 0..RecoverySettle
        /\ Down(boot.patience) \in 0..HoldTicks
    BY <2>1, RtCoreAssumption DEF BootType, Down, RtCoreAssumption
  <2>3. Counted \in BootType
    BY <2>1, <2>2 DEF BootType, Counted
  <2>. QED  BY <2>1, <2>3 DEF IInv, TypeOK, Modes
<1>2. Follows(Aged(arm), arm)
  <2>1. /\ Aged(arm) \in ArmType /\ Aged(arm).mode = arm.mode /\ Aged(arm).homed = arm.homed
        /\ Aged(arm).jaws = arm.jaws /\ Aged(arm).samples = arm.samples
        /\ Aged(arm).stopping = arm.stopping
    BY <1>1 DEF Aged, ArmType
  <2>. QED  BY <2>1 DEF Follows, Sound, Owed
<1>3. Follows(RequestMode(arm, "Idle", FALSE), arm)
  BY <1>1, RequestModeFacts
<1>4. ASSUME NEW b \in BootType, ReleaseToolHold(b)
      PROVE  Follows(arm', arm) /\ boot' \in BootType
  BY <1>2, <1>3, <1>4 DEF ReleaseToolHold, BootType
<1>5. Follows(arm', arm) /\ boot' \in BootType /\ latched' \in SUBSET Codes
  <2>1. CASE Reconfigure
    <3>1. [Counted EXCEPT !.configured = TRUE, !.rescan = 1] \in BootType
      BY <1>0, <1>1 DEF BootType
    <3>. QED  BY <1>2, <2>1, <3>1 DEF Reconfigure, IInv, TypeOK
  <2>2. CASE RecoverLink
    <3>1. [Counted EXCEPT !.recovered = TRUE, !.rescan = RecoverySettle] \in BootType
      BY <1>0, <1>1 DEF BootType
    <3>. QED  BY <1>2, <2>2, <3>1 DEF RecoverLink, IInv, TypeOK
  <2>3. CASE Selfcheck
    <3>1. /\ [Counted EXCEPT !.rescan = 0, !.hold = TRUE, !.patience = HoldTicks] \in BootType
          /\ [Counted EXCEPT !.rescan = 0] \in BootType
      BY <1>0, <1>1 DEF BootType
    <3>2. latched' \in SUBSET Codes
      BY <2>3 DEF Selfcheck, IInv, TypeOK, Codes
    <3>. QED  BY <1>4, <2>3, <3>1, <3>2 DEF Selfcheck
  <2>4. CASE NoSelfcheck
    BY <1>1, <1>4, <2>4 DEF NoSelfcheck, IInv, TypeOK
  <2>. QED  BY <2>1, <2>2, <2>3, <2>4 DEF ReadInputs
<1>6. estop' \in [hw : BOOLEAN, soft : BOOLEAN, standing : BOOLEAN] /\ estop'.standing = estop.standing
  BY DEF IInv, TypeOK, ReadInputs
<1>7. TypeOK'
  BY <1>5, <1>6 DEF IInv, TypeOK, ReadInputs, Follows
<1>. QED  BY <1>5, <1>6, <1>7, QuietStep DEF ReadInputs

\* A command that changes the arm record alone keeps the invariant.
LEMMA AlterStep ==
  ASSUME IInv, NEW a, Follows(a, arm), Alter(a)
  PROVE  IInv'
<1>1. TypeOK'
  BY DEF IInv, TypeOK, Alter, Command, Follows
<1>. QED  BY <1>1, QuietStep DEF Alter, Command

\* Changes of single fields that may follow (core.rs apply_command, exec.rs tick).
LEMMA FieldsFollow ==
  ASSUME NEW a \in ArmType, NEW v \in BOOLEAN, NEW j \in {"held", "idle"}
  PROVE  /\ Follows([a EXCEPT !.park = v], a)
         /\ Follows([a EXCEPT !.released = v], a)
         /\ Follows([a EXCEPT !.cal_failed = v], a)
         /\ Follows([a EXCEPT !.settling = v], a)
         /\ Follows([a EXCEPT !.settling = FALSE, !.faulted = TRUE], a)
         /\ Follows([a EXCEPT !.age = 0], a)
         /\ Follows([a EXCEPT !.jaws = j], a)
<1>1. Follows([a EXCEPT !.park = v], a)
  BY DEF Follows, Sound, Owed, ArmType
<1>2. Follows([a EXCEPT !.released = v], a)
  BY DEF Follows, Sound, Owed, ArmType
<1>3. Follows([a EXCEPT !.cal_failed = v], a)
  BY DEF Follows, Sound, Owed, ArmType
<1>4. Follows([a EXCEPT !.settling = v], a)
  BY DEF Follows, Sound, Owed, ArmType
<1>5. Follows([a EXCEPT !.settling = FALSE, !.faulted = TRUE], a)
  BY DEF Follows, Sound, Owed, ArmType
<1>6. Follows([a EXCEPT !.age = 0], a)
  BY DEF Follows, Sound, Owed, ArmType
<1>7. Follows([a EXCEPT !.jaws = j], a)
  BY DEF Follows, Sound, Owed, ArmType
<1>. QED  BY <1>1, <1>2, <1>3, <1>4, <1>5, <1>6, <1>7

\* ExecStop keeps the invariant: in EXEC the marked samples are owed by the brake,
\* elsewhere they are gone (core.rs apply_command).
LEMMA ExecStopStep ==
  ASSUME IInv, ExecStop
  PROVE  IInv'
<1>0. arm \in ArmType
  BY DEF IInv, TypeOK
<1>b. PICK a : a = [arm EXCEPT !.samples = IF @ = {} THEN {} ELSE {"cancelled"}]
  OBVIOUS
<1>1. /\ a \in ArmType /\ a.mode = arm.mode /\ a.homed = arm.homed /\ a.jaws = arm.jaws
  BY <1>0, <1>b DEF ArmType
<1>2. CASE arm.mode = "Exec"
  <2>1. PICK r : r = [a EXCEPT !.stopping = TRUE]
    OBVIOUS
  <2>2. /\ r \in ArmType /\ r.mode = arm.mode /\ r.homed = arm.homed /\ r.jaws = arm.jaws
        /\ r.stopping
    BY <1>1, <2>1 DEF ArmType
  <2>3. Follows(r, arm)
    BY <1>2, <2>2 DEF Follows, Sound, Owed
  <2>4. Alter(r)
    BY <1>b, <1>1, <1>2, <2>1 DEF ExecStop
  <2>. QED  BY <2>3, <2>4, AlterStep
<1>3. CASE arm.mode = "Homing"
  <2>1. PICK q : q = RequestMode(a, "Idle", FALSE)
    OBVIOUS
  <2>2. Follows(q, a)
    BY <1>1, <2>1, RequestModeFacts DEF Modes
  <2>3. PICK r : r = Flush(q)
    OBVIOUS
  <2>4. /\ r \in ArmType /\ r.mode = q.mode /\ r.homed = q.homed /\ r.jaws = q.jaws
        /\ "cancelled" \notin r.samples
    BY <2>2, <2>3, FlushFacts DEF Follows
  <2>5. Follows(r, arm)
    BY <1>1, <2>2, <2>4 DEF Follows, Sound, Owed
  <2>6. Alter(r)
    BY <1>b, <1>1, <1>3, <2>1, <2>3 DEF ExecStop
  <2>. QED  BY <2>5, <2>6, AlterStep
<1>4. CASE arm.mode \notin {"Exec", "Homing"}
  <2>1. PICK r : r = Flush(a)
    OBVIOUS
  <2>2. /\ r \in ArmType /\ r.mode = arm.mode /\ r.homed = arm.homed /\ r.jaws = arm.jaws
        /\ "cancelled" \notin r.samples
    BY <1>1, <2>1, FlushFacts
  <2>3. Follows(r, arm)
    BY <2>2 DEF Follows, Sound, Owed
  <2>4. Alter(r)
    BY <1>b, <1>1, <1>4, <2>1 DEF ExecStop
  <2>. QED  BY <2>3, <2>4, AlterStep
<1>. QED  BY <1>2, <1>3, <1>4

\* Every command keeps the invariant (core.rs apply_command).
LEMMA CommandSteps == IInv /\ ApplyCommand => IInv'
<1>. SUFFICES ASSUME IInv, ApplyCommand PROVE IInv'
  OBVIOUS
<1>0. arm \in ArmType
  BY DEF IInv, TypeOK
<1>a. Follows(arm, arm)
  BY <1>0 DEF Follows
<1>1. CASE NoCommand
  <2>1. TypeOK'
    BY <1>1 DEF NoCommand, Command, history, IInv, TypeOK
  <2>. QED  BY <1>1, <1>a, <2>1, QuietStep DEF NoCommand, Command, history
<1>2. ASSUME NEW target \in Modes, SetMode(target) PROVE IInv'
  <2>1. Follows(arm', arm)
    BY <1>0, <1>2, RequestModeFacts DEF SetMode
  <2>2. TypeOK'
    BY <1>2, <2>1 DEF SetMode, Command, IInv, TypeOK, Follows
  <2>. QED  BY <1>2, <2>1, <2>2, QuietStep DEF SetMode, Command
<1>3. CASE Enable
  BY <1>3 DEF Enable, MayEnable, Command, history, IInv, TypeOK, NoWorkUnderAFault, StreamIsFed, Owed
<1>4. CASE Disable
  <2>1. TypeOK'
    BY <1>4 DEF Disable, Command, history, IInv, TypeOK
  <2>. QED  BY <1>4, <1>a, <2>1, QuietStep DEF Disable, Command, history
<1>5. CASE ClearErrors
  <2>1. Follows(arm', arm)
    BY <1>0, <1>5, FieldsFollow DEF ClearErrors
  <2>2. TypeOK'
    BY <1>5, <2>1, RtCoreAssumption DEF ClearErrors, Command, history, IInv, TypeOK, Follows, RtCoreAssumption
  <2>. QED  BY <1>5, <2>1, <2>2, QuietStep DEF ClearErrors, Command, history
<1>6. ASSUME NEW on \in BOOLEAN, SetSoftEstop(on) PROVE IInv'
  <2>1. TypeOK' /\ estop'.standing = estop.standing
    BY <1>6 DEF SetSoftEstop, Command, history, IInv, TypeOK
  <2>. QED  BY <1>6, <1>a, <2>1, QuietStep DEF SetSoftEstop, Command, history
<1>7. CASE AssertParked
  BY <1>0, <1>7, FieldsFollow, AlterStep DEF AssertParked
<1>8. CASE Jog \/ JogRelease \/ StreamRelease
  BY <1>0, <1>8, FieldsFollow, AlterStep DEF Jog, JogRelease, StreamRelease
<1>9. CASE ExecFlush
  BY <1>0, <1>9, FlushFollows, AlterStep DEF ExecFlush
<1>10. CASE ExecStop
  BY <1>10, ExecStopStep
<1>11. CASE Hold
  BY <1>0, <1>11, RestIntoHoldFacts, AlterStep DEF Hold
<1>12. CASE GravityComp
  <2>1. Follows(RequestMode(arm, "Idle", FALSE), arm)
    BY <1>0, RequestModeFacts DEF Modes
  <2>. QED  BY <1>12, <2>1, AlterStep DEF GravityComp
<1>13. CASE Gripper
  <2>1. /\ arm' \in ArmType /\ arm'.mode = arm.mode /\ arm'.homed = arm.homed
        /\ arm'.samples = arm.samples /\ arm'.stopping = arm.stopping
    BY <1>0, <1>13 DEF Gripper, ArmType
  <2>2. TypeOK'
    BY <1>13, <2>1 DEF Gripper, Command, IInv, TypeOK
  <2>. QED
    BY <1>13, <2>1, <2>2 DEF Gripper, Command, IInv, NoWorkUnderAFault, StreamIsFed, Owed
<1>14. CASE GripperStop \/ GripperIdle
  BY <1>0, <1>14, FieldsFollow, AlterStep DEF GripperStop, GripperIdle
<1>. QED
  BY <1>1, <1>2, <1>3, <1>4, <1>5, <1>6, <1>7, <1>8, <1>9, <1>10, <1>11, <1>12, <1>13, <1>14
  DEF ApplyCommand

\* Phase 7 establishes that nothing works under a fault, whatever phases 2-5 did:
\* it looks at the e-stop, the latch, the watchdogs and a lost node together
\* (core.rs check_errors).
LEMMA CheckErrorsStep == IInv /\ CheckErrors => IInv'
<1>. SUFFICES ASSUME IInv, CheckErrors PROVE IInv'
  OBVIOUS
<1>0. arm \in ArmType
  BY DEF IInv, TypeOK
<1>1. PICK found \in Findings :
        \E b \in Listened([arm EXCEPT !.homed = @ /\ found # "lost"]) : \E a \in HaltJaws(b) :
          LET codes == Latches(a, found # "clean")
          IN  /\ latched' = codes
              /\ enabled' = (enabled /\ (codes = {} \/ arm.mode = "Booting"))
              /\ arm' = Reaction(a, codes)
  BY DEF CheckErrors
<1>2. PICK h : h = [arm EXCEPT !.homed = @ /\ found # "lost"]
  OBVIOUS
<1>3. /\ h \in ArmType /\ h.mode = arm.mode /\ h.jaws = arm.jaws
      /\ h.samples = arm.samples /\ h.stopping = arm.stopping
      /\ found # "lost" => h.homed = arm.homed
  BY <1>0, <1>2 DEF ArmType
<1>c. PICK b \in Listened(h) : \E a \in HaltJaws(b) :
        LET codes == Latches(a, found # "clean")
        IN  /\ latched' = codes
            /\ enabled' = (enabled /\ (codes = {} \/ arm.mode = "Booting"))
            /\ arm' = Reaction(a, codes)
  BY <1>1, <1>2
<1>4. PICK a \in HaltJaws(b) :
        LET codes == Latches(a, found # "clean")
        IN  /\ latched' = codes
            /\ enabled' = (enabled /\ (codes = {} \/ arm.mode = "Booting"))
            /\ arm' = Reaction(a, codes)
  BY <1>c
<1>5. /\ b \in ArmType /\ b.mode = arm.mode /\ b.jaws = arm.jaws
      /\ b.samples = arm.samples /\ b.stopping = arm.stopping
      /\ b.homed = h.homed
  <2>1. h.hb_silence \in 0..HbTimeout
    BY <1>3 DEF ArmType
  <2>2. 0 \in 0..HbTimeout /\ (h.hb_silence < HbTimeout => h.hb_silence + 1 \in 0..HbTimeout)
    BY <2>1, RtCoreAssumption DEF RtCoreAssumption
  <2>3. PICK k \in 0..HbTimeout : b = [h EXCEPT !.hb_silence = k] \/ b = h
    BY <1>4, <2>1, <2>2 DEF Listened
  <2>. QED  BY <1>3, <2>3 DEF ArmType
<1>6. /\ a \in ArmType /\ a.mode = arm.mode
      /\ a.samples = arm.samples /\ a.stopping = arm.stopping
      /\ a.homed = h.homed
      /\ a.jaws = "driving" => arm.jaws = "driving" /\ ~(Pressed(estop) /\ ~estop.standing)
  <2>1. CASE a = b /\ ~(Pressed(estop) /\ ~estop.standing /\ b.jaws # "idle")
    BY <1>5, <2>1
  <2>2. CASE a = [b EXCEPT !.jaws = "held"] \/ a = [b EXCEPT !.jaws = "idle"]
    BY <1>5, <2>2 DEF ArmType
  <2>. QED  BY <1>4, <2>1, <2>2 DEF HaltJaws
<1>7. PICK codes : codes = Latches(a, found # "clean")
  OBVIOUS
<1>8. /\ codes \in SUBSET Codes
      /\ codes = {} => latched = {} /\ ~Pressed(estop) /\ found = "clean" /\ ~StreamLinkLost(a)
  BY <1>7 DEF Latches, IInv, TypeOK, Codes
<1>9. /\ latched' = codes
      /\ enabled' = (enabled /\ (codes = {} \/ arm.mode = "Booting"))
      /\ arm' = Reaction(a, codes)
  BY <1>4, <1>7
<1>10. /\ arm' \in ArmType
       /\ arm'.jaws = "driving" => a.jaws = "driving"
       /\ Owed(a, cut) => Owed(arm', cut)
       /\ \/ codes # {} /\ arm'.mode \in {"ActiveError", "Flashing", "SafetyStop"}
          \/ codes = {} /\ arm' = a /\ a.mode # "ActiveError"
          \/ codes = {} /\ arm'.mode = "Idle" /\ a.mode = "ActiveError"
  <2>1. CASE codes # {} /\ a.mode \notin {"ActiveError", "Flashing", "SafetyStop"}
    <3>1. arm' = EnterMode(a, "ActiveError", FALSE)
      BY <1>9, <2>1 DEF Reaction
    <3>2. /\ arm' \in ArmType /\ arm'.mode = "ActiveError"
          /\ arm'.jaws = "driving" => a.jaws = "driving"
          /\ "cancelled" \in arm'.samples =>
               "cancelled" \in a.samples /\ ~(a.mode = "Exec" /\ a.stopping)
      BY <1>6, <3>1, EnterModeFacts DEF Modes
    <3>. QED  BY <2>1, <3>2 DEF Owed
  <2>2. CASE codes = {} /\ a.mode = "ActiveError"
    <3>1. arm' = EnterMode(a, "Idle", FALSE)
      BY <1>9, <2>2 DEF Reaction
    <3>2. /\ arm' \in ArmType /\ arm'.mode = "Idle"
          /\ arm'.jaws = "driving" => a.jaws = "driving"
          /\ "cancelled" \in arm'.samples =>
               "cancelled" \in a.samples /\ ~(a.mode = "Exec" /\ a.stopping)
      BY <1>6, <3>1, EnterModeFacts DEF Modes
    <3>. QED  BY <2>2, <3>2 DEF Owed
  <2>3. CASE /\ ~(codes # {} /\ a.mode \notin {"ActiveError", "Flashing", "SafetyStop"})
             /\ ~(codes = {} /\ a.mode = "ActiveError")
    <3>1. arm' = a
      BY <1>9, <2>3 DEF Reaction
    <3>. QED  BY <1>6, <2>3, <3>1
  <2>. QED  BY <2>1, <2>2, <2>3
<1>11. /\ pc' = "dispatch" /\ estop' = [estop EXCEPT !.standing = Pressed(estop)]
       /\ regrip' = (regrip /\ Pressed(estop)) /\ settle' = settle /\ boot' = boot
       /\ cut' = (cut /\ "cancelled" \in arm'.samples)
  BY DEF CheckErrors
<1>12. estop' \in [hw : BOOLEAN, soft : BOOLEAN, standing : BOOLEAN]
       /\ estop'.standing = Pressed(estop) /\ Pressed(estop') = Pressed(estop)
  BY <1>11 DEF IInv, TypeOK, Pressed
<1>13. TypeOK'
  <2>1. regrip' \in BOOLEAN /\ cut' \in BOOLEAN /\ enabled' \in BOOLEAN
    BY <1>9, <1>11 DEF IInv, TypeOK
  <2>. QED  BY <1>8, <1>9, <1>10, <1>11, <1>12, <2>1 DEF IInv, TypeOK
<1>14. Owed(arm', cut')
  BY <1>6, <1>10, <1>11 DEF IInv, Owed
<1>15. arm'.mode = "Booting" => ~enabled'
  BY <1>6, <1>9, <1>10 DEF IInv
<1>16. estop'.standing /\ arm'.jaws = "driving" => regrip'
  BY <1>6, <1>10, <1>11, <1>12 DEF IInv
<1>17. NoWorkUnderAFault'
  <2>1. (enabled' \/ arm'.mode \in Working) => ~Pressed(estop') /\ latched' = {}
    BY <1>6, <1>8, <1>9, <1>10, <1>12 DEF IInv, Working
  <2>2. arm'.mode \in {"Stream", "Exec"} => arm'.homed
    BY <1>3, <1>6, <1>8, <1>10 DEF IInv, NoWorkUnderAFault
  <2>. QED  BY <1>11, <2>1, <2>2 DEF NoWorkUnderAFault
<1>18. StreamIsFed'
  <2>1. a.age \in Nat /\ StreamTimeout \in Nat
    BY <1>6, RtCoreAssumption DEF ArmType, RtCoreAssumption
  <2>. QED  BY <1>8, <1>10, <2>1 DEF StreamIsFed, StreamLinkLost
<1>. QED  BY <1>13, <1>14, <1>15, <1>16, <1>17, <1>18 DEF IInv, Owed

\* The laws of all modes keep the invariant (core.rs dispatch_and_send).
LEMMA DispatchStep == IInv /\ Dispatch => IInv'
<1>. SUFFICES ASSUME IInv, Dispatch PROVE IInv'
  OBVIOUS
<1>0. arm \in ArmType /\ Follows(arm, arm)
  BY DEF IInv, TypeOK, Follows
<1>1. CASE Steady
  BY <1>0, <1>1, DispatchedStep DEF Steady
<1>2. CASE JogTick
  <2>1. Follows(RestIntoHold(arm, latched), arm) /\ arm.mode \in Working
    BY <1>0, <1>2, RestIntoHoldFacts DEF JogTick, Working
  <2>. QED  BY <1>0, <1>2, <2>1, DispatchedStep DEF JogTick
<1>3. CASE StreamTick
  <2>1. PICK late \in SUBSET {"Late"}, a \in Intake(arm) :
          Dispatched(a, late) \/ Dispatched(RestIntoHold(a, latched \cup late), late)
    BY <1>3 DEF StreamTick
  <2>2. a \in ArmType /\ Follows(a, arm) /\ a.mode = "Stream" /\ arm.mode \in Working
    <3>1. CASE a = arm
      BY <1>0, <1>3, <3>1 DEF StreamTick, Working
    <3>2. CASE a = [arm EXCEPT !.age = 0]
      <4>1. Follows(a, arm)
        BY <1>0, <3>2, FieldsFollow
      <4>2. a.mode = arm.mode
        BY <1>0, <3>2 DEF ArmType
      <4>. QED  BY <1>3, <4>1, <4>2 DEF StreamTick, Follows, Working
    <3>. QED  BY <2>1, <3>1, <3>2 DEF Intake
  <2>3. Follows(RestIntoHold(a, latched \cup late), a)
    BY <2>2, RestIntoHoldFacts
  <2>4. Follows(RestIntoHold(a, latched \cup late), arm)
    BY <2>2, <2>3, FollowsTransitive
  <2>. QED  BY <2>1, <2>2, <2>4, DispatchedStep
<1>4. CASE ExecTick
  <2>1. PICK b \in Braked(arm) : \E a \in PlayTicks(b) :
          Dispatched(a, IF a.faulted /\ ~b.faulted THEN {"Late"} ELSE {})
    BY <1>4 DEF ExecTick
  <2>2. PICK a \in PlayTicks(b) :
          Dispatched(a, IF a.faulted /\ ~b.faulted THEN {"Late"} ELSE {})
    BY <2>1
  <2>3. Follows(b, arm) /\ b \in ArmType
    BY <1>0, <2>1, FlushFollows DEF Braked, Follows
  <2>4. ASSUME NEW c \in ArmType, NEW d \in Plays(c) PROVE Follows(d, c)
    <3>1. CASE d = c
      BY <3>1 DEF Follows
    <3>2. CASE d = [c EXCEPT !.settling = TRUE]
      BY <3>2, FieldsFollow
    <3>3. CASE d = [c EXCEPT !.samples = IF "cancelled" \in @ THEN @ \ {"cancelled"} ELSE {}]
      <4>1. /\ d \in ArmType /\ d.mode = c.mode /\ d.homed = c.homed /\ d.jaws = c.jaws
            /\ "cancelled" \notin d.samples
        BY <3>3 DEF ArmType
      <4>. QED  BY <4>1 DEF Follows, Sound, Owed
    <3>. QED  BY <2>4, <3>1, <3>2, <3>3 DEF Plays
  <2>5. Follows(a, b)
    <3>1. CASE a = b
      BY <2>3, <3>1 DEF Follows
    <3>2. CASE a = [b EXCEPT !.settling = FALSE, !.faulted = TRUE]
      BY <2>3, <3>2, FieldsFollow
    <3>3. CASE a \in Plays(b)
      BY <2>3, <2>4, <3>3
    <3>4. CASE a \in Plays([b EXCEPT !.settling = FALSE])
      <4>1. PICK c : c = [b EXCEPT !.settling = FALSE]
        OBVIOUS
      <4>2. Follows(c, b) /\ c \in ArmType
        BY <2>3, <4>1, FieldsFollow DEF Follows
      <4>3. Follows(a, c)
        BY <2>4, <3>4, <4>1, <4>2
      <4>. QED  BY <4>2, <4>3, FollowsTransitive
    <3>. QED  BY <2>2, <3>1, <3>2, <3>3, <3>4 DEF PlayTicks
  <2>6. Follows(a, arm) /\ arm.mode \in Working
    BY <1>4, <2>3, <2>5, FollowsTransitive DEF ExecTick, Working
  <2>. QED  BY <2>2, <2>6, DispatchedStep
<1>5. CASE HomingTick
  <2>1. CASE Dispatched(arm, {})
    BY <1>0, <2>1, DispatchedStep
  <2>2. ASSUME NEW homed \in BOOLEAN, NEW cal_failed \in BOOLEAN,
               Dispatched(EnterMode([arm EXCEPT !.homing = FALSE, !.homed = homed,
                                                !.jaws = "idle", !.cal_failed = cal_failed],
                                    "Idle", FALSE), {})
        PROVE  IInv'
    <3>1. PICK d : d = [arm EXCEPT !.homing = FALSE, !.homed = homed,
                                   !.jaws = "idle", !.cal_failed = cal_failed]
      OBVIOUS
    <3>2. d \in ArmType /\ d.samples = arm.samples /\ d.jaws = "idle"
      BY <1>0, <3>1 DEF ArmType
    <3>3. PICK r : r = EnterMode(d, "Idle", FALSE)
      OBVIOUS
    <3>4. /\ r \in ArmType /\ r.mode = "Idle" /\ r.jaws # "driving"
          /\ "cancelled" \in r.samples => "cancelled" \in d.samples
      BY <3>2, <3>3, EnterModeFacts DEF Modes
    <3>5. Follows(r, arm)
      BY <1>5, <3>2, <3>4 DEF Follows, Sound, Owed, HomingTick
    <3>6. Dispatched(r, {}) /\ arm.mode \in Working
      BY <1>5, <2>2, <3>1, <3>3 DEF HomingTick, Working
    <3>. QED  BY <3>5, <3>6, DispatchedStep
  <2>. QED  BY <1>5, <2>1, <2>2 DEF HomingTick
<1>. QED  BY <1>1, <1>2, <1>3, <1>4, <1>5 DEF Dispatch

\* The planner's fill, the core ops and stuttering keep it (core.rs replace_bus,
\* set_homed, set_gripper_tool).
LEMMA OtherSteps == IInv /\ (Fill \/ Ops \/ UNCHANGED vars) => IInv'
<1>. SUFFICES ASSUME IInv, Fill \/ Ops \/ UNCHANGED vars PROVE IInv'
  OBVIOUS
<1>0. arm \in ArmType
  BY DEF IInv, TypeOK
<1>1. CASE Fill
  <2>1. /\ arm' \in ArmType /\ arm'.mode = arm.mode /\ arm'.homed = arm.homed
        /\ arm'.jaws = arm.jaws /\ arm'.stopping = arm.stopping
        /\ arm'.released = arm.released /\ arm'.age = arm.age
        /\ "cancelled" \in arm'.samples => "cancelled" \in arm.samples
    BY <1>0, <1>1 DEF Fill, ArmType
  <2>2. TypeOK'
    BY <1>1, <2>1 DEF Fill, history, IInv, TypeOK
  <2>. QED
    BY <1>1, <2>1, <2>2 DEF Fill, history, IInv, NoWorkUnderAFault, StreamIsFed, Owed, Pressed
<1>2. ASSUME NEW sim \in BOOLEAN, ReplaceBus(sim) PROVE IInv'
  <2>1. /\ arm' \in ArmType /\ arm'.mode = "Booting" /\ arm'.jaws = arm.jaws
        /\ arm'.samples = arm.samples
    BY <1>0, <1>2 DEF ReplaceBus, ArmType, Modes
  <2>2. boot' \in BootType
    <3>1. /\ SelfcheckTick \in 0..SelfcheckTick /\ 0 \in 0..RecoverySettle /\ 0 \in 0..HoldTicks
      BY RtCoreAssumption DEF RtCoreAssumption
    <3>. QED  BY <1>2, <3>1 DEF ReplaceBus, FreshBoot, BootType
  <2>3. TypeOK'
    BY <1>0, <1>2, <2>1, <2>2 DEF ReplaceBus, IInv, TypeOK, ArmType
  <2>4. Owed(arm', cut')
    BY <1>0, <1>2, <2>1 DEF ReplaceBus, IInv, Owed
  <2>. QED
    BY <1>2, <2>1, <2>3, <2>4 DEF ReplaceBus, IInv, NoWorkUnderAFault, StreamIsFed, Owed, Working
<1>3. CASE Teleport \/ FitTool
  <2>1. /\ arm' \in ArmType /\ arm'.mode = arm.mode /\ (arm.homed => arm'.homed)
        /\ (arm'.jaws = "driving" => arm.jaws = "driving")
        /\ arm'.samples = arm.samples /\ arm'.stopping = arm.stopping
    BY <1>0, <1>3 DEF Teleport, FitTool, ArmType
  <2>2. TypeOK'
    BY <1>3, <2>1 DEF Teleport, FitTool, history, IInv, TypeOK
  <2>. QED
    BY <1>3, <2>1, <2>2
    DEF Teleport, FitTool, history, IInv, NoWorkUnderAFault, StreamIsFed, Owed, Pressed
<1>4. CASE UNCHANGED vars
  BY <1>4 DEF vars, IInv, TypeOK, NoWorkUnderAFault, StreamIsFed, Owed, Pressed
<1>. QED  BY <1>1, <1>2, <1>3, <1>4 DEF Ops

\* Every step keeps the invariant.
LEMMA StepInv == IInv /\ [Next]_vars => IInv'
  BY ReadInputsStep, CommandSteps, CheckErrorsStep, DispatchStep, OtherSteps DEF Next

\* The invariant holds in every state the core reaches.
THEOREM CoreInvariant == Spec => []IInv
  BY InitInv, StepInv, PTL DEF Spec

\* The types, and that no countdown leaves its window (boot_oneshots, errors.tick).
THEOREM CoreTypes == Spec => []TypeOK
<1>1. IInv => TypeOK
  BY DEF IInv
<1>. QED  BY <1>1, CoreInvariant, PTL

\* Nothing is enabled or works under an e-stop or a latched fault when the frames
\* of a tick are sent, and STREAM and EXEC always have a reference
\* (check_errors, request_mode, rest_into_hold).
THEOREM FaultsStopWork == Spec => []NoWorkUnderAFault
<1>1. IInv => NoWorkUnderAFault
  BY DEF IInv
<1>. QED  BY <1>1, CoreInvariant, PTL

\* EXEC never plays a sample of a cancelled program once the brake is over, but
\* after a bus swap cut that brake short (leave_mode, finish_stop).
THEOREM CancelledStaysUnplayed == Spec => []CancelledNeverPlayed
<1>1. IInv => CancelledNeverPlayed
  BY DEF IInv, Owed, CancelledNeverPlayed
<1>. QED  BY <1>1, CoreInvariant, PTL

\* An e-stop from either source leaves no grip driving on (check_errors).
THEOREM JawsHalt == Spec => []EstopHaltsJaws
<1>1. IInv => EstopHaltsJaws
  BY DEF IInv, EstopHaltsJaws
<1>. QED  BY <1>1, CoreInvariant, PTL

\* No stream goes on unfed for its timeout (check_errors, stream watchdog).
THEOREM StreamsAreFed == Spec => []StreamIsFed
<1>1. IInv => StreamIsFed
  BY DEF IInv
<1>. QED  BY <1>1, CoreInvariant, PTL

-----------------------------------------------------------------------------
(***************************************************************************)
(* The stop path.  Moves are offered, serviced and filled in the order of  *)
(* their numbers, each once, so the move filled in generation g is g - 1   *)
(* and the newest one is fill - 1.  The invariant follows it: every older  *)
(* move was answered, the newest one's samples close the ring and are the  *)
(* ones it has not played, and what is marked in the ring was dropped and  *)
(* is owed a flush.                                                        *)
(***************************************************************************)

Request == [op : {"Start"}, cmd : 1..StopMoves] \cup [op : {"Cancel"}]

Event == [op : {"Started", "Outcome"}, cmd : 1..StopMoves]

Queueable == [cmd : 1..StopMoves, gen : Nat, is_last : BOOLEAN]

Playback ==
  [mode : {"idle", "exec"}, stopping : BOOLEAN, still : BOOLEAN, settling : BOOLEAN,
   armed : 0..StopMoves, owe : 0..StopMoves, last : 0..StopMoves, completed : 0..StopMoves]

\* The last move offered to the planner.
Offered == IF stop_planning # 0 THEN stop_planning ELSE stop_queued - Len(stop_pending)

Answered == stop_done \cup stop_dropped

\* The last move whose generation the planner opened, 0 for none.
Newest == stop_fill - 1

\* How many of its samples are in the ring or were.
Pushed == IF stop_inflight = Stop!NoFlight THEN StopTrajLen ELSE stop_inflight.cursor

\* Starts in the queue q are those of the moves f..o, in order, and a Cancel follows
\* only moves that are answered.
InOrder(q, f, o, ans) ==
  /\ f - 1 <= o
  /\ \A c \in f..o : \E i \in DOMAIN q : q[i].op = "Start" /\ q[i].cmd = c
  /\ \A i \in DOMAIN q : q[i].op = "Start" => q[i].cmd \in f..o
  /\ \A i, j \in DOMAIN q :
       i < j /\ q[i].op = "Start" /\ q[j].op = "Start" => q[i].cmd < q[j].cmd
  /\ \A i \in DOMAIN q : q[i].op = "Cancel" =>
       \A c \in 1..o :
         c \in ans \/ \E j \in DOMAIN q : j > i /\ q[j].op = "Start" /\ q[j].cmd = c

\* The ring holds samples in order, of moves that were dropped and then r of the
\* newest move n; its last one is there once the whole move is.
Filled(q, n, gone, r, whole) ==
  /\ \A k \in DOMAIN q : q[k].gen = q[k].cmd + 1 /\ q[k].cmd <= n
  /\ \A j, k \in DOMAIN q : j < k => q[j].cmd <= q[k].cmd
  /\ \A k \in DOMAIN q : q[k].cmd # n => q[k].cmd \in gone
  /\ n # 0 /\ n \notin gone =>
       /\ r \in 0..Len(q)
       /\ \A k \in DOMAIN q : q[k].cmd = n <=> k > Len(q) - r
       /\ \A k \in DOMAIN q : q[k].cmd = n => (q[k].is_last <=> k = Len(q) /\ whole)

\* The move c was dropped, or has played to its end.
Through(c, gone, pl) == c \in gone \/ pl[c] = StopTrajLen

\* What playback remembers of moves is true of them.
Remembered(r, q, pl, n, gone) ==
  /\ \A c \in {r.owe, r.armed, r.completed} : c # 0 => c <= n /\ Through(c, gone, pl)
  /\ r.last # 0 =>
       /\ r.last <= n
       /\ Through(r.last, gone, pl) \/ (r.last = n /\ \A k \in DOMAIN q : q[k].cmd = n)

\* Marked samples were dropped, and those of a move cut in execution are marked.
MarkedRight(q, mark, gone, early) ==
  \A k \in DOMAIN q :
    /\ q[k].gen <= mark => q[k].cmd \in gone
    /\ q[k].cmd \in gone \ early => q[k].gen <= mark

HasMarked(q, mark) == \E k \in DOMAIN q : q[k].gen <= mark

-----------------------------------------------------------------------------

\* An offer is the start of the next move, behind all others (Server::pump).
LEMMA OfferInOrder ==
  ASSUME NEW q \in Seq(Request), NEW f \in Nat \ {0}, NEW o \in Nat, NEW ans,
         InOrder(q, f, o, ans), o + 1 \in 1..StopMoves
  PROVE  /\ Append(q, [op |-> "Start", cmd |-> o + 1]) \in Seq(Request)
         /\ InOrder(Append(q, [op |-> "Start", cmd |-> o + 1]), f, o + 1, ans)
  <1> DEFINE s == [op |-> "Start", cmd |-> o + 1]
             p == Append(q, s)
  <1>1. s \in Request /\ s.op = "Start" /\ s.cmd = o + 1
    BY DEF Request
  <1> HIDE DEF s
  <1>2. /\ p \in Seq(Request) /\ Len(p) = Len(q) + 1
        /\ DOMAIN p = 1..(Len(q) + 1) /\ DOMAIN q = 1..Len(q)
        /\ \A i \in 1..Len(q) : p[i] = q[i]
        /\ p[Len(q) + 1] = s /\ Len(q) \in Nat
    BY <1>1
  <1> HIDE DEF p
  <1>3. \A i \in DOMAIN p : (i \in DOMAIN q /\ p[i] = q[i]) \/ (i = Len(q) + 1 /\ p[i] = s)
    BY <1>2
  <1>4. \A i \in DOMAIN q : i \in DOMAIN p /\ p[i] = q[i] /\ i < Len(q) + 1
    BY <1>2
  <1>5. f <= o + 1 /\ f - 1 <= o + 1
    BY DEF InOrder
  <1>6. \A c \in f..(o + 1) : \E i \in DOMAIN p : p[i].op = "Start" /\ p[i].cmd = c
    <2> TAKE c \in f..(o + 1)
    <2>1. CASE c = o + 1
      BY <1>1, <1>2, <2>1
    <2>2. CASE c \in f..o
      BY <1>4, <2>2 DEF InOrder
    <2>3. QED
      BY <2>1, <2>2
  <1>7. \A i \in DOMAIN p : p[i].op = "Start" => p[i].cmd \in f..(o + 1)
    <2> SUFFICES ASSUME NEW i \in DOMAIN p, p[i].op = "Start"
                 PROVE  p[i].cmd \in f..(o + 1)
      OBVIOUS
    <2>1. CASE i \in DOMAIN q /\ p[i] = q[i]
      <3>1. q[i].cmd \in f..o
        BY <2>1 DEF InOrder
      <3>2. QED
        BY <2>1, <3>1
    <2>2. CASE p[i] = s
      BY <1>1, <1>5, <2>2
    <2>3. QED
      BY <1>3, <2>1, <2>2
  <1>8. \A i, j \in DOMAIN p :
          i < j /\ p[i].op = "Start" /\ p[j].op = "Start" => p[i].cmd < p[j].cmd
    <2> SUFFICES ASSUME NEW i \in DOMAIN p, NEW j \in DOMAIN p, i < j,
                        p[i].op = "Start", p[j].op = "Start"
                 PROVE  p[i].cmd < p[j].cmd
      OBVIOUS
    <2>1. i \in DOMAIN q /\ p[i] = q[i]
      BY <1>2
    <2>2. q[i].cmd \in f..o
      BY <2>1 DEF InOrder
    <2>3. CASE j \in DOMAIN q /\ p[j] = q[j]
      BY <2>1, <2>3 DEF InOrder
    <2>4. CASE p[j] = s
      BY <1>1, <2>1, <2>2, <2>4
    <2>5. QED
      BY <1>3, <2>3, <2>4
  <1>9. \A i \in DOMAIN p : p[i].op = "Cancel" =>
          \A c \in 1..(o + 1) :
            c \in ans \/ \E j \in DOMAIN p : j > i /\ p[j].op = "Start" /\ p[j].cmd = c
    <2> SUFFICES ASSUME NEW i \in DOMAIN p, p[i].op = "Cancel", NEW c \in 1..(o + 1), c \notin ans
                 PROVE  \E j \in DOMAIN p : j > i /\ p[j].op = "Start" /\ p[j].cmd = c
      OBVIOUS
    <2>1. i \in DOMAIN q /\ p[i] = q[i] /\ i < Len(q) + 1
      BY <1>1, <1>3, <1>4
    <2>2. CASE c = o + 1
      BY <1>1, <1>2, <2>1, <2>2
    <2>3. CASE c \in 1..o
      <3>1. PICK j \in DOMAIN q : j > i /\ q[j].op = "Start" /\ q[j].cmd = c
        BY <2>1, <2>3 DEF InOrder
      <3>2. QED
        BY <1>4, <3>1
    <2>4. QED
      BY <2>2, <2>3
  <1>10. InOrder(p, f, o + 1, ans)
    BY <1>5, <1>6, <1>7, <1>8, <1>9 DEF InOrder
  <1>11. QED
    BY <1>2, <1>10 DEF p, s

\* A Cancel goes behind them once everything offered is answered (Server::stop).
LEMMA CancelInOrder ==
  ASSUME NEW q \in Seq(Request), NEW f \in Nat \ {0}, NEW o \in Nat, NEW ans,
         InOrder(q, f, o, ans), \A c \in 1..o : c \in ans
  PROVE  /\ Append(q, [op |-> "Cancel"]) \in Seq(Request)
         /\ InOrder(Append(q, [op |-> "Cancel"]), f, o, ans)
  <1> DEFINE s == [op |-> "Cancel"]
             p == Append(q, s)
  <1>1. s \in Request /\ s.op = "Cancel"
    BY DEF Request
  <1> HIDE DEF s
  <1>2. /\ p \in Seq(Request)
        /\ DOMAIN p = 1..(Len(q) + 1) /\ DOMAIN q = 1..Len(q)
        /\ \A i \in 1..Len(q) : p[i] = q[i]
        /\ p[Len(q) + 1] = s /\ Len(q) \in Nat
    BY <1>1
  <1> HIDE DEF p
  <1>3. \A i \in DOMAIN p : p[i].op = "Start" => i \in DOMAIN q /\ p[i] = q[i]
    BY <1>1, <1>2
  <1>4. \A i \in DOMAIN q : i \in DOMAIN p /\ p[i] = q[i]
    BY <1>2
  <1>5. \A c \in f..o : \E i \in DOMAIN p : p[i].op = "Start" /\ p[i].cmd = c
    BY <1>4 DEF InOrder
  <1>6. \A i \in DOMAIN p : p[i].op = "Start" => p[i].cmd \in f..o
    BY <1>3 DEF InOrder
  <1>7. \A i, j \in DOMAIN p :
          i < j /\ p[i].op = "Start" /\ p[j].op = "Start" => p[i].cmd < p[j].cmd
    BY <1>3 DEF InOrder
  <1>8. QED
    BY <1>2, <1>5, <1>6, <1>7 DEF InOrder, p, s

\* The request at the head of the queue, and the queue behind it.
LEMMA TailOfRequests ==
  ASSUME NEW q \in Seq(Request), q # <<>>
  PROVE  /\ Tail(q) \in Seq(Request) /\ Head(q) = q[1] /\ Head(q) \in Request
         /\ 1 \in DOMAIN q
         /\ \A i \in DOMAIN Tail(q) : i + 1 \in DOMAIN q /\ Tail(q)[i] = q[i + 1] /\ i \in Nat
         /\ \A i \in DOMAIN q : i \in Nat /\ (i > 1 => i - 1 \in DOMAIN Tail(q) /\ Tail(q)[i - 1] = q[i])
  <1>1. Len(q) \in Nat /\ Len(q) > 0 /\ DOMAIN q = 1..Len(q)
    BY EmptySeq
  <1>2. /\ Tail(q) \in Seq(Request) /\ Len(Tail(q)) = Len(q) - 1
        /\ \A i \in 1..(Len(q) - 1) : Tail(q)[i] = q[i + 1]
    BY <1>1
  <1>3. DOMAIN Tail(q) = 1..(Len(q) - 1)
    BY <1>1, <1>2
  <1>4. \A i \in DOMAIN Tail(q) : i + 1 \in DOMAIN q /\ Tail(q)[i] = q[i + 1] /\ i \in Nat
    BY <1>1, <1>2, <1>3
  <1>5. \A i \in DOMAIN q : i \in Nat /\ (i > 1 => i - 1 \in DOMAIN Tail(q) /\ Tail(q)[i - 1] = q[i])
    BY <1>1, <1>2, <1>3
  <1>6. Head(q) = q[1] /\ Head(q) \in Request /\ 1 \in DOMAIN q
    BY <1>1
  <1>7. QED
    BY <1>2, <1>4, <1>5, <1>6

\* The planner services the next move (planner_loop, start_exec).
LEMMA StartIsNext ==
  ASSUME NEW q \in Seq(Request), NEW f \in Nat \ {0}, NEW o \in Nat, NEW ans,
         InOrder(q, f, o, ans), q # <<>>, Head(q).op = "Start"
  PROVE  Head(q).cmd = f /\ f <= o /\ InOrder(Tail(q), f + 1, o, ans)
  <1> DEFINE p == Tail(q)
  <1>1. /\ Head(q) = q[1] /\ 1 \in DOMAIN q
        /\ \A i \in DOMAIN p : i + 1 \in DOMAIN q /\ p[i] = q[i + 1] /\ i \in Nat /\ i >= 1
        /\ \A i \in DOMAIN q : i \in Nat /\ (i > 1 => i - 1 \in DOMAIN p /\ p[i - 1] = q[i])
        /\ p \in Seq(Request) /\ \A i \in DOMAIN q : i >= 1
    BY TailOfRequests
  <1> HIDE DEF p
  <1>2. q[1].cmd \in f..o
    BY <1>1 DEF InOrder
  <1>3. PICK i \in DOMAIN q : q[i].op = "Start" /\ q[i].cmd = f
    BY <1>2 DEF InOrder
  <1>4. i = 1
    <2>1. CASE i > 1
      <3>1. q[1].cmd < q[i].cmd
        BY <1>1, <1>3, <2>1 DEF InOrder
      <3>2. QED
        BY <1>2, <1>3, <3>1
    <2>2. QED
      BY <1>1, <2>1
  <1>5. q[1].cmd = f
    BY <1>3, <1>4
  <1>6. \A j \in DOMAIN q : j > 1 /\ q[j].op = "Start" => q[j].cmd \in (f + 1)..o
    <2> SUFFICES ASSUME NEW j \in DOMAIN q, j > 1, q[j].op = "Start"
                 PROVE  q[j].cmd \in (f + 1)..o
      OBVIOUS
    <2>1. q[j].cmd \in f..o
      BY DEF InOrder
    <2>2. q[1].cmd < q[j].cmd
      BY <1>1 DEF InOrder
    <2>3. QED
      BY <1>5, <2>1, <2>2
  <1>7. \A c \in (f + 1)..o : \E j \in DOMAIN p : p[j].op = "Start" /\ p[j].cmd = c
    <2> TAKE c \in (f + 1)..o
    <2>1. PICK j \in DOMAIN q : q[j].op = "Start" /\ q[j].cmd = c
      BY DEF InOrder
    <2>2. j > 1
      BY <1>1, <1>5, <2>1
    <2>3. QED
      BY <1>1, <2>1, <2>2
  <1>8. \A j \in DOMAIN p : p[j].op = "Start" => p[j].cmd \in (f + 1)..o
    <2> SUFFICES ASSUME NEW j \in DOMAIN p, p[j].op = "Start"
                 PROVE  p[j].cmd \in (f + 1)..o
      OBVIOUS
    <2>1. j + 1 \in DOMAIN q /\ p[j] = q[j + 1] /\ j + 1 > 1
      BY <1>1
    <2>2. QED
      BY <1>6, <2>1
  <1>9. \A j, k \in DOMAIN p :
          j < k /\ p[j].op = "Start" /\ p[k].op = "Start" => p[j].cmd < p[k].cmd
    <2> SUFFICES ASSUME NEW j \in DOMAIN p, NEW k \in DOMAIN p, j < k,
                        p[j].op = "Start", p[k].op = "Start"
                 PROVE  p[j].cmd < p[k].cmd
      OBVIOUS
    <2>1. j + 1 < k + 1 /\ j + 1 \in DOMAIN q /\ k + 1 \in DOMAIN q
      BY <1>1
    <2>2. q[j + 1].cmd < q[k + 1].cmd
      BY <1>1, <2>1 DEF InOrder
    <2>3. QED
      BY <1>1, <2>2
  <1>10. \A j \in DOMAIN p : p[j].op = "Cancel" =>
           \A c \in 1..o :
             c \in ans \/ \E k \in DOMAIN p : k > j /\ p[k].op = "Start" /\ p[k].cmd = c
    <2> SUFFICES ASSUME NEW j \in DOMAIN p, p[j].op = "Cancel", NEW c \in 1..o, c \notin ans
                 PROVE  \E k \in DOMAIN p : k > j /\ p[k].op = "Start" /\ p[k].cmd = c
      OBVIOUS
    <2>1. PICK k \in DOMAIN q : k > j + 1 /\ q[k].op = "Start" /\ q[k].cmd = c
      BY <1>1 DEF InOrder
    <2>2. k > 1 /\ k - 1 > j
      BY <1>1, <2>1
    <2>3. QED
      BY <1>1, <2>1, <2>2
  <1>11. f <= o /\ f + 1 - 1 <= o
    BY <1>2
  <1>12. InOrder(p, f + 1, o, ans)
    BY <1>7, <1>8, <1>9, <1>10, <1>11 DEF InOrder
  <1>13. QED
    BY <1>1, <1>5, <1>11, <1>12 DEF p

\* A Cancel the planner takes is about moves that are answered (Par6Planner::cancel).
LEMMA CancelIsLate ==
  ASSUME NEW q \in Seq(Request), NEW f \in Nat \ {0}, NEW o \in Nat, NEW ans,
         InOrder(q, f, o, ans), q # <<>>, Head(q).op = "Cancel"
  PROVE  InOrder(Tail(q), f, o, ans) /\ \A c \in 1..(f - 1) : c \in ans
  <1> DEFINE p == Tail(q)
  <1>1. /\ Head(q) = q[1] /\ 1 \in DOMAIN q
        /\ \A i \in DOMAIN p : i + 1 \in DOMAIN q /\ p[i] = q[i + 1] /\ i \in Nat /\ i >= 1
        /\ \A i \in DOMAIN q : i \in Nat /\ (i > 1 => i - 1 \in DOMAIN p /\ p[i - 1] = q[i])
        /\ p \in Seq(Request) /\ \A i \in DOMAIN q : i >= 1
    BY TailOfRequests
  <1> HIDE DEF p
  <1>2. \A c \in f..o : \E j \in DOMAIN p : p[j].op = "Start" /\ p[j].cmd = c
    <2> TAKE c \in f..o
    <2>1. PICK j \in DOMAIN q : q[j].op = "Start" /\ q[j].cmd = c
      BY DEF InOrder
    <2>2. j # 1
      BY <1>1, <2>1
    <2>3. j > 1
      BY <1>1, <2>2
    <2>4. QED
      BY <1>1, <2>1, <2>3
  <1>3. \A j \in DOMAIN p : p[j].op = "Start" => p[j].cmd \in f..o
    BY <1>1 DEF InOrder
  <1>4. \A j, k \in DOMAIN p :
          j < k /\ p[j].op = "Start" /\ p[k].op = "Start" => p[j].cmd < p[k].cmd
    <2> SUFFICES ASSUME NEW j \in DOMAIN p, NEW k \in DOMAIN p, j < k,
                        p[j].op = "Start", p[k].op = "Start"
                 PROVE  p[j].cmd < p[k].cmd
      OBVIOUS
    <2>1. j + 1 < k + 1 /\ j + 1 \in DOMAIN q /\ k + 1 \in DOMAIN q
      BY <1>1
    <2>2. q[j + 1].cmd < q[k + 1].cmd
      BY <1>1, <2>1 DEF InOrder
    <2>3. QED
      BY <1>1, <2>2
  <1>5. \A j \in DOMAIN p : p[j].op = "Cancel" =>
          \A c \in 1..o :
            c \in ans \/ \E k \in DOMAIN p : k > j /\ p[k].op = "Start" /\ p[k].cmd = c
    <2> SUFFICES ASSUME NEW j \in DOMAIN p, p[j].op = "Cancel", NEW c \in 1..o, c \notin ans
                 PROVE  \E k \in DOMAIN p : k > j /\ p[k].op = "Start" /\ p[k].cmd = c
      OBVIOUS
    <2>1. PICK k \in DOMAIN q : k > j + 1 /\ q[k].op = "Start" /\ q[k].cmd = c
      BY <1>1 DEF InOrder
    <2>2. k > 1 /\ k - 1 > j
      BY <1>1, <2>1
    <2>3. QED
      BY <1>1, <2>1, <2>2
  <1>6. InOrder(p, f, o, ans)
    BY <1>2, <1>3, <1>4, <1>5 DEF InOrder
  <1>7. \A c \in 1..(f - 1) : c \in ans
    <2> SUFFICES ASSUME NEW c \in 1..(f - 1), c \notin ans
                 PROVE  FALSE
      OBVIOUS
    <2>1. c \in 1..o /\ c < f
      BY DEF InOrder
    <2>2. PICK j \in DOMAIN q : q[j].op = "Start" /\ q[j].cmd = c
      BY <1>1, <2>1 DEF InOrder
    <2>3. q[j].cmd \in f..o
      BY <2>2 DEF InOrder
    <2>4. QED
      BY <2>1, <2>2, <2>3
  <1>8. QED
    BY <1>6, <1>7 DEF p

\* More answers change nothing of the order.
LEMMA AnswersKeepOrder ==
  ASSUME NEW q, NEW f, NEW o, NEW ans, NEW more, ans \subseteq more, InOrder(q, f, o, ans)
  PROVE  InOrder(q, f, o, more)
  BY Zenon DEF InOrder

-----------------------------------------------------------------------------

\* p is q without its first n samples.
Behind(p, q, n) ==
  /\ p \in Seq(Queueable) /\ n \in 0..Len(q) /\ Len(p) = Len(q) - n
  /\ \A k \in DOMAIN p : k + n \in DOMAIN q /\ p[k] = q[k + n]

\* A ring that loses samples at its front stays filled in order (pop, clear_marked).
LEMMA BehindIsFilled ==
  ASSUME NEW q \in Seq(Queueable), NEW p, NEW n, Behind(p, q, n),
         NEW m \in Nat, NEW gone, NEW r, NEW whole, Filled(q, m, gone, r, whole)
  PROVE  Filled(p, m, gone, IF n <= Len(q) - r THEN r ELSE Len(q) - n, whole)
  <1> DEFINE t == IF n <= Len(q) - r THEN r ELSE Len(q) - n
  <1>1. /\ n \in Nat /\ n <= Len(q) /\ Len(q) \in Nat /\ Len(p) = Len(q) - n
        /\ DOMAIN p = 1..Len(p) /\ DOMAIN q = 1..Len(q)
        /\ \A k \in DOMAIN p : k + n \in DOMAIN q /\ p[k] = q[k + n] /\ k \in Nat
    BY DEF Behind
  <1>2. \A k \in DOMAIN p : p[k].gen = p[k].cmd + 1 /\ p[k].cmd <= m
    BY <1>1 DEF Filled
  <1>3. \A j, k \in DOMAIN p : j < k => p[j].cmd <= p[k].cmd
    <2> SUFFICES ASSUME NEW j \in DOMAIN p, NEW k \in DOMAIN p, j < k
                 PROVE  p[j].cmd <= p[k].cmd
      OBVIOUS
    <2>1. j + n < k + n /\ j + n \in DOMAIN q /\ k + n \in DOMAIN q
      BY <1>1
    <2>2. q[j + n].cmd <= q[k + n].cmd
      BY <2>1 DEF Filled
    <2>3. QED
      BY <1>1, <2>2
  <1>4. \A k \in DOMAIN p : p[k].cmd # m => p[k].cmd \in gone
    BY <1>1 DEF Filled
  <1>5. ASSUME m # 0, m \notin gone
        PROVE  /\ t \in 0..Len(p)
               /\ \A k \in DOMAIN p : p[k].cmd = m <=> k > Len(p) - t
               /\ \A k \in DOMAIN p : p[k].cmd = m => (p[k].is_last <=> k = Len(p) /\ whole)
    <2>1. r \in 0..Len(q)
      BY <1>5 DEF Filled
    <2>2. t \in 0..Len(p)
      BY <1>1, <2>1
    <2>3. \A k \in DOMAIN p : p[k].cmd = m <=> k > Len(p) - t
      <3> TAKE k \in DOMAIN p
      <3>1. q[k + n].cmd = m <=> k + n > Len(q) - r
        BY <1>1, <1>5 DEF Filled
      <3>2. k + n > Len(q) - r <=> k > Len(p) - t
        BY <1>1, <2>1
      <3>3. QED
        BY <1>1, <3>1, <3>2
    <2>4. \A k \in DOMAIN p : p[k].cmd = m => (p[k].is_last <=> k = Len(p) /\ whole)
      <3> SUFFICES ASSUME NEW k \in DOMAIN p, p[k].cmd = m
                   PROVE  p[k].is_last <=> k = Len(p) /\ whole
        OBVIOUS
      <3>1. q[k + n].is_last <=> k + n = Len(q) /\ whole
        BY <1>1, <1>5 DEF Filled
      <3>2. k + n = Len(q) <=> k = Len(p)
        BY <1>1
      <3>3. QED
        BY <1>1, <3>1, <3>2
    <2>5. QED
      BY <2>2, <2>3, <2>4
  <1>6. QED
    BY <1>2, <1>3, <1>4, <1>5 DEF Filled

\* So do its marks.
LEMMA BehindIsMarked ==
  ASSUME NEW q \in Seq(Queueable), NEW p, NEW n, Behind(p, q, n),
         NEW mark, NEW gone, NEW early, MarkedRight(q, mark, gone, early)
  PROVE  MarkedRight(p, mark, gone, early) /\ (HasMarked(p, mark) => HasMarked(q, mark))
  BY DEF Behind, MarkedRight, HasMarked

\* Samples pushed behind those of the newest move are its next ones (pump_ring).
LEMMA PushIsFilled ==
  ASSUME NEW q \in Seq(Queueable), NEW m \in 1..StopMoves, NEW gone,
         NEW cursor \in 0..StopTrajLen, NEW n \in 0..(StopTrajLen - cursor),
         NEW gone_by \in Int,
         Filled(q, m, gone, cursor - gone_by, cursor = StopTrajLen),
         m \notin gone => gone_by \in 0..cursor
  PROVE  LET p == q \o [k \in 1..n |-> Stop!Sample(m, cursor + k, m + 1)]
         IN  /\ p \in Seq(Queueable) /\ Len(p) = Len(q) + n
             /\ \A k \in DOMAIN q : k \in DOMAIN p /\ p[k] = q[k]
             /\ \A k \in DOMAIN p : \/ k \in DOMAIN q
                                    \/ p[k].cmd = m /\ p[k].gen = m + 1
             /\ Filled(p, m, gone, cursor + n - gone_by, cursor + n = StopTrajLen)
  <1> DEFINE new == [k \in 1..n |-> Stop!Sample(m, cursor + k, m + 1)]
             p == q \o new
             t == cursor + n - gone_by
             r == cursor - gone_by
  <1>0. /\ StopTrajLen \in Nat /\ StopMoves \in Nat /\ cursor \in Nat /\ n \in Nat
        /\ cursor + n <= StopTrajLen /\ m \in Nat /\ m >= 1
    BY StopAssumption
  <1>1. \A k \in 1..n : /\ new[k] \in Queueable /\ new[k].cmd = m /\ new[k].gen = m + 1
                        /\ new[k].is_last = (cursor + k = StopTrajLen)
    BY <1>0 DEF Stop!Sample, Queueable
  <1>2. new \in Seq(Queueable) /\ Len(new) = n
    <2>1. new \in [1..n -> Queueable]
      BY <1>1
    <2> HIDE DEF new
    <2>2. QED
      BY <1>0, <2>1
  <1> HIDE DEF new
  <1>3. /\ p \in Seq(Queueable) /\ Len(p) = Len(q) + n
        /\ DOMAIN p = 1..(Len(q) + n) /\ DOMAIN q = 1..Len(q) /\ Len(q) \in Nat
        /\ \A k \in DOMAIN q : p[k] = q[k]
        /\ \A k \in 1..n : p[Len(q) + k] = new[k]
    BY <1>0, <1>2, SMTT(40)
  <1> HIDE DEF p
  <1>4. \A k \in DOMAIN p :
          \/ k \in DOMAIN q /\ p[k] = q[k] /\ k <= Len(q)
          \/ /\ k - Len(q) \in 1..n /\ p[k] = new[k - Len(q)] /\ k > Len(q)
    <2> TAKE k \in DOMAIN p
    <2>1. CASE k <= Len(q)
      BY <1>3, <2>1
    <2>2. CASE k > Len(q)
      <3>1. k - Len(q) \in 1..n /\ Len(q) + (k - Len(q)) = k
        BY <1>0, <1>3, <2>2
      <3>2. QED
        BY <1>3, <2>2, <3>1
    <2>3. QED
      BY <1>3, <2>1, <2>2
  <1>5. \A k \in DOMAIN p :
          \/ k \in DOMAIN q /\ p[k] = q[k] /\ k <= Len(q)
          \/ /\ p[k].cmd = m /\ p[k].gen = m + 1 /\ k > Len(q)
             /\ p[k].is_last = (cursor + (k - Len(q)) = StopTrajLen)
    BY <1>1, <1>4
  <1>6. \A k \in DOMAIN q : k \in DOMAIN p /\ p[k] = q[k] /\ k <= Len(q) /\ k \in Nat
    BY <1>0, <1>3
  <1>7. \A k \in DOMAIN p : p[k].gen = p[k].cmd + 1 /\ p[k].cmd <= m
    BY <1>0, <1>5 DEF Filled
  <1>8. \A j, k \in DOMAIN p : j < k => p[j].cmd <= p[k].cmd
    <2> SUFFICES ASSUME NEW j \in DOMAIN p, NEW k \in DOMAIN p, j < k
                 PROVE  p[j].cmd <= p[k].cmd
      OBVIOUS
    <2>1. CASE k \in DOMAIN q /\ p[k] = q[k] /\ k <= Len(q)
      <3>1. j \in DOMAIN q /\ p[j] = q[j]
        BY <1>3, <1>5, <2>1
      <3>2. QED
        BY <2>1, <3>1 DEF Filled
    <2>2. CASE p[k].cmd = m
      BY <1>7, <2>2
    <2>3. QED
      BY <1>5, <2>1, <2>2
  <1>9. \A k \in DOMAIN p : p[k].cmd # m => p[k].cmd \in gone
    BY <1>5 DEF Filled
  <1>10. ASSUME m # 0, m \notin gone
         PROVE  /\ t \in 0..Len(p)
                /\ \A k \in DOMAIN p : p[k].cmd = m <=> k > Len(p) - t
                /\ \A k \in DOMAIN p :
                     p[k].cmd = m => (p[k].is_last <=> k = Len(p) /\ cursor + n = StopTrajLen)
    <2>1. r \in 0..Len(q) /\ gone_by \in 0..cursor
      BY <1>10 DEF Filled
    <2>2. t \in 0..Len(p)
      BY <1>0, <1>3, <2>1
    <2>3. Len(p) - t = Len(q) - r
      BY <1>0, <1>3, <2>1
    <2>4. \A k \in DOMAIN p : p[k].cmd = m <=> k > Len(p) - t
      <3> TAKE k \in DOMAIN p
      <3>1. CASE k \in DOMAIN q /\ p[k] = q[k] /\ k <= Len(q)
        <4>1. q[k].cmd = m <=> k > Len(q) - r
          BY <1>10, <3>1 DEF Filled
        <4>2. QED
          BY <2>3, <3>1, <4>1
      <3>2. CASE p[k].cmd = m /\ k > Len(q)
        <4>1. k > Len(q) - r
          BY <1>3, <2>1, <3>2
        <4>2. QED
          BY <2>3, <3>2, <4>1
      <3>3. QED
        BY <1>5, <3>1, <3>2
    <2>5. \A k \in DOMAIN p :
            p[k].cmd = m => (p[k].is_last <=> k = Len(p) /\ cursor + n = StopTrajLen)
      <3> SUFFICES ASSUME NEW k \in DOMAIN p, p[k].cmd = m
                   PROVE  p[k].is_last <=> k = Len(p) /\ cursor + n = StopTrajLen
        OBVIOUS
      <3>1. CASE k \in DOMAIN q /\ p[k] = q[k] /\ k <= Len(q)
        <4>1. q[k].is_last <=> k = Len(q) /\ cursor = StopTrajLen
          BY <1>10, <3>1 DEF Filled
        <4>2. (k = Len(q) /\ cursor = StopTrajLen) <=> (k = Len(p) /\ cursor + n = StopTrajLen)
          BY <1>0, <1>3, <3>1
        <4>3. QED
          BY <3>1, <4>1, <4>2
      <3>2. CASE k > Len(q) /\ p[k].is_last = (cursor + (k - Len(q)) = StopTrajLen)
        <4>0. k \in Nat /\ k <= Len(q) + n /\ Len(p) = Len(q) + n /\ Len(q) \in Nat
          BY <1>0, <1>3
        <4>1. (cursor + (k - Len(q)) = StopTrajLen) <=> (k = Len(p) /\ cursor + n = StopTrajLen)
          BY <1>0, <3>2, <4>0
        <4>2. QED
          BY <3>2, <4>1
      <3>3. QED
        BY <1>5, <3>1, <3>2
    <2>6. QED
      BY <2>2, <2>4, <2>5
  <1>11. Filled(p, m, gone, t, cursor + n = StopTrajLen)
    BY <1>7, <1>8, <1>9, <1>10 DEF Filled
  <1>12. QED
    BY <1>3, <1>5, <1>6, <1>11 DEF p, new

\* The next move finds a ring of dropped ones (start_exec).
LEMMA NextIsFilled ==
  ASSUME NEW q \in Seq(Queueable), NEW m \in Nat, NEW gone, NEW r, NEW whole,
         Filled(q, m, gone, r, whole), m # 0 /\ m \notin gone => r = 0, NEW every
  PROVE  Filled(q, m + 1, gone, 0, every) /\ \A k \in DOMAIN q : q[k].cmd \in gone
  <1>0. \A k \in DOMAIN q : q[k].cmd \in 1..StopMoves
    <2>1. \A k \in DOMAIN q : q[k] \in Queueable
      OBVIOUS
    <2>2. QED
      BY <2>1 DEF Queueable
  <1>1. \A k \in DOMAIN q : q[k].gen = q[k].cmd + 1 /\ q[k].cmd <= m /\ q[k].cmd \in Nat /\ q[k].cmd # 0
    BY <1>0, StopAssumption DEF Filled
  <1>2. DOMAIN q = 1..Len(q) /\ Len(q) \in Nat
    OBVIOUS
  <1>3. \A k \in DOMAIN q : q[k].cmd \in gone
    <2> SUFFICES ASSUME NEW k \in DOMAIN q, q[k].cmd \notin gone
                 PROVE  FALSE
      OBVIOUS
    <2>1. q[k].cmd = m /\ m # 0 /\ m \notin gone
      BY <1>1 DEF Filled
    <2>2. k > Len(q) - 0
      BY <2>1 DEF Filled
    <2>3. QED
      BY <1>2, <2>2
  <1>4. \A k \in DOMAIN q : q[k].cmd <= m + 1 /\ q[k].cmd # m + 1 /\ ~(k > Len(q) - 0)
    BY <1>1, <1>2
  <1>5. QED
    BY <1>1, <1>2, <1>3, <1>4 DEF Filled

\* A stop drops moves, no sample (Core::drop_active).
LEMMA DroppedIsFilled ==
  ASSUME NEW q, NEW m, NEW gone, NEW more, gone \subseteq more, NEW r, NEW whole,
         Filled(q, m, gone, r, whole)
  PROVE  Filled(q, m, more, r, whole)
  BY DEF Filled

-----------------------------------------------------------------------------

World ==
  [rt : Playback, ring : Seq(Queueable), flushed : SUBSET (1..StopMoves),
   played : [1..StopMoves -> Nat]]

\* The ring has room for a trajectory per stop.
Roomy == StopRing >= StopStops * StopTrajLen

\* The dropped moves a stop did not find in execution; without that room, all.
Early == IF Roomy THEN stop_unplanned ELSE stop_dropped

\* What the newest move has left to play, unless it was dropped.
Left(w) ==
  IF Newest # 0 /\ Newest \notin stop_dropped THEN Pushed - w.played[Newest] ELSE 0

\* What a tick may rely on and keeps of what it changes.
Intact(w) ==
  /\ w \in World
  /\ Filled(w.ring, Newest, stop_dropped, Pushed - w.played[Newest], Pushed = StopTrajLen)
  /\ Remembered(w.rt, w.ring, w.played, Newest, stop_dropped)
  /\ MarkedRight(w.ring, stop_flush, stop_dropped, Early)
  /\ w.flushed \subseteq stop_dropped
  /\ \A c \in 1..StopMoves : c > Newest => w.played[c] = 0
  /\ w.rt.mode = "idle" => ~w.rt.stopping

\* u may come of w in a tick: nothing is unplayed, the ring only shrinks, and a stop
\* ends only when nothing is marked.
Leads(w, u) ==
  /\ \A c \in 1..StopMoves :
       Through(c, stop_dropped, w.played) => Through(c, stop_dropped, u.played)
  /\ HasMarked(u.ring, stop_flush) =>
       HasMarked(w.ring, stop_flush) /\ (w.rt.stopping => u.rt.stopping)
  /\ Len(u.ring) <= Len(w.ring) /\ Len(u.ring) - Left(u) <= Len(w.ring) - Left(w)
  /\ u.rt.mode = w.rt.mode \/ u.rt.mode = "exec"

\* The numbers an intact tick is about.
StopNumbers ==
  /\ Newest \in 0..StopMoves /\ Pushed \in 0..StopTrajLen
  /\ stop_flush \in Nat /\ stop_dropped \subseteq 1..StopMoves

\* What two steps of a tick keep, the two together keep.
LEMMA LeadsOn ==
  ASSUME StopNumbers, NEW w \in World, NEW v \in World, NEW u \in World, Leads(w, v), Leads(v, u)
  PROVE  Leads(w, u)
  <1>1. \A c \in 1..StopMoves :
          Through(c, stop_dropped, w.played) => Through(c, stop_dropped, u.played)
    BY DEF Leads
  <1>2. HasMarked(u.ring, stop_flush) =>
          HasMarked(w.ring, stop_flush) /\ (w.rt.stopping => u.rt.stopping)
    BY DEF Leads
  <1>3. \A x \in World : Len(x.ring) \in Nat /\ Left(x) \in Int
    <2> TAKE x \in World
    <2>1. x.ring \in Seq(Queueable) /\ x.played \in [1..StopMoves -> Nat]
      BY DEF World
    <2>2. Newest # 0 => x.played[Newest] \in Nat
      BY <2>1, StopAssumption DEF StopNumbers
    <2>3. QED
      BY <2>1, <2>2, StopAssumption DEF StopNumbers, Left
  <1> DEFINE a == Len(w.ring) - Left(w)
             b == Len(v.ring) - Left(v)
             c == Len(u.ring) - Left(u)
  <1>4. a \in Int /\ b \in Int /\ c \in Int
    BY <1>3, SMTT(40)
  <1>5. b <= a /\ c <= b /\ Len(v.ring) <= Len(w.ring) /\ Len(u.ring) <= Len(v.ring)
    BY DEF Leads
  <1> HIDE DEF a, b, c
  <1>6. c <= a /\ Len(u.ring) <= Len(w.ring)
    BY <1>3, <1>4, <1>5
  <1>7. u.rt.mode = w.rt.mode \/ u.rt.mode = "exec"
    BY DEF Leads
  <1>8. QED
    BY <1>1, <1>2, <1>6, <1>7 DEF Leads, a, c

\* Every world leads to itself.
LEMMA LeadsToItself ==
  ASSUME StopNumbers, NEW w \in World
  PROVE  Leads(w, w)
  <1>1. Len(w.ring) \in Nat /\ Left(w) \in Int
    <2>1. w.ring \in Seq(Queueable) /\ w.played \in [1..StopMoves -> Nat]
      BY DEF World
    <2>2. Newest # 0 => w.played[Newest] \in Nat
      BY <2>1, StopAssumption DEF StopNumbers
    <2>3. QED
      BY <2>1, <2>2, StopAssumption DEF StopNumbers, Left
  <1> DEFINE a == Len(w.ring) - Left(w)
  <1>2. a \in Int
    BY <1>1
  <1> HIDE DEF a
  <1>3. a <= a /\ Len(w.ring) <= Len(w.ring)
    BY <1>1, <1>2
  <1>4. QED
    BY <1>3 DEF Leads, a

\* A change of playback alone.
WithRt(w, r) == [rt |-> r, ring |-> w.ring, flushed |-> w.flushed, played |-> w.played]

\* A change of the playback record alone, which forgets no stop, keeps a world intact.
LEMMA RtOnly ==
  ASSUME StopNumbers, NEW w, Intact(w), NEW r \in Playback,
         Remembered(r, w.ring, w.played, Newest, stop_dropped),
         r.mode = "idle" => ~r.stopping, w.rt.stopping => r.stopping,
         r.mode = w.rt.mode \/ r.mode = "exec"
  PROVE  Intact(WithRt(w, r)) /\ Leads(w, WithRt(w, r))
  <1> DEFINE u == WithRt(w, r)
  <1>1. u.rt = r /\ u.ring = w.ring /\ u.flushed = w.flushed /\ u.played = w.played
    BY DEF WithRt
  <1>2. u \in World
    BY DEF WithRt, Intact, World
  <1> HIDE DEF u
  <1>3. Intact(u)
    BY <1>1, <1>2 DEF Intact
  <1>4. Leads(w, w) /\ w \in World
    BY LeadsToItself DEF Intact
  <1>5. Left(u) = Left(w)
    BY <1>1 DEF Left
  <1>6. Leads(w, u)
    BY <1>1, <1>4, <1>5 DEF Leads
  <1>7. QED
    BY <1>3, <1>6 DEF u

\* A set of numbers has a least one.
LEMMA LeastOfNumbers ==
  ASSUME NEW S \in SUBSET Nat, S # {}
  PROVE  \E n \in S : \A k \in S : n <= k
  <1> DEFINE R == OpToRel(<, Nat)
  <1>1. IsWellFoundedOn(R, Nat)
    BY NatLessThanWellFounded
  <1> HIDE DEF R
  <1>2. PICK n \in S : \A k \in S : ~(<<k, n>> \in R)
    BY <1>1, WFMin
  <1>3. \A k \in S : ~(k < n)
    BY <1>2 DEF R, OpToRel
  <1>4. QED
    BY <1>3

\* A flush discards the marked samples, all of them (ring.rs clear_marked).
LEMMA ClearIsBehind ==
  ASSUME NEW q \in Seq(Queueable), NEW m, NEW gone, NEW r, NEW whole,
         Filled(q, m, gone, r, whole), stop_flush \in Nat
  PROVE  \E n \in 0..Len(q) :
           /\ Behind(Stop!ClearMarked(q), q, n)
           /\ \A k \in 1..n : q[k].gen <= stop_flush
           /\ ~HasMarked(Stop!ClearMarked(q), stop_flush)
  <1> DEFINE Mark(n) == \A k \in 1..n : q[k].gen <= stop_flush
             Ends(n) == n < Len(q) => ~Mark(n + 1)
             S == {n \in 0..Len(q) : n < Len(q) => q[n + 1].gen > stop_flush}
             e == CHOOSE n \in 0..Len(q) : Mark(n) /\ Ends(n)
  <1>0. /\ Len(q) \in Nat /\ DOMAIN q = 1..Len(q)
        /\ \A k \in 1..Len(q) : q[k].gen \in Nat /\ q[k].cmd \in Nat
    <2>1. \A k \in 1..Len(q) : q[k] \in Queueable
      OBVIOUS
    <2>2. QED
      BY <2>1, StopAssumption DEF Queueable
  <1>1. PICK n \in S : \A k \in S : n <= k
    <2>1. S \in SUBSET Nat /\ Len(q) \in S
      BY <1>0
    <2> HIDE DEF S
    <2>2. QED
      BY <2>1, LeastOfNumbers
  <1>2. n \in 0..Len(q) /\ Mark(n) /\ Ends(n)
    <2>1. n \in 0..Len(q) /\ (n < Len(q) => q[n + 1].gen > stop_flush)
      BY <1>1
    <2>2. ASSUME NEW k \in 1..n
          PROVE  q[k].gen <= stop_flush
      <3>1. k - 1 \in 0..Len(q) /\ k - 1 < n /\ k - 1 < Len(q) /\ k - 1 + 1 = k /\ k \in 1..Len(q)
        BY <1>0, <2>1
      <3>2. k - 1 \notin S
        BY <1>1, <3>1
      <3>3. ~(q[k].gen > stop_flush)
        BY <3>1, <3>2
      <3>4. QED
        BY <1>0, <3>1, <3>3
    <2>3. Ends(n)
      <3> SUFFICES ASSUME n < Len(q)
                   PROVE  ~Mark(n + 1)
        OBVIOUS
      <3>1. n + 1 \in 1..(n + 1) /\ n + 1 \in 1..Len(q)
        BY <1>0, <2>1
      <3>2. ~(q[n + 1].gen <= stop_flush)
        BY <1>0, <2>1, <3>1
      <3>3. QED
        BY <3>1, <3>2
    <2>4. QED
      BY <2>1, <2>2, <2>3
  <1>3. e \in 0..Len(q) /\ Mark(e) /\ Ends(e)
    BY <1>2
  <1>4. Stop!ClearMarked(q) = SubSeq(q, e + 1, Len(q))
    BY DEF Stop!ClearMarked
  <1> HIDE DEF e
  <1> DEFINE p == SubSeq(q, e + 1, Len(q))
             len == Len(q)
  <1>5. /\ p \in Seq(Queueable) /\ Len(p) \in Nat
        /\ Len(p) = IF e + 1 <= len THEN len - (e + 1) + 1 ELSE 0
        /\ \A k \in 1..(len - (e + 1) + 1) : p[k] = q[e + 1 + k - 1]
    <2>1. e + 1 \in 1..(Len(q) + 1) /\ Len(q) \in Nat
      BY <1>0, <1>3
    <2>2. \A k \in (e + 1)..Len(q) : q[k] \in Queueable
      BY <1>0, <1>3, SMTT(40)
    <2>3. QED
      BY <1>0, <2>1, <2>2, SubSeqProperties
  <1> HIDE DEF p
  <1>6. Behind(p, q, e)
    <2>1. DOMAIN p = 1..Len(p) /\ DOMAIN q = 1..len /\ len \in Nat /\ e \in 0..len
      <3>1. DOMAIN p = 1..Len(p)
        BY <1>5
      <3>2. QED
        BY <1>0, <1>3, <3>1
    <2> HIDE DEF len
    <2>2. Len(p) = len - e
      BY <1>5, <2>1
    <2>3. \A k \in DOMAIN p : k + e \in DOMAIN q /\ p[k] = q[k + e]
      <3> TAKE k \in DOMAIN p
      <3>1. k \in 1..(len - e)
        BY <2>1, <2>2
      <3>2. /\ k \in 1..(len - (e + 1) + 1) /\ e + 1 + k - 1 = k + e
            /\ k + e \in 1..len
        BY <2>1, <3>1
      <3>3. QED
        BY <1>5, <2>1, <3>2
    <2>4. QED
      BY <1>5, <2>1, <2>2, <2>3 DEF Behind, len
  <1>7. ~HasMarked(p, stop_flush)
    <2> SUFFICES ASSUME NEW k \in DOMAIN p, p[k].gen <= stop_flush
                 PROVE  FALSE
      BY DEF HasMarked
    <2>0. k + e \in 1..Len(q) /\ p[k] = q[k + e] /\ k \in Nat /\ k >= 1
      <3>1. DOMAIN p = 1..Len(p)
        BY <1>5
      <3>2. QED
        BY <1>0, <1>6, <3>1 DEF Behind
    <2>1. /\ k \in Nat /\ k >= 1 /\ k + e \in 1..Len(q) /\ e \in Nat /\ p[k] = q[k + e]
          /\ e < Len(q)
      BY <1>0, <1>3, <2>0
    <2>2. \A j \in 1..(e + 1) : q[j].gen <= stop_flush
      <3> TAKE j \in 1..(e + 1)
      <3>1. j \in 1..Len(q) /\ j <= k + e
        BY <1>0, <2>1
      <3>2. q[j].cmd <= q[k + e].cmd
        <4>1. CASE j = k + e
          BY <1>0, <2>1, <4>1
        <4>2. CASE j < k + e
          BY <1>0, <2>1, <3>1, <4>2 DEF Filled
        <4>3. QED
          BY <2>1, <3>1, <4>1, <4>2
      <3>3. q[j].gen = q[j].cmd + 1 /\ q[k + e].gen = q[k + e].cmd + 1
        BY <1>0, <2>1, <3>1 DEF Filled
      <3>4. QED
        BY <1>0, <2>1, <3>1, <3>2, <3>3
    <2>3. QED
      BY <1>3, <2>1, <2>2
  <1>8. QED
    BY <1>3, <1>4, <1>6, <1>7 DEF p

\* The updates of a flush and of a pop, of playback alone and of the whole.
FlushedRt(a) == [a EXCEPT !.owe = 0, !.last = 0, !.settling = FALSE]

EndedRt(a, x, y) == [a EXCEPT !.owe = x, !.last = y]

FlushedWorld(w, q, f) ==
  [w EXCEPT !.rt.owe = 0, !.rt.last = 0, !.rt.settling = FALSE, !.ring = q, !.flushed = f]

PoppedWorld(w, x, y, q, c) ==
  [w EXCEPT !.ring = q, !.rt.owe = x, !.rt.last = y, !.played[c] = @ + 1]

AsWorld(r, q, f, pl) == [rt |-> r, ring |-> q, flushed |-> f, played |-> pl]

OnceMore(pl, c) == [pl EXCEPT ![c] = pl[c] + 1]

\* r is a with what a flush or a pop sets.
EndsAs(r, a, x, y) ==
  /\ r \in Playback /\ r.owe = x /\ r.last = y /\ r.armed = a.armed
  /\ r.completed = a.completed /\ r.mode = a.mode /\ r.stopping = a.stopping

\* Updates of playback within a world, in the forms the code makes them.
LEMMA WorldSettling ==
  ASSUME NEW w \in World, NEW x, NEW y, NEW z
  PROVE  [w EXCEPT !.rt.owe = x, !.rt.last = y, !.rt.settling = z] =
           [w EXCEPT !.rt = [w.rt EXCEPT !.owe = x, !.last = y, !.settling = z]]
  BY DEF World

\* A flush's update.
LEMMA WorldFlush ==
  ASSUME NEW w \in World, NEW q, NEW f
  PROVE  FlushedWorld(w, q, f) = AsWorld(FlushedRt(w.rt), q, f, w.played)
  <1> DEFINE x == 0
             y == 0
             z == FALSE
  <1> DEFINE r == [w.rt EXCEPT !.owe = x, !.last = y, !.settling = z]
             v == [w EXCEPT !.rt.owe = x, !.rt.last = y, !.rt.settling = z]
  <1>1. v = [w EXCEPT !.rt = r]
    BY WorldSettling
  <1>2. [w EXCEPT !.rt.owe = x, !.rt.last = y, !.rt.settling = z, !.ring = q, !.flushed = f] =
          [v EXCEPT !.ring = q, !.flushed = f]
    BY DEF World
  <1> HIDE DEF r
  <1>3. [w EXCEPT !.rt = r] = [rt |-> r, ring |-> w.ring, flushed |-> w.flushed, played |-> w.played]
    BY DEF World
  <1> HIDE DEF v
  <1> DEFINE t == [v EXCEPT !.ring = q]
  <1>4. [v EXCEPT !.ring = q, !.flushed = f] =
           [rt |-> r, ring |-> q, flushed |-> f, played |-> w.played]
    <2>1. v = [rt |-> r, ring |-> w.ring, flushed |-> w.flushed, played |-> w.played]
      BY <1>1, <1>3
    <2>2. t = [rt |-> r, ring |-> q, flushed |-> w.flushed, played |-> w.played]
      BY <2>1
    <2>3. [v EXCEPT !.ring = q, !.flushed = f] = [t EXCEPT !.flushed = f]
      OBVIOUS
    <2> HIDE DEF t
    <2>4. [t EXCEPT !.flushed = f] = [rt |-> r, ring |-> q, flushed |-> f, played |-> w.played]
      BY <2>2
    <2>5. QED
      BY <2>3, <2>4
  <1>5. QED
    BY <1>2, <1>4 DEF v, r, FlushedWorld, FlushedRt, AsWorld

\* A pop's update.
LEMMA WorldPop ==
  ASSUME NEW w \in World, NEW x, NEW y, NEW q, NEW c
  PROVE  PoppedWorld(w, x, y, q, c) =
           AsWorld(EndedRt(w.rt, x, y), q, w.flushed, OnceMore(w.played, c))
  <1> DEFINE r == [w.rt EXCEPT !.owe = x, !.last = y]
             v == [w EXCEPT !.ring = q]
             z == [v EXCEPT !.rt.owe = x, !.rt.last = y]
             pl == [w.played EXCEPT ![c] = w.played[c] + 1]
  <1>1. [w EXCEPT !.ring = q, !.rt.owe = x, !.rt.last = y, !.played[c] = @ + 1] =
          [z EXCEPT !.played[c] = @ + 1]
    BY DEF World
  <1>2. z = [v EXCEPT !.rt = [v.rt EXCEPT !.owe = x, !.last = y]]
    BY DEF World
  <1>3. v.rt = w.rt /\ v = [rt |-> w.rt, ring |-> q, flushed |-> w.flushed, played |-> w.played]
    BY DEF World
  <1> HIDE DEF v
  <1>4. z = [v EXCEPT !.rt = r]
    BY <1>2, <1>3
  <1> HIDE DEF r, z
  <1>5. z = [rt |-> r, ring |-> q, flushed |-> w.flushed, played |-> w.played]
    BY <1>3, <1>4
  <1>6. [z EXCEPT !.played[c] = @ + 1] = [z EXCEPT !.played = [z.played EXCEPT ![c] = z.played[c] + 1]]
    BY <1>5
  <1>7. z.played = w.played
    BY <1>5
  <1> HIDE DEF pl
  <1>8. [z EXCEPT !.played = pl] = [rt |-> r, ring |-> q, flushed |-> w.flushed, played |-> pl]
    BY <1>5
  <1>9. QED
    BY <1>1, <1>6, <1>7, <1>8 DEF r, pl, PoppedWorld, EndedRt, AsWorld, OnceMore

\* A change of playback.
LEMMA WorldRt ==
  ASSUME NEW w \in World, NEW r
  PROVE  [w EXCEPT !.rt = r] = WithRt(w, r)
  BY DEF World, WithRt

\* Its parts.
LEMMA PlaybackEnds ==
  ASSUME NEW a \in Playback, NEW x \in 0..StopMoves, NEW y \in 0..StopMoves
  PROVE  EndsAs(EndedRt(a, x, y), a, x, y)
  BY DEF Playback, EndsAs, EndedRt

\* The same of a flush.
LEMMA PlaybackFlush ==
  ASSUME NEW a \in Playback
  PROVE  EndsAs(FlushedRt(a), a, 0, 0)
  <1>1. 0 \in 0..StopMoves /\ FALSE \in BOOLEAN
    BY StopAssumption
  <1>2. QED
    BY <1>1 DEF Playback, EndsAs, FlushedRt

\* What a flush keeps (ExecPlayback::flush).
LEMMA FlushIntact ==
  ASSUME StopNumbers, NEW w, Intact(w)
  PROVE  LET u == Stop!Flush(w)
         IN  /\ Intact(u) /\ ~HasMarked(u.ring, stop_flush)
             /\ u.played = w.played /\ Len(u.ring) <= Len(w.ring)
             /\ u.rt.mode = w.rt.mode /\ u.rt.stopping = w.rt.stopping
  <1> DEFINE q == w.ring
             kept == Stop!ClearMarked(q)
             r == FlushedRt(w.rt)
             lost == {q[k].cmd : k \in 1..(Len(q) - Len(kept))}
             u == [rt |-> r, ring |-> kept, flushed |-> w.flushed \cup lost, played |-> w.played]
             left == Pushed - w.played[Newest]
  <1>1. /\ w \in World /\ q \in Seq(Queueable) /\ w.rt \in Playback
        /\ w.flushed \subseteq 1..StopMoves /\ w.played \in [1..StopMoves -> Nat]
    BY DEF Intact, World
  <1>2. Stop!Flush(w) = u
    <2>1. Stop!Flush(w) = FlushedWorld(w, kept, w.flushed \cup lost)
      BY DEF Stop!Flush, FlushedWorld
    <2> HIDE DEF kept, lost
    <2>2. QED
      BY <1>1, <2>1, WorldFlush DEF AsWorld
  <1>3. /\ r \in Playback /\ r.owe = 0 /\ r.last = 0 /\ r.armed = w.rt.armed
        /\ r.completed = w.rt.completed /\ r.mode = w.rt.mode /\ r.stopping = w.rt.stopping
    BY <1>1, PlaybackFlush DEF EndsAs
  <1>4. PICK n \in 0..Len(q) :
          Behind(kept, q, n) /\ (\A k \in 1..n : q[k].gen <= stop_flush) /\ ~HasMarked(kept, stop_flush)
    BY <1>1, ClearIsBehind DEF Intact, StopNumbers
  <1>5. kept \in Seq(Queueable) /\ Len(kept) = Len(q) - n /\ Len(q) \in Nat /\ DOMAIN q = 1..Len(q)
    BY <1>1, <1>4 DEF Behind
  <1> HIDE DEF kept, r
  <1>6. Len(q) - Len(kept) = n
    BY <1>5
  <1>7. \A k \in 1..n : k \in DOMAIN q /\ q[k].cmd \in stop_dropped
    BY <1>4, <1>5, SMTT(40) DEF Intact, MarkedRight
  <1>8. lost \subseteq stop_dropped
    BY <1>6, <1>7
  <1> HIDE DEF lost
  <1>9. Filled(kept, Newest, stop_dropped, left, Pushed = StopTrajLen)
    <2>0. Newest \in Nat /\ Filled(q, Newest, stop_dropped, left, Pushed = StopTrajLen)
      BY StopAssumption DEF StopNumbers, Intact
    <2> HIDE DEF left, q
    <2>1. Filled(kept, Newest, stop_dropped, IF n <= Len(q) - left THEN left ELSE Len(q) - n,
                 Pushed = StopTrajLen)
      BY <1>1, <1>4, <2>0, BehindIsFilled
    <2>2. CASE n <= Len(q) - left
      BY <2>1, <2>2
    <2>3. CASE Newest = 0 \/ Newest \in stop_dropped
      BY <2>1, <2>3 DEF Filled
    <2>4. CASE Newest # 0 /\ Newest \notin stop_dropped /\ ~(n <= Len(q) - left)
      <3>1. left \in 0..Len(q)
        BY <2>0, <2>4 DEF Filled
      <3>2. n \in 1..n /\ n > Len(q) - left /\ n \in DOMAIN q
        BY <1>5, <2>4, <3>1
      <3>3. q[n].cmd = Newest
        BY <2>0, <2>4, <3>2 DEF Filled
      <3>4. QED
        BY <1>7, <2>4, <3>2, <3>3
    <2>5. QED
      BY <2>2, <2>3, <2>4
  <1>10. Remembered(r, kept, w.played, Newest, stop_dropped)
    BY <1>3 DEF Intact, Remembered
  <1>11. MarkedRight(kept, stop_flush, stop_dropped, Early)
    BY <1>1, <1>4, BehindIsMarked DEF Intact
  <1>12. u \in World
    BY <1>1, <1>3, <1>5, <1>8 DEF World, StopNumbers
  <1>13. u.rt = r /\ u.ring = kept /\ u.flushed = w.flushed \cup lost /\ u.played = w.played
    OBVIOUS
  <1> HIDE DEF u
  <1>14. Intact(u)
    BY <1>3, <1>8, <1>9, <1>10, <1>11, <1>12, <1>13 DEF Intact
  <1>15. QED
    BY <1>2, <1>3, <1>4, <1>5, <1>13, <1>14

\* The end of a brake (ExecPlayback::finish_stop).
LEMMA FinishIntact ==
  ASSUME StopNumbers, NEW w, Intact(w)
  PROVE  Intact(Stop!FinishStop(w)) /\ Leads(w, Stop!FinishStop(w))
  <1> DEFINE r == [w.rt EXCEPT !.stopping = FALSE]
             v == WithRt(w, r)
             u == Stop!Flush(v)
  <1>1. w \in World /\ w.rt \in Playback
    BY DEF Intact, World
  <1>2. [w EXCEPT !.rt.stopping = FALSE] = v
    <2>1. [w EXCEPT !.rt.stopping = FALSE] = [w EXCEPT !.rt = r]
      OBVIOUS
    <2> HIDE DEF r
    <2>2. QED
      BY <1>1, <2>1, WorldRt
  <1>3. /\ r \in Playback /\ r.stopping = FALSE /\ r.owe = w.rt.owe /\ r.armed = w.rt.armed
        /\ r.completed = w.rt.completed /\ r.last = w.rt.last /\ r.mode = w.rt.mode
    BY <1>1 DEF Playback
  <1> HIDE DEF r
  <1>4. v.rt = r /\ v.ring = w.ring /\ v.flushed = w.flushed /\ v.played = w.played /\ v \in World
    BY <1>1, <1>3 DEF WithRt, World
  <1> HIDE DEF v
  <1>5. Remembered(r, w.ring, w.played, Newest, stop_dropped)
    BY <1>3 DEF Intact, Remembered
  <1>6. Intact(v)
    BY <1>3, <1>4, <1>5 DEF Intact
  <1>7. /\ Intact(u) /\ ~HasMarked(u.ring, stop_flush)
        /\ u.played = v.played /\ Len(u.ring) <= Len(v.ring)
        /\ u.rt.mode = v.rt.mode
    BY <1>6, FlushIntact
  <1> HIDE DEF u
  <1>8. Leads(w, w)
    BY <1>1, LeadsToItself
  <1>9. Left(u) = Left(w)
    BY <1>4, <1>7 DEF Left
  <1>10. Len(u.ring) - Left(u) <= Len(w.ring) - Left(w)
    <2>1. Len(u.ring) \in Nat /\ Len(w.ring) \in Nat
      BY <1>1, <1>7 DEF World, Intact
    <2>2. Left(w) \in Int
      <3>1. Newest # 0 => w.played[Newest] \in Nat
        BY <1>1, StopAssumption DEF StopNumbers, World
      <3>2. QED
        BY <3>1, StopAssumption DEF StopNumbers, Left
    <2>3. QED
      BY <1>4, <1>7, <1>9, <2>1, <2>2
  <1>11. Leads(w, u)
    BY <1>3, <1>4, <1>7, <1>8, <1>10 DEF Leads
  <1>12. Stop!FinishStop(w) = u
    BY <1>2 DEF Stop!FinishStop, u
  <1>13. QED
    BY <1>7, <1>11, <1>12

\* A sample played is the newest move's next one, or a dropped move's (ring pop).
LEMMA PopIntact ==
  ASSUME StopNumbers, NEW w, Intact(w), w.ring # <<>>
  PROVE  Intact(Stop!Pop(w)) /\ Leads(w, Stop!Pop(w)) /\ Stop!Pop(w).rt.stopping = w.rt.stopping
  <1> DEFINE q == w.ring
             s == q[1]
             p == Tail(q)
             ends == s.is_last \/ (p # <<>> /\ p[1].cmd # s.cmd)
             owe == IF ends THEN s.cmd ELSE 0
             last == IF ends THEN 0 ELSE s.cmd
             r == EndedRt(w.rt, owe, last)
             pl == OnceMore(w.played, s.cmd)
             u == [rt |-> r, ring |-> p, flushed |-> w.flushed, played |-> pl]
             left == Pushed - w.played[Newest]
             left1 == Pushed - pl[Newest]
  <1>1. /\ w \in World /\ q \in Seq(Queueable) /\ w.rt \in Playback
        /\ w.flushed \subseteq 1..StopMoves /\ w.played \in [1..StopMoves -> Nat]
    BY DEF Intact, World
  <1>2. Stop!Pop(w) = u
    <2>1. Stop!Pop(w) = PoppedWorld(w, owe, last, p, s.cmd)
      BY DEF Stop!Pop, PoppedWorld
    <2> HIDE DEF p, owe, last, s
    <2>2. QED
      BY <1>1, <2>1, WorldPop DEF AsWorld
  <1>3. Len(q) \in Nat /\ Len(q) >= 1 /\ DOMAIN q = 1..Len(q) /\ 1 \in DOMAIN q
    BY <1>1, EmptySeq
  <1>4. s \in Queueable /\ s.cmd \in 1..StopMoves /\ s.cmd \in Nat /\ s.cmd # 0
    <2>1. s \in Queueable
      BY <1>1, <1>3
    <2> HIDE DEF s
    <2>2. QED
      BY <2>1, StopAssumption DEF Queueable
  <1>5. Behind(p, q, 1)
    <2>1. /\ p \in Seq(Queueable) /\ Len(p) = Len(q) - 1
          /\ \A k \in 1..(Len(q) - 1) : p[k] = q[k + 1]
      BY <1>1, <1>3
    <2>2. DOMAIN p = 1..(Len(q) - 1)
      BY <1>3, <2>1
    <2> HIDE DEF p, q
    <2>3. QED
      BY <1>3, <2>1, <2>2 DEF Behind
  <1>6. p \in Seq(Queueable) /\ Len(p) = Len(q) - 1 /\ DOMAIN p = 1..Len(p)
    BY <1>5 DEF Behind
  <1>7. /\ pl \in [1..StopMoves -> Nat] /\ pl[s.cmd] = w.played[s.cmd] + 1
        /\ \A c \in 1..StopMoves : c # s.cmd => pl[c] = w.played[c]
    <2> DEFINE c == s.cmd
               f == w.played
    <2>1. c \in 1..StopMoves /\ f \in [1..StopMoves -> Nat]
      BY <1>1, <1>4
    <2> HIDE DEF c, f, s
    <2>2. LET g == OnceMore(f, c)
          IN  /\ g \in [1..StopMoves -> Nat] /\ g[c] = f[c] + 1
              /\ \A d \in 1..StopMoves : d # c => g[d] = f[d]
      BY <2>1 DEF OnceMore
    <2>3. QED
      BY <2>2 DEF c, f
  <1>9. /\ r \in Playback /\ r.mode = w.rt.mode /\ r.stopping = w.rt.stopping
        /\ r.armed = w.rt.armed /\ r.completed = w.rt.completed
        /\ r.owe = IF ends THEN s.cmd ELSE 0
        /\ r.last = IF ends THEN 0 ELSE s.cmd
    <2>1. owe \in 0..StopMoves /\ last \in 0..StopMoves
      BY <1>4, StopAssumption
    <2> HIDE DEF owe, last, ends, s
    <2>2. EndsAs(r, w.rt, owe, last)
      BY <1>1, <2>1, PlaybackEnds
    <2> HIDE DEF r
    <2>3. QED
      BY <2>2 DEF EndsAs, owe, last
  <1>10. /\ Newest \in Nat /\ Pushed \in Nat /\ Pushed <= StopTrajLen
         /\ (Newest # 0 => Newest \in 1..StopMoves /\ w.played[Newest] \in Nat)
    BY <1>1, StopAssumption DEF StopNumbers
  <1>11. Filled(q, Newest, stop_dropped, left, Pushed = StopTrajLen)
    BY DEF Intact
  <1>12. ASSUME s.cmd \notin stop_dropped
         PROVE  /\ s.cmd = Newest /\ left = Len(q) /\ w.played[s.cmd] = Pushed - Len(q)
                /\ \A k \in DOMAIN q : q[k].cmd = Newest
                /\ s.is_last <=> Len(q) = 1 /\ Pushed = StopTrajLen
    <2>1. s.cmd = Newest
      BY <1>3, <1>11, <1>12 DEF Filled
    <2>2. left \in 0..Len(q) /\ 1 > Len(q) - left
      BY <1>3, <1>4, <1>11, <1>12, <2>1 DEF Filled
    <2>3. left = Len(q)
      BY <1>3, <2>2
    <2>4. \A k \in DOMAIN q : k > Len(q) - left
      BY <1>3, <2>3
    <2>5. \A k \in DOMAIN q : q[k].cmd = Newest
      BY <1>4, <1>11, <1>12, <2>1, <2>4 DEF Filled
    <2>6. s.is_last <=> 1 = Len(q) /\ Pushed = StopTrajLen
      BY <1>3, <1>4, <1>11, <1>12, <2>1 DEF Filled
    <2>7. w.played[s.cmd] = Pushed - Len(q)
      BY <1>3, <1>4, <1>10, <2>1, <2>3
    <2>8. QED
      BY <2>1, <2>3, <2>5, <2>6, <2>7
  <1> HIDE DEF s, q, p, pl, r, left, left1, ends, owe, last
  <1>13. Filled(p, Newest, stop_dropped, left1, Pushed = StopTrajLen)
    <2>1. Filled(p, Newest, stop_dropped, IF 1 <= Len(q) - left THEN left ELSE Len(q) - 1,
                 Pushed = StopTrajLen)
      BY <1>1, <1>5, <1>10, <1>11, BehindIsFilled
    <2>2. CASE Newest = 0 \/ Newest \in stop_dropped
      BY <2>1, <2>2 DEF Filled
    <2>3. CASE Newest # 0 /\ Newest \notin stop_dropped /\ s.cmd = Newest
      <3>1. left = Len(q) /\ w.played[Newest] = Pushed - Len(q) /\ pl[Newest] = w.played[Newest] + 1
        BY <1>7, <1>12, <2>3
      <3>2. left1 = Len(q) - 1 /\ ~(1 <= Len(q) - left)
        BY <1>3, <1>10, <2>3, <3>1 DEF left1
      <3>3. QED
        BY <2>1, <3>2
    <2>4. CASE Newest # 0 /\ Newest \notin stop_dropped /\ s.cmd # Newest
      <3>1. left1 = left
        BY <1>7, <1>10, <2>4 DEF left, left1
      <3>2. left \in 0..Len(q) /\ ~(1 > Len(q) - left)
        BY <1>3, <1>11, <2>4 DEF Filled, s
      <3>3. 1 <= Len(q) - left
        BY <1>3, <3>2
      <3>4. QED
        BY <2>1, <3>1, <3>3
    <2>5. QED
      BY <2>2, <2>3, <2>4
  <1>14. \A c \in 1..StopMoves :
           Through(c, stop_dropped, w.played) => Through(c, stop_dropped, pl)
    <2> SUFFICES ASSUME NEW c \in 1..StopMoves, c \notin stop_dropped,
                        w.played[c] = StopTrajLen
                 PROVE  pl[c] = StopTrajLen
      BY DEF Through
    <2>1. CASE c # s.cmd
      BY <1>7, <2>1
    <2>2. CASE c = s.cmd
      <3>1. StopTrajLen = Pushed - Len(q)
        BY <1>12, <2>2
      <3> DEFINE len == Len(q)
      <3>2. len \in Nat /\ len >= 1 /\ Pushed \in Nat /\ Pushed <= StopTrajLen
        BY <1>3, <1>10
      <3> HIDE DEF len
      <3>3. StopTrajLen = Pushed - len
        BY <3>1 DEF len
      <3>4. QED
        BY <3>2, <3>3, StopAssumption
    <2>3. QED
      BY <2>1, <2>2
  <1>15. Remembered(r, p, pl, Newest, stop_dropped)
    <2>0. s.cmd <= Newest
      BY <1>3, <1>11 DEF Filled, s
    <2>1. \A c \in {r.armed, r.completed} : c # 0 => c <= Newest /\ Through(c, stop_dropped, pl)
      <3>1. w.rt.armed \in 0..StopMoves /\ w.rt.completed \in 0..StopMoves
        BY <1>1 DEF Playback
      <3>2. QED
        BY <1>9, <1>14, <3>1, StopAssumption DEF Intact, Remembered
    <2>2. r.owe # 0 => r.owe <= Newest /\ Through(r.owe, stop_dropped, pl)
      <3> SUFFICES ASSUME ends, s.cmd \notin stop_dropped
                   PROVE  pl[s.cmd] = StopTrajLen
        BY <1>9, <2>0 DEF Through
      <3>1. s.is_last
        <4>1. p # <<>> => p[1].cmd = s.cmd
          <5> SUFFICES ASSUME p # <<>>
                       PROVE  p[1].cmd = s.cmd
            OBVIOUS
          <5>1. 1 \in DOMAIN p
            BY <1>6, EmptySeq
          <5>2. 1 + 1 \in DOMAIN q /\ p[1] = q[1 + 1]
            BY <1>5, <5>1 DEF Behind
          <5>3. QED
            BY <1>12, <5>2
        <4>2. QED
          BY <4>1 DEF ends
      <3>2. Len(q) = 1 /\ Pushed = StopTrajLen /\ w.played[s.cmd] = Pushed - Len(q)
        BY <1>12, <3>1
      <3>3. QED
        BY <1>7, <1>10, <3>2, StopAssumption
    <2>3. r.last # 0 =>
            /\ r.last <= Newest
            /\ \/ Through(r.last, stop_dropped, pl)
               \/ r.last = Newest /\ \A k \in DOMAIN p : p[k].cmd = Newest
      <3> SUFFICES ASSUME ~ends, s.cmd \notin stop_dropped
                   PROVE  s.cmd = Newest /\ \A k \in DOMAIN p : p[k].cmd = Newest
        BY <1>9, <2>0 DEF Through
      <3>1. \A k \in DOMAIN p : k + 1 \in DOMAIN q /\ p[k] = q[k + 1]
        BY <1>5 DEF Behind
      <3>2. QED
        BY <1>12, <3>1
    <2>4. QED
      BY <2>1, <2>2, <2>3 DEF Remembered
  <1>16. MarkedRight(p, stop_flush, stop_dropped, Early)
         /\ (HasMarked(p, stop_flush) => HasMarked(q, stop_flush))
    BY <1>1, <1>5, BehindIsMarked DEF Intact, q
  <1>17. u.rt = r /\ u.ring = p /\ u.flushed = w.flushed /\ u.played = pl /\ u \in World
    BY <1>1, <1>6, <1>7, <1>9 DEF World
  <1> HIDE DEF u
  <1>18. Intact(u)
    <2>1. s.cmd <= Newest
      BY <1>3, <1>11 DEF Filled, s
    <2>2. \A c \in 1..StopMoves : c > Newest => pl[c] = 0
      <3>1. \A c \in 1..StopMoves : c > Newest => w.played[c] = 0
        BY DEF Intact
      <3> SUFFICES ASSUME NEW c \in 1..StopMoves, c > Newest
                   PROVE  pl[c] = 0
        OBVIOUS
      <3>2. c # s.cmd
        BY <1>4, <1>10, <2>1, StopAssumption
      <3>3. QED
        BY <1>7, <3>1, <3>2
    <2>3. QED
      BY <1>9, <1>13, <1>15, <1>16, <1>17, <2>2 DEF Intact, left1
  <1>19. Len(p) - Left(u) <= Len(q) - Left(w) /\ Len(p) <= Len(q)
    <2>1. CASE Newest = 0 \/ Newest \in stop_dropped
      BY <1>3, <1>6, <2>1 DEF Left
    <2>2. CASE Newest # 0 /\ Newest \notin stop_dropped /\ s.cmd = Newest
      <3>1. Left(u) = Pushed - pl[Newest] /\ Left(w) = Pushed - w.played[Newest]
        BY <1>17, <2>2 DEF Left
      <3>2. pl[Newest] = w.played[Newest] + 1
        BY <1>7, <2>2
      <3>3. QED
        BY <1>3, <1>6, <1>10, <2>2, <3>1, <3>2
    <2>3. CASE Newest # 0 /\ Newest \notin stop_dropped /\ s.cmd # Newest
      <3>1. Left(u) = Pushed - w.played[Newest] /\ Left(w) = Pushed - w.played[Newest]
        BY <1>7, <1>10, <1>17, <2>3 DEF Left
      <3>2. QED
        BY <1>3, <1>6, <1>10, <2>3, <3>1
    <2>4. QED
      BY <2>1, <2>2, <2>3
  <1>20. Leads(w, u)
    BY <1>9, <1>14, <1>16, <1>17, <1>19 DEF Leads, q
  <1>21. QED
    BY <1>2, <1>9, <1>17, <1>18, <1>20

-----------------------------------------------------------------------------

\* r is w's playback as far as stops and the memory of moves go.
SameBrake(r, w) == r \in Playback /\ r.mode = w.rt.mode /\ r.stopping = w.rt.stopping

\* One that leaves mode and brake alone does in particular.
LEMMA BrakeOnly ==
  ASSUME StopNumbers, NEW w, Intact(w), NEW r, SameBrake(r, w),
         Remembered(r, w.ring, w.played, Newest, stop_dropped)
  PROVE  /\ Intact(WithRt(w, r)) /\ Leads(w, WithRt(w, r))
         /\ WithRt(w, r).rt = r /\ WithRt(w, r).ring = w.ring
  <1>1. r \in Playback /\ (r.mode = "idle" => ~r.stopping) /\ (w.rt.stopping => r.stopping)
        /\ r.mode = w.rt.mode
    BY DEF SameBrake, Intact
  <1>2. Intact(WithRt(w, r)) /\ Leads(w, WithRt(w, r))
    BY <1>1, RtOnly
  <1>3. QED
    BY <1>2 DEF WithRt

\* The clock of a tick (ExecPlayback::tick, applied_scale).
LEMMA StillIntact ==
  ASSUME StopNumbers, NEW w, Intact(w), NEW x \in BOOLEAN
  PROVE  LET u == [w EXCEPT !.rt.still = x] IN Intact(u) /\ Leads(w, u)
  <1> DEFINE r == [w.rt EXCEPT !.still = x]
  <1>1. w \in World /\ w.rt \in Playback
    BY DEF Intact, World
  <1>2. /\ SameBrake(r, w) /\ r.owe = w.rt.owe /\ r.armed = w.rt.armed
        /\ r.completed = w.rt.completed /\ r.last = w.rt.last
    BY <1>1 DEF Playback, SameBrake
  <1>3. [w EXCEPT !.rt.still = x] = [w EXCEPT !.rt = r]
    OBVIOUS
  <1> HIDE DEF r
  <1>4. Remembered(r, w.ring, w.played, Newest, stop_dropped)
    BY <1>2 DEF Intact, Remembered
  <1>5. QED
    BY <1>1, <1>2, <1>3, <1>4, BrakeOnly, WorldRt

\* A boundary found late ends a move that has played (ExecPlayback::tick).
LEMMA LateIntact ==
  ASSUME StopNumbers, NEW w, Intact(w)
  PROVE  Intact(Stop!LateBoundary(w)) /\ Leads(w, Stop!LateBoundary(w))
  <1>1. w \in World /\ w.rt \in Playback /\ w.rt.last \in 0..StopMoves /\ w.ring \in Seq(Queueable)
    BY DEF Intact, World, Playback
  <1>2. CASE w.rt.owe = 0 /\ w.rt.last # 0 /\ w.ring # <<>> /\ w.ring[1].cmd # w.rt.last
    <2> DEFINE r == [w.rt EXCEPT !.owe = w.rt.last]
    <2>1. /\ SameBrake(r, w) /\ r.owe = w.rt.last /\ r.armed = w.rt.armed
          /\ r.completed = w.rt.completed /\ r.last = w.rt.last
      BY <1>1 DEF Playback, SameBrake
    <2>2. Stop!LateBoundary(w) = [w EXCEPT !.rt = r]
      BY <1>2 DEF Stop!LateBoundary
    <2> HIDE DEF r
    <2>3. 1 \in DOMAIN w.ring
      BY <1>1, <1>2, EmptySeq
    <2>4. w.rt.last <= Newest /\ Through(w.rt.last, stop_dropped, w.played)
      BY <1>2, <2>3 DEF Intact, Remembered
    <2>5. Remembered(r, w.ring, w.played, Newest, stop_dropped)
      BY <2>1, <2>4 DEF Intact, Remembered
    <2>6. QED
      BY <1>1, <2>1, <2>2, <2>5, BrakeOnly, WorldRt
  <1>3. CASE ~(w.rt.owe = 0 /\ w.rt.last # 0 /\ w.ring # <<>> /\ w.ring[1].cmd # w.rt.last)
    BY <1>1, <1>3, LeadsToItself DEF Stop!LateBoundary
  <1>4. QED
    BY <1>2, <1>3

\* One playback step.
LEMMA PlaysIntact ==
  ASSUME StopNumbers, NEW w, Intact(w), NEW u \in Stop!Plays(w)
  PROVE  Intact(u) /\ Leads(w, u)
  <1>1. w \in World /\ w.rt.stopping \in BOOLEAN
    BY DEF Intact, World, Playback
  <1>2. CASE w.ring = <<>>
    <2>1. u = [w EXCEPT !.rt.still = w.rt.stopping]
      BY <1>2 DEF Stop!Plays, Stop!Rest
    <2>2. QED
      BY <1>1, <2>1, StillIntact
  <1>3. CASE w.ring # <<>>
    <2>1. PICK v \in {w, Stop!Pop(w)}, x \in BOOLEAN : u = [v EXCEPT !.rt.still = x]
      BY <1>3 DEF Stop!Plays
    <2>2. Intact(v) /\ Leads(w, v)
      BY <1>1, <1>3, <2>1, PopIntact, LeadsToItself
    <2>3. Intact(u) /\ Leads(v, u)
      BY <2>1, <2>2, StillIntact
    <2>4. v \in World /\ u \in World
      BY <2>2, <2>3 DEF Intact
    <2>5. QED
      BY <1>1, <2>2, <2>3, <2>4, LeadsOn
  <1>4. QED
    BY <1>2, <1>3

\* A command's end, completed or settled first (ExecPlayback::complete).
LEMMA BoundaryIntact ==
  ASSUME StopNumbers, NEW w, Intact(w), NEW u \in Stop!Boundary(w)
  PROVE  Intact(u) /\ Leads(w, u)
  <1>1. /\ w \in World /\ w.rt \in Playback /\ w.rt.owe \in 0..StopMoves /\ 0 \in 0..StopMoves
    BY StopAssumption DEF Intact, World, Playback
  <1>2. CASE w.rt.owe = 0
    BY <1>2, PlaysIntact DEF Stop!Boundary
  <1>3. CASE w.rt.owe # 0 /\ ~StopSettles
    <2> DEFINE r == [w.rt EXCEPT !.owe = 0, !.last = 0, !.completed = w.rt.owe]
               v == [w EXCEPT !.rt.owe = 0, !.rt.last = 0, !.rt.completed = w.rt.owe]
    <2>1. /\ SameBrake(r, w) /\ r.owe = 0 /\ r.armed = w.rt.armed
          /\ r.completed = w.rt.owe /\ r.last = 0
      BY <1>1 DEF Playback, SameBrake
    <2>2. v = [w EXCEPT !.rt = r]
      BY <1>1 DEF World
    <2>3. u \in Stop!Plays(v)
      BY <1>3 DEF Stop!Boundary
    <2> HIDE DEF r, v
    <2>4. Remembered(r, w.ring, w.played, Newest, stop_dropped)
      BY <2>1 DEF Intact, Remembered
    <2>5. Intact(v) /\ Leads(w, v)
      BY <1>1, <2>1, <2>2, <2>4, BrakeOnly, WorldRt
    <2>6. Intact(u) /\ Leads(v, u)
      BY <2>3, <2>5, PlaysIntact
    <2>7. v \in World /\ u \in World
      BY <2>5, <2>6 DEF Intact
    <2>8. QED
      BY <1>1, <2>5, <2>6, <2>7, LeadsOn
  <1>4. CASE w.rt.owe # 0 /\ StopSettles
    <2> DEFINE r == [w.rt EXCEPT !.owe = 0, !.last = 0, !.settling = TRUE, !.armed = w.rt.owe]
    <2>1. /\ SameBrake(r, w) /\ r.owe = 0 /\ r.armed = w.rt.owe
          /\ r.completed = w.rt.completed /\ r.last = 0
      BY <1>1 DEF Playback, SameBrake
    <2>2. u = [w EXCEPT !.rt.owe = 0, !.rt.last = 0, !.rt.settling = TRUE, !.rt.armed = w.rt.owe]
      BY <1>4 DEF Stop!Boundary
    <2>3. u = [w EXCEPT !.rt = r]
      BY <1>1, <2>2 DEF World
    <2> HIDE DEF r
    <2>4. Remembered(r, w.ring, w.played, Newest, stop_dropped)
      BY <2>1 DEF Intact, Remembered
    <2>5. QED
      BY <1>1, <2>1, <2>3, <2>4, BrakeOnly, WorldRt
  <1>5. QED
    BY <1>2, <1>3, <1>4

\* A tick of EXEC (ExecPlayback::tick).
LEMMA ExecTickIntact ==
  ASSUME StopNumbers, NEW w0, Intact(w0), NEW u \in Stop!ExecTick(w0)
  PROVE  Intact(u) /\ Leads(w0, u)
  <1> DEFINE w == Stop!BrakeEnds(w0)
             r == [w.rt EXCEPT !.settling = FALSE, !.completed = w.rt.armed]
             v == [w EXCEPT !.rt.settling = FALSE, !.rt.completed = w.rt.armed]
  <1>1. w0 \in World
    BY DEF Intact
  <1>2. Intact(w) /\ Leads(w0, w)
    BY <1>1, FinishIntact, LeadsToItself DEF Stop!BrakeEnds
  <1> HIDE DEF w
  <1>3. w \in World /\ w.rt \in Playback /\ w.rt.stopping \in BOOLEAN /\ w.rt.armed \in 0..StopMoves
    BY <1>2 DEF Intact, World, Playback
  <1>4. \/ u \in Stop!Boundary(Stop!LateBoundary(w))
        \/ u = [w EXCEPT !.rt.still = w.rt.stopping]
        \/ u \in Stop!Boundary(Stop!LateBoundary(v))
    BY DEF Stop!ExecTick, w, Stop!Rest
  <1>5. ASSUME NEW x, Intact(x), Leads(w, x), u \in Stop!Boundary(Stop!LateBoundary(x))
        PROVE  Intact(u) /\ Leads(w, u)
    <2> DEFINE y == Stop!LateBoundary(x)
    <2>1. Intact(y) /\ Leads(x, y)
      BY <1>5, LateIntact
    <2> HIDE DEF y
    <2>2. Intact(u) /\ Leads(y, u)
      BY <1>5, <2>1, BoundaryIntact DEF y
    <2>3. x \in World /\ y \in World /\ u \in World
      BY <1>5, <2>1, <2>2 DEF Intact
    <2>4. Leads(x, u)
      BY <2>1, <2>2, <2>3, LeadsOn
    <2>5. QED
      BY <1>3, <1>5, <2>2, <2>3, <2>4, LeadsOn
  <1>6. Intact(v) /\ Leads(w, v)
    <2>1. /\ SameBrake(r, w) /\ r.owe = w.rt.owe /\ r.armed = w.rt.armed
          /\ r.completed = w.rt.armed /\ r.last = w.rt.last
      BY <1>3 DEF Playback, SameBrake
    <2>2. v = [w EXCEPT !.rt = r]
      BY <1>3 DEF World
    <2> HIDE DEF r, v
    <2>3. Remembered(r, w.ring, w.played, Newest, stop_dropped)
      BY <1>2, <2>1 DEF Intact, Remembered
    <2>4. QED
      BY <1>2, <1>3, <2>1, <2>2, <2>3, BrakeOnly, WorldRt
  <1>7. Intact(u) /\ Leads(w, u)
    <2>1. CASE u \in Stop!Boundary(Stop!LateBoundary(w))
      BY <1>2, <1>3, <1>5, <2>1, LeadsToItself
    <2>2. CASE u = [w EXCEPT !.rt.still = w.rt.stopping]
      BY <1>2, <1>3, <2>2, StillIntact
    <2>3. CASE u \in Stop!Boundary(Stop!LateBoundary(v))
      <3> HIDE DEF v
      <3>1. QED
        BY <1>5, <1>6, <2>3
    <2>4. QED
      BY <1>4, <2>1, <2>2, <2>3
  <1>8. u \in World
    BY <1>7 DEF Intact
  <1>9. QED
    BY <1>1, <1>2, <1>3, <1>7, <1>8, LeadsOn

\* A command from the RT queue; a stop leaves a brake or nothing marked (apply_command).
LEMMA ApplyIntact ==
  ASSUME StopNumbers, NEW w, Intact(w), NEW cmd \in {"SetModeExec", "ExecStop"}
  PROVE  LET v == Stop!Apply(w, cmd)
         IN  /\ Intact(v) /\ Leads(w, v)
             /\ cmd = "ExecStop" => v.rt.stopping \/ ~HasMarked(v.ring, stop_flush)
  <1>1. /\ w \in World /\ w.rt \in Playback /\ w.rt.mode \in {"idle", "exec"}
        /\ w.rt.armed \in 0..StopMoves /\ 0 \in 0..StopMoves
    BY StopAssumption DEF Intact, World, Playback
  <1>2. CASE cmd = "SetModeExec" /\ w.rt.mode = "exec"
    BY <1>1, <1>2, LeadsToItself DEF Stop!Apply
  <1>3. CASE cmd = "SetModeExec" /\ w.rt.mode # "exec"
    <2> DEFINE r == [Stop!InitRt EXCEPT !.mode = "exec", !.armed = w.rt.armed]
    <2>1. /\ r \in Playback /\ r.mode = "exec" /\ r.stopping = FALSE /\ r.owe = 0 /\ r.last = 0
          /\ r.armed = w.rt.armed /\ r.completed = 0
      BY <1>1 DEF Stop!InitRt, Playback
    <2>2. Stop!Apply(w, cmd) = [w EXCEPT !.rt = r]
      BY <1>3 DEF Stop!Apply, Stop!Activate
    <2> HIDE DEF r
    <2>3. Remembered(r, w.ring, w.played, Newest, stop_dropped)
      BY <2>1 DEF Intact, Remembered
    <2>4. w.rt.stopping => r.stopping
      BY <1>1, <1>3 DEF Intact
    <2>5. Intact(WithRt(w, r)) /\ Leads(w, WithRt(w, r))
      BY <2>1, <2>3, <2>4, RtOnly
    <2>6. QED
      BY <1>1, <1>3, <2>2, <2>5, WorldRt
  <1>4. CASE cmd = "ExecStop" /\ w.rt.mode = "exec"
    <2> DEFINE r == [w.rt EXCEPT !.stopping = TRUE]
    <2>1. /\ r \in Playback /\ r.mode = "exec" /\ r.stopping = TRUE /\ r.owe = w.rt.owe
          /\ r.last = w.rt.last /\ r.armed = w.rt.armed /\ r.completed = w.rt.completed
      BY <1>1, <1>4 DEF Playback
    <2>2. Stop!Apply(w, cmd) = [w EXCEPT !.rt = r]
      BY <1>4 DEF Stop!Apply
    <2> HIDE DEF r
    <2>3. Remembered(r, w.ring, w.played, Newest, stop_dropped)
      BY <2>1 DEF Intact, Remembered
    <2>4. Intact(WithRt(w, r)) /\ Leads(w, WithRt(w, r))
      BY <2>1, <2>3, RtOnly
    <2>5. WithRt(w, r).rt = r
      BY DEF WithRt
    <2>6. QED
      BY <1>1, <2>1, <2>2, <2>4, <2>5, WorldRt
  <1>5. CASE cmd = "ExecStop" /\ w.rt.mode # "exec"
    <2> DEFINE v == Stop!Flush(w)
    <2>1. Stop!Apply(w, cmd) = v
      BY <1>5 DEF Stop!Apply
    <2>2. /\ Intact(v) /\ ~HasMarked(v.ring, stop_flush)
          /\ v.played = w.played /\ Len(v.ring) <= Len(w.ring) /\ v.rt.mode = w.rt.mode
      BY FlushIntact
    <2> HIDE DEF v
    <2>3. Left(v) = Left(w)
      BY <2>2 DEF Left
    <2>4. Len(v.ring) - Left(v) <= Len(w.ring) - Left(w)
      <3>1. Len(v.ring) \in Nat /\ Len(w.ring) \in Nat
        BY <1>1, <2>2 DEF World, Intact
      <3>2. Left(w) \in Int
        <4>1. Newest # 0 => w.played[Newest] \in Nat
          BY <1>1, StopAssumption DEF StopNumbers, World
        <4>2. QED
          BY <4>1, StopAssumption DEF StopNumbers, Left
      <3>3. QED
        BY <2>2, <2>3, <3>1, <3>2
    <2>5. Leads(w, v)
      BY <2>2, <2>4 DEF Leads
    <2>6. QED
      BY <2>1, <2>2, <2>5
  <1>6. QED
    BY <1>1, <1>2, <1>3, <1>4, <1>5

-----------------------------------------------------------------------------
(* The invariant. *)

Here == [rt |-> stop_rt, ring |-> stop_ring, flushed |-> stop_flushed, played |-> stop_played]

StopTyped ==
  /\ stop_queued \in 0..StopMoves
  /\ stop_pending \in Seq(1..StopMoves) /\ Len(stop_pending) <= stop_queued
  /\ stop_planning \in 0..StopMoves /\ stop_executing \in 0..StopMoves
  /\ stop_dropped \subseteq 1..StopMoves /\ stop_done \subseteq 1..StopMoves
  /\ stop_stops \in 0..StopStops
  /\ stop_requests \in Seq(Request) /\ stop_events \in Seq(Event)
  /\ stop_inflight \in [cmd : 0..StopMoves, cursor : 0..StopTrajLen]
  /\ stop_fill \in Nat \ {0} /\ stop_flush \in Nat
  /\ stop_rtq \in Seq({"SetModeExec", "ExecStop"})
  /\ stop_snap.completed \in 0..StopMoves
  /\ Len(stop_ring) <= StopRing

\* The server: what waits follows what was offered, and what was offered is answered
\* but for the move planned or executed.
Served ==
  /\ \A k \in 1..Len(stop_pending) : stop_pending[k] = stop_queued - Len(stop_pending) + k
  /\ stop_planning # 0 =>
       stop_pending # <<>> /\ stop_planning = Head(stop_pending) /\ stop_executing = 0
  /\ stop_executing # 0 => stop_executing = Offered /\ stop_executing < stop_fill
  /\ \A c \in 1..Offered : c \in Answered \cup {stop_planning, stop_executing}
  /\ \A c \in Answered : c <= Offered
  /\ stop_planning \notin Answered /\ stop_executing \notin Answered
  /\ stop_done \cap stop_dropped = {}

\* What the server and the planner hear of a move is true of it.
Heard ==
  /\ \A i \in DOMAIN stop_events :
       /\ stop_events[i].cmd < stop_fill
       /\ stop_events[i].op = "Outcome" =>
            Through(stop_events[i].cmd, stop_dropped, stop_played)
  /\ \A c \in stop_done : c < stop_fill /\ stop_played[c] = StopTrajLen
  /\ stop_inflight # Stop!NoFlight => stop_inflight.cmd = Newest /\ Newest # 0
  /\ stop_inflight = Stop!NoFlight /\ Newest # 0 => Through(Newest, stop_dropped, stop_played)
  /\ stop_snap.completed # 0 =>
       /\ stop_snap.completed <= Newest
       /\ Through(stop_snap.completed, stop_dropped, stop_played)

\* The mark is never ahead of the fill, and reaches it only over answered moves.
Marks ==
  /\ stop_flush <= stop_fill
  /\ stop_flush = stop_fill /\ Newest # 0 => Newest \in Answered
  /\ \A c \in stop_dropped \ Early : c < stop_fill

\* A marked sample is owed a flush.
Owing ==
  HasMarked(stop_ring, stop_flush) =>
    stop_rt.stopping \/ \E i \in DOMAIN stop_rtq : stop_rtq[i] = "ExecStop"

\* The ring holds at most a trajectory per dropped move beside the newest one, so a
\* move that may still be stopped fits into it whole.
Room ==
  /\ Cardinality(stop_dropped) <= stop_stops
  /\ Len(stop_ring) - Left(Here) <= StopTrajLen * Cardinality(stop_dropped \cap (1..Newest))
  /\ stop_inflight # Stop!NoFlight /\ stop_inflight.cursor < StopTrajLen =>
       stop_stops = StopStops /\ Newest \notin stop_dropped

StopInv ==
  /\ StopTyped /\ Served /\ InOrder(stop_requests, stop_fill, Offered, Answered)
  /\ Heard /\ Intact(Here) /\ Marks
  /\ Roomy => Owing /\ Room

\* The numbers of a reachable state.
LEMMA StopFacts ==
  ASSUME StopInv
  PROVE  /\ StopNumbers /\ Offered \in 0..StopMoves /\ Newest <= Offered
         /\ stop_planning # 0 => stop_planning = Offered
         /\ Len(stop_pending) \in Nat /\ DOMAIN stop_pending = 1..Len(stop_pending)
         /\ stop_pending # <<>> => Head(stop_pending) = stop_pending[1] /\ Len(stop_pending) >= 1
         /\ stop_ring \in Seq(Queueable) /\ stop_rt \in Playback
         /\ stop_played \in [1..StopMoves -> Nat] /\ Here \in World
  <1>1. stop_ring \in Seq(Queueable) /\ stop_rt \in Playback
        /\ stop_played \in [1..StopMoves -> Nat] /\ Here \in World
    BY DEF StopInv, Intact, World, Here
  <1>2. Len(stop_pending) \in Nat /\ DOMAIN stop_pending = 1..Len(stop_pending)
        /\ (stop_pending # <<>> => Head(stop_pending) = stop_pending[1] /\ Len(stop_pending) >= 1)
    BY EmptySeq DEF StopInv, StopTyped
  <1>3. Offered \in 0..StopMoves
    <2>1. stop_queued \in 0..StopMoves /\ Len(stop_pending) <= stop_queued
          /\ stop_planning \in 0..StopMoves
      BY DEF StopInv, StopTyped
    <2>2. QED
      BY <1>2, <2>1, StopAssumption DEF Offered
  <1>4. Newest <= Offered /\ Newest \in Nat
    BY DEF StopInv, StopTyped, InOrder, Newest
  <1>5. Pushed \in 0..StopTrajLen
    BY StopAssumption DEF StopInv, StopTyped, Pushed
  <1>6. stop_flush \in Nat /\ stop_dropped \subseteq 1..StopMoves
    BY DEF StopInv, StopTyped
  <1>7. Newest \in 0..StopMoves
    BY <1>3, <1>4, StopAssumption
  <1>8. stop_planning # 0 => stop_planning = Offered
    BY DEF Offered
  <1>9. QED
    BY <1>1, <1>2, <1>3, <1>4, <1>5, <1>6, <1>7, <1>8 DEF StopNumbers

\* The newest move has played what it has, and the rest is in the ring.
LEMMA NewestFacts ==
  ASSUME StopInv, Newest # 0, Newest \notin stop_dropped
  PROVE  /\ Newest \in 1..StopMoves /\ stop_played[Newest] \in Nat
         /\ Pushed - stop_played[Newest] \in 0..Len(stop_ring)
         /\ Newest \in stop_done =>
              /\ Pushed = StopTrajLen /\ Pushed - stop_played[Newest] = 0
              /\ \A k \in DOMAIN stop_ring : stop_ring[k].cmd \in stop_dropped
  <1>1. Newest \in 1..StopMoves /\ stop_played[Newest] \in Nat /\ Pushed \in 0..StopTrajLen
        /\ stop_ring \in Seq(Queueable)
    BY StopFacts, StopAssumption DEF StopNumbers
  <1>2. Filled(stop_ring, Newest, stop_dropped, Pushed - stop_played[Newest], Pushed = StopTrajLen)
    BY DEF StopInv, Intact, Here
  <1>3. Pushed - stop_played[Newest] \in 0..Len(stop_ring)
    BY <1>2 DEF Filled
  <1>4. ASSUME Newest \in stop_done
        PROVE  Pushed = StopTrajLen /\ Pushed - stop_played[Newest] = 0
    <2>1. stop_played[Newest] = StopTrajLen
      BY <1>4 DEF StopInv, Heard
    <2>2. QED
      BY <1>1, <1>3, <2>1, StopAssumption
  <1>5. ASSUME Newest \in stop_done
        PROVE  \A k \in DOMAIN stop_ring : stop_ring[k].cmd \in stop_dropped
    <2>1. Filled(stop_ring, Newest, stop_dropped, 0, Pushed = StopTrajLen)
      BY <1>2, <1>4, <1>5
    <2>2. Newest \in Nat
      BY <1>1, StopAssumption
    <2>3. QED
      BY <1>1, <2>1, <2>2, NextIsFilled
  <1>6. QED
    BY <1>1, <1>3, <1>4, <1>5

\* It holds initially.
LEMMA StopInitially ==
  ASSUME Stop!Init
  PROVE  StopInv
  <1> USE DEF Stop!Init
  <1>1. StopTyped
    BY StopAssumption DEF StopTyped, Stop!NoFlight, Stop!Snapshot, Stop!InitRt, Request, Event
  <1>2. Offered = 0 /\ Answered = {} /\ Newest = 0
    <2>1. Len(stop_pending) = 0 /\ stop_planning = 0 /\ stop_queued = 0
      OBVIOUS
    <2>2. Offered = 0
      <3> HIDE DEF Stop!Init
      <3>1. QED
        BY <2>1, SMT DEF Offered
    <2>3. QED
      BY <2>2 DEF Answered, Newest
  <1>3. Served
    BY <1>2 DEF Served
  <1>4. InOrder(stop_requests, stop_fill, Offered, Answered)
    BY <1>2 DEF InOrder
  <1>5. Heard
    BY <1>2 DEF Heard, Stop!Snapshot, Stop!InitRt, Stop!NoFlight
  <1>6. Marks
    BY <1>2 DEF Marks
  <1>7. stop_rt \in Playback /\ stop_rt.owe = 0 /\ stop_rt.armed = 0 /\ stop_rt.completed = 0
        /\ stop_rt.last = 0 /\ stop_rt.stopping = FALSE
    BY StopAssumption DEF Stop!InitRt, Playback
  <1>8. stop_ring \in Seq(Queueable) /\ DOMAIN stop_ring = {} /\ Len(stop_ring) = 0
    OBVIOUS
  <1>9. stop_played \in [1..StopMoves -> Nat] /\ \A c \in 1..StopMoves : stop_played[c] = 0
    OBVIOUS
  <1>10. Here \in World /\ Here.rt = stop_rt /\ Here.ring = stop_ring
         /\ Here.flushed = {} /\ Here.played = stop_played
    BY <1>7, <1>8, <1>9 DEF Here, World
  <1>11. Intact(Here)
    <2>1. Filled(stop_ring, Newest, stop_dropped, Pushed - stop_played[Newest], Pushed = StopTrajLen)
      BY <1>2, <1>8 DEF Filled
    <2>2. Remembered(stop_rt, stop_ring, stop_played, Newest, stop_dropped)
      BY <1>7 DEF Remembered
    <2>3. MarkedRight(stop_ring, stop_flush, stop_dropped, Early)
      BY <1>8 DEF MarkedRight
    <2>4. QED
      BY <1>7, <1>9, <1>10, <2>1, <2>2, <2>3 DEF Intact
  <1>12. Owing
    BY <1>8 DEF Owing, HasMarked
  <1>13. Room
    <2>1. Cardinality(stop_dropped) = 0 /\ stop_dropped \cap (1..Newest) = {}
      BY FS_EmptySet
    <2>2. Left(Here) = 0
      BY <1>2 DEF Left
    <2>3. QED
      BY <1>8, <2>1, <2>2, StopAssumption DEF Room, Stop!NoFlight
  <1>14. QED
    BY <1>1, <1>3, <1>4, <1>5, <1>6, <1>11, <1>12, <1>13 DEF StopInv

-----------------------------------------------------------------------------
(* The server's steps. *)

\* A step of the server that drops nothing touches neither ring nor playback.
LEMMA ServerKeeps ==
  ASSUME StopInv, Answered \subseteq Answered',
         UNCHANGED <<stop_dropped, stop_unplanned, stop_stops, stop_inflight, stop_fill, stop_flush,
                     stop_ring, stop_rtq, stop_rt, stop_snap, stop_played, stop_flushed>>
  PROVE  /\ Intact(Here)' /\ Marks' /\ (Roomy => Owing' /\ Room')
         /\ Newest' = Newest /\ Pushed' = Pushed
  <1>1. Newest' = Newest /\ Pushed' = Pushed /\ Early' = Early /\ Here' = Here
    BY DEF Newest, Pushed, Early, Here, Roomy
  <1>2. Intact(Here)'
    BY <1>1 DEF StopInv, Intact
  <1>3. Marks'
    BY <1>1 DEF StopInv, Marks
  <1>4. Left(Here)' = Left(Here)
    BY <1>1 DEF Left
  <1>5. Roomy => Owing' /\ Room'
    BY <1>1, <1>4 DEF StopInv, Owing, Room
  <1>6. QED
    BY <1>1, <1>2, <1>3, <1>5

\* The head of a queue of moves.
LEMMA HeadOfMoves ==
  ASSUME NEW q \in Seq(1..StopMoves), q # <<>>
  PROVE  /\ Len(q) \in Nat /\ Len(q) >= 1 /\ Head(q) = q[1] /\ 1 \in 1..Len(q)
         /\ q[1] \in 1..StopMoves
         /\ Tail(q) \in Seq(1..StopMoves) /\ Len(Tail(q)) = Len(q) - 1
         /\ \A k \in 1..(Len(q) - 1) : Tail(q)[k] = q[k + 1]
  <1>1. Len(q) \in Nat /\ Len(q) >= 1 /\ DOMAIN q = 1..Len(q)
    BY EmptySeq
  <1>2. 1 \in 1..Len(q)
    BY <1>1
  <1>3. q[1] \in 1..StopMoves
    BY <1>2, ElementOfSeq
  <1>4. Head(q) = q[1]
    BY <1>1
  <1>5. QED
    BY <1>1, <1>2, <1>3, <1>4

\* An offer (Server::pump).
LEMMA OfferServes ==
  ASSUME StopInv, stop_planning = 0, stop_executing' = 0, stop_pending' # <<>>,
         stop_pending' \in Seq(1..StopMoves), stop_queued' \in 0..StopMoves,
         Len(stop_pending)' <= stop_queued',
         \A k \in 1..Len(stop_pending') : stop_pending'[k] = stop_queued' - Len(stop_pending') + k,
         stop_queued' - Len(stop_pending') = Offered,
         \A c \in 1..Offered : c \in Answered',
         \A c \in Answered' : c <= Offered,
         Answered' \subseteq 1..StopMoves, Answered \subseteq Answered', (stop_done \cap stop_dropped = {})',
         UNCHANGED stop_fill,
         Stop!Offer(stop_pending')
  PROVE  /\ Served' /\ InOrder(stop_requests, stop_fill, Offered, Answered)'
         /\ stop_planning' \in 0..StopMoves /\ stop_requests' \in Seq(Request)
  <1> DEFINE q == stop_pending'
             n == Len(q)
             o == Offered
  <1>0. q \in Seq(1..StopMoves) /\ q # <<>>
    OBVIOUS
  <1>1. n \in Nat /\ n >= 1 /\ Head(q) = q[1] /\ 1 \in 1..n /\ q[1] \in 1..StopMoves
    BY <1>0, HeadOfMoves
  <1>2. q[1] = o + 1 /\ o \in Nat
    <2>1. q[1] = stop_queued' - n + 1
      BY <1>1
    <2>2. o \in 0..StopMoves
      BY StopFacts
    <2>3. QED
      BY <2>1, <2>2, StopAssumption
  <1>3. stop_planning' = o + 1 /\ stop_planning' # 0 /\ o + 1 \in 1..StopMoves
    BY <1>1, <1>2 DEF Stop!Offer
  <1>4. Offered' = o + 1
    BY <1>3 DEF Offered
  <1>5. stop_requests' = Append(stop_requests, [op |-> "Start", cmd |-> o + 1])
    BY <1>1, <1>2 DEF Stop!Offer
  <1>6. InOrder(stop_requests, stop_fill, o, Answered) /\ stop_requests \in Seq(Request)
        /\ stop_fill \in Nat \ {0}
    BY DEF StopInv, StopTyped
  <1>7. InOrder(stop_requests, stop_fill, o, Answered')
    BY <1>6, AnswersKeepOrder
  <1> HIDE DEF o
  <1>8. /\ stop_requests' \in Seq(Request)
        /\ InOrder(stop_requests', stop_fill, o + 1, Answered')
    BY <1>2, <1>3, <1>5, <1>6, <1>7, OfferInOrder
  <1>9. Served'
    <2>1. \A c \in 1..(o + 1) : c \in Answered' \cup {stop_planning', stop_executing'}
      <3> TAKE c \in 1..(o + 1)
      <3>1. c \in 1..o \/ c = o + 1
        BY <1>2
      <3>2. QED
        BY <1>3, <3>1 DEF o
    <2>2. \A c \in Answered' : c <= o + 1
      <3> TAKE c \in Answered'
      <3>1. c <= o /\ c \in 1..StopMoves
        BY DEF o
      <3>2. QED
        BY <1>2, <3>1, StopAssumption
    <2>3. o + 1 \notin Answered'
      BY <1>2 DEF o
    <2>4. QED
      BY <1>1, <1>2, <1>3, <1>4, <2>1, <2>2, <2>3 DEF Served
  <1>10. QED
    BY <1>3, <1>4, <1>8, <1>9

\* A move queued (Server::on_queued).
LEMMA QueueServes ==
  ASSUME StopInv, Stop!Queue
  PROVE  StopInv'
  <1> DEFINE q == stop_pending
             n == Len(q)
             p == stop_pending'
  <1>0. /\ stop_queued < StopMoves /\ stop_queued' = stop_queued + 1
        /\ p = Append(q, stop_queued + 1)
        /\ UNCHANGED <<stop_executing, stop_dropped, stop_unplanned, stop_done, stop_stops,
                       stop_events, stop_inflight, stop_fill, stop_flush, stop_ring, stop_rtq,
                       stop_rt, stop_snap, stop_played, stop_flushed>>
    BY DEF Stop!Queue, Stop!ringVars, Stop!historyVars
  <1>1. /\ n \in Nat /\ n <= stop_queued /\ stop_queued \in Nat /\ stop_queued + 1 \in 1..StopMoves
        /\ q \in Seq(1..StopMoves)
    BY <1>0, StopFacts, StopAssumption DEF StopInv, StopTyped
  <1>2. /\ p \in Seq(1..StopMoves) /\ Len(p) = n + 1 /\ p[n + 1] = stop_queued + 1
        /\ \A k \in 1..n : p[k] = q[k]
    BY <1>0, <1>1
  <1>3. p # <<>> /\ stop_queued' - Len(p) = stop_queued - n
    <2>1. Len(p) > 0
      BY <1>1, <1>2
    <2>2. stop_queued' - Len(p) = stop_queued - n
      BY <1>0, <1>1, <1>2
    <2>3. QED
      BY <1>2, <2>1, <2>2
  <1>4. \A k \in 1..Len(p) : p[k] = stop_queued' - Len(p) + k
    <2> TAKE k \in 1..Len(p)
    <2>1. CASE k = n + 1
      BY <1>0, <1>1, <1>2, <2>1
    <2>2. CASE k \in 1..n
      <3>1. p[k] = stop_queued - n + k
        BY <1>2, <2>2 DEF StopInv, Served
      <3>2. QED
        BY <1>3, <3>1
    <2>3. QED
      BY <1>1, <1>2, <2>1, <2>2
  <1> HIDE DEF p, q, n
  <1>5. Answered' = Answered /\ Len(p) <= stop_queued' /\ stop_queued' \in 0..StopMoves
    BY <1>0, <1>1, <1>2, StopAssumption DEF Answered
  <1>6. /\ Intact(Here)' /\ Marks' /\ (Roomy => Owing' /\ Room') /\ Newest' = Newest
    BY <1>0, <1>5, ServerKeeps
  <1>7. Heard'
    BY <1>0, <1>6 DEF StopInv, Heard
  <1>8. CASE stop_planning = 0 /\ stop_executing = 0 /\ Stop!Offer(p)
    <2>1. stop_queued' - Len(p) = Offered
      BY <1>3, <1>8 DEF Offered, n, q
    <2>2. \A c \in 1..Offered : c \in Answered'
      <3>1. \A c \in 1..Offered : c \in Answered \cup {stop_planning, stop_executing}
        BY DEF StopInv, Served
      <3>2. \A c \in 1..Offered : c # 0
        BY StopFacts
      <3>3. QED
        BY <1>5, <1>8, <3>1, <3>2
    <2>3. (\A c \in Answered' : c <= Offered) /\ Answered' \subseteq 1..StopMoves
          /\ (stop_done \cap stop_dropped = {})'
      BY <1>0, <1>5 DEF StopInv, Served, StopTyped, Answered
    <2>4. /\ Served' /\ InOrder(stop_requests, stop_fill, Offered, Answered)'
          /\ stop_planning' \in 0..StopMoves /\ stop_requests' \in Seq(Request)
      BY <1>0, <1>2, <1>3, <1>4, <1>5, <1>8, <2>1, <2>2, <2>3, OfferServes DEF p
    <2>5. StopTyped'
      BY <1>0, <1>2, <1>5, <2>4 DEF StopInv, StopTyped, p
    <2>6. QED
      BY <1>6, <1>7, <2>4, <2>5 DEF StopInv
  <1>9. CASE UNCHANGED <<stop_planning, stop_requests>>
    <2>1. Offered' = Offered
      BY <1>3, <1>9 DEF Offered, p, n, q
    <2>2. stop_planning # 0 => q # <<>> /\ Head(p) = Head(q)
      <3> SUFFICES ASSUME stop_planning # 0
                   PROVE  q # <<>> /\ Head(p) = Head(q)
        OBVIOUS
      <3>1. q # <<>>
        BY DEF StopInv, Served, q
      <3>2. n >= 1 /\ Head(q) = q[1]
        BY <1>1, <3>1, HeadOfMoves DEF n
      <3>3. Head(p) = p[1] /\ p[1] = q[1]
        BY <1>1, <1>2, <1>3, <3>2, HeadOfMoves
      <3>4. QED
        BY <3>1, <3>2, <3>3
    <2>3. Served'
      BY <1>0, <1>3, <1>4, <1>5, <1>9, <2>1, <2>2 DEF StopInv, Served, p, q
    <2>4. InOrder(stop_requests, stop_fill, Offered, Answered)'
      BY <1>0, <1>5, <1>9, <2>1 DEF StopInv
    <2>5. StopTyped'
      BY <1>0, <1>2, <1>5, <1>9 DEF StopInv, StopTyped, p
    <2>6. QED
      BY <1>6, <1>7, <2>3, <2>4, <2>5 DEF StopInv
  <1>10. QED
    BY <1>8, <1>9 DEF Stop!Queue, Stop!CanStart, p

\* The next move offered on a poll (Server::pump).
LEMMA PollServes ==
  ASSUME StopInv, Stop!PollServer
  PROVE  StopInv'
  <1>0. /\ stop_planning = 0 /\ stop_executing = 0 /\ stop_pending # <<>>
        /\ Stop!Offer(stop_pending)
        /\ UNCHANGED <<stop_queued, stop_pending, stop_executing, stop_dropped, stop_unplanned,
                       stop_done, stop_stops, stop_events, stop_inflight, stop_fill, stop_flush,
                       stop_ring, stop_rtq, stop_rt, stop_snap, stop_played, stop_flushed>>
    BY DEF Stop!PollServer, Stop!CanStart, Stop!ringVars, Stop!historyVars
  <1>1. Answered' = Answered
    BY <1>0 DEF Answered
  <1>2. /\ Intact(Here)' /\ Marks' /\ (Roomy => Owing' /\ Room') /\ Newest' = Newest
    BY <1>0, <1>1, ServerKeeps
  <1>3. Heard'
    BY <1>0, <1>2 DEF StopInv, Heard
  <1>4. stop_queued' - Len(stop_pending') = Offered
    BY <1>0 DEF Offered
  <1>5. \A c \in 1..Offered : c \in Answered'
    <2>1. \A c \in 1..Offered : c \in Answered \cup {stop_planning, stop_executing}
      BY DEF StopInv, Served
    <2>2. \A c \in 1..Offered : c # 0
      BY StopFacts
    <2>3. QED
      BY <1>0, <1>1, <2>1, <2>2
  <1>6. (\A c \in Answered' : c <= Offered) /\ Answered' \subseteq 1..StopMoves
        /\ (stop_done \cap stop_dropped = {})'
    BY <1>0, <1>1 DEF StopInv, Served, StopTyped, Answered
  <1>7. /\ stop_pending' # <<>> /\ stop_pending' \in Seq(1..StopMoves)
        /\ stop_queued' \in 0..StopMoves /\ Len(stop_pending)' <= stop_queued'
        /\ \A k \in 1..Len(stop_pending') : stop_pending'[k] = stop_queued' - Len(stop_pending') + k
        /\ Stop!Offer(stop_pending')
    BY <1>0 DEF StopInv, StopTyped, Served
  <1>8. /\ Served' /\ InOrder(stop_requests, stop_fill, Offered, Answered)'
        /\ stop_planning' \in 0..StopMoves /\ stop_requests' \in Seq(Request)
    BY <1>0, <1>1, <1>4, <1>5, <1>6, <1>7, OfferServes
  <1>9. StopTyped'
    BY <1>0, <1>8 DEF StopInv, StopTyped
  <1>10. QED
    BY <1>2, <1>3, <1>8, <1>9 DEF StopInv

\* The event at the head of the channel, and those behind it.
LEMMA TailOfEvents ==
  ASSUME NEW e \in Seq(Event), e # <<>>
  PROVE  /\ Tail(e) \in Seq(Event) /\ 1 \in DOMAIN e /\ Head(e) = e[1] /\ Head(e) \in Event
         /\ \A i \in DOMAIN Tail(e) : i + 1 \in DOMAIN e /\ Tail(e)[i] = e[i + 1]
  <1>1. Len(e) \in Nat /\ Len(e) >= 1 /\ DOMAIN e = 1..Len(e)
    BY EmptySeq
  <1>2. 1 \in DOMAIN e
    BY <1>1
  <1>3. e[1] \in Event /\ Head(e) = e[1]
    BY <1>1, <1>2
  <1>4. /\ Tail(e) \in Seq(Event) /\ Len(Tail(e)) = Len(e) - 1
        /\ \A i \in 1..(Len(e) - 1) : Tail(e)[i] = e[i + 1]
    BY <1>1
  <1>5. DOMAIN Tail(e) = 1..(Len(e) - 1)
    BY <1>1, <1>4
  <1>6. \A i \in DOMAIN Tail(e) : i + 1 \in DOMAIN e /\ Tail(e)[i] = e[i + 1]
    BY <1>1, <1>4, <1>5
  <1>7. QED
    BY <1>2, <1>3, <1>4, <1>6

\* A planner's answer taken (Server::on_plan_started, on_outcome).
LEMMA OnEventServes ==
  ASSUME StopInv, Stop!OnEvent
  PROVE  StopInv'
  <1> DEFINE ev == Head(stop_events)
  <1>0. /\ stop_events # <<>> /\ stop_events' = Tail(stop_events)
        /\ UNCHANGED <<stop_queued, stop_dropped, stop_unplanned, stop_stops, stop_inflight,
                       stop_fill, stop_flush, stop_ring, stop_rtq, stop_rt, stop_snap,
                       stop_played, stop_flushed>>
    BY DEF Stop!OnEvent, Stop!ringVars, Stop!historyVars
  <1>1. stop_events \in Seq(Event)
    BY DEF StopInv, StopTyped
  <1>2. /\ stop_events' \in Seq(Event) /\ 1 \in DOMAIN stop_events /\ ev = stop_events[1]
        /\ ev \in Event
        /\ \A i \in DOMAIN stop_events' :
             i + 1 \in DOMAIN stop_events /\ stop_events'[i] = stop_events[i + 1]
    BY <1>0, <1>1, TailOfEvents
  <1>3. /\ ev.cmd \in 1..StopMoves /\ ev.cmd # 0 /\ ev.cmd < stop_fill
        /\ ev.op = "Outcome" => Through(ev.cmd, stop_dropped, stop_played)
    BY <1>2 DEF Event, StopInv, Heard
  <1>4. \A i \in DOMAIN stop_events' :
          /\ stop_events'[i].cmd < stop_fill
          /\ stop_events'[i].op = "Outcome" =>
               Through(stop_events'[i].cmd, stop_dropped, stop_played)
    BY <1>2 DEF StopInv, Heard
  <1> HIDE DEF ev
  <1>5. /\ Offered \in 0..StopMoves /\ (stop_planning # 0 => stop_planning = Offered)
        /\ Newest <= Offered /\ Newest \in 0..StopMoves
    BY StopFacts DEF StopNumbers
  <1>6. CASE /\ ev.op = "Started" /\ stop_planning = ev.cmd
             /\ stop_planning' = 0 /\ stop_executing' = ev.cmd /\ stop_pending' = Tail(stop_pending)
             /\ UNCHANGED <<stop_done, stop_requests>>
    <2>1. Answered' = Answered
      BY <1>0, <1>6 DEF Answered
    <2>2. /\ Intact(Here)' /\ Marks' /\ (Roomy => Owing' /\ Room') /\ Newest' = Newest
      BY <1>0, <2>1, ServerKeeps
    <2>3. Heard'
      BY <1>0, <1>4, <1>6, <2>2 DEF StopInv, Heard
    <2>4. stop_planning # 0
      BY <1>3, <1>6
    <2>5. stop_pending \in Seq(1..StopMoves) /\ stop_pending # <<>>
      BY <2>4 DEF StopInv, StopTyped, Served
    <2> DEFINE q == stop_pending
               p == Tail(q)
    <2>6. /\ Len(q) \in Nat /\ Len(q) >= 1 /\ Head(q) = q[1] /\ 1 \in 1..Len(q)
          /\ p \in Seq(1..StopMoves) /\ Len(p) = Len(q) - 1
          /\ \A k \in 1..(Len(q) - 1) : p[k] = q[k + 1]
      BY <2>5, HeadOfMoves
    <2>7. /\ stop_queued \in Nat /\ stop_planning = stop_queued - Len(q) + 1 /\ Len(q) <= stop_queued
      BY <2>4, <2>6 DEF StopInv, StopTyped, Served
    <2>8. stop_pending' = p
      BY <1>6
    <2> HIDE DEF p
    <2>9. Offered' = stop_planning /\ Offered = stop_planning
      <3>1. Offered' = stop_queued - Len(p)
        BY <1>0, <1>6, <2>8 DEF Offered
      <3>2. QED
        BY <1>5, <2>4, <2>6, <2>7, <3>1
    <2>10. \A k \in 1..Len(p) : p[k] = stop_queued - Len(p) + k
      <3> TAKE k \in 1..Len(p)
      <3>1. k + 1 \in 1..Len(q) /\ k \in 1..(Len(q) - 1)
        BY <2>6
      <3>2. q[k + 1] = stop_queued - Len(q) + (k + 1)
        BY <3>1 DEF StopInv, Served
      <3>3. QED
        BY <2>6, <2>7, <3>1, <3>2
    <2>11. Served'
      <3>1. stop_executing = 0 /\ stop_planning \notin Answered /\ 0 \notin Answered
        BY <2>4 DEF StopInv, Served, StopTyped, Answered
      <3>2. \A c \in 1..Offered : c \in Answered \cup {stop_planning, stop_executing}
        BY DEF StopInv, Served
      <3>3. \A c \in 1..Offered : c \in Answered \cup {0, ev.cmd}
        BY <1>6, <3>1, <3>2
      <3>4. (\A c \in Answered : c <= Offered) /\ stop_done \cap stop_dropped = {}
        BY DEF StopInv, Served
      <3>5. QED
        BY <1>0, <1>3, <1>6, <2>1, <2>8, <2>9, <2>10, <3>1, <3>3, <3>4 DEF Served
    <2>12. InOrder(stop_requests, stop_fill, Offered, Answered)'
      BY <1>0, <1>6, <2>1, <2>9 DEF StopInv
    <2>13. StopTyped'
      <3>1. Len(p) <= stop_queued
        BY <2>6, <2>7
      <3>2. 0 \in 0..StopMoves /\ ev.cmd \in 0..StopMoves
        BY <1>3, StopAssumption
      <3>3. QED
        BY <1>0, <1>2, <1>6, <2>6, <2>8, <3>1, <3>2 DEF StopInv, StopTyped
    <2>14. QED
      BY <2>2, <2>3, <2>11, <2>12, <2>13 DEF StopInv
  <1>7. CASE /\ ev.op = "Outcome" /\ stop_executing = ev.cmd
             /\ stop_executing' = 0 /\ stop_done' = stop_done \cup {ev.cmd}
             /\ UNCHANGED stop_pending
             /\ \/ stop_planning = 0 /\ stop_pending # <<>> /\ Stop!Offer(stop_pending)
                \/ UNCHANGED <<stop_planning, stop_requests>>
    <2>1. Answered' = Answered \cup {ev.cmd}
      BY <1>0, <1>7 DEF Answered
    <2>2. /\ Intact(Here)' /\ Marks' /\ (Roomy => Owing' /\ Room') /\ Newest' = Newest
      BY <1>0, <2>1, ServerKeeps
    <2>3. ev.cmd = Offered /\ ev.cmd \notin Answered /\ stop_planning = 0
      <3>1. stop_executing # 0
        BY <1>3, <1>7
      <3>2. QED
        BY <1>7, <3>1 DEF StopInv, Served
    <2>4. ev.cmd \notin stop_dropped /\ stop_played[ev.cmd] = StopTrajLen
      BY <1>3, <1>7, <2>3 DEF Through, Answered
    <2>5. Heard'
      BY <1>0, <1>3, <1>4, <1>7, <2>2, <2>4 DEF StopInv, Heard
    <2>6. \A c \in 1..Offered : c \in Answered'
      <3>1. \A c \in 1..Offered : c \in Answered \cup {stop_planning, stop_executing}
        BY DEF StopInv, Served
      <3>2. \A c \in 1..Offered : c # 0
        BY <1>5
      <3>3. QED
        BY <1>7, <2>1, <2>3, <3>1, <3>2
    <2>7. (\A c \in Answered' : c <= Offered) /\ Answered' \subseteq 1..StopMoves
          /\ (stop_done \cap stop_dropped = {})'
      <3>1. (\A c \in Answered : c <= Offered) /\ Answered \subseteq 1..StopMoves
            /\ stop_done \cap stop_dropped = {}
        BY DEF StopInv, Served, StopTyped, Answered
      <3>2. Offered <= Offered
        BY <1>5
      <3>3. QED
        BY <1>0, <1>3, <1>7, <2>1, <2>3, <2>4, <3>1, <3>2
    <2>8. /\ stop_pending' \in Seq(1..StopMoves)
          /\ stop_queued' \in 0..StopMoves /\ Len(stop_pending)' <= stop_queued'
          /\ \A k \in 1..Len(stop_pending') : stop_pending'[k] = stop_queued' - Len(stop_pending') + k
          /\ stop_queued' - Len(stop_pending') = Offered
      BY <1>0, <1>7, <2>3 DEF StopInv, StopTyped, Served, Offered
    <2>9. stop_done' \subseteq 1..StopMoves /\ stop_executing' \in 0..StopMoves
      <3>1. stop_done \subseteq 1..StopMoves
        BY DEF StopInv, StopTyped
      <3>2. stop_done' \subseteq 1..StopMoves
        BY <1>3, <1>7, <3>1
      <3>3. 0 \in 0..StopMoves
        BY StopAssumption
      <3>4. QED
        BY <1>7, <3>2, <3>3
    <2>10. CASE stop_pending # <<>> /\ Stop!Offer(stop_pending)
      <3>1. stop_pending' # <<>> /\ Stop!Offer(stop_pending')
        BY <1>7, <2>10
      <3>2. /\ Served' /\ InOrder(stop_requests, stop_fill, Offered, Answered)'
            /\ stop_planning' \in 0..StopMoves /\ stop_requests' \in Seq(Request)
        BY <1>0, <1>7, <2>1, <2>3, <2>6, <2>7, <2>8, <3>1, OfferServes
      <3>3. StopTyped'
        BY <1>0, <1>2, <1>7, <2>8, <2>9, <3>2 DEF StopInv, StopTyped
      <3>4. QED
        BY <2>2, <2>5, <3>2, <3>3 DEF StopInv
    <2>11. CASE UNCHANGED <<stop_planning, stop_requests>>
      <3>1. Offered' = Offered
        BY <1>0, <1>7, <2>11 DEF Offered
      <3>2. 0 \notin Answered'
        BY <2>7
      <3>3. Served'
        BY <1>7, <2>3, <2>6, <2>7, <2>8, <2>11, <3>1, <3>2 DEF Served
      <3>4. InOrder(stop_requests, stop_fill, Offered, Answered')
        BY <2>1, AnswersKeepOrder DEF StopInv
      <3>5. InOrder(stop_requests, stop_fill, Offered, Answered)'
        BY <1>0, <2>11, <3>1, <3>4
      <3>6. StopTyped'
        BY <1>0, <1>2, <1>7, <2>8, <2>11, <2>9 DEF StopInv, StopTyped
      <3>7. QED
        BY <2>2, <2>5, <3>3, <3>5, <3>6 DEF StopInv
    <2>12. QED
      BY <1>7, <2>10, <2>11
  <1>8. CASE UNCHANGED <<stop_planning, stop_executing, stop_pending, stop_done, stop_requests>>
    <2>1. Answered' = Answered /\ Offered' = Offered
      BY <1>0, <1>8 DEF Answered, Offered
    <2>2. /\ Intact(Here)' /\ Marks' /\ (Roomy => Owing' /\ Room') /\ Newest' = Newest
      BY <1>0, <2>1, ServerKeeps
    <2>3. Heard'
      BY <1>0, <1>4, <1>8, <2>2 DEF StopInv, Heard
    <2>4. Served' /\ InOrder(stop_requests, stop_fill, Offered, Answered)'
      BY <1>0, <1>8, <2>1 DEF StopInv, Served
    <2>5. StopTyped'
      BY <1>0, <1>2, <1>8 DEF StopInv, StopTyped
    <2>6. QED
      BY <2>2, <2>3, <2>4, <2>5 DEF StopInv
  <1>9. QED
    BY <1>6, <1>7, <1>8 DEF Stop!OnEvent, ev

\* A set of moves with one more in it.
LEMMA OneMoreMove ==
  ASSUME NEW D \in SUBSET (1..StopMoves), NEW o \in 1..StopMoves, o \notin D, NEW n \in Nat, n <= o
  PROVE  /\ Cardinality(D) \in Nat /\ Cardinality(D \cup {o}) = Cardinality(D) + 1
         /\ Cardinality(D \cap (1..n)) \in Nat
         /\ Cardinality(D \cap (1..n)) <= Cardinality(D)
         /\ (D \cup {o}) \cap (1..n) = IF n = o THEN (D \cap (1..n)) \cup {o} ELSE D \cap (1..n)
         /\ Cardinality((D \cap (1..n)) \cup {o}) = Cardinality(D \cap (1..n)) + 1
  <1> DEFINE M == 1..StopMoves
             E == D \cap (1..n)
  <1>1. IsFiniteSet(M)
    BY FS_Interval, StopAssumption
  <1>2. D \subseteq M /\ E \subseteq D /\ o \notin E
    OBVIOUS
  <1>3. (D \cup {o}) \cap (1..n) = IF n = o THEN E \cup {o} ELSE E
    BY StopAssumption
  <1> HIDE DEF M, E
  <1>4. IsFiniteSet(D) /\ Cardinality(D) \in Nat
    BY <1>1, <1>2, FS_Subset, FS_CardinalityType
  <1>5. IsFiniteSet(E) /\ Cardinality(E) \in Nat /\ Cardinality(E) <= Cardinality(D)
    BY <1>2, <1>4, FS_Subset, FS_CardinalityType
  <1>6. Cardinality(D \cup {o}) = Cardinality(D) + 1
    BY <1>4, FS_AddElement
  <1>7. Cardinality(E \cup {o}) = Cardinality(E) + 1
    BY <1>2, <1>5, FS_AddElement
  <1>8. QED
    BY <1>3, <1>4, <1>5, <1>6, <1>7 DEF E

\* A stop (Server::stop, Core::drop_active, discard_exec, halt).
LEMMA StopServes ==
  ASSUME StopInv, Stop!Stop
  PROVE  StopInv'
  <1> DEFINE gone == {stop_planning, stop_executing} \ {0}
             o == Offered
             q == stop_pending
  <1>0. /\ stop_stops < StopStops /\ stop_stops' = stop_stops + 1
        /\ stop_requests' = Append(stop_requests, [op |-> "Cancel"])
        /\ stop_pending' = IF stop_planning # 0 THEN Tail(q) ELSE q
        /\ stop_planning' = 0 /\ stop_executing' = 0
        /\ stop_dropped' = stop_dropped \cup gone
        /\ stop_unplanned' = stop_unplanned \cup ({stop_planning} \ {0})
        /\ stop_flush' = Stop!Max2(stop_flush, stop_fill)
        /\ stop_rtq' = stop_rtq \o (IF gone = {} THEN <<>> ELSE <<"ExecStop">>) \o <<"ExecStop">>
        /\ UNCHANGED <<stop_queued, stop_done, stop_events, stop_inflight, stop_fill, stop_ring,
                       stop_rt, stop_snap, stop_played, stop_flushed>>
    BY DEF Stop!Stop, Stop!historyVars
  <1>1. /\ StopNumbers /\ o \in 0..StopMoves /\ Newest <= o
        /\ stop_planning # 0 => stop_planning = o
        /\ stop_ring \in Seq(Queueable) /\ stop_played \in [1..StopMoves -> Nat]
        /\ Newest \in 0..StopMoves /\ Pushed \in 0..StopTrajLen
    BY StopFacts DEF StopNumbers
  <1>2. /\ stop_executing # 0 => stop_executing = o /\ stop_executing < stop_fill
        /\ stop_planning # 0 => stop_executing = 0
        /\ \A c \in 1..o : c \in Answered \cup {stop_planning, stop_executing}
        /\ \A c \in Answered : c <= o
        /\ stop_planning \notin Answered /\ stop_executing \notin Answered
        /\ stop_done \cap stop_dropped = {}
    BY DEF StopInv, Served
  <1>3. /\ \/ gone = {}
           \/ gone = {o} /\ o # 0 /\ o \notin Answered
        /\ \A c \in 1..o : c \in Answered \cup gone
    <2>1. \A c \in 1..o : c # 0
      BY <1>1
    <2>2. \A c \in 1..o : c \in Answered \cup gone
      BY <1>2, <2>1
    <2>3. gone = {} \/ (gone = {o} /\ o # 0 /\ o \notin Answered)
      BY <1>1, <1>2
    <2>4. QED
      BY <2>2, <2>3
  <1>4. Answered' = Answered \cup gone
    BY <1>0 DEF Answered
  <1>5. /\ stop_pending' \in Seq(1..StopMoves) /\ Len(stop_pending') <= stop_queued
        /\ stop_queued - Len(stop_pending') = o
        /\ \A k \in 1..Len(stop_pending') : stop_pending'[k] = o + k
    <2>0. /\ q \in Seq(1..StopMoves) /\ Len(q) \in Nat /\ Len(q) <= stop_queued /\ stop_queued \in Nat
          /\ \A k \in 1..Len(q) : q[k] = stop_queued - Len(q) + k
      BY StopAssumption DEF StopInv, StopTyped, Served
    <2>1. CASE stop_planning = 0
      <3>1. o = stop_queued - Len(q)
        BY <2>1 DEF Offered
      <3>2. QED
        BY <1>0, <2>0, <2>1, <3>1
    <2>2. CASE stop_planning # 0
      <3> DEFINE p == Tail(q)
      <3>1. q # <<>> /\ stop_planning = Head(q)
        BY <2>2 DEF StopInv, Served
      <3>2. /\ Len(q) >= 1 /\ Head(q) = q[1] /\ 1 \in 1..Len(q)
            /\ p \in Seq(1..StopMoves) /\ Len(p) = Len(q) - 1
            /\ \A k \in 1..(Len(q) - 1) : p[k] = q[k + 1]
        BY <2>0, <3>1, HeadOfMoves
      <3> HIDE DEF p, q
      <3>3. o = stop_queued - Len(q) + 1
        BY <1>1, <2>0, <2>2, <3>1, <3>2
      <3>4. Len(p) <= stop_queued /\ stop_queued - Len(p) = o
        BY <2>0, <3>2, <3>3
      <3>5. \A k \in 1..Len(p) : p[k] = o + k
        <4> TAKE k \in 1..Len(p)
        <4>1. k + 1 \in 1..Len(q) /\ k \in 1..(Len(q) - 1)
          BY <2>0, <3>2
        <4>2. p[k] = stop_queued - Len(q) + (k + 1)
          BY <2>0, <3>2, <4>1
        <4>3. QED
          BY <2>0, <3>3, <4>1, <4>2
      <3>6. QED
        BY <1>0, <2>2, <3>2, <3>4, <3>5 DEF p
    <2>3. QED
      BY <2>1, <2>2
  <1>6. Offered' = o /\ Newest' = Newest /\ Pushed' = Pushed
    BY <1>0, <1>5 DEF Offered, Newest, Pushed
  <1>7. /\ stop_dropped' \subseteq 1..StopMoves /\ 0 \in 0..StopMoves
        /\ stop_done \subseteq 1..StopMoves /\ stop_dropped \subseteq 1..StopMoves
        /\ Answered' \subseteq 1..StopMoves
    <2>1. stop_dropped \subseteq 1..StopMoves /\ stop_done \subseteq 1..StopMoves
      BY DEF StopInv, StopTyped
    <2>2. o # 0 => o \in 1..StopMoves
      BY <1>1
    <2>3. 0 \in 0..StopMoves
      BY StopAssumption
    <2>4. QED
      BY <1>0, <1>3, <1>4, <2>1, <2>2, <2>3 DEF Answered
  <1>8. stop_fill \in Nat /\ stop_flush' = stop_fill /\ stop_fill = Newest + 1
    BY DEF StopInv, StopTyped, Marks, Newest, Stop!Max2, Stop!Stop
  <1>9. /\ InOrder(stop_requests', stop_fill, o, Answered')
        /\ stop_requests' \in Seq(Request)
    <2>1. InOrder(stop_requests, stop_fill, o, Answered) /\ stop_requests \in Seq(Request)
          /\ stop_fill \in Nat \ {0} /\ o \in Nat
      BY <1>1, StopAssumption DEF StopInv, StopTyped
    <2> HIDE DEF o, gone
    <2>2. InOrder(stop_requests, stop_fill, o, Answered')
      BY <1>4, <2>1, AnswersKeepOrder
    <2>3. \A c \in 1..o : c \in Answered'
      BY <1>3, <1>4
    <2>4. QED
      BY <1>0, <2>1, <2>2, <2>3, CancelInOrder
  <1>10. Served'
    <2>1. \A c \in Answered' : c <= o
      BY <1>1, <1>2, <1>3, <1>4
    <2>2. (stop_done \cap stop_dropped = {})'
      BY <1>0, <1>2, <1>3 DEF Answered
    <2>3. 0 \notin Answered'
      BY <1>7
    <2> HIDE DEF o, gone
    <2>4. \A c \in 1..o : c \in Answered'
      BY <1>3, <1>4
    <2>5. QED
      BY <1>0, <1>5, <1>6, <2>1, <2>2, <2>3, <2>4 DEF Served
  <1>11. Heard'
    BY <1>0, <1>6 DEF StopInv, Heard, Through
  <1>12. /\ stop_rtq' \in Seq({"SetModeExec", "ExecStop"})
         /\ \E i \in DOMAIN stop_rtq' : stop_rtq'[i] = "ExecStop"
    <2> DEFINE C == {"SetModeExec", "ExecStop"}
               a == stop_rtq \o (IF gone = {} THEN <<>> ELSE <<"ExecStop">>)
    <2>1. a \in Seq(C)
      <3> DEFINE s == stop_rtq
      <3>1. s \in Seq(C) /\ <<"ExecStop">> \in Seq(C)
        BY DEF StopInv, StopTyped
      <3> HIDE DEF s, gone, C
      <3>2. CASE gone = {}
        <4>1. a = s \o <<>>
          BY <3>2 DEF s
        <4> HIDE DEF a
        <4>2. QED
          BY <3>1, <4>1, EmptySeq, ConcatProperties
      <3>3. CASE gone # {}
        <4>1. a = s \o <<"ExecStop">>
          BY <3>3 DEF s
        <4> HIDE DEF a
        <4>2. QED
          BY <3>1, <4>1, ConcatProperties
      <3>4. QED
        BY <3>2, <3>3
    <2>2. stop_rtq' = a \o <<"ExecStop">>
      BY <1>0
    <2> HIDE DEF a
    <2>3. stop_rtq' = Append(a, "ExecStop")
      BY <2>1, <2>2
    <2>4. Len(a) + 1 \in DOMAIN stop_rtq' /\ stop_rtq'[Len(a) + 1] = "ExecStop"
      BY <2>1, <2>3
    <2>5. QED
      BY <2>1, <2>3, <2>4
  <1>13. StopTyped'
    <2>1. stop_stops' \in 0..StopStops /\ stop_flush' \in Nat
      BY <1>0, <1>8, StopAssumption DEF StopInv, StopTyped
    <2> HIDE DEF gone, q
    <2>2. QED
      BY <1>0, <1>5, <1>7, <1>9, <1>12, <2>1 DEF StopInv, StopTyped
  <1>14. \A k \in DOMAIN stop_ring :
           stop_ring[k].cmd \in stop_dropped' /\ stop_ring[k].gen <= stop_fill
    <2> TAKE k \in DOMAIN stop_ring
    <2>1. /\ stop_ring[k].gen = stop_ring[k].cmd + 1 /\ stop_ring[k].cmd <= Newest
          /\ stop_ring[k].cmd # Newest => stop_ring[k].cmd \in stop_dropped
      BY DEF StopInv, Intact, Filled, Here
    <2>2. stop_ring[k] \in Queueable
      BY <1>1
    <2>3. stop_ring[k].cmd \in 1..StopMoves
      BY <2>2 DEF Queueable
    <2>4. stop_ring[k].gen <= stop_fill
      BY <1>1, <1>8, <2>1, <2>3, StopAssumption
    <2>5. ASSUME Newest \notin stop_dropped, stop_ring[k].cmd = Newest
          PROVE  Newest \in gone
      <3>1. Newest # 0 /\ Newest \in 1..o
        BY <1>1, <2>3, <2>5
      <3>2. Newest \notin stop_done
        BY <2>5, <3>1, NewestFacts
      <3>3. QED
        BY <1>3, <2>5, <3>1, <3>2 DEF Answered
    <2>6. QED
      BY <1>0, <2>1, <2>4, <2>5
  <1>15. Intact(Here)'
    <2>1. Here' = Here /\ Here \in World /\ Here.ring = stop_ring /\ Here.played = stop_played
          /\ Here.flushed = stop_flushed /\ Here.rt = stop_rt
      BY <1>0, StopFacts DEF Here
    <2>2. Filled(stop_ring, Newest, stop_dropped', Pushed - stop_played[Newest], Pushed = StopTrajLen)
      <3>1. Filled(stop_ring, Newest, stop_dropped, Pushed - stop_played[Newest], Pushed = StopTrajLen)
        BY <2>1 DEF StopInv, Intact
      <3>2. stop_dropped \subseteq stop_dropped'
        BY <1>0
      <3>3. QED
        BY <3>1, <3>2, DroppedIsFilled
    <2>3. Remembered(stop_rt, stop_ring, stop_played, Newest, stop_dropped')
      BY <1>0, <2>1 DEF StopInv, Intact, Remembered, Through
    <2>4. MarkedRight(stop_ring, stop_flush', stop_dropped', Early')
      BY <1>8, <1>14 DEF MarkedRight
    <2>5. stop_flushed \subseteq stop_dropped' /\ (stop_rt.mode = "idle" => ~stop_rt.stopping)
          /\ \A c \in 1..StopMoves : c > Newest => stop_played[c] = 0
      BY <1>0, <2>1 DEF StopInv, Intact
    <2>6. QED
      BY <1>0, <1>6, <2>1, <2>2, <2>3, <2>4, <2>5 DEF Intact
  <1>16. Marks'
    <2>1. Newest # 0 => Newest \in Answered'
      BY <1>1, <1>3, <1>4
    <2>2. stop_fill <= stop_fill
      BY <1>8
    <2>3. \A c \in stop_dropped' \ Early' : c < stop_fill
      <3> SUFFICES ASSUME NEW c \in stop_dropped', c \notin Early'
                   PROVE  c < stop_fill
        OBVIOUS
      <3>1. Roomy /\ c \notin stop_unplanned'
        BY DEF Early
      <3>2. CASE c \in stop_dropped
        BY <1>0, <3>1, <3>2 DEF StopInv, Marks, Early
      <3>3. CASE c \in gone
        BY <1>0, <1>2, <3>1, <3>3
      <3>4. QED
        BY <1>0, <3>2, <3>3
    <2>4. QED
      BY <1>0, <1>6, <1>8, <2>1, <2>2, <2>3 DEF Marks
  <1>17. Owing'
    BY <1>12 DEF Owing
  <1>18. ASSUME Roomy
         PROVE  Room'
    <2> DEFINE D == stop_dropped
               E == D \cap (1..Newest)
               T == StopTrajLen
               len == Len(stop_ring)
    <2>0. /\ Cardinality(D) <= stop_stops /\ len - Left(Here) <= T * Cardinality(E)
          /\ stop_inflight # Stop!NoFlight /\ stop_inflight.cursor < T =>
               stop_stops = StopStops /\ Newest \notin D
      BY <1>18 DEF StopInv, Room
    <2>1. ~(stop_inflight # Stop!NoFlight /\ stop_inflight.cursor < T)
      BY <1>0, <2>0 DEF StopInv, StopTyped
    <2>2. stop_stops \in Nat /\ stop_stops' = stop_stops + 1 /\ len \in Nat /\ T \in Nat /\ Newest \in Nat
      BY <1>0, <1>1, StopAssumption DEF StopInv, StopTyped
    <2>3. Here' = Here /\ Here.played = stop_played
      BY <1>0 DEF Here
    <2>4. CASE gone = {}
      <3>1. stop_dropped' = D
        BY <1>0, <2>4
      <3>2. Left(Here)' = Left(Here)
        BY <1>6, <2>3, <3>1 DEF Left
      <3>3. Cardinality(D) \in Nat
        <4>1. IsFiniteSet(1..StopMoves)
          BY FS_Interval, StopAssumption
        <4>2. QED
          BY <1>7, <4>1, FS_Subset, FS_CardinalityType
      <3>4. Cardinality(D) <= stop_stops'
        BY <2>0, <2>2, <3>3
      <3>5. QED
        BY <1>0, <1>6, <2>0, <2>1, <3>1, <3>2, <3>4 DEF Room
    <2>5. CASE gone = {o} /\ o # 0 /\ o \notin Answered
      <3>1. stop_dropped' = D \cup {o} /\ o \notin D /\ o \in 1..StopMoves
        <4>1. stop_dropped' = D \cup {o} /\ o \notin D
          BY <1>0, <2>5 DEF Answered
        <4> HIDE DEF o, D, gone
        <4>2. o \in 1..StopMoves
          BY <1>1, <2>5, StopAssumption
        <4>3. QED
          BY <4>1, <4>2
      <3>2. /\ Cardinality(D) \in Nat /\ Cardinality(D \cup {o}) = Cardinality(D) + 1
            /\ Cardinality(E) \in Nat
            /\ (D \cup {o}) \cap (1..Newest) = IF Newest = o THEN E \cup {o} ELSE E
            /\ Cardinality(E \cup {o}) = Cardinality(E) + 1
        <4>1. D \in SUBSET (1..StopMoves)
          BY <1>7
        <4> HIDE DEF D, o
        <4>2. QED
          BY <1>1, <2>2, <3>1, <4>1, OneMoreMove, ZenonT(40)
      <3> DEFINE d == Cardinality(E)
                 s == Cardinality(D)
      <3>3. Cardinality(stop_dropped') <= stop_stops'
        <4>1. Cardinality(stop_dropped') = s + 1 /\ s \in Nat /\ s <= stop_stops
          BY <2>0, <3>1, <3>2
        <4> HIDE DEF s
        <4>2. QED
          BY <2>2, <4>1
      <3>4. len - Left(Here)' <= T * Cardinality(stop_dropped' \cap (1..Newest))
        <4>1. CASE Newest = o
          <5>1. Left(Here)' = 0
            BY <1>6, <3>1, <4>1 DEF Left
          <5>2. Left(Here) = Pushed - stop_played[Newest] /\ stop_played[Newest] \in Nat
            BY <1>1, <2>3, <2>5, <3>1, <4>1 DEF Left
          <5>3. Cardinality(stop_dropped' \cap (1..Newest)) = d + 1 /\ d \in Nat
            BY <3>1, <3>2, <4>1
          <5>4. len - (Pushed - stop_played[Newest]) <= T * d
            BY <2>0, <5>2
          <5> DEFINE e == T * d
          <5>5. e \in Nat /\ T * (d + 1) = e + T
            BY <2>2, <5>3
          <5> HIDE DEF e, d, len, T
          <5>6. len <= e + T
            BY <1>1, <2>2, <5>2, <5>4, <5>5 DEF e, T
          <5>7. QED
            BY <2>2, <5>1, <5>3, <5>5, <5>6
        <4>2. CASE Newest # o
          <5>1. Newest \in stop_dropped' <=> Newest \in D
            BY <3>1, <4>2
          <5>2. Left(Here)' = Left(Here)
            BY <1>6, <2>3, <5>1 DEF Left
          <5>3. QED
            BY <2>0, <3>1, <3>2, <4>2, <5>2
        <4>3. QED
          BY <4>1, <4>2
      <3>5. QED
        BY <1>0, <1>6, <2>1, <3>3, <3>4 DEF Room
    <2>6. QED
      BY <1>3, <2>4, <2>5
  <1>19. InOrder(stop_requests, stop_fill, Offered, Answered)'
    BY <1>0, <1>6, <1>9
  <1>20. QED
    BY <1>10, <1>11, <1>13, <1>15, <1>16, <1>17, <1>18, <1>19 DEF StopInv


-----------------------------------------------------------------------------
(* The planner's steps. *)

\* The ring is filled up to the cursor of move m, of which `by` samples have played.
Pumpable(m, gone, cursor, by) ==
  /\ Filled(stop_ring, m, gone, cursor - by, cursor = StopTrajLen)
  /\ m \notin gone => by \in 0..cursor

\* p is the ring with the next n samples of move m behind it.
Pumps(p, n, m, gone, cursor, by) ==
  /\ n \in 0..(StopTrajLen - cursor) /\ p \in Seq(Queueable)
  /\ Len(p) = Len(stop_ring) + n /\ Len(p) <= StopRing
  /\ n < StopTrajLen - cursor => Len(p) = StopRing
  /\ \A k \in DOMAIN stop_ring : k \in DOMAIN p /\ p[k] = stop_ring[k]
  /\ \A k \in DOMAIN p : \/ k \in DOMAIN stop_ring
                         \/ p[k].cmd = m /\ p[k].gen = m + 1 /\ n # 0
  /\ Filled(p, m, gone, cursor + n - by, cursor + n = StopTrajLen)

\* What pump_ring pushes: the next samples of the move, as many as fit.
LEMMA PumpFills ==
  ASSUME stop_ring \in Seq(Queueable), Len(stop_ring) <= StopRing,
         NEW m \in 1..StopMoves, NEW gone, NEW cursor \in 0..StopTrajLen, NEW by \in Int,
         Pumpable(m, gone, cursor, by)
  PROVE  LET new == Stop!Pumped([cmd |-> m, cursor |-> cursor], m + 1)
         IN  Pumps(stop_ring \o new, Len(new), m, gone, cursor, by)
  <1> DEFINE fl == [cmd |-> m, cursor |-> cursor]
             len == Len(stop_ring)
             n == Stop!Min2(StopTrajLen - cursor, StopRing - len)
             new == [k \in 1..n |-> Stop!Sample(m, cursor + k, m + 1)]
             p == stop_ring \o new
  <1>1. /\ len \in Nat /\ len <= StopRing /\ StopRing \in Nat /\ StopTrajLen \in Nat
        /\ cursor \in Nat /\ cursor <= StopTrajLen /\ DOMAIN stop_ring = 1..len
    BY StopAssumption
  <1>2. fl.cmd = m /\ fl.cursor = cursor
    OBVIOUS
  <1>3. Stop!Pumped(fl, m + 1) = new
    <2> HIDE DEF fl
    <2>1. QED
      BY <1>2 DEF Stop!Pumped
  <1>4. /\ n \in 0..(StopTrajLen - cursor) /\ n \in Nat /\ len + n <= StopRing
        /\ n < StopTrajLen - cursor => len + n = StopRing
    <2> HIDE DEF len
    <2>1. QED
      BY <1>1 DEF Stop!Min2
  <1> HIDE DEF n, fl
  <1>5. Len(new) = n
    <2>1. \A k \in 1..n : Stop!Sample(m, cursor + k, m + 1) \in Queueable
      BY <1>1, <1>4, StopAssumption DEF Stop!Sample, Queueable
    <2>2. new \in [1..n -> Queueable]
      BY <2>1
    <2> HIDE DEF new
    <2>3. QED
      BY <1>4, <2>2
  <1>6. /\ p \in Seq(Queueable) /\ Len(p) = len + n
        /\ \A k \in DOMAIN stop_ring : k \in DOMAIN p /\ p[k] = stop_ring[k]
        /\ \A k \in DOMAIN p : \/ k \in DOMAIN stop_ring
                               \/ p[k].cmd = m /\ p[k].gen = m + 1
        /\ Filled(p, m, gone, cursor + n - by, cursor + n = StopTrajLen)
    BY <1>4, PushIsFilled DEF Pumpable
  <1> HIDE DEF p, new
  <1>7. \A k \in DOMAIN p : \/ k \in DOMAIN stop_ring
                            \/ p[k].cmd = m /\ p[k].gen = m + 1 /\ n # 0
    <2> TAKE k \in DOMAIN p
    <2>1. CASE n = 0
      <3>1. DOMAIN p = 1..Len(p)
        BY <1>6
      <3>2. Len(p) = len
        BY <1>1, <1>6, <2>1
      <3>3. QED
        BY <1>1, <3>1, <3>2
    <2>2. QED
      BY <1>6, <2>1
  <1>8. Pumps(p, n, m, gone, cursor, by)
    BY <1>4, <1>6, <1>7 DEF Pumps
  <1>9. QED
    BY <1>3, <1>5, <1>8 DEF p, fl

\* A move is over once a later one is offered (Server::pump).
LEMMA EarlierAreOver ==
  ASSUME StopInv, NEW c \in 1..StopMoves, c < Offered
  PROVE  c \in Answered /\ (c \notin stop_dropped => stop_played[c] = StopTrajLen)
  <1>1. Offered \in 0..StopMoves /\ (stop_planning # 0 => stop_planning = Offered)
    BY StopFacts
  <1>2. c # 0 /\ c # Offered /\ c \in 1..Offered
    BY <1>1, StopAssumption
  <1>3. /\ stop_executing # 0 => stop_executing = Offered
        /\ c \in Answered \cup {stop_planning, stop_executing}
    BY <1>2 DEF StopInv, Served
  <1>4. c \in Answered
    BY <1>1, <1>2, <1>3
  <1>5. QED
    BY <1>4 DEF Answered, StopInv, Heard

\* A cancel finds nothing of a live move in flight (PlannerLoop::service, cancel).
LEMMA CancelServes ==
  ASSUME StopInv, Stop!ServiceCancel
  PROVE  StopInv'
  <1>0. /\ stop_requests # <<>> /\ Head(stop_requests).op = "Cancel"
        /\ stop_inflight' = Stop!NoFlight /\ stop_requests' = Tail(stop_requests)
        /\ UNCHANGED <<stop_queued, stop_pending, stop_planning, stop_executing, stop_dropped,
                       stop_unplanned, stop_done, stop_stops, stop_events, stop_fill, stop_flush,
                       stop_ring, stop_rtq, stop_rt, stop_snap, stop_played, stop_flushed>>
    BY DEF Stop!ServiceCancel, Stop!serverVars, Stop!ringVars, Stop!historyVars
  <1>1. /\ Offered \in 0..StopMoves /\ Newest \in 0..StopMoves /\ Newest <= Offered
        /\ Here \in World /\ Pushed \in 0..StopTrajLen
    BY StopFacts DEF StopNumbers
  <1>2. /\ Newest' = Newest /\ Pushed' = StopTrajLen /\ Offered' = Offered
        /\ Answered' = Answered /\ Early' = Early /\ Here' = Here
    BY <1>0 DEF Newest, Pushed, Offered, Answered, Early, Here
  <1>3. /\ stop_requests' \in Seq(Request)
        /\ InOrder(stop_requests', stop_fill, Offered, Answered)
        /\ \A c \in 1..Newest : c \in Answered
    <2>1. /\ stop_requests \in Seq(Request) /\ stop_fill \in Nat \ {0} /\ Offered \in Nat
          /\ InOrder(stop_requests, stop_fill, Offered, Answered)
      BY <1>1, StopAssumption DEF StopInv, StopTyped
    <2>2. QED
      BY <1>0, <2>1, CancelIsLate, TailOfRequests DEF Newest
  <1>4. Newest # 0 => Newest \in Answered
    BY <1>1, <1>3, StopAssumption
  <1>5. Newest # 0 /\ Newest \notin stop_dropped => Pushed = StopTrajLen
    BY <1>4, NewestFacts DEF Answered
  <1>6. Filled(stop_ring, Newest, stop_dropped, StopTrajLen - stop_played[Newest], StopTrajLen = StopTrajLen)
    <2>1. Filled(stop_ring, Newest, stop_dropped, Pushed - stop_played[Newest], Pushed = StopTrajLen)
      BY DEF StopInv, Intact, Here
    <2>2. CASE Newest # 0 /\ Newest \notin stop_dropped
      BY <1>5, <2>1, <2>2
    <2>3. CASE ~(Newest # 0 /\ Newest \notin stop_dropped)
      BY <2>1, <2>3 DEF Filled
    <2>4. QED
      BY <2>2, <2>3
  <1>7. Intact(Here)'
    <2>1. Here.ring = stop_ring /\ Here.played = stop_played
      BY DEF Here
    <2>2. QED
      BY <1>0, <1>2, <1>6, <2>1 DEF StopInv, Intact
  <1>8. Served' /\ Marks' /\ Owing' = Owing
    BY <1>0, <1>2 DEF StopInv, Served, Marks, Owing
  <1>9. Heard'
    <2>1. Newest # 0 => Through(Newest, stop_dropped, stop_played)
      BY <1>4 DEF StopInv, Heard, Answered, Through
    <2>2. QED
      BY <1>0, <1>2, <2>1 DEF StopInv, Heard
  <1>10. Roomy => Owing' /\ Room'
    <2>1. Left(Here)' = Left(Here)
      BY <1>0, <1>2, <1>5 DEF Left
    <2>2. QED
      BY <1>0, <1>2, <1>8, <2>1 DEF StopInv, Room
  <1>11. StopTyped'
    <2>1. Stop!NoFlight \in [cmd : 0..StopMoves, cursor : 0..StopTrajLen]
      BY StopAssumption DEF Stop!NoFlight
    <2>2. QED
      BY <1>0, <1>3, <2>1 DEF StopInv, StopTyped
  <1>12. QED
    BY <1>0, <1>2, <1>3, <1>7, <1>8, <1>9, <1>10, <1>11 DEF StopInv

\* Fewer trajectories than the ring has room for.
LEMMA RoomIsCounted ==
  ASSUME NEW S \in Nat, NEW T \in Nat, NEW e \in Nat, S * T < T * e
  PROVE  S < e
  <1> SUFFICES ASSUME e <= S
               PROVE  FALSE
    OBVIOUS
  <1> DEFINE x == S - e
  <1>1. x \in Nat /\ S = e + x
    OBVIOUS
  <1> HIDE DEF x
  <1>2. S * T = T * e + T * x /\ T * x \in Nat /\ T * e \in Nat
    BY <1>1
  <1> DEFINE a == T * e
             b == T * x
             c == S * T
  <1>3. c = a + b /\ a \in Nat /\ b \in Nat /\ c < a
    BY <1>2
  <1> HIDE DEF a, b, c
  <1>4. QED
    BY <1>3

\* The dropped moves up to the next one.
LEMMA NextDropped ==
  ASSUME NEW D \in SUBSET (1..StopMoves), NEW f \in 1..StopMoves
  PROVE  /\ Cardinality(D) \in Nat /\ Cardinality(D \cap (1..(f - 1))) \in Nat
         /\ Cardinality(D \cap (1..(f - 1))) <= Cardinality(D)
         /\ f \notin D => D \cap (1..f) = D \cap (1..(f - 1))
         /\ f \in D => /\ Cardinality(D \cap (1..f)) = Cardinality(D \cap (1..(f - 1))) + 1
                       /\ Cardinality(D \cap (1..f)) <= Cardinality(D)
  <1> DEFINE M == 1..StopMoves
             E == D \cap (1..(f - 1))
             F == D \cap (1..f)
  <1>1. IsFiniteSet(M)
    BY FS_Interval, StopAssumption
  <1>2. D \subseteq M /\ E \subseteq D /\ F \subseteq D
    OBVIOUS
  <1>3. f \notin E /\ F = IF f \in D THEN E \cup {f} ELSE E
    <2>1. f \in Nat /\ f >= 1 /\ \A c \in D : c \in Nat
      BY StopAssumption
    <2>2. f \notin E
      BY <2>1
    <2>3. \A c \in D : c \in 1..f <=> c \in 1..(f - 1) \/ c = f
      BY <2>1
    <2>4. QED
      BY <2>2, <2>3
  <1> HIDE DEF M, E, F
  <1>4. IsFiniteSet(D) /\ Cardinality(D) \in Nat
    BY <1>1, <1>2, FS_Subset, FS_CardinalityType
  <1>5. IsFiniteSet(E) /\ Cardinality(E) \in Nat /\ Cardinality(E) <= Cardinality(D)
    BY <1>2, <1>4, FS_Subset, FS_CardinalityType
  <1>6. Cardinality(F) <= Cardinality(D)
    BY <1>2, <1>4, FS_Subset
  <1>7. f \in D => Cardinality(F) = Cardinality(E) + 1
    BY <1>3, <1>5, FS_AddElement
  <1>8. QED
    BY <1>3, <1>4, <1>5, <1>6, <1>7 DEF E, F

\* An event behind the others.
LEMMA OneMoreEvent ==
  ASSUME NEW e \in Seq(Event), NEW s \in Event
  PROVE  /\ Append(e, s) \in Seq(Event)
         /\ \A i \in DOMAIN Append(e, s) :
              (i \in DOMAIN e /\ Append(e, s)[i] = e[i]) \/ Append(e, s)[i] = s
  <1>1. /\ Append(e, s) \in Seq(Event) /\ Len(e) \in Nat /\ DOMAIN e = 1..Len(e)
        /\ DOMAIN Append(e, s) = 1..(Len(e) + 1)
        /\ \A i \in 1..Len(e) : Append(e, s)[i] = e[i]
        /\ Append(e, s)[Len(e) + 1] = s
    OBVIOUS
  <1>2. \A i \in 1..(Len(e) + 1) : i \in 1..Len(e) \/ i = Len(e) + 1
    BY <1>1
  <1>3. QED
    BY <1>1, <1>2

\* A start opens a generation for the next move (PlannerLoop::service, start_exec).
LEMMA StartServes ==
  ASSUME StopInv, Stop!ServiceStart
  PROVE  StopInv'
  <1> DEFINE f == stop_fill
             fl == [cmd |-> Head(stop_requests).cmd, cursor |-> 0]
             new == Stop!Pumped(fl, f + 1)
             n == Len(new)
             p == stop_ring \o new
             T == StopTrajLen
             s == [op |-> "Started", cmd |-> Head(stop_requests).cmd]
  <1>0. /\ stop_requests # <<>> /\ Head(stop_requests).op = "Start"
        /\ stop_fill' = f + 1 /\ stop_rtq' = Append(stop_rtq, "SetModeExec")
        /\ stop_ring' = p /\ stop_inflight' = [fl EXCEPT !.cursor = @ + n]
        /\ stop_events' = Append(stop_events, s) /\ stop_requests' = Tail(stop_requests)
        /\ UNCHANGED <<stop_queued, stop_pending, stop_planning, stop_executing, stop_dropped,
                       stop_unplanned, stop_done, stop_stops, stop_flush, stop_rt, stop_snap,
                       stop_played, stop_flushed>>
    BY DEF Stop!ServiceStart, Stop!PumpRing, Stop!serverVars, Stop!historyVars
  <1>1. /\ StopNumbers /\ Offered \in 0..StopMoves /\ Newest \in 0..StopMoves /\ Newest <= Offered
        /\ stop_ring \in Seq(Queueable) /\ stop_rt \in Playback /\ f \in Nat /\ f >= 1
        /\ stop_played \in [1..StopMoves -> Nat] /\ Here \in World /\ f = Newest + 1
        /\ Len(stop_ring) \in Nat /\ Len(stop_ring) <= StopRing /\ T \in Nat
    <2>1. f \in Nat /\ f >= 1 /\ f = Newest + 1 /\ Len(stop_ring) <= StopRing /\ T \in Nat
      BY StopAssumption DEF StopInv, StopTyped, Newest
    <2>2. stop_ring \in Seq(Queueable) /\ Len(stop_ring) \in Nat
      BY StopFacts
    <2>3. QED
      BY <2>1, <2>2, StopFacts DEF StopNumbers
  <1>2. /\ stop_requests' \in Seq(Request) /\ Head(stop_requests).cmd = f /\ f <= Offered
        /\ InOrder(stop_requests', f + 1, Offered, Answered)
    <2>1. /\ stop_requests \in Seq(Request) /\ f \in Nat \ {0} /\ Offered \in Nat
          /\ InOrder(stop_requests, f, Offered, Answered)
      BY <1>1, StopAssumption DEF StopInv, StopTyped
    <2> HIDE DEF f
    <2>2. QED
      BY <1>0, <2>1, StartIsNext, TailOfRequests
  <1>3. f \in 1..StopMoves
    BY <1>1, <1>2, StopAssumption
  <1>4. Newest # 0 => /\ Newest \in Answered
                      /\ Newest \notin stop_dropped => stop_played[Newest] = T
    <2> SUFFICES ASSUME Newest # 0
                 PROVE  /\ Newest \in Answered
                        /\ Newest \notin stop_dropped => stop_played[Newest] = T
      OBVIOUS
    <2>1. Newest \in 1..StopMoves /\ Newest < Offered
      BY <1>1, <1>2, StopAssumption
    <2>2. QED
      BY <2>1, EarlierAreOver
  <1>5. Newest # 0 /\ Newest \notin stop_dropped => Pushed - stop_played[Newest] = 0
    BY <1>4, NewestFacts DEF Answered
  <1>6. stop_played[f] = 0
    BY <1>1, <1>3 DEF StopInv, Intact, Here
  <1>7. Filled(stop_ring, f, stop_dropped, 0 - 0, 0 = T)
    <2>1. Filled(stop_ring, Newest, stop_dropped, Pushed - stop_played[Newest], Pushed = T)
      BY DEF StopInv, Intact, Here
    <2>2. Newest \in Nat /\ f = Newest + 1 /\ 0 - 0 = 0
      BY <1>1, StopAssumption
    <2>3. Filled(stop_ring, Newest + 1, stop_dropped, 0, 0 = T)
      BY <1>1, <1>5, <2>1, <2>2, NextIsFilled
    <2>4. QED
      BY <2>2, <2>3
  <1>8. /\ n \in 0..(T - 0) /\ p \in Seq(Queueable)
        /\ Len(p) = Len(stop_ring) + n /\ Len(p) <= StopRing
        /\ n < T - 0 => Len(p) = StopRing
        /\ \A k \in DOMAIN stop_ring : k \in DOMAIN p /\ p[k] = stop_ring[k]
        /\ \A k \in DOMAIN p : \/ k \in DOMAIN stop_ring
                               \/ p[k].cmd = f /\ p[k].gen = f + 1 /\ n # 0
        /\ Filled(p, f, stop_dropped, 0 + n - 0, 0 + n = T)
    <2>1. fl = [cmd |-> f, cursor |-> 0]
      BY <1>2
    <2>2. 0 \in 0..StopTrajLen /\ 0 \in Int /\ 0 \in 0..0
      BY StopAssumption
    <2> DEFINE z == 0
    <2>3. /\ z \in 0..StopTrajLen /\ z \in Int /\ fl = [cmd |-> f, cursor |-> z]
          /\ Pumpable(f, stop_dropped, z, z)
      BY <1>7, <2>1, <2>2 DEF Pumpable
    <2> HIDE DEF f, z, fl
    <2>4. Pumps(p, n, f, stop_dropped, z, z)
      BY <1>1, <1>3, <2>3, PumpFills
    <2> HIDE DEF p, n
    <2>5. QED
      BY <2>4 DEF z, Pumps
  <1>9. /\ stop_inflight' = [cmd |-> f, cursor |-> n]
        /\ s = [op |-> "Started", cmd |-> f] /\ n \in 0..T /\ n \in Nat
    <2>1. n \in 0..T /\ 0 + n = n /\ n \in Nat
      BY <1>1, <1>8
    <2> HIDE DEF n
    <2>2. QED
      BY <1>0, <1>2, <2>1
  <1> HIDE DEF f, fl, new, n, p, T, s
  <1>10. /\ Newest' = f /\ Pushed' = n /\ Offered' = Offered /\ Answered' = Answered /\ Early' = Early
    <2>1. Newest' = f
      BY <1>0, <1>1 DEF Newest
    <2>2. stop_inflight'.cmd = f /\ stop_inflight'.cursor = n /\ f # 0
      BY <1>1, <1>9
    <2>3. stop_inflight' # Stop!NoFlight
      BY <2>2 DEF Stop!NoFlight
    <2>4. QED
      BY <1>0, <2>1, <2>2, <2>3 DEF Pushed, Offered, Answered, Early
  <1>11. stop_flush \in Nat /\ stop_flush <= f
    BY <1>1 DEF StopInv, StopTyped, Marks, f
  <1>12. Intact(Here)'
    <2>1. /\ Here' \in World /\ (Here').ring = p /\ (Here').rt = stop_rt
          /\ (Here').played = stop_played /\ (Here').flushed = stop_flushed
      BY <1>0, <1>1, <1>8 DEF Here, World
    <2>2. Filled(p, f, stop_dropped, n - stop_played[f], n = T)
      <3>1. 0 + n - 0 = n - stop_played[f] /\ 0 + n = n
        BY <1>6, <1>9
      <3>2. QED
        BY <1>8, <3>1
    <2>3. Remembered(stop_rt, p, stop_played, f, stop_dropped)
      <3>1. Remembered(stop_rt, stop_ring, stop_played, Newest, stop_dropped)
        BY DEF StopInv, Intact, Here
      <3>2. \A c \in {stop_rt.owe, stop_rt.armed, stop_rt.completed, stop_rt.last} :
              c \in Nat /\ (c <= Newest => c <= f)
        BY <1>1, StopAssumption DEF Playback
      <3>3. Newest # 0 => Through(Newest, stop_dropped, stop_played)
        BY <1>4 DEF Through, T
      <3>4. stop_rt.last # 0 => stop_rt.last <= f /\ Through(stop_rt.last, stop_dropped, stop_played)
        BY <3>1, <3>2, <3>3 DEF Remembered
      <3>5. QED
        BY <3>1, <3>2, <3>4 DEF Remembered
    <2>4. MarkedRight(p, stop_flush, stop_dropped, Early)
      <3>1. MarkedRight(stop_ring, stop_flush, stop_dropped, Early)
        BY DEF StopInv, Intact, Here
      <3>2. f \notin stop_dropped \ Early
        <4>1. ~(f < f)
          BY <1>1
        <4>2. QED
          BY <4>1 DEF StopInv, Marks, f
      <3>3. ~(f + 1 <= stop_flush)
        BY <1>1, <1>11
      <3>4. QED
        BY <1>8, <3>1, <3>2, <3>3 DEF MarkedRight
    <2>5. /\ stop_flushed \subseteq stop_dropped /\ (stop_rt.mode = "idle" => ~stop_rt.stopping)
          /\ \A c \in 1..StopMoves : c > Newest => stop_played[c] = 0
      BY DEF StopInv, Intact, Here
    <2>6. \A c \in 1..StopMoves : c > f => stop_played[c] = 0
      <3>1. \A c \in 1..StopMoves : c > f => c > Newest
        BY <1>1, StopAssumption
      <3>2. QED
        BY <2>5, <3>1
    <2>7. QED
      BY <1>0, <1>10, <2>1, <2>2, <2>3, <2>4, <2>5, <2>6 DEF Intact, T
  <1>13. Marks'
    <2>1. stop_flush <= f + 1 /\ stop_flush # f + 1
      BY <1>1, <1>11
    <2>2. \A c \in stop_dropped \ Early : c < f + 1
      <3> TAKE c \in stop_dropped \ Early
      <3>1. c < f
        BY DEF StopInv, Marks, f
      <3>2. c \in Nat
        BY <1>1, StopAssumption DEF StopNumbers
      <3>3. QED
        BY <1>1, <3>1, <3>2
    <2>3. QED
      BY <1>0, <1>10, <2>1, <2>2 DEF Marks
  <1>14. ASSUME Owing
         PROVE  Owing'
    <2>1. HasMarked(p, stop_flush) => HasMarked(stop_ring, stop_flush)
      <3>1. ~(f + 1 <= stop_flush)
        BY <1>1, <1>11
      <3>2. QED
        BY <1>8, <3>1 DEF HasMarked
    <2>2. stop_rtq \in Seq({"SetModeExec", "ExecStop"})
      BY DEF StopInv, StopTyped
    <2>3. \A i \in DOMAIN stop_rtq : i \in DOMAIN stop_rtq' /\ stop_rtq'[i] = stop_rtq[i]
      <3>1. /\ Len(stop_rtq) \in Nat /\ DOMAIN stop_rtq = 1..Len(stop_rtq)
            /\ DOMAIN Append(stop_rtq, "SetModeExec") = 1..(Len(stop_rtq) + 1)
        BY <2>2
      <3>2. \A i \in 1..Len(stop_rtq) : Append(stop_rtq, "SetModeExec")[i] = stop_rtq[i]
        BY <2>2
      <3>3. QED
        BY <1>0, <3>1, <3>2
    <2>4. QED
      BY <1>0, <1>14, <2>1, <2>3 DEF Owing
  <1>15. Served'
    <2>1. stop_executing # 0 => stop_executing < f + 1
      <3>1. stop_executing # 0 => stop_executing < f
        BY DEF StopInv, Served, f
      <3>2. stop_executing \in Nat
        BY StopAssumption DEF StopInv, StopTyped
      <3>3. QED
        BY <1>1, <3>1, <3>2
    <2>2. QED
      BY <1>0, <1>10, <2>1 DEF StopInv, Served
  <1>16. /\ stop_events' \in Seq(Event)
         /\ \A i \in DOMAIN stop_events' : (i \in DOMAIN stop_events /\ stop_events'[i] = stop_events[i])
                                           \/ stop_events'[i] = s
    <2>1. stop_events \in Seq(Event) /\ s \in Event
      BY <1>3, <1>9 DEF StopInv, StopTyped, Event
    <2>2. QED
      BY <1>0, <2>1, OneMoreEvent
  <1>17. Heard'
    <2>1. s.op = "Started" /\ s.cmd = f /\ f < f + 1
      BY <1>1, <1>9
    <2>2. \A c \in 1..StopMoves : c < f => c < f + 1
      BY <1>1, StopAssumption
    <2>3. \A i \in DOMAIN stop_events :
            /\ stop_events[i].cmd < f + 1
            /\ stop_events[i].op = "Outcome" => Through(stop_events[i].cmd, stop_dropped, stop_played)
      <3> TAKE i \in DOMAIN stop_events
      <3>1. stop_events \in Seq(Event)
        BY DEF StopInv, StopTyped
      <3>2. stop_events[i] \in Event
        BY <3>1
      <3>3. stop_events[i].cmd \in 1..StopMoves
        BY <3>2 DEF Event
      <3>4. QED
        BY <2>2, <3>3 DEF StopInv, Heard, f
    <2>4. \A i \in DOMAIN stop_events' :
            /\ stop_events'[i].cmd < f + 1
            /\ stop_events'[i].op = "Outcome" => Through(stop_events'[i].cmd, stop_dropped, stop_played)
      BY <1>16, <2>1, <2>3
    <2>5. \A c \in stop_done : c < f + 1 /\ stop_played[c] = StopTrajLen
      BY <2>2 DEF StopInv, StopTyped, Heard, f
    <2>6. stop_inflight' # Stop!NoFlight /\ stop_inflight'.cmd = f /\ f # 0
      BY <1>1, <1>9 DEF Stop!NoFlight
    <2>7. stop_snap.completed # 0 =>
            /\ stop_snap.completed <= f
            /\ Through(stop_snap.completed, stop_dropped, stop_played)
      <3>1. stop_snap.completed \in Nat
        BY StopAssumption DEF StopInv, StopTyped
      <3>2. QED
        BY <1>1, <3>1 DEF StopInv, Heard
    <2>8. QED
      BY <1>0, <1>10, <2>4, <2>5, <2>6, <2>7 DEF Heard
  <1>18. ASSUME Roomy
         PROVE  Room'
    <2> DEFINE D == stop_dropped
               d == Cardinality(D \cap (1..Newest))
               d1 == Cardinality(D \cap (1..f))
               len == Len(stop_ring)
               S == StopStops
    <2>1. Left(Here) = 0
      BY <1>5 DEF Left, Here
    <2>2. /\ Cardinality(D) <= stop_stops /\ len <= T * d
      <3>1. Cardinality(D) <= stop_stops /\ len - Left(Here) <= T * d
        BY <1>18 DEF StopInv, Room, T
      <3>2. len - 0 = len
        BY <1>1
      <3>3. QED
        BY <2>1, <3>1, <3>2
    <2>3. stop_stops \in Nat /\ stop_stops <= S /\ S \in Nat /\ StopRing >= S * T /\ StopRing \in Nat
      BY <1>18, StopAssumption DEF StopInv, StopTyped, Roomy, T
    <2>4. /\ Cardinality(D) \in Nat /\ d \in Nat /\ d <= Cardinality(D)
          /\ f \notin D => d1 = d
          /\ f \in D => d1 = d + 1 /\ d1 <= Cardinality(D)
      <3>1. D \in SUBSET (1..StopMoves) /\ f - 1 = Newest
        BY <1>1 DEF StopNumbers
      <3> HIDE DEF D
      <3>2. QED
        BY <1>3, <3>1, NextDropped
    <2>5. Left(Here)' = IF f \notin D THEN n ELSE 0
      <3>1. n - stop_played[f] = n /\ f # 0
        BY <1>1, <1>6, <1>9
      <3>2. (Here').played = stop_played
        BY <1>0 DEF Here
      <3>3. QED
        BY <1>0, <1>10, <3>1, <3>2 DEF Left
    <2> DEFINE a == T * d
               b == S * T
               c == Cardinality(D)
    <2>6. a \in Nat /\ b \in Nat /\ T * (d + 1) = a + T
      BY <1>1, <2>3, <2>4, SMTT(40)
    <2>7. Len(p) = len + n /\ len \in Nat /\ n \in Nat /\ n <= T /\ (n < T => Len(p) = StopRing)
      BY <1>1, <1>8, <1>9
    <2> HIDE DEF D, len, S, d, d1, c
    <2>8. n < T => S < d + 1
      <3> SUFFICES ASSUME n < T
                   PROVE  S < d + 1
        OBVIOUS
      <3>1. b < a + T
        <4> HIDE DEF a, b
        <4>1. QED
          BY <1>1, <2>2, <2>3, <2>6, <2>7 DEF a, b
      <3>2. S * T < T * (d + 1) /\ d + 1 \in Nat
        BY <2>4, <2>6, <3>1
      <3>3. QED
        BY <1>1, <2>3, <3>2, RoomIsCounted
    <2>9. c <= stop_stops /\ c \in Nat /\ d <= c
      BY <2>2, <2>4 DEF c
    <2>10. CASE f \notin D
      <3>1. d1 = d /\ Left(Here)' = n
        BY <2>4, <2>5, <2>10
      <3>2. Len(p) - n <= T * d1
        <4> HIDE DEF a
        <4>1. T * d1 = a
          BY <3>1 DEF a
        <4>2. len <= a
          BY <2>2 DEF a
        <4>3. QED
          BY <2>6, <2>7, <4>1, <4>2
      <3>3. n < T => stop_stops = S
        BY <2>3, <2>4, <2>8, <2>9
      <3>4. stop_inflight'.cursor = n
        BY <1>9
      <3>5. QED
        BY <1>0, <1>10, <2>9, <2>10, <3>1, <3>2, <3>3, <3>4 DEF Room, D, S, T, c, d1
    <2>11. CASE f \in D
      <3>1. d1 = d + 1 /\ Left(Here)' = 0 /\ d1 <= c
        BY <2>4, <2>5, <2>11 DEF c
      <3>2. Len(p) - 0 <= T * d1
        <4> HIDE DEF a
        <4>1. T * d1 = a + T
          BY <2>6, <3>1
        <4>2. len <= a
          BY <2>2 DEF a
        <4>3. QED
          BY <1>1, <2>6, <2>7, <4>1, <4>2
      <3>3. ~(n < T)
        BY <2>3, <2>4, <2>8, <2>9, <3>1
      <3>4. stop_inflight'.cursor = n
        BY <1>9
      <3>5. QED
        BY <1>0, <1>10, <2>9, <3>1, <3>2, <3>3, <3>4 DEF Room, D, S, T, c, d1
    <2>12. QED
      BY <2>10, <2>11
  <1>19. StopTyped'
    <2>1. [cmd |-> f, cursor |-> n] \in [cmd : 0..StopMoves, cursor : 0..StopTrajLen]
      BY <1>3, <1>9, StopAssumption DEF T
    <2>2. f + 1 \in Nat \ {0}
      BY <1>1
    <2>3. Append(stop_rtq, "SetModeExec") \in Seq({"SetModeExec", "ExecStop"})
      BY DEF StopInv, StopTyped
    <2>4. QED
      BY <1>0, <1>2, <1>8, <1>9, <1>16, <2>1, <2>2, <2>3 DEF StopInv, StopTyped
  <1>20. InOrder(stop_requests, stop_fill, Offered, Answered)'
    BY <1>0, <1>2, <1>10
  <1>21. QED
    BY <1>12, <1>13, <1>14, <1>15, <1>17, <1>18, <1>19, <1>20 DEF StopInv

\* A poll feeds the ring and reports the completion (Par6Planner::poll).
LEMMA PollPlannerServes ==
  ASSUME StopInv, Stop!PollPlanner
  PROVE  StopInv'
  <1> DEFINE m == Newest
             cursor == stop_inflight.cursor
             by == stop_played[m]
             new == Stop!Pumped(stop_inflight, stop_fill)
             n == Len(new)
             p == stop_ring \o new
             T == StopTrajLen
             s == [op |-> "Outcome", cmd |-> stop_inflight.cmd]
             over == stop_snap.completed >= stop_inflight.cmd
  <1>0. /\ stop_inflight # Stop!NoFlight /\ stop_ring' = p
        /\ stop_inflight' = IF over THEN Stop!NoFlight ELSE [stop_inflight EXCEPT !.cursor = @ + n]
        /\ stop_events' = IF over THEN Append(stop_events, s) ELSE stop_events
        /\ UNCHANGED <<stop_queued, stop_pending, stop_planning, stop_executing, stop_dropped,
                       stop_unplanned, stop_done, stop_stops, stop_requests, stop_fill, stop_flush,
                       stop_rtq, stop_rt, stop_snap, stop_played, stop_flushed>>
    BY DEF Stop!PollPlanner, Stop!PumpRing, Stop!serverVars, Stop!historyVars
  <1>1. /\ StopNumbers /\ m \in 0..StopMoves
        /\ stop_ring \in Seq(Queueable) /\ stop_rt \in Playback
        /\ stop_played \in [1..StopMoves -> Nat] /\ Here \in World
        /\ Len(stop_ring) \in Nat /\ Len(stop_ring) <= StopRing
    <2>1. Len(stop_ring) <= StopRing
      BY DEF StopInv, StopTyped
    <2>2. stop_ring \in Seq(Queueable) /\ Len(stop_ring) \in Nat
      BY StopFacts
    <2>3. QED
      BY <2>1, <2>2, StopFacts DEF StopNumbers
  <1>2. /\ stop_inflight.cmd = m /\ m # 0 /\ Pushed = cursor /\ cursor \in 0..T
        /\ stop_inflight = [cmd |-> m, cursor |-> cursor]
    <2>1. stop_inflight \in [cmd : 0..StopMoves, cursor : 0..T] /\ stop_inflight.cmd = m /\ m # 0
      BY <1>0 DEF StopInv, StopTyped, Heard
    <2>2. QED
      BY <1>0, <2>1 DEF Pushed
  <1>3. /\ m \in 1..StopMoves /\ m \in Nat /\ stop_fill = m + 1 /\ stop_fill \in Nat
        /\ T \in Nat /\ cursor \in Nat /\ by \in Nat /\ by \in Int
    <2>1. stop_fill \in Nat /\ stop_fill = m + 1
      BY DEF StopInv, StopTyped, Newest
    <2>2. m \in 1..StopMoves /\ m \in Nat
      BY <1>1, <1>2, StopAssumption
    <2>3. QED
      BY <1>1, <1>2, <2>1, <2>2, StopAssumption
  <1>4. Pumpable(m, stop_dropped, cursor, by)
    <2>1. Filled(stop_ring, m, stop_dropped, Pushed - stop_played[m], Pushed = T)
      BY DEF StopInv, Intact, Here
    <2>2. m \notin stop_dropped => Pushed - by \in 0..Len(stop_ring)
      BY <1>2, NewestFacts
    <2>3. m \notin stop_dropped => by \in 0..cursor
      <3> HIDE DEF m, by, cursor
      <3>1. QED
        BY <1>1, <1>2, <1>3, <2>2
    <2>4. QED
      BY <1>2, <2>1, <2>3 DEF Pumpable
  <1>5. Pumps(p, n, m, stop_dropped, cursor, by)
    <2>1. new = Stop!Pumped([cmd |-> m, cursor |-> cursor], m + 1)
      BY <1>2, <1>3
    <2> HIDE DEF m, cursor, by, new
    <2>2. QED
      BY <1>1, <1>2, <1>3, <1>4, <2>1, PumpFills DEF new
  <1> HIDE DEF m, cursor, by, new, n, p, T, s, over
  <1>6. /\ n \in Nat /\ cursor + n \in 0..T /\ p \in Seq(Queueable)
        /\ Len(p) = Len(stop_ring) + n /\ Len(p) <= StopRing /\ (n # 0 => cursor < T)
        /\ Filled(p, m, stop_dropped, cursor + n - by, cursor + n = T)
        /\ \A k \in DOMAIN p : \/ k \in DOMAIN stop_ring /\ p[k] = stop_ring[k]
                               \/ p[k].cmd = m /\ p[k].gen = m + 1 /\ n # 0
    <2>1. n \in 0..(T - cursor)
      BY <1>5 DEF Pumps, T
    <2>2. n \in Nat /\ cursor + n \in 0..T /\ (n # 0 => cursor < T)
      BY <1>3, <2>1
    <2>3. QED
      BY <1>5, <2>2 DEF Pumps, T
  <1>7. over => Through(m, stop_dropped, stop_played)
    <2> SUFFICES ASSUME over
                 PROVE  Through(m, stop_dropped, stop_played)
      OBVIOUS
    <2>1. stop_snap.completed >= m /\ stop_snap.completed \in Nat
      BY <1>2, StopAssumption DEF over, StopInv, StopTyped
    <2>2. stop_snap.completed # 0
      BY <1>2, <1>3, <2>1
    <2>3. stop_snap.completed <= m /\ Through(stop_snap.completed, stop_dropped, stop_played)
      BY <2>2 DEF StopInv, Heard, m
    <2>4. stop_snap.completed = m
      BY <1>3, <2>1, <2>3
    <2>5. QED
      BY <2>3, <2>4
  <1>8. over /\ m \notin stop_dropped => cursor = T /\ n = 0 /\ by = T
    <2> SUFFICES ASSUME over, m \notin stop_dropped
                 PROVE  cursor = T /\ n = 0 /\ by = T
      OBVIOUS
    <2>1. by = T
      BY <1>7 DEF Through, by, T
    <2>2. by \in 0..cursor
      BY <1>4 DEF Pumpable
    <2>3. QED
      BY <1>2, <1>3, <1>6, <2>1, <2>2
  <1>9. /\ Newest' = m /\ Offered' = Offered /\ Answered' = Answered /\ Early' = Early
        /\ Pushed' = (IF over THEN T ELSE cursor + n)
        /\ stop_inflight' = (IF over THEN Stop!NoFlight ELSE [cmd |-> m, cursor |-> cursor + n])
    <2>1. stop_inflight' = IF over THEN Stop!NoFlight ELSE [cmd |-> m, cursor |-> cursor + n]
      BY <1>0, <1>2 DEF cursor
    <2>2. [cmd |-> m, cursor |-> cursor + n] # Stop!NoFlight
      BY <1>2 DEF Stop!NoFlight
    <2>3. Pushed' = IF over THEN T ELSE cursor + n
      <3>1. CASE over
        BY <2>1, <3>1 DEF Pushed, T
      <3>2. CASE ~over
        <4>1. stop_inflight' # Stop!NoFlight /\ stop_inflight'.cursor = cursor + n
          BY <2>1, <2>2, <3>2
        <4>2. QED
          BY <3>2, <4>1 DEF Pushed
      <3>3. QED
        BY <3>1, <3>2
    <2>4. QED
      BY <1>0, <2>1, <2>3 DEF Newest, Offered, Answered, Early, m
  <1>10. /\ Filled(p, m, stop_dropped, Pushed' - by, Pushed' = T)
         /\ m \notin stop_dropped => Pushed' = cursor + n
    <2>1. m \notin stop_dropped => Pushed' = cursor + n
      <3>1. cursor = T /\ n = 0 => T = cursor + n
        BY <1>3
      <3>2. QED
        BY <1>8, <1>9, <3>1
    <2>2. CASE m \notin stop_dropped
      <3>1. Pushed' = cursor + n
        BY <2>1, <2>2
      <3>2. Filled(p, m, stop_dropped, cursor + n - by, cursor + n = T)
        BY <1>6
      <3>3. Filled(p, m, stop_dropped, Pushed' - by, Pushed' = T)
        <4> DEFINE e == cursor + n
        <4>1. e = Pushed' /\ e \in Nat /\ by \in Nat /\ T \in Nat
          BY <1>3, <1>6, <3>1
        <4>2. /\ \A k \in DOMAIN p : p[k].gen = p[k].cmd + 1 /\ p[k].cmd <= m
              /\ \A j, k \in DOMAIN p : j < k => p[j].cmd <= p[k].cmd
              /\ \A k \in DOMAIN p : p[k].cmd # m => p[k].cmd \in stop_dropped
          BY <3>2 DEF Filled
        <4>3. /\ e - by \in 0..Len(p)
              /\ \A k \in DOMAIN p : p[k].cmd = m <=> k > Len(p) - (e - by)
              /\ \A k \in DOMAIN p : p[k].cmd = m => (p[k].is_last <=> k = Len(p) /\ e = T)
          <5>0. m # 0 /\ m \notin stop_dropped
            BY <1>2, <2>2
          <5>1. e - by \in 0..Len(p)
            BY <1>3, <1>6, <4>1, <5>0, <3>2 DEF Filled
          <5>2. \A k \in DOMAIN p : p[k].cmd = m <=> k > Len(p) - (e - by)
            BY <1>3, <1>6, <4>1, <5>0, <3>2 DEF Filled
          <5>3. \A k \in DOMAIN p : p[k].cmd = m => (p[k].is_last <=> k = Len(p) /\ e = T)
            BY <5>0, <3>2 DEF Filled
          <5>4. QED
            BY <5>1, <5>2, <5>3
        <4> HIDE DEF e
        <4>4. QED
          BY <4>1, <4>2, <4>3 DEF Filled
      <3>4. QED
        BY <2>1, <3>3
    <2>3. CASE m \in stop_dropped
      BY <1>6, <2>3 DEF Filled
    <2>4. QED
      BY <2>1, <2>2, <2>3
  <1>11. n # 0 /\ m + 1 <= stop_flush => m \in stop_dropped
    <2> SUFFICES ASSUME n # 0, m + 1 <= stop_flush, m \notin stop_dropped
                 PROVE  FALSE
      OBVIOUS
    <2>1. stop_flush <= stop_fill /\ stop_flush \in Nat
      BY DEF StopInv, StopTyped, Marks
    <2>2. stop_flush = stop_fill
      BY <1>3, <2>1
    <2>3. m \in Answered
      BY <1>2, <2>2 DEF StopInv, Marks, m
    <2>4. m \in stop_done
      BY <2>3 DEF Answered
    <2>5. cursor = T
      BY <1>2, <2>4, NewestFacts DEF m, T
    <2>6. QED
      BY <1>3, <1>6, <2>5
  <1>12. Roomy /\ n # 0 => m \notin stop_dropped
    BY <1>0, <1>6 DEF StopInv, Room, m, cursor, T
  <1>13. Intact(Here)'
    <2>1. /\ Here' \in World /\ (Here').ring = p /\ (Here').rt = stop_rt
          /\ (Here').played = stop_played /\ (Here').flushed = stop_flushed
      <3>1. stop_flushed \in SUBSET (1..StopMoves)
        BY <1>1 DEF Here, World
      <3>2. QED
        BY <1>0, <1>1, <1>6, <3>1 DEF Here, World
    <2>2. Remembered(stop_rt, p, stop_played, m, stop_dropped)
      <3>1. Remembered(stop_rt, stop_ring, stop_played, m, stop_dropped)
        BY DEF StopInv, Intact, Here, m
      <3>2. (\A k \in DOMAIN stop_ring : stop_ring[k].cmd = m) => \A k \in DOMAIN p : p[k].cmd = m
        BY <1>6
      <3>3. QED
        BY <3>1, <3>2 DEF Remembered
    <2>3. MarkedRight(p, stop_flush, stop_dropped, Early)
      <3>1. MarkedRight(stop_ring, stop_flush, stop_dropped, Early)
        BY DEF StopInv, Intact, Here
      <3>2. n # 0 => m \notin stop_dropped \ Early
        BY <1>12 DEF Early
      <3>3. QED
        BY <1>6, <1>11, <3>1, <3>2 DEF MarkedRight
    <2>4. /\ stop_flushed \subseteq stop_dropped /\ (stop_rt.mode = "idle" => ~stop_rt.stopping)
          /\ \A c \in 1..StopMoves : c > m => stop_played[c] = 0
      BY DEF StopInv, Intact, Here, m
    <2>5. QED
      BY <1>0, <1>9, <1>10, <2>1, <2>2, <2>3, <2>4 DEF Intact, T, by
  <1>14. Marks' /\ Served'
    BY <1>0, <1>9 DEF StopInv, Marks, Served, m
  <1>15. ASSUME Roomy
         PROVE  Owing'
    <2>1. HasMarked(p, stop_flush) => HasMarked(stop_ring, stop_flush)
      BY <1>6, <1>11, <1>12, <1>15 DEF HasMarked
    <2>2. QED
      BY <1>0, <1>15, <2>1 DEF StopInv, Owing
  <1>16. ASSUME Roomy
         PROVE  Room'
    <2> DEFINE D == stop_dropped
               d == StopTrajLen * Cardinality(D \cap (1..m))
               len == Len(stop_ring)
    <2>1. /\ Cardinality(D) <= stop_stops /\ len - Left(Here) <= d
          /\ cursor < T => stop_stops = StopStops /\ m \notin D
      BY <1>0, <1>16 DEF StopInv, Room, m, cursor, T
    <2>2. len \in Nat /\ Left(Here)' \in Int /\ Left(Here) \in Int
          /\ Len(p) - Left(Here)' = len - Left(Here)
      <3>1. (Here').played = stop_played /\ Here.played = stop_played
        BY <1>0 DEF Here
      <3>2. CASE m \notin D
        <4>1. Left(Here)' = Pushed' - by
          BY <1>0, <1>2, <1>9, <3>1, <3>2 DEF Left, by
        <4>2. Left(Here) = cursor - by
          BY <1>2, <3>1, <3>2 DEF Left, m, by
        <4>3. QED
          BY <1>1, <1>3, <1>6, <1>10, <3>2, <4>1, <4>2
      <3>3. CASE m \in D
        <4>1. Left(Here)' = 0 /\ Left(Here) = 0
          BY <1>0, <1>9, <3>3 DEF Left, m
        <4>2. n = 0
          BY <1>12, <1>16, <3>3
        <4>3. QED
          BY <1>1, <1>6, <4>1, <4>2
      <3>4. QED
        BY <3>2, <3>3
    <2>3. ASSUME stop_inflight' # Stop!NoFlight, stop_inflight'.cursor < T
          PROVE  stop_stops = StopStops /\ m \notin D
      <3>1. stop_inflight'.cursor = cursor + n
        BY <1>9, <2>3
      <3>2. cursor < T
        BY <1>3, <1>6, <2>3, <3>1
      <3>3. QED
        BY <2>1, <3>2
    <2> HIDE DEF d, len
    <2>4. Len(p) - Left(Here)' <= d
      BY <2>1, <2>2
    <2>5. QED
      BY <1>0, <1>9, <2>1, <2>3, <2>4 DEF Room, d, T
  <1>17. /\ stop_events' \in Seq(Event)
         /\ \A i \in DOMAIN stop_events' :
              \/ i \in DOMAIN stop_events /\ stop_events'[i] = stop_events[i]
              \/ stop_events'[i] = s /\ over
    <2>1. stop_events \in Seq(Event) /\ s \in Event
      BY <1>2, <1>3 DEF StopInv, StopTyped, Event, s
    <2>2. QED
      BY <1>0, <2>1, OneMoreEvent
  <1>18. Heard'
    <2>1. s.cmd = m /\ m < stop_fill
      BY <1>2, <1>3 DEF s
    <2>2. \A i \in DOMAIN stop_events :
            /\ stop_events[i].cmd < stop_fill
            /\ stop_events[i].op = "Outcome" => Through(stop_events[i].cmd, stop_dropped, stop_played)
      BY DEF StopInv, Heard
    <2>3. \A i \in DOMAIN stop_events' :
            /\ stop_events'[i].cmd < stop_fill
            /\ stop_events'[i].op = "Outcome" => Through(stop_events'[i].cmd, stop_dropped, stop_played)
      BY <1>7, <1>17, <2>1, <2>2
    <2>4. stop_inflight' # Stop!NoFlight => stop_inflight'.cmd = m /\ m # 0
      BY <1>2, <1>9
    <2>5. stop_inflight' = Stop!NoFlight => Through(m, stop_dropped, stop_played)
      <3>1. [cmd |-> m, cursor |-> cursor + n] # Stop!NoFlight
        BY <1>2 DEF Stop!NoFlight
      <3>2. QED
        BY <1>7, <1>9, <3>1
    <2>6. QED
      BY <1>0, <1>9, <2>3, <2>4, <2>5 DEF StopInv, Heard, m
  <1>19. StopTyped'
    <2>1. stop_inflight' \in [cmd : 0..StopMoves, cursor : 0..StopTrajLen]
      <3>1. Stop!NoFlight \in [cmd : 0..StopMoves, cursor : 0..StopTrajLen]
        BY StopAssumption DEF Stop!NoFlight
      <3>2. [cmd |-> m, cursor |-> cursor + n] \in [cmd : 0..StopMoves, cursor : 0..StopTrajLen]
        BY <1>3, <1>6, StopAssumption DEF T
      <3>3. QED
        BY <1>9, <3>1, <3>2
    <2>2. QED
      BY <1>0, <1>6, <1>17, <2>1 DEF StopInv, StopTyped
  <1>20. InOrder(stop_requests, stop_fill, Offered, Answered)'
    BY <1>0, <1>9 DEF StopInv
  <1>21. QED
    BY <1>13, <1>14, <1>15, <1>16, <1>18, <1>19, <1>20 DEF StopInv

-----------------------------------------------------------------------------
(* The RT tick. *)

\* The head of the RT's command queue.
LEMMA HeadOfCommands ==
  ASSUME NEW q \in Seq({"SetModeExec", "ExecStop"}), q # <<>>
  PROVE  /\ Head(q) \in {"SetModeExec", "ExecStop"} /\ Tail(q) \in Seq({"SetModeExec", "ExecStop"})
         /\ \A i \in DOMAIN q : \/ q[i] = Head(q)
                                \/ i - 1 \in DOMAIN Tail(q) /\ Tail(q)[i - 1] = q[i]
  <1> DEFINE C == {"SetModeExec", "ExecStop"}
  <1>0. q \in Seq(C)
    OBVIOUS
  <1> HIDE DEF C
  <1>1. Len(q) \in Nat /\ Len(q) >= 1 /\ DOMAIN q = 1..Len(q)
    BY <1>0, EmptySeq
  <1>2. 1 \in 1..Len(q)
    BY <1>1
  <1>3. q[1] \in C
    BY <1>0, <1>2, ElementOfSeq
  <1>4. Head(q) = q[1] /\ Tail(q) \in Seq(C) /\ Len(Tail(q)) = Len(q) - 1
    BY <1>0, <1>1
  <1>5. DOMAIN Tail(q) = 1..(Len(q) - 1) /\ \A i \in 1..(Len(q) - 1) : Tail(q)[i] = q[i + 1]
    BY <1>0, <1>1, <1>4
  <1>6. \A i \in 1..Len(q) : i = 1 \/ (i - 1 \in 1..(Len(q) - 1) /\ (i - 1) + 1 = i)
    BY <1>1
  <1>7. QED
    BY <1>1, <1>3, <1>4, <1>5, <1>6 DEF C

\* A tick plays, brakes and flushes (RtCore::apply_command, ExecPlayback::tick).
LEMMA TickServes ==
  ASSUME StopInv, Stop!Tick
  PROVE  StopInv'
  <1> DEFINE v == IF stop_rtq = <<>> THEN Here ELSE Stop!Apply(Here, Head(stop_rtq))
  <1>0. PICK u \in (IF v.rt.mode = "exec" THEN Stop!ExecTick(v) ELSE {v}) :
          /\ stop_rt' = u.rt /\ stop_ring' = u.ring
          /\ stop_flushed' = u.flushed /\ stop_played' = u.played
          /\ stop_snap' = Stop!Snapshot(u.rt, u.ring)
    BY DEF Stop!Tick, Here
  <1>1. /\ stop_rtq' = IF stop_rtq = <<>> THEN stop_rtq ELSE Tail(stop_rtq)
        /\ UNCHANGED <<stop_queued, stop_pending, stop_planning, stop_executing, stop_dropped,
                       stop_unplanned, stop_done, stop_stops, stop_requests, stop_events,
                       stop_inflight, stop_fill, stop_flush>>
    BY DEF Stop!Tick, Stop!serverVars
  <1>2. StopNumbers /\ Here \in World /\ Intact(Here)
    BY StopFacts DEF StopInv
  <1>3. /\ stop_rtq \in Seq({"SetModeExec", "ExecStop"})
        /\ stop_rtq' \in Seq({"SetModeExec", "ExecStop"})
    <2>1. stop_rtq \in Seq({"SetModeExec", "ExecStop"})
      BY DEF StopInv, StopTyped
    <2>2. QED
      BY <1>1, <2>1, HeadOfCommands
  <1>4. /\ Intact(v) /\ Leads(Here, v)
        /\ stop_rtq # <<>> /\ Head(stop_rtq) = "ExecStop" =>
             v.rt.stopping \/ ~HasMarked(v.ring, stop_flush)
    <2>1. CASE stop_rtq = <<>>
      BY <1>2, <2>1, LeadsToItself
    <2>2. CASE stop_rtq # <<>>
      <3>1. Head(stop_rtq) \in {"SetModeExec", "ExecStop"}
        BY <1>3, <2>2, HeadOfCommands
      <3>2. QED
        BY <1>2, <2>2, <3>1, ApplyIntact
    <2>3. QED
      BY <2>1, <2>2
  <1> HIDE DEF v
  <1>5. v \in World
    BY <1>4 DEF Intact
  <1>6. Intact(u) /\ Leads(v, u)
    <2>1. CASE v.rt.mode = "exec"
      BY <1>0, <1>2, <1>4, <2>1, ExecTickIntact
    <2>2. CASE v.rt.mode # "exec"
      <3>1. u = v
        BY <1>0, <2>2
      <3>2. QED
        BY <1>2, <1>4, <1>5, <3>1, LeadsToItself
    <2>3. QED
      BY <2>1, <2>2
  <1>7. u \in World
    BY <1>6 DEF Intact
  <1>8. Leads(Here, u)
    BY <1>2, <1>4, <1>5, <1>6, <1>7, LeadsOn
  <1>9. Here' = u
    <2>1. u = [rt |-> u.rt, ring |-> u.ring, flushed |-> u.flushed, played |-> u.played]
      BY <1>7 DEF World
    <2>2. QED
      BY <1>0, <2>1 DEF Here
  <1>10. /\ Newest' = Newest /\ Pushed' = Pushed /\ Offered' = Offered
         /\ Answered' = Answered /\ Early' = Early
    BY <1>1 DEF Newest, Pushed, Offered, Answered, Early
  <1>11. Intact(Here)'
    BY <1>1, <1>6, <1>9, <1>10 DEF Intact
  <1>12. Served' /\ Marks'
    BY <1>1, <1>10 DEF StopInv, Served, Marks
  <1>13. \A c \in 1..StopMoves :
           Through(c, stop_dropped, stop_played) => Through(c, stop_dropped, u.played)
    BY <1>8 DEF Leads, Here
  <1>14. /\ u.rt.completed \in 0..StopMoves
         /\ u.rt.completed # 0 => u.rt.completed <= Newest /\ Through(u.rt.completed, stop_dropped, u.played)
         /\ stop_snap'.completed = u.rt.completed
    <2>1. u.rt \in Playback
      BY <1>7 DEF World
    <2>2. u.rt.completed \in 0..StopMoves
      BY <2>1 DEF Playback
    <2>3. stop_snap'.completed = u.rt.completed
      BY <1>0 DEF Stop!Snapshot
    <2>4. QED
      BY <1>6, <2>2, <2>3 DEF Intact, Remembered
  <1>15. Heard'
    <2>1. \A i \in DOMAIN stop_events :
            /\ stop_events[i].cmd < stop_fill
            /\ stop_events[i].op = "Outcome" => Through(stop_events[i].cmd, stop_dropped, u.played)
      <3> TAKE i \in DOMAIN stop_events
      <3>1. stop_events \in Seq(Event)
        BY DEF StopInv, StopTyped
      <3>2. stop_events[i] \in Event
        BY <3>1
      <3>3. stop_events[i].cmd \in 1..StopMoves
        BY <3>2 DEF Event
      <3>4. QED
        BY <1>13, <3>3 DEF StopInv, Heard
    <2>2. \A c \in stop_done : c < stop_fill /\ u.played[c] = StopTrajLen
      <3> TAKE c \in stop_done
      <3>1. c \in 1..StopMoves /\ c < stop_fill /\ stop_played[c] = StopTrajLen /\ c \notin stop_dropped
        BY DEF StopInv, StopTyped, Heard, Served
      <3>2. QED
        BY <1>13, <3>1 DEF Through
    <2>3. stop_inflight = Stop!NoFlight /\ Newest # 0 => Through(Newest, stop_dropped, u.played)
      <3>1. Newest # 0 => Newest \in 1..StopMoves
        BY <1>2, StopAssumption DEF StopNumbers
      <3>2. QED
        BY <1>13, <3>1 DEF StopInv, Heard
    <2>4. stop_inflight # Stop!NoFlight => stop_inflight.cmd = Newest /\ Newest # 0
      BY DEF StopInv, Heard
    <2>5. QED
      BY <1>0, <1>1, <1>10, <1>14, <2>1, <2>2, <2>3, <2>4 DEF Heard
  <1>16. Len(u.ring) <= Len(stop_ring) /\ Len(u.ring) - Left(u) <= Len(stop_ring) - Left(Here)
    BY <1>8 DEF Leads, Here
  <1>17. /\ Len(u.ring) \in Nat /\ Len(stop_ring) \in Nat /\ Left(u) \in Int /\ Left(Here) \in Int
    <2>1. \A x \in World : Len(x.ring) \in Nat /\ Left(x) \in Int
      <3> TAKE x \in World
      <3>1. x.ring \in Seq(Queueable) /\ x.played \in [1..StopMoves -> Nat]
        BY DEF World
      <3>2. Newest # 0 => x.played[Newest] \in Nat
        BY <1>2, <3>1, StopAssumption DEF StopNumbers
      <3>3. QED
        BY <1>2, <3>1, <3>2, StopAssumption DEF StopNumbers, Left
    <2>2. Here.ring = stop_ring
      BY DEF Here
    <2>3. QED
      BY <1>2, <1>7, <2>1, <2>2
  <1>18. ASSUME Room
         PROVE  Room'
    <2>1. Left(Here)' = Left(u)
      BY <1>1, <1>9, <1>10 DEF Left
    <2> DEFINE d == StopTrajLen * Cardinality(stop_dropped \cap (1..Newest))
    <2>2. d \in Int /\ Len(stop_ring) - Left(Here) <= d
      <3>1. Cardinality(stop_dropped \cap (1..Newest)) \in Nat
        <4>1. IsFiniteSet(1..Newest)
          BY <1>2, FS_Interval, StopAssumption DEF StopNumbers
        <4>2. IsFiniteSet(stop_dropped \cap (1..Newest))
          BY <4>1, FS_Subset
        <4>3. QED
          BY <4>2, FS_CardinalityType
      <3>2. QED
        BY <1>18, <3>1, StopAssumption DEF Room
    <2> HIDE DEF d
    <2>3. Len(u.ring) - Left(u) <= d
      BY <1>16, <1>17, <2>2
    <2>4. QED
      BY <1>0, <1>1, <1>10, <1>18, <2>1, <2>3 DEF Room, d
  <1>19. ASSUME Owing
         PROVE  Owing'
    <2> SUFFICES ASSUME HasMarked(u.ring, stop_flush), ~u.rt.stopping
                 PROVE  \E i \in DOMAIN stop_rtq' : stop_rtq'[i] = "ExecStop"
      BY <1>0, <1>1 DEF Owing
    <2>1. HasMarked(stop_ring, stop_flush) /\ ~stop_rt.stopping
      BY <1>8 DEF Leads, Here
    <2>2. PICK i \in DOMAIN stop_rtq : stop_rtq[i] = "ExecStop"
      BY <1>19, <2>1 DEF Owing
    <2>3. HasMarked(v.ring, stop_flush) /\ ~v.rt.stopping
      BY <1>6 DEF Leads
    <2>4. stop_rtq # <<>>
      BY <2>2
    <2>5. Head(stop_rtq) # "ExecStop"
      BY <1>4, <2>3, <2>4
    <2>6. i - 1 \in DOMAIN Tail(stop_rtq) /\ Tail(stop_rtq)[i - 1] = "ExecStop"
      BY <1>3, <2>2, <2>4, <2>5, HeadOfCommands
    <2>7. QED
      BY <1>1, <2>4, <2>6
  <1>20. StopTyped'
    <2>1. Len(u.ring) <= StopRing
      BY <1>16, <1>17, StopAssumption DEF StopInv, StopTyped
    <2>2. QED
      BY <1>0, <1>1, <1>3, <1>14, <2>1 DEF StopInv, StopTyped
  <1>21. InOrder(stop_requests, stop_fill, Offered, Answered)'
    BY <1>1, <1>10 DEF StopInv
  <1>22. QED
    BY <1>11, <1>12, <1>15, <1>18, <1>19, <1>20, <1>21 DEF StopInv

-----------------------------------------------------------------------------
(* The theorems. *)

\* Every step of the three threads keeps the invariant.
LEMMA StopStep ==
  ASSUME StopInv, [Stop!Next]_(Stop!vars)
  PROVE  StopInv'
  <1>1. CASE Stop!Queue
    BY <1>1, QueueServes
  <1>2. CASE Stop!PollServer
    BY <1>2, PollServes
  <1>3. CASE Stop!Stop
    BY <1>3, StopServes
  <1>4. CASE Stop!OnEvent
    BY <1>4, OnEventServes
  <1>5. CASE Stop!ServiceStart
    BY <1>5, StartServes
  <1>6. CASE Stop!ServiceCancel
    BY <1>6, CancelServes
  <1>7. CASE Stop!PollPlanner
    BY <1>7, PollPlannerServes
  <1>8. CASE Stop!Tick
    BY <1>8, TickServes
  <1>9. CASE UNCHANGED Stop!vars
    <2>1. UNCHANGED <<stop_queued, stop_pending, stop_planning, stop_executing, stop_dropped,
                      stop_unplanned, stop_done, stop_stops, stop_requests, stop_events,
                      stop_inflight, stop_fill, stop_flush, stop_ring, stop_rtq, stop_rt, stop_snap,
                      stop_played, stop_flushed>>
      BY <1>9 DEF Stop!vars, Stop!serverVars, Stop!ringVars, Stop!historyVars
    <2>2. /\ Newest' = Newest /\ Pushed' = Pushed /\ Offered' = Offered /\ Answered' = Answered
          /\ Early' = Early /\ Here' = Here
      BY <2>1 DEF Newest, Pushed, Offered, Answered, Early, Here
    <2>3. StopTyped' /\ Served' /\ Heard' /\ Marks' /\ InOrder(stop_requests, stop_fill, Offered, Answered)'
      BY <2>1, <2>2 DEF StopInv, StopTyped, Served, Heard, Marks
    <2>4. Intact(Here)' /\ Left(Here)' = Left(Here)
      BY <2>1, <2>2 DEF StopInv, Intact, Left
    <2>5. Roomy => Owing' /\ Room'
      BY <2>1, <2>2, <2>4 DEF StopInv, Owing, Room
    <2>6. QED
      BY <2>3, <2>4, <2>5 DEF StopInv
  <1>10. QED
    BY <1>1, <1>2, <1>3, <1>4, <1>5, <1>6, <1>7, <1>8, <1>9 DEF Stop!Next, Stop!PlannerStep

\* What the invariant says of the ring, the marks and the answers.
LEMMA StopShows ==
  ASSUME StopInv
  PROVE  /\ Stop!TypeOK /\ Stop!FlushSparesLaterMoves /\ Stop!OkMeansPlayed
         /\ Roomy => Stop!CutMovesNeverPlay
  <1>1. /\ StopNumbers /\ stop_ring \in Seq(Queueable) /\ stop_rt \in Playback
        /\ DOMAIN stop_ring = 1..Len(stop_ring)
    <2>1. stop_ring \in Seq(Queueable)
      BY StopFacts
    <2>2. QED
      BY <2>1, StopFacts
  <1>2. \A k \in 1..Len(stop_ring) : stop_ring[k].gen \in 1..stop_fill
    <2> TAKE k \in 1..Len(stop_ring)
    <2>1. stop_ring[k].gen = stop_ring[k].cmd + 1 /\ stop_ring[k].cmd <= Newest
      BY <1>1 DEF StopInv, Intact, Here, Filled
    <2>2. stop_ring[k] \in Queueable
      BY <1>1
    <2>3. stop_ring[k].cmd \in 1..StopMoves /\ stop_ring[k].cmd \in Nat
      BY <2>2, StopAssumption DEF Queueable
    <2>4. stop_fill \in Nat /\ stop_fill = Newest + 1
      BY DEF StopInv, StopTyped, Newest
    <2>5. QED
      BY <1>1, <2>1, <2>3, <2>4 DEF StopNumbers
  <1>3. Stop!TypeOK
    <2>1. stop_rt.mode \in {"idle", "exec"}
      BY <1>1 DEF Playback
    <2>2. stop_flush \in 0..stop_fill /\ Len(stop_ring) <= StopRing
      BY DEF StopInv, StopTyped, Marks
    <2>3. stop_planning # 0 => stop_pending # <<>> /\ Head(stop_pending) = stop_planning
      BY DEF StopInv, Served
    <2>4. QED
      BY <1>2, <2>1, <2>2, <2>3 DEF Stop!TypeOK
  <1>4. Stop!FlushSparesLaterMoves
    BY DEF Stop!FlushSparesLaterMoves, StopInv, Intact, Here
  <1>5. Stop!OkMeansPlayed
    BY DEF Stop!OkMeansPlayed, StopInv, Heard
  <1>6. ASSUME Roomy
        PROVE  Stop!CutMovesNeverPlay
    <2> SUFFICES ASSUME ~stop_rt.stopping, stop_rtq = <<>>, stop_ring # <<>>,
                        stop_ring[1].cmd \in stop_dropped \ stop_unplanned
                 PROVE  FALSE
      BY DEF Stop!CutMovesNeverPlay
    <2>1. 1 \in DOMAIN stop_ring
      BY <1>1, EmptySeq
    <2>2. stop_ring[1].gen <= stop_flush
      BY <1>6, <2>1 DEF StopInv, Intact, Here, MarkedRight, Early
    <2>3. \E i \in DOMAIN stop_rtq : stop_rtq[i] = "ExecStop"
      BY <1>6, <2>1, <2>2 DEF StopInv, Owing, HasMarked
    <2>4. QED
      BY <2>3
  <1>7. QED
    BY <1>3, <1>4, <1>5, <1>6

\* Whatever the ring's capacity and however a stop interleaves with the planner and the
\* RT: the ring is never overfilled, its marks never lead its fill, the flush of a stop
\* takes no sample of a move that was not dropped, and a move answered ok was played to
\* its last sample (pump_ring, ExecPlayback::flush, Par6Planner::poll).
THEOREM StopSpares ==
  Stop!Spec => [](Stop!TypeOK /\ Stop!FlushSparesLaterMoves /\ Stop!OkMeansPlayed)
  <1>1. Stop!Init => StopInv
    BY StopInitially
  <1>2. StopInv /\ [Stop!Next]_(Stop!vars) => StopInv'
    BY StopStep
  <1>3. StopInv => Stop!TypeOK /\ Stop!FlushSparesLaterMoves /\ Stop!OkMeansPlayed
    BY StopShows
  <1>4. QED
    BY <1>1, <1>2, <1>3, PTL DEF Stop!Spec

\* With a ring that holds a trajectory for every stop, a stop cuts exactly what it
\* should: beside what StopSpares says, no move it found executing is left for EXEC once
\* its commands are applied and its brake has ended (halt, discard_exec, flush).
THEOREM StopsAreExact ==
  ASSUME StopRing >= StopStops * StopTrajLen
  PROVE  Stop!Spec => []StopIsExact
  <1>1. Stop!Init => StopInv
    BY StopInitially
  <1>2. StopInv /\ [Stop!Next]_(Stop!vars) => StopInv'
    BY StopStep
  <1>3. StopInv => StopIsExact
    BY StopShows DEF StopIsExact, Stop!StopIsExact, Roomy
  <1>4. QED
    BY <1>1, <1>2, <1>3, PTL DEF Stop!Spec
=============================================================================
