------------------------------- MODULE Preview -------------------------------
(***************************************************************************)
(* The offline dry run (par6d preview.rs, preview/plan.rs, and the session *)
(* rules of par6-server session.rs it shares with the server): a virtual   *)
(* arm that takes a program's commands one by one, holds blended moves for *)
(* their successor, and keeps a commanded record of rows with one span per *)
(* submitted command.                                                      *)
(*                                                                         *)
(* A row is the number of the command whose motion made it; poses are left *)
(* out.  What the planner, the collision gate and the registries answer is *)
(* free.  Ticks become rows every Stride-th, as the recorder decimates.    *)
(***************************************************************************)
EXTENDS Integers, Sequences, SequencesExt

CONSTANTS Kinds,         \* the commands a program draws from
          Stride,        \* ticks per row
          Lookahead,     \* blend_lookahead
          BeginPaused,   \* whether the host may begin a program under a pause
          MaxCommands    \* bound: commands submitted

VARIABLES s,       \* the session: latches, hold, references, open streams
          spans,   \* the record's spans, one per submitted command
          rec,     \* the record's rows and the recorder's phase
          batch,   \* the held commands being planned, when a run_held is under way
          gone     \* commands of earlier programs

vars == <<s, spans, rec, batch, gone>>

Moves == {"move", "blend", "home"}
Queued == Moves \cup {"delay", "tool", "select", "unfit"}
Streams == {"jog", "jogl", "servol", "servo"}
ArmMotion == Moves \cup Streams \cup {"teleport"}
NeedsEnabled == (Queued \cup Streams \cup {"teleport"}) \ {"select"}
NeedsHomed == {"move", "blend", "jogl", "servol", "servo"}

\* The batch in hand: what is left of it, the command that closed it, and its
\* results as one (PreviewResult::concat).
Idle == [on |-> FALSE, rest |-> <<>>, for |-> 0, start |-> 0, rows |-> 0, error |-> FALSE]

Init ==
  /\ s = [homed |-> TRUE, estop |-> FALSE, flashing |-> FALSE, sim |-> TRUE, paused |-> FALSE,
          attached |-> FALSE, fresh |-> TRUE, standing |-> FALSE,
          jog |-> FALSE, jogSpan |-> 0, held |-> <<>>]
  /\ spans = <<>> /\ rec = [rows |-> <<>>, since |-> Stride - 1]
  /\ batch = Idle /\ gone = 0

----------------------------------------------------------------------------
(* The recorder. *)
Record(r, ticks, maker) ==
  [rows  |-> r.rows \o [i \in 1..((r.since + ticks) \div Stride) |-> maker],
   since |-> (r.since + ticks) % Stride]

Mark(r, maker) == [rows |-> Append(r.rows, maker), since |-> 0]

Open(sp, r, kind) == Append(sp, [kind |-> kind, start |-> Len(r.rows), rows |-> 0, error |-> FALSE])

Close(sp, i, from, to, err) ==
  [sp EXCEPT ![i] = [@ EXCEPT !.start = Len(from.rows),
                              !.rows = Len(to.rows) - Len(from.rows), !.error = err]]

\* Rows straight after a span's own belong to it: a jog's ramp-down.
Extend(sp, i, from, to) ==
  IF i # 0 /\ sp[i].start + sp[i].rows = Len(from.rows)
  THEN [sp EXCEPT ![i].rows = @ + Len(to.rows) - Len(from.rows)]
  ELSE sp

\* The ramp of an open joint jog: one more tick of the last jog's motion.
EndJogRec == IF s.jog THEN Record(rec, 1, s.jogSpan) ELSE rec
\* A jog whose ramp is credited to whichever command was submitted last.
EndJogSpansLast == IF s.jog THEN Extend(spans, Len(spans), rec, EndJogRec) ELSE spans
EndJogSpans == IF s.jog THEN Extend(spans, s.jogSpan, rec, EndJogRec) ELSE spans
EndJog(t) == IF s.jog THEN [t EXCEPT !.jog = FALSE, !.jogSpan = 0] ELSE t

----------------------------------------------------------------------------
(* The server's gate, through the server's own check. *)
Refused(t, kind) ==
  \/ kind \in ArmMotion /\ t.attached /\ ~t.fresh
  \/ kind \in NeedsEnabled /\ (t.estop \/ t.flashing)
  \/ kind \in NeedsHomed /\ ~t.homed
  \/ kind = "teleport" /\ ~t.sim

Stale(t) == [t EXCEPT !.fresh = FALSE]
Unpaused(t) == [t EXCEPT !.paused = FALSE]
Answered(t) == [t EXCEPT !.standing = FALSE]
Dropped(t) == [t EXCEPT !.held = <<>>]

HoldingForBlend(t) ==
  t.held # <<>> /\ Len(t.held) < Lookahead /\ Last(t.held).kind = "blend"

\* run_held: nothing while the session is paused or holds nothing; otherwise
\* the whole hold is planned, on behalf of command `for`.
RunHeld(t, for) ==
  IF t.paused \/ t.held = <<>>
  THEN s' = t /\ batch' = Idle
  ELSE /\ s' = Dropped(t)
       /\ batch' = [Idle EXCEPT !.on = TRUE, !.rest = t.held, !.for = for,
                                !.start = Len(rec'.rows)]

\* A command arrives: any open joint jog it does not continue ramps down
\* under its own span, then the command's span opens.
Arrives(kind) ==
  /\ ~batch.on /\ gone + Len(spans) < MaxCommands /\ kind \in Kinds
  /\ UNCHANGED gone

Spans0(kind) == IF kind = "jog" THEN Open(spans, rec, kind) ELSE Open(EndJogSpans, EndJogRec, kind)
Rec0(kind) == IF kind = "jog" THEN rec ELSE EndJogRec
S0(kind) == IF kind = "jog" THEN s ELSE EndJog(s)
Me == Len(spans) + 1

RefuseIt(kind, t) ==
  /\ spans' = Close(Spans0(kind), Me, Rec0(kind), Rec0(kind), TRUE)
  /\ rec' = Rec0(kind) /\ s' = t /\ batch' = Idle

StandIt(kind, t) ==
  spans' = Spans0(kind) /\ rec' = Rec0(kind) /\ s' = t /\ batch' = Idle

----------------------------------------------------------------------------
\* A command the wire's own validation refuses: no stream ends for it.
SubmitInvalid ==
  /\ Arrives("bad")
  /\ spans' = Close(Open(spans, rec, "bad"), Me, rec, rec, TRUE)
  /\ UNCHANGED <<s, rec, batch>>

SubmitQueued(kind) ==
  /\ Arrives(kind) /\ kind \in Queued
  /\ IF Refused(S0(kind), kind) \/ kind = "unfit"
     THEN RefuseIt(kind, S0(kind))
     ELSE LET t == [Answered(S0(kind)) EXCEPT !.held = Append(@, [span |-> Me, kind |-> kind])]
          IN  /\ spans' = Spans0(kind) /\ rec' = Rec0(kind)
              /\ IF t.paused \/ HoldingForBlend(t)
                 THEN s' = t /\ batch' = Idle
                 ELSE RunHeld(t, Me)

\* The admission check found the projected motion in a keep-out.
Blocked(kind, t) == RefuseIt(kind, Dropped(t))

\* A streamed motion, recorded and answered.
Streamed(kind, ticks, t) ==
  LET r == Record(Rec0(kind), ticks, Me)
  IN  /\ rec' = r /\ spans' = Close(Spans0(kind), Me, Rec0(kind), r, FALSE)
      /\ s' = Answered(Dropped(t)) /\ batch' = Idle

\* A joint jog: blocked at admission, run for its window and left open, or
\* blocked on the way, braked and stood off.
SubmitJog ==
  /\ Arrives("jog")
  /\ IF Refused(s, "jog") THEN RefuseIt("jog", s)
     ELSE \/ Blocked("jog", s)
          \/ Streamed("jog", 2, [s EXCEPT !.jog = TRUE, !.jogSpan = Me])
          \/ Streamed("jog", 3, [s EXCEPT !.jog = FALSE, !.jogSpan = Me])

\* A cartesian jog, through housekeeping's own integrator, and its braking.
SubmitJogL ==
  /\ Arrives("jogl")
  /\ IF Refused(S0("jogl"), "jogl") THEN RefuseIt("jogl", S0("jogl"))
     ELSE Blocked("jogl", S0("jogl")) \/ Streamed("jogl", 2, S0("jogl"))

\* A cartesian servo: a step that would collide refuses the whole of it.
SubmitServoL ==
  /\ Arrives("servol")
  /\ IF Refused(S0("servol"), "servol") THEN RefuseIt("servol", S0("servol"))
     ELSE Blocked("servol", S0("servol")) \/ Streamed("servol", 2, S0("servol"))

\* A joint servo target settles as one planned move, outside the hold.
SubmitServo ==
  /\ Arrives("servo")
  /\ IF Refused(S0("servo"), "servo") THEN RefuseIt("servo", S0("servo"))
     ELSE /\ spans' = Spans0("servo") /\ rec' = Rec0("servo") /\ s' = Dropped(S0("servo"))
          /\ batch' = [Idle EXCEPT !.on = TRUE, !.start = Len(rec'.rows),
                                   !.rest = <<[span |-> Me, kind |-> "move"]>>, !.for = Me]

SubmitTeleport ==
  /\ Arrives("teleport")
  /\ LET t == S0("teleport") IN
     IF Refused(t, "teleport") THEN RefuseIt("teleport", t)
     ELSE /\ rec' = Mark(Rec0("teleport"), Me)
          /\ spans' = Close(Spans0("teleport"), Me, Rec0("teleport"), rec', FALSE)
          /\ s' = [Dropped(t) EXCEPT !.homed = TRUE] /\ batch' = Idle

\* Stops, e-stop, reset, the simulator switches, flashing, and the world.
SystemEffect(kind, t) ==
  CASE kind = "stop"   -> t
    [] kind = "clear"  -> [Unpaused(Dropped(t)) EXCEPT !.standing = @ \/ t.held # <<>>]
    [] kind = "estop"  -> [Stale(Unpaused(Dropped(t))) EXCEPT !.estop = TRUE, !.standing = TRUE]
    [] kind = "reset"  -> [Stale(t) EXCEPT !.estop = FALSE, !.standing = FALSE]
    [] kind = "reset_state" ->
         [Stale(Unpaused(Dropped(t))) EXCEPT !.standing = FALSE, !.attached = FALSE]
    [] kind = "sim"    -> [Stale(Dropped(t)) EXCEPT !.sim = TRUE, !.homed = TRUE]
    [] kind = "hardware" -> [Stale(Dropped(t)) EXCEPT !.sim = FALSE, !.homed = FALSE]
    [] kind = "flash"  -> [Dropped(t) EXCEPT !.flashing = TRUE]
    [] kind = "pause"  -> [t EXCEPT !.paused = TRUE]
    [] kind = "profile" -> t

SubmitSystem(kind) ==
  /\ Arrives(kind)
  /\ kind \in {"stop", "clear", "estop", "reset", "reset_state", "sim", "hardware",
               "flash", "pause", "profile"}
  /\ \/ StandIt(kind, SystemEffect(kind, S0(kind)))
     \/ kind = "profile" /\ RefuseIt(kind, S0(kind))      \* no such profile, or gains

SubmitExitFlashing ==
  /\ Arrives("unflash")
  /\ IF s.flashing THEN StandIt("unflash", [S0("unflash") EXCEPT !.flashing = FALSE])
                   ELSE RefuseIt("unflash", S0("unflash"))

\* What the pause held runs now, unless the chain still waits for its close.
SubmitResume ==
  /\ Arrives("resume")
  /\ LET t == Unpaused(S0("resume")) IN
     /\ spans' = Spans0("resume") /\ rec' = Rec0("resume")
     /\ IF HoldingForBlend(t) THEN s' = t /\ batch' = Idle ELSE RunHeld(t, Me)

\* Attached parts: only on a referenced, enabled arm; the planner may refuse.
SubmitShapes ==
  /\ Arrives("shapes")
  /\ LET t == S0("shapes") IN
     \/ RefuseIt("shapes", t)
     \/ /\ t.homed /\ ~t.flashing /\ ~t.estop
        /\ StandIt("shapes", [t EXCEPT !.attached = TRUE, !.fresh = TRUE])

----------------------------------------------------------------------------
(* plan_batch, one head at a time. *)
Head1 == Head(batch.rest)

\* A blended chain whose rows all go to the move that closed it.
DoneAsOne(to, err, n, t) ==
  /\ rec' = to /\ s' = t
  /\ spans' = Close(spans, batch.rest[n].span, rec, to, err)
  /\ batch' = [batch EXCEPT !.rest = SubSeq(@, n + 1, Len(@)), !.error = @ \/ err]
  /\ UNCHANGED gone

\* The head's results: its own rows, and no rows for the n - 1 folded behind
\* it.  The first refusal ends the combined result.
Done(to, err, n, t) ==
  /\ rec' = to /\ s' = t
  /\ spans' = [i \in DOMAIN spans |->
                 IF i = Head1.span THEN Close(spans, i, rec, to, err)[i]
                 ELSE IF \E k \in 2..n : batch.rest[k].span = i
                      THEN Close(spans, i, to, to, FALSE)[i] ELSE spans[i]]
  /\ batch' = [batch EXCEPT !.rest = SubSeq(@, n + 1, Len(@)), !.error = @ \/ err,
                            !.rows = IF batch.error THEN @ ELSE @ + Len(to.rows) - Len(rec.rows)]
  /\ UNCHANGED gone

\* The gate again, at the command's turn: only this command is refused.
GateAtTurn ==
  /\ batch.on /\ batch.rest # <<>> /\ Refused(s, Head1.kind)
  /\ Done(rec, TRUE, 1, s)

\* The planner (or the jaws) refuse: nothing behind the refusal runs.
PlannerRefuses ==
  /\ batch.on /\ batch.rest # <<>> /\ ~Refused(s, Head1.kind)
  /\ spans' = [i \in DOMAIN spans |->
                 IF i = Head1.span THEN Close(spans, i, rec, rec, TRUE)[i] ELSE spans[i]]
  /\ batch' = [batch EXCEPT !.rest = <<>>, !.error = TRUE]
  /\ UNCHANGED <<s, rec, gone>>

\* The moves a blend chain from the head may fold in.
Chain == {n \in 1..Len(batch.rest) :
            /\ n <= Lookahead
            /\ \A k \in 1..(n - 1) : batch.rest[k].kind = "blend"
            /\ n > 1 => batch.rest[n].kind \in {"move", "blend"}}

Planning(kinds) == batch.on /\ batch.rest # <<>> /\ Head1.kind \in kinds /\ ~Refused(s, Head1.kind)

PlanMove ==
  /\ Planning({"move", "blend"})
  /\ \E n \in Chain : Done(Record(rec, 2, Head1.span), FALSE, n, s)

\* Unreferenced, a home is the seek, marked where it lands, then the return.
PlanHome ==
  /\ Planning({"home"})
  /\ LET landed == IF s.homed THEN rec ELSE Mark(rec, Head1.span)
     IN  Done(Record(landed, 2, Head1.span), FALSE, 1, [s EXCEPT !.homed = TRUE])

PlanHold == Planning({"delay"}) /\ Done(Record(rec, 1, Head1.span), FALSE, 1, s)

PlanTool == Planning({"tool"}) /\ Done(Record(rec, 1, Head1.span), FALSE, 1, s)

\* Selecting another tool invalidates what is attached; the same one does not.
PlanSelect ==
  /\ Planning({"select"})
  /\ Done(rec, FALSE, 1, s) \/ Done(rec, FALSE, 1, Stale(s))

\* The combined result goes back to the caller; a resume's is then closed as
\* the resume's own span.
ReturnBatch ==
  /\ batch.on /\ batch.rest = <<>> /\ batch' = Idle
  /\ spans' = IF batch.for # 0 /\ spans[batch.for].kind = "resume"
              THEN [spans EXCEPT ![batch.for] = [@ EXCEPT !.start = batch.start,
                                                !.rows = batch.rows, !.error = batch.error]]
              ELSE spans
  /\ UNCHANGED <<s, rec, gone>>

----------------------------------------------------------------------------
(* The host's calls. *)
Flush ==
  /\ ~batch.on /\ s.held # <<>> /\ UNCHANGED <<spans, rec, gone>>
  /\ RunHeld(s, 0)

SetHomed ==
  /\ ~batch.on /\ "set_homed" \in Kinds
  /\ s' = [Stale(s) EXCEPT !.homed = ~@]
  /\ UNCHANGED <<spans, rec, batch, gone>>

PlaceRad ==
  /\ ~batch.on /\ s.jog
  /\ s' = EndJog(s) /\ rec' = EndJogRec /\ spans' = EndJogSpans
  /\ UNCHANGED <<batch, gone>>

\* The record begins empty.  What the hold still held is flushed first, except
\* under a pause, which keeps it held.
BeginProgram ==
  /\ ~batch.on /\ spans # <<>>
  /\ s.held = <<>> \/ (s.paused /\ BeginPaused)
  /\ spans' = <<>> /\ rec' = [rows |-> <<>>, since |-> Stride - 1]
  /\ s' = [s EXCEPT !.jogSpan = 0]
  /\ gone' = gone + Len(spans) /\ UNCHANGED batch

Next ==
  \/ SubmitInvalid \/ SubmitJog \/ SubmitJogL \/ SubmitServoL \/ SubmitServo \/ SubmitTeleport \/ SubmitExitFlashing
  \/ SubmitResume \/ SubmitShapes
  \/ \E k \in Kinds : SubmitQueued(k) \/ SubmitSystem(k)
  \/ GateAtTurn \/ PlannerRefuses \/ PlanMove \/ PlanHome \/ PlanHold \/ PlanTool
  \/ PlanSelect \/ ReturnBatch
  \/ Flush \/ SetHomed \/ PlaceRad \/ BeginProgram

Spec == Init /\ [][Next]_vars

----------------------------------------------------------------------------
Rows(i) == (spans[i].start + 1)..(spans[i].start + spans[i].rows)

(* Block i of the commanded record is line i of the program: the rows a
   command's span names are exactly the rows its own motion made, the ramp a
   jog still had to run when the next command arrived included, whatever held,
   blended, paused or preempted the commands around it.  (A resume is left out:
   its span repeats the rows of the commands it released.) *)
RowsAreTheLines ==
  \A i \in DOMAIN spans : spans[i].kind # "resume" =>
     {k \in DOMAIN rec.rows : rec.rows[k] = i} = Rows(i)

(* begin_program's promise: "Whatever the blend hold still holds is planned
   first, under the old record."  No command is still held under a span the
   record no longer has. *)
HeldIsOnRecord ==
  \A k \in DOMAIN s.held : LET e == s.held[k] IN
     e.span \in DOMAIN spans /\ spans[e.span].kind = e.kind

(* The planning loop's comment: "nothing behind a refusal runs, and the virtual
   arm must not advance past it either".  After a refusal in a batch no more
   rows are made: the combined result says where the arm ends. *)
NothingBehindARefusal ==
  batch.error => Len(rec.rows) = batch.start + batch.rows
=============================================================================
