----------------------------- MODULE Par6Planner -----------------------------
(***************************************************************************)
(* Planning and supervising one queued command (par6d planner.rs,          *)
(* execution_path.rs): a batch is compiled to one path, gated against the  *)
(* collision world, handed to the RT, and followed to a verdict while the  *)
(* client changes the world under it.                                      *)
(*                                                                         *)
(* The arm moves on a line 0 .. SoftMax, one cell a tick.  A keep-out is   *)
(* the set of cells it occupies, a cell's depth in it the distance to its  *)
(* edge.  Solving, timing and torque feedforward are abstract: IK has no   *)
(* answer on the cells NoIk, and a path over Singular is flagged.  The RT  *)
(* takes one command a tick.                                               *)
(***************************************************************************)
EXTENDS Integers, Sequences, SequencesExt, FiniteSetsExt

CONSTANTS Commands,   \* the queued commands clients send
          MaxBatch,   \* commands of one batch the planner looks at
          SoftMax,    \* the soft window is 0 .. SoftMax
          HomePose, HomeEnd,  \* where home ends, and where a seek leaves the arm
          Zones,      \* the keep-outs a client may apply: sets of cells
          NoIk, Singular,
          Reported,   \* the tool the gripper drive reports, 0 for none
          Pitch,      \* cells between two gated positions
          EscapeTol,
          Brake,      \* cells a stop takes to brake
          Starts,     \* where the arm may stand at the start
          MaxStarts, MaxWorlds, MaxStops, MaxFaults   \* bounds

VARIABLES world,  \* keep-outs in force
          rt,     \* mode, position, ring, brake left, completed id, references, latched error, pause
          cmds,   \* RT commands not yet taken
          swap,   \* a tool swap the RT has to apply
          fl,     \* the command in flight
          pl,     \* warning, collision latch, invalidation, fitted tool, freedom, next id
          out,    \* the outcome the last step gave
          left    \* budgets

vars == <<world, rt, cmds, swap, fl, pl, out, left>>

----------------------------------------------------------------------------
(* Geometry. *)
Abs(x) == IF x < 0 THEN -x ELSE x
Hit(w, q) == {z \in w : q \in z}
\* world_distance: how deep a cell is in the world, 0 outside it.
DepthIn(q, z) == Min({Abs(q - c) : c \in (-1 .. SoftMax + 1) \ z})
Depth(w, q) == Max({0} \cup {DepthIn(q, z) : z \in Hit(w, q)})

\* One cell a tick from a to b, without a.
Line(a, b) == [k \in 1 .. Abs(b - a) |-> IF b > a THEN a + k ELSE a - k]
\* A path through the waypoints.
Through(q, ws) ==
  FoldLeft(LAMBDA acc, w : [at |-> w, path |-> acc.path \o Line(acc.at, w)],
           [at |-> q, path |-> <<>>], ws).path
\* positions(): the start, a point every Pitch cells, the end.
Positions(q, path) ==
  LET keep == {k \in DOMAIN path : k % Pitch = 0 \/ k = Len(path)}
  IN  <<q>> \o [i \in 1 .. Cardinality(keep) |-> path[SetToSortSeq(keep, <)[i]]]

\* joint_distance, and the first position closest to q.
Nearest(points, q) ==
  CHOOSE i \in DOMAIN points :
    \A j \in DOMAIN points : \/ Abs(points[i] - q) < Abs(points[j] - q)
                             \/ Abs(points[i] - q) = Abs(points[j] - q) /\ i <= j

\* The gate that only looks where a path ends.
GateEndsOnly(w, q, points, from) ==
  LET e == points[Len(points)] IN IF Hit(w, e) \subseteq Hit(w, q) THEN {} ELSE Hit(w, e)

\* gate_collisions_from: the pairs a path is refused for.  A path may not touch
\* what the arm is not already in, nor take it deeper.
Gate(w, q, points, from) ==
  LET bad == {k \in from .. Len(points) :
                \/ ~(Hit(w, points[k]) \subseteq Hit(w, q))
                \/ Hit(w, q) # {} /\ Depth(w, points[k]) > Depth(w, q) + EscapeTol}
  IN  IF bad = {} THEN {}
      ELSE LET p == points[Min(bad)]
           IN  IF Hit(w, p) \subseteq Hit(w, q) THEN Hit(w, p) ELSE Hit(w, p) \ Hit(w, q)

----------------------------------------------------------------------------
(* Planning. *)
None == [kind |-> "none", id |-> 0, path |-> <<>>, from |-> 0, seen |-> FALSE, left |-> 0]
Refused == [kind |-> "refused"]
Cartesian(c) == c.fam = "cart"
Joint(c) == c.fam = "joint"

\* blend_chain_len: how many commands behind the head blend into it.
Blends(batch, n) ==
  /\ n < Len(batch) /\ (Cartesian(batch[1]) \/ Joint(batch[1]))
  /\ \A k \in 1 .. n : batch[k].blend /\ batch[k + 1].fam = batch[1].fam
ChainLen(batch) == Max({0} \cup {n \in 1 .. Len(batch) - 1 : Blends(batch, n)})

\* target_pose and start_joint_chain: each move resolves against its predecessor.
Targets(q, chain) ==
  FoldLeft(LAMBDA acc, c : Append(acc, (IF c.rel THEN IF acc = <<>> THEN q ELSE acc[Len(acc)] ELSE 0) + c.to),
           <<>>, chain)
InsideSoft(ws) == \A k \in DOMAIN ws : ws[k] \in 0 .. SoftMax

\* ik_path: every cell of a cartesian path solves, the endpoint first.
Solves(path) == path # <<>> => \A k \in DOMAIN path : path[k] \notin NoIk
\* singularity_verdict over the worst sample.
Flagged(path) == \E k \in DOMAIN path : path[k] \in Singular

\* start_exec: nothing is queued unless the gate passes.
Exec(path) ==
  IF path = <<>> THEN [None EXCEPT !.kind = "instant"]
  ELSE IF Gate(world, rt.q, Positions(rt.q, path), 1) # {} THEN Refused
  ELSE [None EXCEPT !.kind = "exec", !.id = pl.next, !.path = path, !.from = rt.q,
                    !.seen = rt.mode = "exec"]

PlanCart(chain) ==
  LET ws == Targets(rt.q, chain) path == Through(rt.q, ws)
  IN  IF InsideSoft(ws) /\ Solves(path) THEN Exec(path) ELSE Refused
PlanJoint(chain) ==
  LET ws == Targets(rt.q, chain)
  IN  IF InsideSoft(ws) THEN Exec(Through(rt.q, ws)) ELSE Refused
HomeReturn == Exec(Line(rt.q, HomePose))
PlanHome(calibrate) ==
  IF rt.homed /\ ~calibrate THEN HomeReturn ELSE [None EXCEPT !.kind = "home"]

\* A single move runs from where the arm is; a chain is one path.
MoveCart(c) == PlanCart(<<c>>)
MoveJoint(c) == PlanJoint(<<c>>)
CartChain(chain) == PlanCart(chain)

\* adopt_tool: nothing to do for the tool fitted; refused when the gripper drive
\* says another one is on the arm.
AdoptTool(t) ==
  IF t = pl.tool THEN [None EXCEPT !.kind = "instant"]
  ELSE IF Reported \notin {0, t} THEN Refused
  ELSE [None EXCEPT !.kind = "swap", !.left = t]

\* plan: what is in flight, for the commands of the chain.
Plan(batch) ==
  LET c == batch[1] n == ChainLen(batch) chain == SubSeq(batch, 1, 1 + n)
  IN  CASE Cartesian(c) -> IF n > 0 THEN CartChain(chain) ELSE MoveCart(c)
        [] Joint(c) -> IF n > 0 THEN PlanJoint(chain) ELSE MoveJoint(c)
        [] c.fam = "home" -> PlanHome(c.rel)
        [] c.fam = "delay" -> [None EXCEPT !.kind = "delay", !.left = c.to]
        [] c.fam = "tool" -> AdoptTool(c.to)

\* What a started plan sends: an EXEC entry, or IDLE and then HOMING.
Sends(f) == CASE f.kind = "exec" -> <<"exec">>
              [] f.kind = "home" -> <<"idle", "homing">>
              [] OTHER -> <<>>
Ring(f) == IF f.kind = "exec" THEN [k \in DOMAIN f.path |-> [q |-> f.path[k], id |-> f.id]] ELSE <<>>

\* The server starts nothing on an arm that brakes.
ArmBraking == rt.mode = "exec" /\ (rt.stop >= 0 \/ rt.ring # <<>>)

Launch(f, warn) ==
  /\ fl' = f /\ cmds' = cmds \o Sends(f)
  /\ rt' = [rt EXCEPT !.ring = @ \o Ring(f)]
  /\ pl' = [pl EXCEPT !.next = IF f.kind = "exec" THEN @ + 1 ELSE @,
                      !.near = IF warn THEN Flagged(f.path) ELSE @,
                      !.tool = IF f.kind = "swap" THEN f.left ELSE @]
  /\ swap' = IF f.kind = "swap" THEN f.left ELSE swap

Start(batch) ==
  /\ left.starts > 0 /\ fl.kind = "none" /\ ~pl.inv /\ ~ArmBraking /\ ~rt.err /\ ~rt.paused
  /\ left' = [left EXCEPT !.starts = @ - 1]
  /\ IF Plan(batch) = Refused
     THEN /\ out' = "refused" /\ UNCHANGED <<rt, cmds, swap, fl>>
          /\ pl' = [pl EXCEPT !.latch = TRUE]
     ELSE out' = "none" /\ Launch(Plan(batch), Cartesian(batch[1]) /\ Plan(batch).kind = "exec")
  /\ UNCHANGED world

----------------------------------------------------------------------------
(* The world, a stop, a pause. *)
\* discard_planned: mark, and brake along the path.
Discarded == fl' = None /\ cmds' = Append(cmds, "stop")

\* The world change that leaves the running move alone.
RevalidateNever == UNCHANGED <<fl, cmds, pl>>

\* revalidate_inflight: the rest of the running path, from the position closest
\* to the arm, is gated again.
Revalidate ==
  LET points == Positions(fl.from, fl.path)
      from == Max({1, Nearest(points, rt.q) - 1})
  IN  IF fl.kind = "exec" /\ Gate(world', rt.q, points, from) # {}
      THEN Discarded /\ pl' = [pl EXCEPT !.inv = TRUE, !.latch = TRUE, !.free = -1]
      ELSE pl' = [pl EXCEPT !.free = -1] /\ UNCHANGED <<fl, cmds>>

SetShapes ==
  /\ left.worlds > 0 /\ left' = [left EXCEPT !.worlds = @ - 1]
  /\ \E w \in SUBSET Zones : w # world /\ world' = w
  /\ UNCHANGED <<rt, swap>> /\ out' = "none"
  /\ Revalidate

\* cancel and the server's discard_exec.
Stop ==
  /\ left.stops > 0 /\ fl.kind # "none" /\ left' = [left EXCEPT !.stops = @ - 1]
  /\ Discarded /\ pl' = [pl EXCEPT !.near = FALSE]
  /\ out' = "none" /\ UNCHANGED <<world, rt, swap>>

Pause ==
  /\ left.stops > 0 /\ left' = [left EXCEPT !.stops = @ - 1]
  /\ ~rt.paused /\ rt' = [rt EXCEPT !.paused = TRUE]
  /\ out' = "none" /\ UNCHANGED <<world, cmds, swap, fl, pl>>
Resume ==
  /\ rt.paused /\ rt' = [rt EXCEPT !.paused = FALSE]
  /\ out' = "none" /\ UNCHANGED <<world, cmds, swap, fl, pl, left>>

----------------------------------------------------------------------------
(* poll. *)
\* update_enablement: which way a small step is free, while no path runs.
Free(q) == {d \in {-1, 1} : q + d \in 0 .. SoftMax /\ Hit(world, q + d) \subseteq Hit(world, q)}
Probe ==
  /\ fl.kind # "exec" /\ pl.free # rt.q
  /\ pl' = [pl EXCEPT !.free = rt.q, !.en = Free(rt.q)]
  /\ out' = "none" /\ UNCHANGED <<world, rt, cmds, swap, fl, left>>

\* An invalidation is handed over before anything else.
HandOver ==
  /\ pl.inv /\ pl' = [pl EXCEPT !.inv = FALSE] /\ out' = "invalid"
  /\ UNCHANGED <<world, rt, cmds, swap, fl, left>>

\* verdict: what the RT's state says of the command in flight.
Entered(mode) == rt.mode = mode
Verdict ==
  CASE rt.err -> "err"
    [] fl.kind = "exec" /\ rt.done >= fl.id -> "ok"
    [] fl.kind = "home" /\ fl.seen /\ ~Entered("homing") -> IF rt.homed THEN "ok" ELSE "err"
    [] fl.kind = "delay" /\ ~rt.paused /\ fl.left = 0 -> "ok"
    [] fl.kind = "swap" /\ swap = 0 -> "ok"
    [] fl.kind = "instant" -> "ok"
    [] OTHER -> "none"

See ==
  /\ ~pl.inv /\ Verdict = "none" /\ fl.kind \in {"exec", "home"} /\ ~fl.seen
  /\ Entered(IF fl.kind = "exec" THEN "exec" ELSE "homing")
  /\ fl' = [fl EXCEPT !.seen = TRUE]
  /\ out' = "none" /\ UNCHANGED <<world, rt, cmds, swap, pl, left>>

Fail(why) ==
  /\ Discarded /\ out' = why /\ pl' = [pl EXCEPT !.near = FALSE]
  /\ UNCHANGED <<world, rt, swap, left>>

\* The mode a path or a seek needs never came.
GraceOver ==
  /\ ~pl.inv /\ Verdict = "none" /\ fl.kind \in {"exec", "home"} /\ ~fl.seen
  /\ ~Entered(IF fl.kind = "exec" THEN "exec" ELSE "homing")
  /\ cmds = <<>> /\ Fail("mode")

\* A finished seek is followed by the planned return, in the same command.
Poll ==
  /\ ~pl.inv /\ Verdict # "none" /\ fl.kind # "none"
  /\ LET back == fl.kind = "home" /\ Verdict = "ok"
     IN  \/ Verdict = "err" /\ Fail(fl.kind)
         \/ back /\ HomeReturn = Refused /\ Fail("return")
         \/ back /\ HomeReturn.kind = "exec" /\ Launch(HomeReturn, FALSE) /\ out' = "none"
            /\ UNCHANGED <<world, left>>
         \/ /\ Verdict = "ok" /\ (back => HomeReturn.kind = "instant")
            /\ fl' = None /\ pl' = [pl EXCEPT !.near = FALSE] /\ out' = "ok"
            /\ UNCHANGED <<world, rt, cmds, swap, left>>

----------------------------------------------------------------------------
(* The RT: a command, then its mode's step. *)
Flushed(r) == [r EXCEPT !.ring = <<>>, !.stop = -1]
Taken(r, c) ==
  CASE c = "exec" -> IF r.mode \in {"idle", "exec"} /\ r.homed /\ ~r.err
                     THEN [r EXCEPT !.mode = "exec"] ELSE r
    [] c = "idle" -> IF r.mode = "error" /\ r.err THEN r
                     ELSE [r EXCEPT !.mode = "idle", !.homed = @ /\ r.mode # "homing"]
    [] c = "homing" -> IF r.mode = "idle" /\ ~r.err THEN [r EXCEPT !.mode = "homing", !.homed = FALSE] ELSE r
    [] c = "stop" -> CASE r.mode = "exec" -> IF r.ring = <<>> THEN Flushed(r) ELSE [r EXCEPT !.stop = Brake]
                       [] r.mode = "homing" -> Flushed([r EXCEPT !.mode = "idle"])
                       [] OTHER -> Flushed(r)
    [] OTHER -> r

\* One sample; a stop counts the cells it brakes over, then flushes.
Played(r) ==
  IF r.ring = <<>> \/ (r.paused /\ r.stop < 0) THEN r
  ELSE LET s == Head(r.ring)
           on == [r EXCEPT !.q = s.q, !.ring = Tail(@),
                           !.done = IF Tail(r.ring) = <<>> /\ r.stop < 0 THEN s.id ELSE @]
       IN  IF r.stop = 0 THEN Flushed(r)
           ELSE IF r.stop > 0 THEN IF r.stop = 1 THEN Flushed(on) ELSE [on EXCEPT !.stop = @ - 1]
           ELSE on

Stepped(r) ==
  CASE r.mode = "exec" -> {Played(r)}
    [] r.mode = "homing" -> {r, [r EXCEPT !.mode = "idle", !.homed = TRUE, !.q = HomeEnd],
                             [r EXCEPT !.mode = "idle"]}
    [] OTHER -> {r}

Tick ==
  /\ LET c == IF cmds = <<>> THEN "none" ELSE Head(cmds)
     IN  rt' \in Stepped(Taken(rt, c))
  /\ cmds' = IF cmds = <<>> THEN <<>> ELSE Tail(cmds)
  /\ swap' = 0
  /\ fl' = IF fl.kind = "delay" /\ ~rt.paused /\ fl.left > 0 THEN [fl EXCEPT !.left = @ - 1] ELSE fl
  /\ out' = "none" /\ UNCHANGED <<world, pl, left>>

\* A hard error stops everything; a clear goes back to IDLE.
Fault ==
  /\ left.faults > 0 /\ ~rt.err /\ left' = [left EXCEPT !.faults = @ - 1]
  /\ rt' = [Flushed(rt) EXCEPT !.mode = "error", !.err = TRUE, !.homed = @ /\ rt.mode # "homing"]
  /\ out' = "none" /\ UNCHANGED <<world, cmds, swap, fl, pl>>
Clear ==
  /\ rt.err /\ fl.kind = "none" /\ rt' = [rt EXCEPT !.mode = "idle", !.err = FALSE]
  /\ out' = "none" /\ UNCHANGED <<world, cmds, swap, fl, pl, left>>

----------------------------------------------------------------------------
Init ==
  /\ world = {} /\ cmds = <<>> /\ swap = 0 /\ fl = None /\ out = "none"
  /\ \E q \in Starts, h \in BOOLEAN :
       rt = [mode |-> "idle", q |-> q, ring |-> <<>>, stop |-> -1, done |-> 0, homed |-> h,
             err |-> FALSE, paused |-> FALSE]
  /\ pl = [near |-> FALSE, latch |-> FALSE, inv |-> FALSE, tool |-> 1, next |-> 1, free |-> -1, en |-> {}]
  /\ left = [starts |-> MaxStarts, worlds |-> MaxWorlds, stops |-> MaxStops, faults |-> MaxFaults]

Next ==
  \/ \E batch \in UNION {[1 .. n -> Commands] : n \in 1 .. MaxBatch} : Start(batch)
  \/ SetShapes \/ Stop \/ Pause \/ Resume \/ Probe \/ HandOver \/ See \/ GraceOver \/ Poll
  \/ Tick \/ Fault \/ Clear

Spec == Init /\ [][Next]_vars

----------------------------------------------------------------------------
(* "Committed motion is not exempt from a world it now violates": the RT never
   plays the arm into a keep-out it is not already in, however the world changes
   under a running path, except over the cells a stop already asked for takes. *)
StepKeepsOut ==
  (rt.mode = "exec" /\ rt'.q # rt.q)
    => \/ Hit(world, rt'.q) \subseteq Hit(world, rt.q)
       \/ rt.stop >= 0 \/ \E k \in DOMAIN cmds : cmds[k] = "stop"

NeverDrivenIn == [][StepKeepsOut]_vars

(* start_cart_path: "a warning standing in STATUS with nothing in flight would be
   attributed to whatever move runs next".  None stands without its path. *)
WarningHasItsMove == pl.near => fl.kind = "exec" /\ Flagged(fl.path)

(* A home fails over its own seek, never over the one a stop was ending when it
   was asked: no home gives up while the HOMING it asked for is still queued. *)
HomeFailsOnItsOwn == (out = "home" /\ ~rt.err) => \A k \in DOMAIN cmds : cmds[k] # "homing"
=============================================================================
