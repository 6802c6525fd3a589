------------------------------ MODULE StreamGate ------------------------------
(***************************************************************************)
(* The streaming collision gate's geometry (par6d bridge.rs StreamGate) on *)
(* a line: one joint between its soft limits, one keep-out interval, one   *)
(* interval of standing self contact.  The gate projects where a jog comes *)
(* to rest if it is released now, refuses the projections that collide,    *)
(* and a refused jog is braked and placed on the standoff.                 *)
(*                                                                         *)
(* Distances are in whole units, speeds in units per tick, and the jog     *)
(* engine's ramp gains or sheds one unit per tick: the sums below are that *)
(* ramp's reaction and stopping distances.  A sweep's samples fall between *)
(* units, so a sample is a fraction num/den.  The arm follows its commands *)
(* exactly; only the world and the operator are free.                      *)
(***************************************************************************)
EXTENDS Integers, FiniteSets

CONSTANTS SoftMax,      \* the soft window is 0..SoftMax
          Clearance,    \* Collision::clearance
          Shapes,       \* keep-outs <<from, to>>, <<>> for none
          SelfAt,       \* positions of the standing self contact
          Speeds,       \* jog speeds asked for
          ReleaseTicks, \* JOG_RELEASE_TICKS
          EscapeTol,    \* STREAM_ESCAPE_TOL_M
          SegmentPitch, MinSamples, MaxSamples,   \* segment_steps
          GateStep, GateMaxSteps, BisectRounds,   \* stop_point
          SettleMargin, Creep, Approach,          \* placement
          MaxWorlds     \* bound: world changes

VARIABLES shape, q, v, want, phase, left, goal, stop,
          solvedAt,         \* where the standoff was solved from
          worlds, excused   \* history: the world moved onto or ahead of the arm

vars == <<shape, q, v, want, phase, left, goal, stop, solvedAt, worlds, excused>>

Soft(x) == IF x < 0 THEN 0 ELSE IF x > SoftMax THEN SoftMax ELSE x
Abs(x) == IF x < 0 THEN -x ELSE x
Sgn(x) == IF x < 0 THEN -1 ELSE IF x > 0 THEN 1 ELSE 0
Lower(x, y) == IF x < y THEN x ELSE y
Upper(x, y) == IF x > y THEN x ELSE y
Ceil(x, n) == (x + n - 1) \div n

\* world_distance times den at num/den: negative inside the shape.
WorldDistance(num, den) ==
  IF shape = <<>> THEN (SoftMax + Clearance + 1) * den
  ELSE Upper(shape[1] * den - num, num - shape[2] * den)

\* The pairs at a point: the world inside the clearance, the standing contact.
Offending(num, den) ==
  (IF WorldDistance(num, den) < Clearance * den THEN {"world"} ELSE {})
  \cup (IF \E s \in SelfAt : s * den = num THEN {"self"} ELSE {})

WorldOffenders(num, den) == Offending(num, den) \cap {"world"}
InsideWorld(x) == WorldOffenders(x, 1) # {}

Collides(num, den) == Offending(num, den) # {}

CollidesBeyond(num, den, standing) == Offending(num, den) \ standing # {}

SegmentSteps(from, to) ==
  Upper(MinSamples, Lower(MaxSamples, Ceil(Abs(to - from), SegmentPitch)))

\* Some interior sample of the segment collides.
HitAlong(from, to, steps) ==
  \E i \in 1..steps : Collides(from * (steps + 1) + i * (to - from), steps + 1)

\* Nearer the shape than the start, on the way: only from outside the shape.
DipsNearer(from, to) ==
  LET steps == SegmentSteps(from, to)
  IN  /\ WorldDistance(from, 1) >= 0
      /\ \E i \in 1..(steps - 1) :
           WorldDistance(from * steps + i * (to - from), steps)
             < (WorldDistance(from, 1) - EscapeTol) * steps

Blocked(from, to) ==
  LET cur == Offending(from, 1)
      tgt == Offending(to, 1)
  IN  IF cur = {} THEN tgt # {} \/ HitAlong(from, to, SegmentSteps(from, to))
      ELSE \/ tgt \ cur # {}
           \/ /\ "world" \in cur
              /\ \/ /\ WorldDistance(to, 1) < Clearance
                    /\ WorldDistance(to, 1) <= WorldDistance(from, 1) + EscapeTol
                 \/ DipsNearer(from, to)

\* Reaction: from `speed` toward `wanted` for the ticks the release takes and
\* the one until the next check; then the ramp to rest.
(* mutant of jogReactionTicks: the tick until the next check is forgotten *)
jogReactionShort == ReleaseTicks

jogReactionTicks == ReleaseTicks + 1
rampSpeed(speed, wanted, n) == Lower(speed + n, Upper(speed, wanted))
Reacting(speed, wanted) ==
  LET at[n \in 0..jogReactionTicks] ==
        IF n = 0 THEN 0 ELSE at[n - 1] + rampSpeed(speed, wanted, n)
  IN  at[jogReactionTicks]
stoppingDistance(speed) == (speed * (speed - 1)) \div 2
heldJogTravel(speed) == speed * jogReactionTicks + stoppingDistance(speed)

JogLookahead(at, speed, target) ==
  LET sgn == IF speed # 0 THEN Sgn(speed) ELSE Sgn(target)
      s == Upper(speed * sgn, 0)
      wanted == Upper(target * sgn, 0)
      travel == IF s >= wanted THEN heldJogTravel(s)
                ELSE Reacting(s, wanted) + stoppingDistance(rampSpeed(s, wanted, jogReactionTicks))
  IN  IF speed = 0 /\ target = 0 THEN at ELSE Soft(at + sgn * travel)

HeldJogLookahead(at, target) == JogLookahead(at, target, target)

\* <<configuration tested, refused>>: from inside a keep-out the jog is judged
\* on the ground it asks for.
JogVerdict(at, speed, target) ==
  LET la == JogLookahead(at, speed, target)
      held == HeldJogLookahead(at, target)
  IN  IF Blocked(at, la) /\ InsideWorld(at) THEN <<held, Blocked(at, held)>>
      ELSE <<la, Blocked(at, la)>>

\* Coarse samples, then bisection, on units of 2^BisectRounds.
Fine == 2 ^ BisectRounds

Bisect(from, dir, bad(_), hit, clear) ==
  LET step[n \in 0..BisectRounds] ==
        IF n = 0 THEN <<clear * Fine, hit * Fine>>
        ELSE LET mid == (step[n-1][1] + step[n-1][2]) \div 2
             IN  IF bad(from * Fine + dir * mid) THEN <<step[n-1][1], mid>>
                 ELSE <<mid, step[n-1][2]>>
  IN  step[BisectRounds][1]

NearestFirst(S) == CHOOSE i \in S : \A k \in S : i <= k

\* Already in the world: the nearest way out along the line, both directions.
EscapePoint(cur, target) ==
  LET dir == Sgn(target - cur)
      out(i, side) == ~InsideWorld(cur + side * dir * i * GateStep)
      found == {i \in 1..GateMaxSteps : out(i, -1) \/ out(i, 1)}
      i == NearestFirst(found)
      side == IF out(i, -1) THEN -1 ELSE 1
      bad(num) == WorldOffenders(num, Fine) # {}
  IN  IF found = {} THEN cur * Fine
      ELSE cur * Fine + side * dir * Bisect(cur, side * dir, bad, 0, i * GateStep)

\* Clear of the world: the last sample with no contact the start is not in.
ForwardPoint(cur, target) ==
  LET span == Abs(target - cur)
      dir == Sgn(target - cur)
      steps == Upper(MinSamples, Lower(GateMaxSteps, Ceil(span, GateStep)))
      standing == Offending(cur, 1)
      hits == {i \in 1..steps : CollidesBeyond(cur * steps + i * (target - cur), steps, standing)}
      i == NearestFirst(hits)
      bad(num) == CollidesBeyond(num, Fine * steps, standing)
  IN  IF hits = {} THEN target * Fine
      ELSE LET t == Bisect(cur * steps, target - cur, bad, i, i - 1)
           IN  cur * Fine + ((target - cur) * t) \div steps

StopPoint(cur, target) ==
  IF cur = target THEN cur * Fine
  ELSE IF InsideWorld(cur) THEN EscapePoint(cur, target) ELSE ForwardPoint(cur, target)

(* mutant of Standoff: backed off toward the goal *)
StandoffForward(cur, target) ==
  LET s == StopPoint(cur, target)
      dir == Sgn(target * Fine - s)
      exact == s + dir * SettleMargin * Fine
  IN  IF dir > 0 THEN exact \div Fine ELSE -((-exact) \div Fine)

\* Backed off the stop point by the settle margin, away from the goal; the
\* clearance boundary falls between units, so the fraction is kept by rounding
\* away from the goal as well.
Standoff(cur, target) ==
  LET s == StopPoint(cur, target)
      dir == Sgn(target * Fine - s)
      exact == s - dir * SettleMargin * Fine
  IN  IF dir > 0 THEN exact \div Fine ELSE -((-exact) \div Fine)

CreepToward(from, to) == IF Abs(to - from) <= Creep THEN to ELSE from + Sgn(to - from) * Creep

PlacementSetpoint(from, to) ==
  IF Abs(to - from) <= Approach THEN CreepToward(from, to)
  ELSE to - Sgn(to - from) * (Approach \div 2)

----------------------------------------------------------------------------
Init ==
  /\ shape \in Shapes /\ q \in 0..SoftMax /\ ~InsideWorld(q)
  /\ v = 0 /\ want = 0 /\ phase = "free" /\ left = 0 /\ goal = q /\ stop = q /\ solvedAt = q
  /\ worlds = 0 /\ excused = FALSE

Refuse(la) == phase' = "braking" /\ goal' = la /\ left' = ReleaseTicks

\* Command::JogJ: admitted, the jog engine ramps; refused, the arm is braked.
JogJ(speed) ==
  /\ phase = "free" /\ speed # want
  /\ LET verdict == JogVerdict(q, v, speed)
     IN  IF speed # 0 /\ verdict[2]
         THEN Refuse(verdict[1]) /\ UNCHANGED want
         ELSE want' = speed /\ UNCHANGED <<phase, goal, left>>
  /\ UNCHANGED <<shape, q, v, stop, solvedAt, worlds, excused>>

Ramp(target) == v + Sgn(target - v)

\* One tick of a running jog: housekeeping's re-check, then the RT's step.
JogTick ==
  /\ phase = "free" /\ (v # 0 \/ want # 0)
  /\ LET verdict == JogVerdict(q, v, want)
     IN  IF want # 0 /\ verdict[2]
         THEN Refuse(verdict[1]) /\ UNCHANGED <<q, v>>
         ELSE /\ v' = IF Soft(q + Ramp(want)) = q THEN 0 ELSE Ramp(want)
              /\ q' = Soft(q + Ramp(want)) /\ UNCHANGED <<phase, goal, left>>
  /\ want' = IF phase' = "free" /\ v' = 0 /\ q' = q THEN 0 ELSE want
  /\ excused' = (excused /\ (phase' # "free" \/ v' # 0 \/ want' # 0 \/ InsideWorld(q')))
  /\ UNCHANGED <<shape, stop, solvedAt, worlds>>

\* The release crosses to the RT, then the ramp runs down.
BrakeTick ==
  /\ phase = "braking" /\ (left > 0 \/ v # 0)
  /\ left' = IF left > 0 THEN left - 1 ELSE 0
  /\ v' = Ramp(IF left > 0 THEN want ELSE 0)
  /\ q' = Soft(q + v') /\ want' = want
  /\ UNCHANGED <<shape, phase, goal, stop, solvedAt, worlds, excused>>

Solve ==
  /\ phase = "braking" /\ left = 0 /\ v = 0
  /\ stop' = Standoff(q, goal) /\ solvedAt' = q /\ phase' = "placing" /\ want' = 0
  /\ UNCHANGED <<shape, q, v, left, goal, worlds, excused>>

PlaceTick ==
  /\ phase = "placing"
  /\ IF q = stop THEN phase' = "free" /\ UNCHANGED q
     ELSE q' = PlacementSetpoint(q, stop) /\ UNCHANGED phase
  /\ excused' = (excused /\ (phase' # "free" \/ InsideWorld(q)))
  /\ UNCHANGED <<shape, v, want, left, goal, stop, solvedAt, worlds>>

\* set_layer: a shape may land on the arm or inside its stopping distance.  A
\* placement whose way is no longer clear is solved again toward its standoff.
SetLayer(s) ==
  /\ worlds < MaxWorlds /\ worlds' = worlds + 1 /\ s # shape /\ shape' = s
  /\ IF phase = "placing" THEN phase' = "braking" /\ goal' = stop ELSE UNCHANGED <<phase, goal>>
  /\ UNCHANGED <<q, v, want, left, stop, solvedAt>>
  /\ excused' = (v # 0 \/ want # 0 \/ phase # "free" \/ InsideWorld(q)')

Next == (\E s \in Speeds : JogJ(s)) \/ JogTick \/ BrakeTick \/ Solve \/ PlaceTick
        \/ (\E s \in Shapes : SetLayer(s))

Spec == Init /\ [][Next]_vars

----------------------------------------------------------------------------
(* A jog never carries the arm into a keep-out's clearance: the projection
   covers the reaction, the ramp and the tick until the next check, so the
   brake ends outside.  The world itself may be put over the arm. *)
KeptOut == InsideWorld(q) => excused

(* A refused arm is not left where it was: the standoff it is placed on is
   outside the clearance, whether the walk went forward from clear ground or
   out of the keep-out that swallowed the goal too.  An arm with no direction
   to walk along stays where it is. *)
StandoffIsOutside ==
  (phase = "placing" /\ (InsideWorld(goal) \/ ~InsideWorld(solvedAt)) /\ solvedAt # goal)
     => ~InsideWorld(stop)

(* The collision gate of the streams holds both ways: what it lets through ends outside
   every keep-out, and what it refuses is parked outside too (resolve_jog_start,
   standoff). *)
GateHolds == KeptOut /\ StandoffIsOutside
=============================================================================
