------------------------------- MODULE StopPath -------------------------------
(***************************************************************************)
(* The life of one planned motion across the three threads, and the stop   *)
(* that cuts it short.                                                     *)
(*                                                                         *)
(*   server   marks the ring's fill generation and queues ExecStop for the *)
(*            RT (bridge.rs discard_exec, halt), sends Cancel to the       *)
(*            planner (server.rs drop_active_motion);                      *)
(*   planner  opens a generation, requests EXEC and fills the ring         *)
(*            (planner.rs start_exec, pump_ring), watches for completion;  *)
(*   RT       applies one queued command per tick, plays the ring, brakes  *)
(*            on ExecStop and then discards the marked samples             *)
(*            (core.rs apply_command, exec.rs tick and flush).             *)
(*                                                                         *)
(* The threads meet in four channels: requests and events between server   *)
(* and planner, the RT command queue `rtq`, and the sample ring; and in    *)
(* the snapshot the RT publishes at the end of every tick.                 *)
(*                                                                         *)
(* A sample is its command, its generation and whether it is the last one. *)
(* Playback keeps the boundary bookkeeping of ExecPlayback; the clock      *)
(* (applied_scale, phase) is reduced to running or still, so how long a    *)
(* brake takes is a choice.  Pause, faults and the modes other than IDLE   *)
(* and EXEC are not part of this module.  The ring's operations are atomic *)
(* here: module SampleRing has their steps.                                *)
(***************************************************************************)
EXTENDS Integers, Sequences, FiniteSets

CONSTANTS Moves,            \* bound: planned moves the client queues, 1..Moves
          TrajLen,          \* samples of one trajectory
          RingCapacity,     \* sample_ring capacity
          MaxStops,         \* bound: client stops
          StopWhilePlanning, \* may a stop find the head still being planned?
          Settles           \* completion policy: FALSE = Commanded, TRUE = Settled

VARIABLES queued,     \* server: moves accepted so far
          pending,    \* server: queue of accepted moves
          planning,   \* server: head being planned, 0 = None
          executing,  \* server: 0 = None
          dropped,    \* server: moves answered "cancelled"
          unplanned,  \* history: moves dropped while still being planned
          done,       \* server: moves answered "ok"
          stops,      \* client stops so far
          requests, events,
          inflight,   \* planner: [cmd, cursor], or NoFlight
          fill,       \* ring: fill_generation
          flush,      \* ring: flush_generation
          ring,       \* ring: queued samples
          rtq,        \* RT command queue
          rt,         \* RT: mode and ExecPlayback
          snap,       \* last published snapshot
          played,     \* history: samples popped, per move
          flushed     \* history: moves that lost samples to a flush

serverVars == <<queued, pending, planning, executing, dropped, unplanned, done, stops>>
ringVars == <<fill, flush, ring>>
historyVars == <<played, flushed>>
vars == <<serverVars, requests, events, inflight, ringVars, rtq, rt, snap, historyVars>>

NoFlight == [cmd |-> 0, cursor |-> 0]

Max2(a, b) == IF a > b THEN a ELSE b

Min2(a, b) == IF a < b THEN a ELSE b

Snapshot(r, q) ==
  [mode |-> r.mode, stopping |-> r.stopping, samples |-> Len(q), completed |-> r.completed]

InitRt == [mode |-> "idle", stopping |-> FALSE, still |-> FALSE, settling |-> FALSE,
           armed |-> 0, owe |-> 0, last |-> 0, completed |-> 0]

Init ==
  /\ queued = 0 /\ pending = <<>> /\ planning = 0 /\ executing = 0
  /\ dropped = {} /\ unplanned = {} /\ done = {} /\ stops = 0
  /\ requests = <<>> /\ events = <<>> /\ inflight = NoFlight
  /\ fill = 1 /\ flush = 0 /\ ring = <<>> /\ rtq = <<>>
  /\ rt = InitRt
  /\ snap = Snapshot(InitRt, <<>>)
  /\ played = [m \in 1..Moves |-> 0] /\ flushed = {}

-----------------------------------------------------------------------------
(* The server task. *)

ArmBraking == snap.mode = "exec" /\ (snap.stopping \/ snap.samples > 0)

CanStart(q) == planning = 0 /\ executing = 0 /\ q # <<>> /\ ~ArmBraking

Offer(q) ==
  /\ planning' = Head(q)
  /\ requests' = Append(requests, [op |-> "Start", cmd |-> Head(q)])

\* on_queued of a move, then pump.
Queue ==
  /\ queued < Moves
  /\ queued' = queued + 1
  /\ pending' = Append(pending, queued + 1)
  /\ IF CanStart(pending') THEN Offer(pending') ELSE UNCHANGED <<planning, requests>>
  /\ UNCHANGED <<executing, dropped, unplanned, done, stops, events, inflight, ringVars, rtq, rt,
                 snap, historyVars>>

PollServer ==
  /\ CanStart(pending)
  /\ Offer(pending)
  /\ UNCHANGED <<queued, pending, executing, dropped, unplanned, done, stops, events, inflight,
                 ringVars, rtq, rt, snap, historyVars>>

\* stop with the queue kept: Cancel to the planner, drop_active with its
\* discard_exec when something was dropped, then halt with its own.
Stop ==
  LET gone == {planning, executing} \ {0} IN
  /\ stops < MaxStops
  /\ planning # 0 => StopWhilePlanning
  /\ stops' = stops + 1
  /\ requests' = Append(requests, [op |-> "Cancel"])
  /\ pending' = IF planning # 0 THEN Tail(pending) ELSE pending
  /\ planning' = 0 /\ executing' = 0
  /\ dropped' = dropped \cup gone
  /\ unplanned' = unplanned \cup ({planning} \ {0})
  /\ flush' = Max2(flush, fill)
  /\ rtq' = rtq \o (IF gone = {} THEN <<>> ELSE <<"ExecStop">>) \o <<"ExecStop">>
  /\ UNCHANGED <<queued, done, events, inflight, fill, ring, rt, snap, historyVars>>

\* on_plan_started and on_outcome (with the pump behind it); an answer about a
\* move the server dropped changes nothing.
OnEvent ==
  /\ events # <<>>
  /\ LET ev == Head(events) IN
     \/ /\ ev.op = "Started" /\ planning = ev.cmd
        /\ planning' = 0 /\ executing' = ev.cmd /\ pending' = Tail(pending)
        /\ UNCHANGED <<done, requests>>
     \/ /\ ev.op = "Outcome" /\ executing = ev.cmd
        /\ executing' = 0 /\ done' = done \cup {ev.cmd}
        /\ IF planning = 0 /\ pending # <<>> /\ ~ArmBraking
           THEN Offer(pending) ELSE UNCHANGED <<planning, requests>>
        /\ UNCHANGED pending
     \/ /\ ~(ev.op = "Started" /\ planning = ev.cmd)
        /\ ~(ev.op = "Outcome" /\ executing = ev.cmd)
        /\ UNCHANGED <<planning, executing, pending, done, requests>>
  /\ events' = Tail(events)
  /\ UNCHANGED <<queued, dropped, unplanned, stops, inflight, ringVars, rtq, rt, snap, historyVars>>

-----------------------------------------------------------------------------
(* The planner thread. *)

Sample(cmd, k, gen) == [cmd |-> cmd, gen |-> gen, is_last |-> k = TrajLen]

\* Mutant of Pumped: the ring's free space is not consulted.
PumpedUnbounded(fl, gen) ==
  [k \in 1..(TrajLen - fl.cursor) |-> Sample(fl.cmd, fl.cursor + k, gen)]

\* pump_ring: push from the cursor until the ring is full.
Pumped(fl, gen) ==
  LET n == Min2(TrajLen - fl.cursor, RingCapacity - Len(ring))
  IN  [k \in 1..n |-> Sample(fl.cmd, fl.cursor + k, gen)]

PumpRing(fl, gen) ==
  /\ ring' = ring \o Pumped(fl, gen)
  /\ inflight' = [fl EXCEPT !.cursor = @ + Len(Pumped(fl, gen))]

\* start: the plan is ready; a generation, the mode request, the first fill.
ServiceStart ==
  /\ requests # <<>> /\ Head(requests).op = "Start"
  /\ fill' = fill + 1
  /\ rtq' = Append(rtq, "SetModeExec")
  /\ PumpRing([cmd |-> Head(requests).cmd, cursor |-> 0], fill + 1)
  /\ events' = Append(events, [op |-> "Started", cmd |-> Head(requests).cmd])
  /\ requests' = Tail(requests)
  /\ UNCHANGED <<serverVars, flush, rt, snap, historyVars>>

ServiceCancel ==
  /\ requests # <<>> /\ Head(requests).op = "Cancel"
  /\ inflight' = NoFlight
  /\ requests' = Tail(requests)
  /\ UNCHANGED <<serverVars, events, ringVars, rtq, rt, snap, historyVars>>

\* poll: feed the ring, then look for the completion.
PollPlanner ==
  /\ inflight # NoFlight
  /\ IF snap.completed >= inflight.cmd
     THEN /\ ring' = ring \o Pumped(inflight, fill)
          /\ inflight' = NoFlight
          /\ events' = Append(events, [op |-> "Outcome", cmd |-> inflight.cmd])
     ELSE /\ PumpRing(inflight, fill)
          /\ UNCHANGED events
  /\ UNCHANGED <<serverVars, requests, fill, flush, rtq, rt, snap, historyVars>>

-----------------------------------------------------------------------------
(* The RT tick: one queued command, one playback step, one snapshot. *)

\* Mutant of ClearMarked: an unbounded flush.
ClearAll(q) == <<>>

ClearMarked(q) ==
  LET Marked(n) == \A k \in 1..n : q[k].gen <= flush
      n == CHOOSE n \in 0..Len(q) : Marked(n) /\ (n < Len(q) => ~Marked(n + 1))
  IN  SubSeq(q, n + 1, Len(q))

\* flush: the boundary bookkeeping goes with the marked samples.
Flush(w) ==
  LET kept == ClearMarked(w.ring) IN
  [w EXCEPT !.rt.owe = 0, !.rt.last = 0, !.rt.settling = FALSE,
            !.ring = kept,
            !.flushed = @ \cup {w.ring[k].cmd : k \in 1..(Len(w.ring) - Len(kept))}]

\* Mutant of FinishStop: the brake ends without its flush.
FinishStopNoFlush(w) == [w EXCEPT !.rt.stopping = FALSE]

FinishStop(w) == Flush([w EXCEPT !.rt.stopping = FALSE])

Activate(w) ==
  [w EXCEPT !.rt = [InitRt EXCEPT !.mode = "exec", !.armed = w.rt.armed]]

Apply(w, cmd) ==
  CASE cmd = "SetModeExec" -> IF w.rt.mode = "exec" THEN w ELSE Activate(w)
    [] cmd = "ExecStop" /\ w.rt.mode = "exec" -> [w EXCEPT !.rt.stopping = TRUE]
    [] cmd = "ExecStop" /\ w.rt.mode # "exec" -> Flush(w)

NothingToBrake(w) ==
  w.rt.still \/ w.rt.settling \/ (w.rt.owe = 0 /\ w.ring = <<>>)

BrakeEnds(w) ==
  IF w.rt.stopping /\ NothingToBrake(w) THEN FinishStop(w) ELSE w

\* A boundary discovered late: the next move's sample is already visible.
LateBoundary(w) ==
  IF w.rt.owe = 0 /\ w.rt.last # 0 /\ w.ring # <<>> /\ w.ring[1].cmd # w.rt.last
  THEN [w EXCEPT !.rt.owe = w.rt.last] ELSE w

\* The clock is still when a brake has ended, running otherwise; a ring run
\* dry is at rest and keeps the clock at its target.
Rest(w) == [w EXCEPT !.rt.still = w.rt.stopping]

\* Mutant of Pop: a ring run dry counts as the end of the move.
PopEndsOnEmpty(w) ==
  LET s == w.ring[1]
      q == Tail(w.ring)
      ends == q = <<>> \/ q[1].cmd # s.cmd
  IN  [w EXCEPT !.ring = q, !.rt.owe = IF ends THEN s.cmd ELSE 0,
                !.rt.last = IF ends THEN 0 ELSE s.cmd,
                !.played[s.cmd] = @ + 1]

Pop(w) ==
  LET s == w.ring[1]
      q == Tail(w.ring)
      ends == s.is_last \/ (q # <<>> /\ q[1].cmd # s.cmd)
  IN  [w EXCEPT !.ring = q, !.rt.owe = IF ends THEN s.cmd ELSE 0,
                !.rt.last = IF ends THEN 0 ELSE s.cmd,
                !.played[s.cmd] = @ + 1]

\* The states a playback step can lead to: the clock may or may not cross a
\* sample in this tick and, while a stop brakes, may or may not reach zero.
Plays(w) ==
  IF w.ring = <<>> THEN {Rest(w)}
  ELSE LET Clocked(v) ==
             {[v EXCEPT !.rt.still = still] :
                still \in IF w.rt.stopping THEN BOOLEAN ELSE {FALSE}}
       IN  Clocked(w) \cup Clocked(Pop(w))

\* A command's end is reached: complete it, or settle first.
Boundary(w) ==
  IF w.rt.owe = 0 THEN Plays(w)
  ELSE IF ~Settles
  THEN Plays([w EXCEPT !.rt.owe = 0, !.rt.last = 0, !.rt.completed = w.rt.owe])
  ELSE {[w EXCEPT !.rt.owe = 0, !.rt.last = 0, !.rt.settling = TRUE, !.rt.armed = w.rt.owe]}

ExecTick(w0) ==
  LET w == BrakeEnds(w0) IN
  IF ~w.rt.settling THEN Boundary(LateBoundary(w))
  ELSE {Rest(w)} \cup
       Boundary(LateBoundary([w EXCEPT !.rt.settling = FALSE, !.rt.completed = w.rt.armed]))

Tick ==
  /\ LET w == [rt |-> rt, ring |-> ring, flushed |-> flushed, played |-> played]
         v == IF rtq = <<>> THEN w ELSE Apply(w, Head(rtq))
     IN  \E u \in (IF v.rt.mode = "exec" THEN ExecTick(v) ELSE {v}) :
           /\ rt' = u.rt /\ ring' = u.ring
           /\ flushed' = u.flushed /\ played' = u.played
           /\ snap' = Snapshot(u.rt, u.ring)
  /\ rtq' = IF rtq = <<>> THEN rtq ELSE Tail(rtq)
  /\ UNCHANGED <<serverVars, requests, events, inflight, fill, flush>>

-----------------------------------------------------------------------------

PlannerStep == ServiceStart \/ ServiceCancel \/ PollPlanner

Next == Queue \/ PollServer \/ Stop \/ OnEvent \/ PlannerStep \/ Tick

Spec == Init /\ [][Next]_vars

\* The clock gets on: it crosses samples, a brake ends, a settle completes.
Advances ==
  /\ Tick
  /\ <<rt, ring>>' # <<rt, ring>>
  /\ rt'.stopping => rt'.still
  /\ ~rt'.settling

FairSpec ==
  /\ Spec
  /\ WF_vars(PollServer) /\ WF_vars(OnEvent)
  /\ WF_vars(ServiceStart) /\ WF_vars(ServiceCancel) /\ WF_vars(PollPlanner)
  /\ WF_vars(Tick) /\ WF_vars(Advances)

-----------------------------------------------------------------------------
(* Properties. *)

\* The shape of the state: the ring is never overfilled by pump_ring, every
\* sample carries a generation that was opened, no mark is ahead of the fill,
\* and the move being planned is the head of the queue.
TypeOK ==
  /\ Len(ring) <= RingCapacity
  /\ \A k \in 1..Len(ring) : ring[k].gen \in 1..fill
  /\ flush \in 0..fill
  /\ planning # 0 => pending # <<>> /\ Head(pending) = planning
  /\ rt.mode \in {"idle", "exec"}

\* A stop's flush is bounded by the generation it marked: it never discards a
\* sample of a move that was not dropped, however late it lands (ring.rs,
\* "a move accepted while this is still working its way through the RT
\* command queue keeps its own fill").
FlushSparesLaterMoves == flushed \subseteq dropped

\* A move reported ok was played to its last sample.
OkMeansPlayed == \A m \in done : played[m] = TrajLen

\* Once the stop's commands have been applied and its brake has ended, nothing
\* the server dropped is left for EXEC to play.
NothingDroppedPlays ==
  rt.mode = "exec" /\ ~rt.stopping /\ rtq = <<>> /\ ring # <<>> =>
    ring[1].cmd \notin dropped

\* The same for a stop that finds its move executing, with a ring that takes
\* a whole trajectory: the flush leaves none of it, whatever generation the
\* planner has opened since.
CutMovesNeverPlay ==
  rt.mode = "exec" /\ ~rt.stopping /\ rtq = <<>> /\ ring # <<>> =>
    ring[1].cmd \notin dropped \ unplanned

\* A stop cuts exactly what it should: however late its flush lands no later move
\* loses a sample to it, no move it cut is left for EXEC, and ok stays ok (halt,
\* discard_exec, ExecPlayback::flush, poll).
StopIsExact == TypeOK /\ FlushSparesLaterMoves /\ CutMovesNeverPlay /\ OkMeansPlayed

\* Every move the client queued is answered: it completes or it was dropped by
\* a stop.  No stop of an earlier move leaves EXEC holding with no completion.
EveryMoveAnswered ==
  \A m \in 1..Moves : (queued >= m) ~> (m \in done \cup dropped)
=============================================================================
