---------------------------- MODULE ServerIntake ----------------------------
(***************************************************************************)
(* The server's run loop from the socket to the handlers: one command      *)
(* socket for every client, the stream that a datagram of its own type     *)
(* updates in place and one of another type preempts, the drain of the     *)
(* preempted stream's backlog with the datagrams it may not discard put    *)
(* aside, the SYSTEM commands, the gates, and the standing error that a    *)
(* refusal, a stop or an accepted motion leaves.                           *)
(***************************************************************************)
EXTENDS Naturals, Sequences, FiniteSets

CONSTANTS
  Kinds,        \* the datagrams clients send
  DrainLimit,   \* datagrams one drain may take off the socket
  MaxSent       \* bound on the datagrams sent

VARIABLES
  sock,       \* datagrams in the kernel's queue: [n, kind]
  deferred,   \* datagrams a drain lifted and may not discard
  cur,        \* the datagram in hand, if any
  stream,     \* active_stream
  refusing,   \* the bridge is still putting a refused stream down
  planned,    \* a command executing or queued
  server,     \* estop_latched, standing_error, execution_paused, the plan context, drives written
  snap,       \* the snapshot: enabled, homed, at rest
  sent, done, \* datagrams sent, the ones handled in order
  dropped     \* datagrams the drain discarded

vars == <<sock, deferred, cur, stream, refusing, planned, server, snap, sent, done, dropped>>

Streams == {"jog", "servo"}

None == "none"

Init ==
  /\ sock = <<>> /\ deferred = <<>> /\ cur = <<>>
  /\ stream = None /\ refusing = FALSE /\ planned = FALSE
  /\ server = [estop |-> FALSE, standing |-> None, paused |-> FALSE, context |-> "synced",
               rate |-> 1]
  /\ snap \in [enabled : BOOLEAN, homed : BOOLEAN, rest : BOOLEAN]
  /\ sent = 0 /\ done = <<>> /\ dropped = {}

-----------------------------------------------------------------------------
(* The gates. *)

Needs_homed == {"servo", "move"}
Needs_enabled == {"jog", "servo", "move", "teleport"}

\* check_gate, on the tag alone.
Gated(kind) ==
  \/ kind \in Needs_enabled /\ (server.estop \/ ~snap.enabled)
  \/ kind \in Needs_homed /\ ~snap.homed

MotionInFlight == planned \/ stream # None

\* latch_refusal: only an idle pipeline with no attributed error takes it.
Latch(s, busy) ==
  IF busy \/ s.standing = "failed" THEN s ELSE [s EXCEPT !.standing = "refused"]

\* on_motion_accepted.
Accepted(s) == [s EXCEPT !.standing = None]

-----------------------------------------------------------------------------
(* drain_stream_backlog. *)

Drained == SubSeq(sock, 1, IF Len(sock) < DrainLimit THEN Len(sock) ELSE DrainLimit)

\* Mutant of Kept: everything the drain meets is discarded.
KeptNothing(superseded) == <<>>

\* The places of what the drain keeps, in their order.
Increasing(g) == \A i, j \in DOMAIN g : i < j => g[i] < g[j]

KeptPlaces(superseded) ==
  CHOOSE g \in UNION {[1..m -> DOMAIN Drained] : m \in 0..Len(Drained)} :
    /\ Increasing(g)
    /\ {g[i] : i \in DOMAIN g} = {j \in DOMAIN Drained : Drained[j].kind # superseded}

Kept(superseded) ==
  [i \in DOMAIN KeptPlaces(superseded) |-> Drained[KeptPlaces(superseded)[i]]]

Drain(superseded) ==
  /\ deferred' = deferred \o Kept(superseded)
  /\ sock' = SubSeq(sock, Len(Drained) + 1, Len(sock))
  /\ dropped' = dropped \cup
       {Drained[i] : i \in {j \in DOMAIN Drained : Drained[j].kind = superseded}}

NoDrain == UNCHANGED <<sock, deferred, dropped>>

-----------------------------------------------------------------------------
(* on_faf. *)

\* The active stream is updated in place; a refused update stops it, at once or
\* over the time the bridge needs.
UpdateInPlace(d) ==
  /\ stream = d.kind /\ ~Gated(d.kind)
  /\ NoDrain
  /\ \/ /\ server' = Accepted(server)
        /\ UNCHANGED <<stream, refusing>>
     \/ /\ refusing' \in BOOLEAN
        /\ stream' = IF refusing' THEN stream ELSE None
        /\ server' = Latch(server, planned)
  /\ UNCHANGED planned

\* Another type preempts: the old stream is cancelled unless a refusal still puts
\* the arm down, its backlog drained, the planned queue dropped.
Preempt(d) ==
  /\ d.kind \in Streams /\ stream # d.kind /\ ~Gated(d.kind)
  /\ IF stream # None THEN Drain(stream) ELSE NoDrain
  /\ planned' = FALSE
  /\ \/ /\ stream' = d.kind /\ server' = Accepted(server)
        /\ UNCHANGED refusing
     \/ /\ refusing' \in {refusing, TRUE}
        /\ stream' = IF refusing' THEN d.kind ELSE None
        /\ server' = IF refusing' THEN Latch(server, FALSE) ELSE Latch(server, stream' # None)

Stream(d) == d.kind \in Streams /\ (UpdateInPlace(d) \/ Preempt(d))

\* A refused fire-and-forget answers, and latches over an idle pipeline.
RefuseFaf(d) ==
  /\ d.kind \in Streams /\ Gated(d.kind)
  /\ server' = Latch(server, MotionInFlight)
  /\ NoDrain /\ UNCHANGED <<stream, refusing, planned>>

-----------------------------------------------------------------------------
(* on_system and on_queued. *)

\* Latched and disabled before anything awaits; all motion is cancelled and the
\* pause with it.
Estop(d) ==
  /\ d.kind = "estop"
  /\ server' = [server EXCEPT !.estop = TRUE, !.standing = "estop", !.paused = FALSE]
  /\ stream' = None /\ planned' = FALSE /\ refusing' = FALSE
  /\ NoDrain

\* A clearing stop drops the pause with the queue; what it cleared stands.
Stop(d) ==
  /\ d.kind = "stop"
  /\ server' = [server EXCEPT !.paused = FALSE,
                  !.standing = IF planned THEN "cancelled" ELSE @]
  /\ stream' = None /\ planned' = FALSE /\ refusing' = FALSE
  /\ NoDrain

Pause(d) ==
  /\ d.kind = "pause"
  /\ server' = [server EXCEPT !.paused = ~@]
  /\ NoDrain /\ UNCHANGED <<stream, refusing, planned>>

\* reset: the latch and what stood are answered; the pause goes with the queue.
Reset(d) ==
  /\ d.kind = "reset"
  /\ server' = [server EXCEPT !.estop = FALSE, !.standing = None, !.paused = FALSE]
  /\ stream' = None /\ planned' = FALSE /\ refusing' = FALSE
  /\ NoDrain

\* A teleport preempts the stream (its backlog too) and the planned queue.
Teleport(d) ==
  /\ d.kind = "teleport" /\ ~Gated(d.kind)
  /\ IF stream # None THEN Drain(stream) ELSE NoDrain
  /\ stream' = None /\ planned' = FALSE
  /\ server' = Accepted(server)
  /\ UNCHANGED refusing

\* teleport_angle_fault and the gate: refused, nothing preempted.
RefuseTeleport(d) ==
  /\ d.kind = "teleport"
  /\ NoDrain /\ UNCHANGED <<stream, refusing, planned, server>>

\* select_profile, set_payload, set_completion_policy: kept, and sync_planner.
Configure(d) ==
  /\ d.kind = "configure"
  /\ server' \in {server, [server EXCEPT !.context = "synced"]}
  /\ NoDrain /\ UNCHANGED <<stream, refusing, planned>>

ServableRates == {1, 2}

\* status_rate_fault: only the whole divisors of the tick rate are served.
SetStatusRate(d) ==
  /\ d.kind = "rate"
  /\ \E hz \in ServableRates \cup {3} :
       server' = IF hz \in ServableRates THEN [server EXCEPT !.rate = hz] ELSE server
  /\ NoDrain /\ UNCHANGED <<stream, refusing, planned>>

\* arm_at_rest, commissioning_gate and pid_gains_fault: a drive is renamed or
\* rewritten at rest only, and only one the configuration knows.
AtRest == ~MotionInFlight /\ snap.rest

Commission(d) ==
  /\ d.kind = "commission"
  /\ \E known \in BOOLEAN :
       server' = IF AtRest /\ known THEN [server EXCEPT !.context = "rewritten"] ELSE server
  /\ NoDrain /\ UNCHANGED <<stream, refusing, planned>>

\* on_queued: an accepted move cancels the stream; a refused one only answers.
Queue(d) ==
  /\ d.kind = "move"
  /\ IF Gated(d.kind) THEN UNCHANGED <<stream, refusing, planned, server>>
     ELSE \/ /\ stream' = None /\ planned' = TRUE /\ refusing' = FALSE
             /\ server' = Accepted(server)
          \/ UNCHANGED <<stream, refusing, planned, server>>   \* validate_queued, queue full
  /\ NoDrain

\* A query, a chunk, a datagram that does not decode: answered.
Answer(d) ==
  /\ d.kind = "query"
  /\ NoDrain /\ UNCHANGED <<stream, refusing, planned, server>>

Dispatch(d) ==
  \/ Stream(d) \/ RefuseFaf(d)
  \/ Estop(d) \/ Stop(d) \/ Pause(d) \/ Reset(d)
  \/ Teleport(d) \/ RefuseTeleport(d) \/ Configure(d)
  \/ SetStatusRate(d) \/ Commission(d) \/ Queue(d) \/ Answer(d)

-----------------------------------------------------------------------------
(* run. *)

\* select! takes a datagram off the socket, once the inner loop has served what
\* the last one put aside.
TakeDatagram ==
  /\ cur = <<>> /\ deferred = <<>> /\ sock # <<>>
  /\ cur' = <<Head(sock)>> /\ sock' = Tail(sock)
  /\ UNCHANGED <<deferred, stream, refusing, planned, server, snap, sent, done, dropped>>

\* The inner loop.
TakeDeferred ==
  /\ cur = <<>> /\ deferred # <<>>
  /\ cur' = <<Head(deferred)>> /\ deferred' = Tail(deferred)
  /\ UNCHANGED <<sock, stream, refusing, planned, server, snap, sent, done, dropped>>

OnDatagram ==
  /\ cur # <<>>
  /\ Dispatch(cur[1])
  /\ done' = Append(done, cur[1].n) /\ cur' = <<>>
  /\ UNCHANGED <<snap, sent>>

\* on_poll and the planner's events: the snapshot moves on, a command ends (or
\* fails and stands), a refused stream comes to rest.
OnPoll ==
  /\ cur = <<>> /\ deferred = <<>>
  /\ \/ /\ snap' \in [enabled : BOOLEAN, homed : BOOLEAN, rest : BOOLEAN]
        /\ UNCHANGED <<planned, server, refusing>>
     \/ /\ planned /\ planned' = FALSE
        /\ server' \in {server, [server EXCEPT !.standing = "failed"]}
        /\ UNCHANGED <<snap, refusing>>
     \/ refusing /\ refusing' = FALSE /\ UNCHANGED <<snap, planned, server>>
  /\ UNCHANGED <<sock, deferred, cur, stream, sent, done, dropped>>

\* A client sends.
Arrive ==
  /\ sent < MaxSent
  /\ \E kind \in Kinds : sock' = Append(sock, [n |-> sent + 1, kind |-> kind])
  /\ sent' = sent + 1
  /\ UNCHANGED <<deferred, cur, stream, refusing, planned, server, snap, done, dropped>>

Next == TakeDatagram \/ TakeDeferred \/ OnDatagram \/ OnPoll \/ Arrive

Spec == Init /\ [][Next]_vars

-----------------------------------------------------------------------------
(* Properties. *)

\* A preemption costs nobody else anything: datagrams are handled in the order
\* they arrived, and the only ones never handled are the ones the drain may
\* discard, setpoints (drain_stream_backlog: "a blind drain also destroys a
\* buffered `estop`").
HandledInOrder ==
  LET line == done \o [i \in DOMAIN cur |-> cur[i].n]
                   \o [i \in DOMAIN deferred |-> deferred[i].n]
                   \o [i \in DOMAIN sock |-> sock[i].n]
  IN  /\ \A i, j \in DOMAIN line : i < j => line[i] < line[j]
      /\ {d.n : d \in dropped} = (1..sent) \ {line[i] : i \in DOMAIN line}
      /\ \A d \in dropped : d.kind \in Streams

=============================================================================
