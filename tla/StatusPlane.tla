---------------------------- MODULE StatusPlane ----------------------------
(***************************************************************************)
(* What the server broadcasts: STATUS frames paced by the RT's ticks and,  *)
(* while the RT stalls, by a timer; the fields a frame derives from the    *)
(* snapshot, from the planner's report and from the queue; the estimate of *)
(* the queue the planner is asked for; and the transport ladder that steps *)
(* from multicast down to unicast when sends fail.                         *)
(***************************************************************************)
EXTENDS Naturals, Sequences, FiniteSets

CONSTANTS
  Strides,        \* ticks between frames, at the status rates a client may set
  Transports,     \* StatusTransport: "auto", "multicast", "unicast"
  MaxSendErrors,  \* MAX_SEND_ERRORS
  LinkStale,      \* link_stale, in clock units
  MaxTick,        \* bound on the RT's ticks
  MaxQueued,      \* bound on the commands queued
  MaxFaults       \* bound on network changes and collision verdicts

VARIABLES
  rt,        \* the RT: its tick, mode, latched error, age of the youngest node's data
  taken,     \* the snapshot published and not taken yet, or <<>>
  snap,      \* the server's copy
  age,       \* clock since a snapshot was fresh (.fresh), since a frame (.frame)
  last,      \* last_status_tick, or <<>>
  stride,    \* status_stride at the rate in force
  queue,     \* the pending queue: the indices first..(next - 1)
  asked,     \* queue_estimate_for
  verdict,   \* the streaming gate's collision latch, live
  planner,   \* the planner: its mailbox, its own collision latch
  report,    \* what its last pass published: that latch, the queue it priced
  link,      \* the broadcast link
  net,       \* the network: the group routed, the host reachable (external)
  frame,     \* the last frame, with the facts it should tell
  lost,      \* frames in a row that a reachable host did not receive
  twice,     \* a tick frame described a stride already described
  faults

vars == <<rt, taken, snap, age, last, stride, queue, asked, verdict, planner, report, link, net,
          frame, lost, twice, faults>>

Never == LinkStale + 3   \* a node that has not answered; ages stop counting there

Older(n) == IF n >= Never THEN Never ELSE n + 1

-----------------------------------------------------------------------------
(* The transport ladder. *)

\* The probe sends a token to the group and wants it back in time.
Probe(n) == n.group

\* A forced transport is not probed.
Open(transport, n) ==
  [unicast |-> transport = "unicast" \/ (transport = "auto" /\ ~Probe(n)), errors |-> 0]

Delivered(l, n) == IF l.unicast THEN n.host ELSE n.group

\* Mutant of NoteSendFailure: one error more is tolerated.
NoteSendFailureLate(l) ==
  IF ~l.unicast /\ l.errors >= MaxSendErrors
  THEN [unicast |-> TRUE, errors |-> 0]
  ELSE [l EXCEPT !.errors = IF l.unicast THEN 0 ELSE @ + 1]

\* On unicast the count goes on and nothing reads it.
NoteSendFailure(l) ==
  IF ~l.unicast /\ l.errors + 1 >= MaxSendErrors
  THEN [unicast |-> TRUE, errors |-> 0]
  ELSE [l EXCEPT !.errors = IF l.unicast THEN 0 ELSE @ + 1]

Send ==
  /\ link' = IF Delivered(link, net) THEN [link EXCEPT !.errors = 0] ELSE NoteSendFailure(link)
  /\ lost' = IF Delivered(link, net) \/ ~net.host THEN 0 ELSE lost + 1

-----------------------------------------------------------------------------
(* The fields of a frame. *)

\* The youngest node age in the snapshot plus the wall age of the snapshot.
Data_age(s, wall) == IF s.data = Never THEN Never ELSE s.data + wall

Link_ok(s, wall) == Data_age(s, wall) <= LinkStale

\* rt_standing_error: derived from the snapshot, never stored.
Effective_error(s) == s.error

\* A stream is shown only while the RT runs it.
Stream_shown(s) == s.mode = "jog"

Action_fields(s) ==
  IF Stream_shown(s) THEN "executing" ELSE IF Effective_error(s) THEN "error" ELSE "idle"

\* Mutant of Update_collision: the planner's report alone, when there is one.
Update_collisionReport == report.collision

\* Two gates latch a verdict; whichever reads active is shown.
Update_collision == report.collision \/ verdict

\* The planner's price of the queue, whichever queue that was.
Queued_duration == report.priced

Pending == queue.first..(queue.next - 1)

\* Mutant of Key: the length alone names the queue.
KeyByLength(q) == <<0, q.next - q.first>>

\* Commands leave from the front, so the front and the length name the queue.
Key(q) == <<IF q.next = q.first THEN 0 ELSE q.first, q.next - q.first>>

\* refresh_queue_estimate: asked for when the contents changed.
RefreshQueueEstimate ==
  /\ asked' = Key(queue)
  /\ planner' = IF Key(queue) = asked THEN planner
                ELSE [planner EXCEPT !.mailbox = Append(@, [op |-> "estimate", of |-> Pending])]

-----------------------------------------------------------------------------
(* Emission. *)

Build_status(s, wall) ==
  [of |-> <<s.tick>>, linkOk |-> Link_ok(s, wall), action |-> Action_fields(s),
   collision |-> Update_collision, live |-> verdict \/ report.collision,
   eta |-> Queued_duration, queue |-> Pending]

\* Mutant of EmitStatus: a frame of the timer does not record its tick.
EmitStatusTickOnly(s, wall) ==
  /\ age' = [fresh |-> wall, frame |-> 0]
  /\ last' = IF s.tick = snap.tick THEN last ELSE <<s.tick>>
  /\ frame' = Build_status(s, wall)
  /\ RefreshQueueEstimate
  /\ Send

\* Both clocks are recorded, whichever path emits.
EmitStatus(s, wall) ==
  /\ age' = [fresh |-> wall, frame |-> 0]
  /\ last' = <<s.tick>>
  /\ frame' = Build_status(s, wall)
  /\ RefreshQueueEstimate
  /\ Send

\* refresh_snapshot.
Fresh == IF taken = <<>> THEN snap ELSE taken[1]
Wall == IF taken = <<>> THEN age.fresh ELSE 0
Refresh == snap' = Fresh /\ taken' = <<>>

\* The stride a tick belongs to.
SameStride(a, b) == a \div stride = b \div stride

\* emit_status_on_tick: one frame a stride.
EmitStatusOnTick ==
  /\ Refresh
  /\ IF last # <<>> /\ SameStride(Fresh.tick, last[1])
     THEN /\ age' = [age EXCEPT !.fresh = Wall]
          /\ UNCHANGED <<last, frame, asked, planner, link, lost, twice>>
     ELSE /\ EmitStatus(Fresh, Wall)
          /\ twice' = (twice \/ (frame.of # <<>> /\ SameStride(Fresh.tick, frame.of[1])))
  /\ UNCHANGED <<rt, stride, queue, verdict, report, net, faults>>

\* on_status: the timer's turn once one and a half periods passed without a frame.
OnStatus ==
  /\ age.frame >= 3
  /\ Refresh
  /\ EmitStatus(Fresh, Wall)
  /\ UNCHANGED <<rt, stride, queue, verdict, report, net, twice, faults>>

SetStatusRate ==
  /\ stride' \in Strides \ {stride}
  /\ UNCHANGED <<rt, taken, snap, age, last, queue, asked, verdict, planner, report, link, net,
                 frame, lost, twice, faults>>

-----------------------------------------------------------------------------
(* The queue, the gates and the planner. *)

Fault(n) == faults + n <= MaxFaults /\ faults' = faults + n

Server(q) ==
  /\ queue' = q
  /\ UNCHANGED <<rt, taken, snap, age, last, stride, asked, report, link, net, frame, lost, twice,
                 faults>>

\* An accepted motion drops the streaming latch now and the planner's a pass later.
Accept ==
  /\ queue.next < MaxQueued
  /\ Server([queue EXCEPT !.next = @ + 1])
  /\ verdict' = FALSE
  /\ planner' = [planner EXCEPT !.mailbox = Append(@, [op |-> "clear", of |-> {}])]

\* The head leaves for execution, or a stop drops the queue.
Leave ==
  /\ queue.next > queue.first
  /\ \E n \in {queue.first + 1, queue.next} : Server([queue EXCEPT !.first = n])
  /\ UNCHANGED <<verdict, planner>>

\* The streaming gate refuses or stops a jog.
StreamRefused ==
  /\ ~verdict /\ verdict' = TRUE /\ Fault(1)
  /\ UNCHANGED <<rt, taken, snap, age, last, stride, queue, asked, planner, report, link, net, frame,
                 lost, twice>>

\* One pass of the planner: the oldest request, maybe a refusal of its own, the report.
PlannerPass ==
  /\ planner.mailbox # <<>>
  /\ LET req == Head(planner.mailbox) IN
     \E refused \in BOOLEAN :
       LET latch == refused \/ (planner.latch /\ req.op # "clear") IN
       /\ Fault(IF refused THEN 1 ELSE 0)
       /\ planner' = [mailbox |-> Tail(planner.mailbox), latch |-> latch]
       /\ report' = [collision |-> latch,
                     priced |-> IF req.op = "estimate" THEN req.of ELSE report.priced]
  /\ UNCHANGED <<rt, taken, snap, age, last, stride, queue, asked, verdict, link, net, frame, lost,
                 twice>>

-----------------------------------------------------------------------------
(* The RT, the clock and the network. *)

\* A tick publishes a snapshot over the one not taken.
RtTick ==
  /\ rt.tick < MaxTick
  /\ \/ \E mode \in {"idle", "jog"} :
          rt' = [tick |-> rt.tick + 1, mode |-> mode, error |-> FALSE, data |-> 0]
     \/ rt' = [tick |-> rt.tick + 1, mode |-> "idle", error |-> TRUE, data |-> Older(rt.data)]
  /\ taken' = <<rt'>>
  /\ UNCHANGED <<snap, age, last, stride, queue, asked, verdict, planner, report, link, net, frame,
                 lost, twice, faults>>

\* Half a status period.
Clock ==
  /\ age' = [fresh |-> Older(age.fresh), frame |-> IF age.frame < 3 THEN age.frame + 1 ELSE 3]
  /\ age' # age
  /\ UNCHANGED <<rt, taken, snap, last, stride, queue, asked, verdict, planner, report, link, net,
                 frame, lost, twice, faults>>

Network ==
  /\ Fault(1)
  /\ net' \in [group : BOOLEAN, host : BOOLEAN] \ {net}
  /\ UNCHANGED <<rt, taken, snap, age, last, stride, queue, asked, verdict, planner, report, link,
                 frame, lost, twice>>

Init ==
  /\ rt = [tick |-> 0, mode |-> "idle", error |-> FALSE, data |-> Never]
  /\ taken = <<>> /\ snap = rt /\ age = [fresh |-> Never, frame |-> 0]
  /\ last = <<>> /\ stride \in Strides
  /\ queue = [first |-> 1, next |-> 1] /\ asked = <<0, 0>>
  /\ verdict = FALSE /\ planner = [mailbox |-> <<>>, latch |-> FALSE]
  /\ report = [collision |-> FALSE, priced |-> {}]
  /\ net \in [group : BOOLEAN, host : BOOLEAN]
  /\ \E transport \in Transports : link = Open(transport, net)
  /\ frame = [of |-> <<>>, linkOk |-> FALSE, action |-> "idle", collision |-> FALSE,
              live |-> FALSE, eta |-> {}, queue |-> {}]
  /\ lost = 0 /\ twice = FALSE /\ faults = 0

Next ==
  \/ EmitStatusOnTick \/ OnStatus \/ SetStatusRate
  \/ Accept \/ Leave \/ StreamRefused \/ PlannerPass
  \/ RtTick \/ Clock \/ Network

Spec == Init /\ [][Next]_vars

-----------------------------------------------------------------------------
(* Properties. *)

\* A reachable host misses at most MAX_SEND_ERRORS frames in a row before the link
\* steps down to it, and no tick frame describes a stride the last frame described,
\* a frame of the timer between two ticks included (note_send_failure, emit_status).
StatusHeard == lost <= MaxSendErrors /\ ~twice

\* A frame never drops a live collision verdict, and once the planner has serviced
\* what it was sent, the ETA it publishes prices the very queue of the last frame:
\* the front and the length do name the queue (update_collision,
\* refresh_queue_estimate).
FrameIsCurrent ==
  /\ frame.live => frame.collision
  /\ planner.mailbox = <<>> => report.priced = frame.queue

=============================================================================
