---------------------------- MODULE HwPoll ----------------------------
(***************************************************************************)
(* The telemetry polls of the SocketCAN backend: PollScheduler             *)
(* (hw/sched.rs) and what hw/mod.rs does with its answers.  One slot goes  *)
(* out per RT tick: an override, a device-info sweep, or the round robin   *)
(* with one combined poll per drive, three separate ones for a drive whose *)
(* firmware has no combined reply.  Drives answer or not, are reflashed    *)
(* while the bus is silent, and come back from a silence (an edge).        *)
(*                                                                         *)
(* slot and cursor are 64-bit counters in the code; here they are kept     *)
(* modulo the numbers they are compared by.                                *)
(***************************************************************************)
EXTENDS Naturals, FiniteSets

CONSTANTS
    Targets,       \* how many poll targets: the joints, then the gripper
    FallbackPolls, \* TELEMETRY_FALLBACK_POLLS
    SweepPeriod,   \* DEVICE_INFO_PERIOD_SLOTS
    CursorWrap,    \* bound: a common multiple of every cycle length
    MaxRepeats     \* bound: repeats of a queued override

VARIABLES
    poll,     \* PollScheduler
    missed,   \* telemetry_unanswered, per target
    silent,   \* set_silent
    vendor,   \* environment: targets on firmware without the combined reply
    asked,    \* environment: the request on the wire
    blind     \* history: polls of a target since its faults were last heard,
              \* or asked for in a way it can answer

vars == <<poll, missed, silent, vendor, asked, blind>>

T == 1..Targets
NoRequest == [target |-> 0, kind |-> "none"]

-----------------------------------------------------------------------------
(* The round robin asks the targets in turn, a combined poll each, or the vendor's
   three.  Place is where in a cycle a target's requests begin; the place after the
   last target is the cycle's length. *)
Place(legacy, t) == (t - 1) + 2 * Cardinality({u \in legacy : u < t})

Cycle(legacy) ==
    [k \in 0..(Place(legacy, Targets + 1) - 1) |->
        LET t == CHOOSE u \in T : Place(legacy, u) <= k /\ k < Place(legacy, u + 1)
        IN [target |-> t,
            kind   |-> IF t \notin legacy THEN "telemetry"
                       ELSE <<"temperature", "voltage", "errors">>[k - Place(legacy, t) + 1]]]

(* The override slot holds the repeats left of the one action it holds. *)
PollConfigured == [legacy |-> {}, cursor |-> 0, slot |-> 0, sweep |-> 0, override |-> 0]

SetLegacy(p, t, on) ==
    [p EXCEPT !.legacy = IF on THEN @ \cup {t} ELSE @ \ {t}]

(* The slot is single: a pending override is replaced. *)
QueueOverride(p, repeats) == IF repeats = 0 THEN p ELSE [p EXCEPT !.override = repeats]

HasOverride(p) == p.override > 0

TakeOverride(p) == [p EXCEPT !.override = @ - 1]

(* The request of a slot no override holds, and the schedule after it. *)
Scheduled(p) ==
    IF p.sweep > 0
    THEN [target |-> Targets - p.sweep + 1, kind |-> "deviceinfo"]
    ELSE Cycle(p.legacy)[p.cursor % Place(p.legacy, Targets + 1)]

Advanced(p) ==
    LET s == (p.slot + 1) % SweepPeriod
    IN IF p.sweep > 0
       THEN [p EXCEPT !.slot = s, !.sweep = @ - 1]
       ELSE [p EXCEPT !.slot = s,
                      !.sweep = IF s = 0 THEN Targets ELSE @,
                      !.cursor = (@ + 1) % CursorWrap]

-----------------------------------------------------------------------------
(* probe_telemetry: a target that gives no combined reply to the boot probe
   starts on the vendor's polls. *)
ProbeTelemetry(answered) == [PollConfigured EXCEPT !.legacy = T \ answered]

Init ==
    /\ vendor \in SUBSET T
    /\ \E answered \in SUBSET (T \ vendor) : poll = ProbeTelemetry(answered)
    /\ missed = [t \in T |-> 0] /\ silent = FALSE /\ asked = NoRequest
    /\ blind = [t \in T |-> 0]

(* queue_poll_override: a scan ping, a clear, a config resend, a readback. *)
QueuePollOverride ==
    /\ \E repeats \in 1..MaxRepeats : poll' = QueueOverride(poll, repeats)
    /\ UNCHANGED <<missed, silent, vendor, asked, blind>>

(* A combined poll left unanswered past the fallback moves its target to the
   vendor's three, which are all its faults arrive by. *)
RoundRobin ==
    LET r == Scheduled(poll)
        combined == r.kind = "telemetry"
        late == combined /\ missed[r.target] + 1 > FallbackPolls
    IN /\ poll' = IF late THEN SetLegacy(Advanced(poll), r.target, TRUE) ELSE Advanced(poll)
       /\ missed' = [missed EXCEPT ![r.target] =
                        IF late THEN 0 ELSE IF combined THEN @ + 1 ELSE @]
       /\ asked' = r
       /\ blind' = [blind EXCEPT ![r.target] =
                        CASE r.kind = "errors" -> 0
                          [] combined /\ r.target \in vendor -> @ + 1
                          [] OTHER -> @]

(* poll_step: nothing while the bus is silent. *)
PollStep ==
    /\ ~silent
    /\ \/ /\ HasOverride(poll)
          /\ poll' = TakeOverride(poll) /\ asked' = NoRequest
          /\ UNCHANGED <<missed, blind>>
       \/ ~HasOverride(poll) /\ RoundRobin
    /\ UNCHANGED <<silent, vendor>>

(* mutant: any frame of the drive counts as an answer to the combined poll *)
AppliedAnyFrame(t, combined, edge) ==
    /\ poll' = IF edge THEN SetLegacy(poll, t, FALSE) ELSE poll
    /\ missed' = [missed EXCEPT ![t] = 0]
(* What a frame of target t does to the polls in apply_rx: the combined reply
   answers for the drive, and a stale-to-fresh edge asks it the combined way
   again, since it may be back on other firmware. *)
Applied(t, combined, edge) ==
    /\ poll' = IF edge THEN SetLegacy(poll, t, FALSE) ELSE poll
    /\ missed' = [missed EXCEPT ![t] = IF combined \/ edge THEN 0 ELSE @]

(* A drive's answer to the last request, or to its joint command. *)
Frame(t, edge) ==
    /\ ~silent
    /\ \E combined \in BOOLEAN :
         /\ combined => asked = [target |-> t, kind |-> "telemetry"] /\ t \notin vendor
         /\ Applied(t, combined, edge)
         /\ blind' = [blind EXCEPT ![t] = IF combined \/ edge THEN 0 ELSE @]
         /\ asked' = IF asked.target = t THEN NoRequest ELSE asked
    /\ UNCHANGED <<silent, vendor>>

(* FLASHING: the flasher rewrites drives while the bus is silent; the silent
   drain discards whatever was on the wire. *)
SetSilent(on) ==
    /\ silent # on
    /\ silent' = on /\ asked' = NoRequest
    /\ \E v \in IF on THEN {vendor} ELSE SUBSET T : vendor' = v
    /\ UNCHANGED <<poll, missed, blind>>

Next ==
    \/ QueuePollOverride \/ PollStep
    \/ \E t \in T, edge \in BOOLEAN : Frame(t, edge)
    \/ \E on \in BOOLEAN : SetSilent(on)

Spec == Init /\ [][Next]_vars

-----------------------------------------------------------------------------
(* A drive whose firmware has no combined reply -- from the start, or since a
   reflash nothing announced -- is asked for its faults the vendor's way after
   at most FallbackPolls + 1 polls it could not answer: a motor fault does not
   go unseen because the scheduler believes an old answer. *)
FaultsStayVisible == \A t \in T : blind[t] <= FallbackPolls + 1
=============================================================================
