------------------------------ MODULE BusLink ------------------------------
(***************************************************************************)
(* The kernel link under the motor bus: the bring-up of the CAN interface  *)
(* and the one cycle a silent boot asks for, the monitor thread that       *)
(* samples the link's state and its cumulative counters, and the RT core's *)
(* bus-off latch, which reads what the monitor publishes.                  *)
(***************************************************************************)
EXTENDS Naturals

CONSTANTS
  Interfaces,    \* the interfaces a boot may find: present, up, rate, queue, counters
  MaxEvents,     \* bound on bus-off events and re-creations
  MaxClears      \* bound on latches cleared

VARIABLES
  iface,      \* the kernel's interface (external): its settings, state, counters
  opened,     \* the bus: "closed", "open", "refused"
  cycled,     \* the one cycle: "no", "done", "failed"
  shared,     \* what the monitor publishes: state, restarts, bus_off_events
  sampler,    \* previous state, counters of the last good sample, restart base
  query,      \* the netlink socket is open
  rt,         \* bus_off_events_seen and the BusOff latch
  unseen,     \* bus-offs since the last good sample, while the counters still run
  torn,       \* the counters started over since the last good sample
  reported,   \* bus-offs a good sample covered and no RT check followed
  missed,     \* an RT check let a covered bus-off pass
  events, clears

vars == <<iface, opened, cycled, shared, sampler, query, rt, unseen, torn, reported, missed,
          events, clears>>

-----------------------------------------------------------------------------
(* Bring-up. *)

\* ensure_txqueuelen: set when short, then read back; an unreadable queue is trusted.
QueueAfter(i, capable) ==
  IF i.queue = "short" /\ capable THEN [i EXCEPT !.queue = "long"] ELSE i

QueueAccepted(i) == i.queue # "short"

\* bring_up_timed: virtual interfaces have no bit timing to set.
TimedUp(i, capable) == QueueAfter([i EXCEPT !.up = TRUE, !.rate = IF @ = "none" THEN @ ELSE "want"],
                                  capable)

\* Mutant of EnsureUp: a live interface is taken as it is.
EnsureUpAsIs(capable) ==
  IF iface.up
  THEN opened' = "open" /\ UNCHANGED iface
  ELSE IF capable
  THEN iface' = TimedUp(iface, capable) /\ opened' = "open"
  ELSE opened' = "refused" /\ UNCHANGED iface

\* A live interface is never re-timed; a down one is timed and brought up, which
\* takes the capability.
EnsureUp(capable) ==
  IF ~iface.here \/ (iface.up /\ iface.rate = "other")
  THEN opened' = "refused" /\ UNCHANGED iface
  ELSE IF iface.up
  THEN /\ iface' = QueueAfter(iface, capable)
       /\ opened' = IF QueueAccepted(iface') THEN "open" ELSE "refused"
  ELSE IF capable
  THEN /\ iface' = TimedUp(iface, capable)
       /\ opened' = IF QueueAccepted(iface') THEN "open" ELSE "refused"
  ELSE opened' = "refused" /\ UNCHANGED iface

\* SocketCanBus::open: the interface, then the monitor.
Open ==
  /\ opened = "closed"
  /\ \E capable \in BOOLEAN : EnsureUp(capable)
  /\ UNCHANGED <<cycled, shared, sampler, query, rt, unseen, torn, reported, missed, events,
                 clears>>

Recreated(i) == [i EXCEPT !.offs = 0, !.errs = 0, !.restarts = 0, !.state = "up"]

\* recover_link: once, when the boot scan heard nobody; a step of the cycle that
\* fails leaves the link where it was stopped.
RecoverLink ==
  /\ opened = "open" /\ cycled = "no" /\ iface.here
  /\ \/ /\ cycled' = "done"
        /\ iface' = TimedUp(Recreated(iface), TRUE)
     \/ /\ cycled' = "failed"
        /\ \E up \in BOOLEAN : iface' = [iface EXCEPT !.up = up]
  /\ unseen' = 0 /\ torn' = TRUE
  /\ UNCHANGED <<opened, shared, sampler, query, rt, reported, missed, events, clears>>

-----------------------------------------------------------------------------
(* The kernel (external). *)

Kernel == UNCHANGED <<opened, cycled, shared, sampler, query, rt, reported, missed, clears>>

\* A bus-off counts at once; the auto-restart brings the controller back.
BusOff ==
  /\ iface.up /\ iface.state # "bus_off" /\ events < MaxEvents
  /\ iface' = [iface EXCEPT !.state = "bus_off", !.offs = @ + 1, !.errs = @ + 1]
  /\ unseen' = (IF torn THEN 0 ELSE unseen + 1) /\ events' = events + 1
  /\ UNCHANGED torn
  /\ Kernel

Restart ==
  /\ iface.state = "bus_off"
  /\ iface' = [iface EXCEPT !.state = "up", !.restarts = @ + 1]
  /\ UNCHANGED <<unseen, torn, events>> /\ Kernel

\* Someone takes the interface down and up again: its counters start over.
Recreate ==
  /\ iface.here /\ events < MaxEvents
  /\ iface' = Recreated(iface)
  /\ unseen' = 0 /\ torn' = TRUE /\ events' = events + 1
  /\ Kernel

-----------------------------------------------------------------------------
(* The monitor. *)

Counters(i) == [offs |-> i.offs, errs |-> i.errs, restarts |-> i.restarts]

\* counter_deltas: any counter that went back is a re-created interface.
Rebased(prev, now) ==
  \/ now.offs < prev.offs \/ now.errs < prev.errs \/ now.restarts < prev.restarts

NewBusOffs(prev, now) == IF Rebased(prev, now) THEN 0 ELSE now.offs - prev.offs

Since(r, base) == IF r > base THEN r - base ELSE 0

Recovered(state) == sampler.prev = "bus_off" /\ state # "bus_off"

\* The count stops at MaxEvents: nothing reads it but an operator.
Counted(n, state) == IF Recovered(state) /\ n < MaxEvents THEN n + 1 ELSE n

\* A good sample with counters.
AbsorbCounters(state, now) ==
  LET had   == sampler.counters # <<>>
      rebas == had /\ Rebased(sampler.counters[1], now)
      base  == IF rebas \/ sampler.base = <<>> THEN now.restarts ELSE sampler.base[1]
      added == IF had THEN NewBusOffs(sampler.counters[1], now) ELSE 0
  IN /\ sampler' = [prev |-> state, counters |-> <<now>>, base |-> <<base>>]
     /\ shared' = [state |-> state, restarts |-> Since(now.restarts, base),
                   events |-> shared.events + added]

\* An interface without counters: a restart is counted where its state shows it.
AbsorbState(state) ==
  /\ sampler' = [sampler EXCEPT !.prev = state, !.counters = <<>>]
  /\ shared' = [shared EXCEPT !.state = state, !.restarts = Counted(@, state)]

\* Mutant of AbsorbFailed: the baseline goes with the failed query.
AbsorbFailedForgets(state) ==
  /\ sampler' = [sampler EXCEPT !.prev = state, !.counters = <<>>]
  /\ shared' = [shared EXCEPT !.state = state, !.restarts = Counted(@, state)]

\* A failed query keeps the last good baseline.
AbsorbFailed(state) ==
  /\ sampler' = [sampler EXCEPT !.prev = state]
  /\ shared' = [shared EXCEPT !.state = state, !.restarts = Counted(@, state)]

\* nl.state(): an unreadable or stopped device has no meaningful state.
Sampled == {IF iface.up THEN iface.state ELSE "unknown", "unknown"}

\* One turn of sample_loop; a failed query is opened again on the next.
Sample ==
  /\ opened = "open"
  /\ \E state \in Sampled :
       \/ /\ iface.counters
          /\ AbsorbCounters(state, Counters(iface))
          /\ query' = TRUE
          /\ reported' = reported + (IF sampler.base # <<>> THEN unseen ELSE 0)
          /\ unseen' = 0 /\ torn' = FALSE
       \/ /\ ~iface.counters
          /\ AbsorbState(state)
          /\ query' = TRUE
          /\ UNCHANGED <<unseen, torn, reported>>
       \/ /\ query
          /\ AbsorbFailed(state)
          /\ query' = FALSE
          /\ UNCHANGED <<unseen, torn, reported>>
  /\ UNCHANGED <<iface, opened, cycled, rt, missed, events, clears>>

-----------------------------------------------------------------------------
(* The RT core. *)

Tripped == shared.state = "bus_off" \/ shared.events # rt.seen

\* The link part of the error phase.
Check ==
  /\ opened = "open"
  /\ rt' = IF Tripped THEN [seen |-> shared.events, latched |-> TRUE] ELSE rt
  /\ missed' = (missed \/ (reported > 0 /\ ~Tripped))
  /\ reported' = 0
  /\ UNCHANGED <<iface, opened, cycled, shared, sampler, query, unseen, torn, events, clears>>

Clear ==
  /\ rt.latched /\ clears < MaxClears
  /\ rt' = [rt EXCEPT !.latched = FALSE] /\ clears' = clears + 1
  /\ UNCHANGED <<iface, opened, cycled, shared, sampler, query, unseen, torn, reported, missed,
                 events>>

Fresh == /\ shared' = [state |-> "unknown", restarts |-> 0, events |-> 0]
         /\ sampler' = [prev |-> "unknown", counters |-> <<>>, base |-> <<>>]

\* replace_bus, with the interface opened anew: a new monitor, and the events of the old bus are no fault of the new.
ReplaceBus ==
  /\ opened = "open" /\ clears < MaxClears /\ clears' = clears + 1
  /\ \E capable \in BOOLEAN : EnsureUp(capable) /\ opened' = "open"
  /\ Fresh /\ query' = TRUE
  /\ rt' = [rt EXCEPT !.seen = 0]
  /\ unseen' = 0 /\ torn' = FALSE /\ reported' = 0 /\ cycled' = "no"
  /\ UNCHANGED <<missed, events>>

Init ==
  /\ iface \in Interfaces
  /\ opened = "closed" /\ cycled = "no"
  /\ shared = [state |-> "unknown", restarts |-> 0, events |-> 0]
  /\ sampler = [prev |-> "unknown", counters |-> <<>>, base |-> <<>>]
  /\ query = TRUE /\ rt = [seen |-> 0, latched |-> FALSE]
  /\ unseen = 0 /\ torn = FALSE /\ reported = 0 /\ missed = FALSE /\ events = 0 /\ clears = 0

Next ==
  \/ Open \/ RecoverLink \/ BusOff \/ Restart \/ Recreate
  \/ Sample \/ Check \/ Clear \/ ReplaceBus

Spec == Init /\ [][Next]_vars

-----------------------------------------------------------------------------
(* Properties. *)

\* Once the monitor has a baseline, a bus-off counted before the counters start over is latched by the
\* RT's first check after the first sample that succeeds, though the auto-restart was
\* over before it and queries failed in between (Sampler::absorb, counter_deltas, the
\* link check of the error phase).
BusOffNotMissed == ~missed

\* An open bus runs at the configured rate and with a queue its configuration burst
\* fits, whatever state the interface was found in, unless the cycle of a silent boot
\* was cut short (ensure_up, ensure_txqueuelen).
OpenAsConfigured ==
  opened = "open" /\ cycled # "failed" => iface.up /\ iface.rate # "other" /\ iface.queue # "short"

\* The link the RT thread trusts is the one it configured, and no bus-off of it goes by
\* between two samples (HwBus::open, LinkMonitor).
LinkIsTrusted == BusOffNotMissed /\ OpenAsConfigured
=============================================================================
