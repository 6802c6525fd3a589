-------------------------------- MODULE MCRt --------------------------------
(***************************************************************************)
(* The RT thread for TLC: the core's mode machine (the extended module)    *)
(* and the stop path across server, planner and RT.  A behaviour is one    *)
(* component's: `part` names it, the other rests.                          *)
(***************************************************************************)
EXTENDS RtCore

CONSTANTS Parts,
          StopMoves, StopTrajLen, StopRing, StopStops, StopPlanning, StopSettles

\* A trajectory and the sample ring hold at least one sample.
ASSUME StopAssumption ==
  /\ StopMoves \in Nat /\ StopTrajLen \in Nat \ {0} /\ StopRing \in Nat \ {0}
  /\ StopStops \in Nat

VARIABLE part

Off == "off"

-----------------------------------------------------------------------------
VARIABLES
  stop_queued, stop_pending, stop_planning, stop_executing, stop_dropped, stop_unplanned,
  stop_done, stop_stops, stop_requests, stop_events, stop_inflight, stop_fill, stop_flush,
  stop_ring, stop_rtq, stop_rt, stop_snap, stop_played, stop_flushed

Stop == INSTANCE StopPath WITH
  queued <- stop_queued, pending <- stop_pending, planning <- stop_planning,
  executing <- stop_executing, dropped <- stop_dropped, unplanned <- stop_unplanned,
  done <- stop_done, stops <- stop_stops, requests <- stop_requests, events <- stop_events,
  inflight <- stop_inflight, fill <- stop_fill, flush <- stop_flush, ring <- stop_ring,
  rtq <- stop_rtq, rt <- stop_rt, snap <- stop_snap, played <- stop_played,
  flushed <- stop_flushed, Moves <- StopMoves, TrajLen <- StopTrajLen,
  RingCapacity <- StopRing, MaxStops <- StopStops, StopWhilePlanning <- StopPlanning,
  Settles <- StopSettles

stopVars ==
  <<stop_queued, stop_pending, stop_planning, stop_executing, stop_dropped, stop_unplanned,
    stop_done, stop_stops, stop_requests, stop_events, stop_inflight, stop_fill, stop_flush,
    stop_ring, stop_rtq, stop_rt, stop_snap, stop_played, stop_flushed>>

StopOff ==
  /\ stop_queued = Off /\ stop_pending = Off /\ stop_planning = Off /\ stop_executing = Off
  /\ stop_dropped = Off /\ stop_unplanned = Off /\ stop_done = Off /\ stop_stops = Off
  /\ stop_requests = Off /\ stop_events = Off /\ stop_inflight = Off /\ stop_fill = Off
  /\ stop_flush = Off /\ stop_ring = Off /\ stop_rtq = Off /\ stop_rt = Off
  /\ stop_snap = Off /\ stop_played = Off /\ stop_flushed = Off

-----------------------------------------------------------------------------

MCInit ==
  /\ part \in Parts
  /\ Init
  /\ IF part = "stop" THEN Stop!Init ELSE StopOff

MCNext ==
  /\ UNCHANGED part
  /\ IF part = "core" THEN Next ELSE UNCHANGED vars
  /\ IF part = "stop" THEN Stop!Next ELSE UNCHANGED stopVars

mcvars == <<part, vars, stopVars>>

MCSpec == MCInit /\ [][MCNext]_mcvars

-----------------------------------------------------------------------------
(* Properties; the core's are RtCore's own. *)

\* A stop cuts exactly what it should, however late its flush lands and whatever the
\* planner filled meanwhile (StopPath!StopIsExact).
StopIsExact == part = "stop" => Stop!StopIsExact
=============================================================================
