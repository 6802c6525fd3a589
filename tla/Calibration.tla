----------------------------- MODULE Calibration -----------------------------
(***************************************************************************)
(* Payload identification (par6d calibrate.rs): a client-side procedure    *)
(* that borrows the session's completion policy and motion profile, swings *)
(* the arm through measurement poses, and puts everything back on the way  *)
(* out of every error path.  The runtime it drives is a few facts: the     *)
(* policy, the profile, the declared payload and whether the arm moves.    *)
(*                                                                         *)
(* A system call is confirmed, refused, or unconfirmed: its request or its *)
(* ack was lost (Client::system).  A measurement pose is two sweeps.       *)
(***************************************************************************)
EXTENDS Integers, Sequences

CONSTANTS Poses,       \* poses planned
          MaxLosses    \* bound: datagrams lost

VARIABLES pc,        \* the call the procedure is at
          sweep,     \* sweeps finished
          result,    \* "ok" until an error is carried out
          robot, losses,
          adrift     \* history: a stop, a restore or the move home went unconfirmed

vars == <<pc, sweep, result, robot, losses, adrift>>

Init ==
  /\ pc = "declared" /\ sweep = 0 /\ result = "ok" /\ losses = 0 /\ adrift = FALSE
  /\ robot = [policy |-> "theirs", profile |-> "theirs", payload |-> "theirs", moving |-> FALSE]

\* The outcomes of a call on the wire: what it returned, whether it ran.
Confirmed == [is |-> "confirmed", ran |-> TRUE, lost |-> 0]
Refused == [is |-> "refused", ran |-> FALSE, lost |-> 0]
Outcomes == {Confirmed, Refused,
             [is |-> "unconfirmed", ran |-> FALSE, lost |-> 1],
             [is |-> "unconfirmed", ran |-> TRUE, lost |-> 1]}

On(o) == losses + o.lost <= MaxLosses /\ losses' = losses + o.lost /\ UNCHANGED adrift

\* The same for a call that puts something back.
Back(o) == /\ losses + o.lost <= MaxLosses /\ losses' = losses + o.lost
           /\ adrift' = (adrift \/ o.is # "confirmed")

\* A query answers, or the procedure ends with nothing touched.
Query(here, next, out) ==
  /\ pc = here
  /\ \E o \in {Confirmed, Refused} :
       /\ On(o) /\ pc' = IF o.is = "confirmed" THEN next ELSE out
       /\ result' = IF o.is = "confirmed" THEN result ELSE "error"
  /\ UNCHANGED <<sweep, robot>>

ReadDeclared == Query("declared", "angles", "end")
ReadAngles == Query("angles", "plan", "end")

\* plan_poses: too few reachable, clear poses is an error; measure validates.
PlanPoses ==
  /\ pc = "plan"
  /\ \/ pc' = "policy" /\ result' = result
     \/ pc' = "end" /\ result' = "error"
  /\ UNCHANGED <<sweep, robot, losses, adrift>>

\* set_completion_policy: only a refusal ends the run here.
SetPolicy ==
  /\ pc = "policy"
  /\ \E o \in Outcomes :
       /\ On(o) /\ robot' = IF o.ran THEN [robot EXCEPT !.policy = "settled"] ELSE robot
       /\ pc' = IF o.is = "refused" THEN "end" ELSE "profile"
       /\ result' = IF o.is = "refused" THEN "error" ELSE result
  /\ UNCHANGED sweep

ReadProfile == Query("profile", "select", "unpolicy")

SelectProfile ==
  /\ pc = "select"
  /\ \E o \in Outcomes :
       /\ On(o) /\ robot' = IF o.ran THEN [robot EXCEPT !.profile = "ruckig"] ELSE robot
       /\ pc' = IF o.is = "refused" THEN "unpolicy" ELSE "approach"
       /\ result' = IF o.is = "refused" THEN "error" ELSE result
  /\ UNCHANGED sweep

\* move_to: queued, then waited for; a wait that fails stops the arm, an
\* unconfirmed move is left to the caller.
MoveTo(here, next, out, failed) ==
  /\ pc = here
  /\ \/ \E o \in Outcomes :
          /\ o.is # "confirmed" /\ IF here = "home" THEN Back(o) ELSE On(o)
          /\ robot' = IF o.ran THEN [robot EXCEPT !.moving = TRUE] ELSE robot
          /\ pc' = out /\ result' = "error"
     \/ On(Confirmed) /\ robot' = [robot EXCEPT !.moving = FALSE] /\ pc' = next /\ result' = result
     \/ On(Confirmed) /\ robot' = [robot EXCEPT !.moving = TRUE] /\ pc' = failed /\ result' = "error"
  /\ UNCHANGED sweep

Approach == MoveTo("approach", "sweep", "stop", "failstop")

\* stopped: one stop, whose confirmation is part of the answer.
Stop(here, next) ==
  /\ pc = here
  /\ \E o \in Outcomes :
       /\ Back(o) /\ robot' = IF o.ran THEN [robot EXCEPT !.moving = FALSE] ELSE robot
       /\ result' = IF o.is = "confirmed" THEN result ELSE "error"
       /\ pc' = next
  /\ UNCHANGED sweep

StopAfterMove == Stop("failstop", "stop")
StopAtHome == Stop("homestop", "end")

\* read_moving: the servo sweep gathers its frames, or loses readiness.
Sweep ==
  /\ pc = "sweep" /\ robot' = [robot EXCEPT !.moving = TRUE]
  /\ \/ pc' = "sweepstop" /\ result' = result
     \/ pc' = "sweepstop" /\ result' = "error"
  /\ UNCHANGED <<sweep, losses, adrift>>

\* measure_pose: the stop that ends a sweep, then the next approach.
StopAfterSweep ==
  /\ pc = "sweepstop"
  /\ \E o \in Outcomes :
       LET r == IF o.is = "confirmed" THEN result ELSE "error"
       IN  /\ Back(o) /\ robot' = IF o.ran THEN [robot EXCEPT !.moving = FALSE] ELSE robot
           /\ result' = r /\ sweep' = IF r = "ok" THEN sweep + 1 ELSE sweep
           /\ pc' = IF r = "ok" /\ sweep + 1 < 2 * Poses THEN "approach" ELSE "stop"

\* measure_on_the_measurement_profile: stopped, whatever the run came to.
StopRun == Stop("stop", "unselect")

(* mutant of RestoreProfile: an error leaves before the profile is put back *)
RestoreProfileOnOk ==
  /\ pc = "unselect"
  /\ \/ result = "error" /\ pc' = "unpolicy" /\ UNCHANGED <<robot, losses, adrift, result>>
     \/ /\ result = "ok"
        /\ \E o \in Outcomes :
             /\ Back(o) /\ robot' = IF o.ran THEN [robot EXCEPT !.profile = "theirs"] ELSE robot
             /\ result' = IF o.is = "refused" THEN "error" ELSE result
             /\ pc' = "unpolicy"
  /\ UNCHANGED sweep

RestoreProfile ==
  /\ pc = "unselect"
  /\ \E o \in Outcomes :
       /\ Back(o) /\ robot' = IF o.ran THEN [robot EXCEPT !.profile = "theirs"] ELSE robot
       /\ result' = IF o.is = "refused" THEN "error" ELSE result
       /\ pc' = "unpolicy"
  /\ UNCHANGED sweep

RestorePolicy ==
  /\ pc = "unpolicy"
  /\ \E o \in Outcomes :
       LET r == IF o.is = "refused" THEN "error" ELSE result
       IN  /\ Back(o) /\ robot' = IF o.ran THEN [robot EXCEPT !.policy = "theirs"] ELSE robot
           /\ result' = r /\ pc' = IF r = "ok" THEN "fit" ELSE "end"
  /\ UNCHANGED sweep

\* identify: the fit may fail before the arm goes back to the start.
Fit ==
  /\ pc = "fit"
  /\ \/ pc' = "home" /\ result' = result
     \/ pc' = "end" /\ result' = "error"
  /\ UNCHANGED <<sweep, robot, losses, adrift>>

GoHome == MoveTo("home", "judge", "end", "homestop")

\* estimate: a mass the poses did not measure is not declared.
Judge ==
  /\ pc = "judge"
  /\ \/ pc' = "declare" /\ result' = result
     \/ pc' = "end" /\ result' \in {"ok", "error"}
  /\ UNCHANGED <<sweep, robot, losses, adrift>>

Declare ==
  /\ pc = "declare"
  /\ \E o \in Outcomes :
       /\ On(o) /\ robot' = IF o.ran THEN [robot EXCEPT !.payload = "measured"] ELSE robot
       /\ pc' = IF o.is = "confirmed" THEN "end" ELSE "undeclare"
       /\ result' = IF o.is = "confirmed" THEN result ELSE "error"
  /\ UNCHANGED sweep

Undeclare ==
  /\ pc = "undeclare"
  /\ \E o \in Outcomes :
       /\ Back(o) /\ robot' = IF o.ran THEN [robot EXCEPT !.payload = "theirs"] ELSE robot
       /\ pc' = "end"
  /\ UNCHANGED <<sweep, result>>

Next ==
  \/ ReadDeclared \/ ReadAngles \/ PlanPoses \/ SetPolicy \/ ReadProfile \/ SelectProfile
  \/ Approach \/ StopAfterMove \/ Sweep \/ StopAfterSweep \/ StopRun
  \/ RestoreProfile \/ RestorePolicy \/ Fit \/ GoHome \/ StopAtHome
  \/ Judge \/ Declare \/ Undeclare

Spec == Init /\ [][Next]_vars

----------------------------------------------------------------------------
(* However the identification ends, with every step of it able to fail, the
   session is left as it was found: the arm stopped, the operator's profile
   and completion policy back, the payload theirs unless the run succeeded.
   An unconfirmed restore is the only way out of that. *)
LeftAsFound ==
  (pc = "end" /\ ~adrift)
     => /\ ~robot.moving /\ robot.policy = "theirs" /\ robot.profile = "theirs"
        /\ result = "error" => robot.payload = "theirs"
=============================================================================
