------------------------------ MODULE PlannerFifo ------------------------------
(***************************************************************************)
(* What the planner plane promises the command plane: requests are         *)
(* serviced one at a time, each exactly once, in the order they were sent. *)
(* Module CommandPlane uses its request channel this way; module           *)
(* PlannerLoop shows that the loop of crates/par6-server/src/plane.rs, with *)
(* its batches and its deferred queue, keeps the promise.                  *)
(***************************************************************************)
EXTENDS Naturals, Sequences

CONSTANT Request

VARIABLES queue,      \* sent and not yet serviced
          serviced    \* everything serviced, in order

Init == queue = <<>> /\ serviced = <<>>

Send == \E r \in Request : queue' = Append(queue, r) /\ UNCHANGED serviced

Service ==
  /\ queue # <<>>
  /\ serviced' = Append(serviced, Head(queue))
  /\ queue' = Tail(queue)

Next == Send \/ Service

Spec == Init /\ [][Next]_<<queue, serviced>>
=============================================================================
