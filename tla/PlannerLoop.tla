------------------------------ MODULE PlannerLoop ------------------------------
(***************************************************************************)
(* planner_loop (crates/par6-server/src/plane.rs): the planner thread's    *)
(* pass, while the server task keeps sending.  A pass drains the channel   *)
(* into an ordered batch, deferring what it may not take, services the     *)
(* batch, polls once and sleeps.                                           *)
(*                                                                         *)
(* A request is its identity and whether servicing it can take long        *)
(* (is_expensive: Start, QueueEstimate, SetShapes).  What a service does   *)
(* to the planner is in module CommandPlane.                               *)
(***************************************************************************)
EXTENDS Naturals, Sequences, FiniteSets

CONSTANTS Request,     \* the requests the server sends
          Expensive,   \* those for which is_expensive holds
          MaxSent      \* bound: requests sent

ASSUME RequestAssumption == Expensive \subseteq Request /\ MaxSent \in Nat

VARIABLES channel,     \* mpsc receiver
          deferred,    \* drained, not serviced, in arrival order
          batch,       \* taken into this pass, not yet serviced
          have_expensive,
          pc,          \* where the thread stands in its pass
          serviced     \* history: the order of service

vars == <<channel, deferred, batch, have_expensive, pc, serviced>>

Init ==
  /\ channel = <<>> /\ deferred = <<>> /\ batch = <<>>
  /\ have_expensive = FALSE
  /\ pc = "top"
  /\ serviced = <<>>

Sent == Len(serviced) + Len(batch) + Len(deferred) + Len(channel)

\* PlannerHandle::send, at any moment of the loop.
Send(r) ==
  /\ Sent < MaxSent
  /\ channel' = Append(channel, r)
  /\ UNCHANGED <<deferred, batch, have_expensive, pc, serviced>>

HoldsExpensive(q) == \E k \in 1..Len(q) : q[k] \in Expensive

\* Mutant of BeginPass: what the last pass deferred is dropped.
BeginPassForgets ==
  /\ pc = "top"
  /\ batch' = <<>>
  /\ deferred' = <<>>
  /\ have_expensive' = FALSE
  /\ pc' = "drain"
  /\ UNCHANGED <<channel, serviced>>

BeginPass ==
  /\ pc = "top"
  /\ batch' = deferred
  /\ deferred' = <<>>
  /\ have_expensive' = HoldsExpensive(deferred)
  /\ pc' = "drain"
  /\ UNCHANGED <<channel, serviced>>

\* Mutant of MustDefer: a cheap request is taken past a deferred one.
MustDeferExpensiveOnly(r) == r \in Expensive /\ have_expensive

\* Once anything is deferred, everything behind it is.
MustDefer(r) == deferred # <<>> \/ (r \in Expensive /\ have_expensive)

Defer ==
  /\ pc = "drain" /\ channel # <<>> /\ MustDefer(Head(channel))
  /\ deferred' = Append(deferred, Head(channel))
  /\ channel' = Tail(channel)
  /\ UNCHANGED <<batch, have_expensive, pc, serviced>>

Take ==
  /\ pc = "drain" /\ channel # <<>> /\ ~MustDefer(Head(channel))
  /\ batch' = Append(batch, Head(channel))
  /\ have_expensive' = (have_expensive \/ Head(channel) \in Expensive)
  /\ channel' = Tail(channel)
  /\ UNCHANGED <<deferred, pc, serviced>>

\* try_recv found the channel empty.
Drained ==
  /\ pc = "drain" /\ channel = <<>>
  /\ pc' = "service"
  /\ UNCHANGED <<channel, deferred, batch, have_expensive, serviced>>

Service ==
  /\ pc = "service" /\ batch # <<>>
  /\ serviced' = Append(serviced, Head(batch))
  /\ batch' = Tail(batch)
  /\ UNCHANGED <<channel, deferred, have_expensive, pc>>

\* Mutant of PollAndSleep: the pass ends with the batch half serviced.
PollAndSleepEarly ==
  /\ pc = "service"
  /\ pc' = "top"
  /\ UNCHANGED <<channel, deferred, batch, have_expensive, serviced>>

\* poll, poll_tool and the report, then the sleep to the next pass.
PollAndSleep ==
  /\ pc = "service" /\ batch = <<>>
  /\ pc' = "top"
  /\ UNCHANGED <<channel, deferred, batch, have_expensive, serviced>>

Loop == BeginPass \/ Defer \/ Take \/ Drained \/ Service \/ PollAndSleep

Next == (\E r \in Request : Send(r)) \/ Loop

Spec == Init /\ [][Next]_vars

\* The thread is scheduled; it blocks nowhere but in its own sleep.
FairSpec == Spec /\ WF_vars(Loop)

-----------------------------------------------------------------------------
(* Properties. *)

\* The shape of the loop's state.  A pass never begins on an unfinished batch:
\* BeginPass replaces the batch, so a request left in it would be lost.
TypeOK ==
  /\ channel \in Seq(Request) /\ deferred \in Seq(Request)
  /\ batch \in Seq(Request) /\ serviced \in Seq(Request)
  /\ have_expensive \in BOOLEAN
  /\ pc \in {"top", "drain", "service"}
  /\ pc = "top" => batch = <<>>

\* The loop implements the FIFO the command plane relies on: whatever sits in
\* the batch is older than what was deferred, and that is older than what is
\* still in the channel, so a Cancel never overtakes the Start sent before it
\* and nothing is serviced twice or lost.
Fifo == INSTANCE PlannerFifo WITH queue <- batch \o deferred \o channel

ServicedInOrder == Fifo!Spec

\* Every request sent is serviced in the end, whatever was deferred around it.
EveryRequestServiced ==
  \A n \in 1..MaxSent : (Sent >= n) ~> (Len(serviced) >= n)
=============================================================================
