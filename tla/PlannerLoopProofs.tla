--------------------------- MODULE PlannerLoopProofs ---------------------------
(***************************************************************************)
(* The planner loop implements the FIFO of module PlannerFifo, for every   *)
(* set of requests and any number of them.                                 *)
(***************************************************************************)
EXTENDS PlannerLoop, SequenceTheorems, TLAPS

-----------------------------------------------------------------------------
(* Sequences: what the refinement mapping batch \o deferred \o channel needs. *)

\* Appending at the right end of a concatenation.
LEMMA AppendConcat ==
  ASSUME NEW S, NEW a \in Seq(S), NEW b \in Seq(S), NEW x \in S
  PROVE  a \o Append(b, x) = Append(a \o b, x)
  OBVIOUS

\* The head of a non-empty sequence moved behind another one.
LEMMA MoveHead ==
  ASSUME NEW S, NEW a \in Seq(S), NEW b \in Seq(S), b # <<>>
  PROVE  Append(a, Head(b)) \o Tail(b) = a \o b
  OBVIOUS

\* The head of the last of three sequences moved to the end of the second.
LEMMA MoveAcross ==
  ASSUME NEW a \in Seq(Request), NEW b \in Seq(Request), NEW c \in Seq(Request),
         c # <<>>
  PROVE  (a \o Append(b, Head(c))) \o Tail(c) = (a \o b) \o c
<1>1. Head(c) \in Request /\ a \o b \in Seq(Request)
  OBVIOUS
<1>2. a \o Append(b, Head(c)) = Append(a \o b, Head(c))
  BY <1>1, AppendConcat
<1>3. QED
  BY <1>1, <1>2, MoveHead

\* Taking the head of a concatenation takes it from the left part.
LEMMA TakeHead ==
  ASSUME NEW S, NEW a \in Seq(S), NEW b \in Seq(S), a # <<>>
  PROVE  /\ a \o b # <<>>
         /\ Head(a \o b) = Head(a)
         /\ Tail(a \o b) = Tail(a) \o b
  OBVIOUS

\* The empty sequence is a unit of concatenation.
LEMMA EmptyConcat ==
  ASSUME NEW S, NEW a \in Seq(S)
  PROVE  a \o <<>> = a /\ <<>> \o a = a
  OBVIOUS

-----------------------------------------------------------------------------
(* The type invariant. *)

\* The loop's state keeps its shape, and no pass begins on an unfinished batch.
THEOREM TypeCorrect == Spec => []TypeOK
<1>1. Init => TypeOK
  <2>1. <<>> \in Seq(Request)
    BY EmptySeq
  <2>2. 0 \in Nat
    OBVIOUS
  <2>3. QED
    BY <2>1, <2>2, Zenon DEF Init, TypeOK
<1>2. TypeOK /\ [Next]_vars => TypeOK'
  <2> SUFFICES ASSUME TypeOK, [Next]_vars PROVE TypeOK'
    OBVIOUS
  <2> USE DEF TypeOK
  <2>1. ASSUME NEW r \in Request, Send(r) PROVE TypeOK'
    BY <2>1 DEF Send
  <2>2. CASE BeginPass
    BY <2>2 DEF BeginPass, HoldsExpensive
  <2>3. CASE Defer
    <3>1. Head(channel) \in Request /\ Tail(channel) \in Seq(Request)
      BY <2>3, HeadTailProperties DEF Defer
    <3>2. QED
      BY <2>3, <3>1 DEF Defer
  <2>4. CASE Take
    <3>1. Head(channel) \in Request /\ Tail(channel) \in Seq(Request)
      BY <2>4, HeadTailProperties DEF Take
    <3>2. QED
      BY <2>4, <3>1 DEF Take
  <2>5. CASE Drained
    BY <2>5 DEF Drained
  <2>6. CASE Service
    <3>1. Head(batch) \in Request /\ Tail(batch) \in Seq(Request)
      BY <2>6, HeadTailProperties DEF Service
    <3>2. QED
      BY <2>6, <3>1 DEF Service
  <2>7. CASE PollAndSleep
    BY <2>7 DEF PollAndSleep
  <2>8. CASE UNCHANGED vars
    BY <2>8 DEF vars
  <2>9. QED
    BY <2>1, <2>2, <2>3, <2>4, <2>5, <2>6, <2>7, <2>8 DEF Next, Loop
<1>3. QED
  BY <1>1, <1>2, PTL DEF Spec

-----------------------------------------------------------------------------
(* Refinement. *)

\* Every run of the loop is a run of the FIFO: requests leave the plane in the
\* order the server sent them, none twice and none lost, however the passes
\* batch and defer them.  BeginPass, Defer and Take only move a request from
\* one part of the mapped queue to the next; Send and Service are the FIFO's.
THEOREM LoopIsFifo == Spec => ServicedInOrder
<1> DEFINE q == batch \o deferred \o channel
<1>1. Init => Fifo!Init
  BY DEF Init, Fifo!Init
<1>2. TypeOK /\ TypeOK' /\ [Next]_vars => [Fifo!Next]_<<q, serviced>>
  <2> SUFFICES ASSUME TypeOK, TypeOK', [Next]_vars
               PROVE  Fifo!Next \/ UNCHANGED <<q, serviced>>
    OBVIOUS
  <2> USE DEF TypeOK
  <2>0. batch \o deferred \in Seq(Request)
    OBVIOUS
  <2>1. ASSUME NEW r \in Request, Send(r) PROVE Fifo!Next
    <3>1. q' = Append(q, r)
      BY <2>0, <2>1, AppendConcat DEF Send
    <3>2. QED
      BY <2>1, <3>1 DEF Send, Fifo!Next, Fifo!Send
  <2>2. CASE BeginPass
    <3>1. batch \o deferred = deferred /\ deferred \o <<>> = deferred
      BY <2>2, EmptyConcat DEF BeginPass
    <3>2. QED
      BY <2>2, <3>1 DEF BeginPass
  <2>3. CASE Defer
    <3>1. /\ batch \in Seq(Request) /\ deferred \in Seq(Request)
          /\ channel \in Seq(Request) /\ channel # <<>>
      BY <2>3 DEF Defer
    <3> HIDE DEF TypeOK
    <3>2. (batch \o Append(deferred, Head(channel))) \o Tail(channel) = q
      BY <3>1, MoveAcross, Zenon
    <3>3. QED
      BY <2>3, <3>2 DEF Defer
  <2>4. CASE Take
    <3>1. deferred = <<>>
      BY <2>4 DEF Take, MustDefer
    <3>2. Append(batch, Head(channel)) \in Seq(Request)
      BY <2>4, HeadTailProperties DEF Take
    <3>3. batch \o deferred = batch
             /\ Append(batch, Head(channel)) \o deferred = Append(batch, Head(channel))
      BY <3>1, <3>2, EmptyConcat
    <3>4. Append(batch, Head(channel)) \o Tail(channel) = batch \o channel
      BY <2>4, MoveHead DEF Take
    <3>5. q' = (Append(batch, Head(channel)) \o deferred) \o Tail(channel)
      BY <2>4 DEF Take
    <3>6. q' = q
      BY <3>3, <3>4, <3>5
    <3>7. QED
      BY <2>4, <3>6 DEF Take
  <2>5. CASE Drained
    BY <2>5 DEF Drained
  <2>6. CASE Service
    <3>1. /\ batch \o deferred # <<>>
          /\ Head(batch \o deferred) = Head(batch)
          /\ Tail(batch \o deferred) = Tail(batch) \o deferred
      BY <2>6, TakeHead DEF Service
    <3> HIDE DEF TypeOK
    <3>2. /\ q # <<>>
          /\ Head(q) = Head(batch \o deferred)
          /\ Tail(q) = Tail(batch \o deferred) \o channel
      <4>1. channel \in Seq(Request)
        BY DEF TypeOK
      <4>2. QED
        BY <2>0, <3>1, <4>1, TakeHead, Zenon
    <3>3. QED
      BY <2>6, <3>1, <3>2 DEF Service, Fifo!Next, Fifo!Service
  <2>7. CASE PollAndSleep
    BY <2>7 DEF PollAndSleep
  <2>8. CASE UNCHANGED vars
    BY <2>8 DEF vars
  <2>9. QED
    BY <2>1, <2>2, <2>3, <2>4, <2>5, <2>6, <2>7, <2>8 DEF Next, Loop
<1>3. QED
  BY <1>1, <1>2, TypeCorrect, PTL DEF Spec, ServicedInOrder, Fifo!Spec
=============================================================================
