------------------------------ MODULE SampleQueue ------------------------------
(***************************************************************************)
(* What the sample ring promises (crates/par6-rt/src/ring.rs): a bounded   *)
(* FIFO of samples in which every sample carries the generation it was     *)
(* pushed under, and a flush that discards from the front only samples     *)
(* whose generation was marked.  A sample of a generation opened after the *)
(* last mark can therefore be popped, never discarded.                     *)
(***************************************************************************)
EXTENDS Naturals, Sequences

CONSTANTS Capacity, Sample

VARIABLES queue,        \* samples with their generation, oldest first
          generation,   \* the generation of the next push
          marked,       \* newest generation marked for discard
          popped        \* everything the consumer played, in order

vars == <<queue, generation, marked, popped>>

Init == queue = <<>> /\ generation = 1 /\ marked = 0 /\ popped = <<>>

Push ==
  /\ Len(queue) < Capacity
  /\ \E sample \in Sample :
       queue' = Append(queue, [sample |-> sample, generation |-> generation])
  /\ UNCHANGED <<generation, marked, popped>>

BeginGeneration ==
  /\ generation' = generation + 1
  /\ UNCHANGED <<queue, marked, popped>>

\* A mark names a generation already open; marks never shrink.
Mark ==
  /\ marked' \in marked..generation
  /\ UNCHANGED <<queue, generation, popped>>

Pop ==
  /\ queue # <<>>
  /\ popped' = Append(popped, Head(queue).sample)
  /\ queue' = Tail(queue)
  /\ UNCHANGED <<generation, marked>>

Discard ==
  /\ \E n \in 1..Len(queue) :
       /\ \A k \in 1..n : queue[k].generation <= marked
       /\ queue' = SubSeq(queue, n + 1, Len(queue))
  /\ UNCHANGED <<generation, marked, popped>>

Next == Push \/ BeginGeneration \/ Mark \/ Pop \/ Discard

Spec == Init /\ [][Next]_vars
=============================================================================
