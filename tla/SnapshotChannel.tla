---------------------------- MODULE SnapshotChannel ----------------------------
(***************************************************************************)
(* The triple buffer through which the RT thread publishes its snapshots   *)
(* to one reader (crates/par6-rt/src/snapshot.rs).                         *)
(*                                                                         *)
(* Three slots; the writer owns one, the reader owns one, and `latest`     *)
(* names the third, with the FRESH bit.  Every access to shared memory is  *)
(* a step of its own.  A snapshot is larger than a word, so copying it in  *)
(* or out takes two steps, one per half: a torn read is a pair of halves   *)
(* of different snapshots.  The n-th snapshot is the number n; 0 is        *)
(* T::default().                                                           *)
(***************************************************************************)
EXTENDS Integers

CONSTANT MaxPublish   \* bound: snapshots published

ASSUME PublishAssumption == MaxPublish \in Nat

VARIABLES slots,      \* Shared.slots: slot -> the two halves it holds
          latest,     \* Shared.latest: [idx, fresh]
          writer,     \* SnapshotWriter: [pc, idx]
          reader,     \* SnapshotReader: [pc, idx]
          published,  \* snapshots swapped in so far
          view,       \* the halves the reader's last call returned
          since       \* published when the reader's current call began

vars == <<slots, latest, writer, reader, published, view, since>>

Slots == 0..2

Init ==
  /\ slots = [s \in Slots |-> <<0, 0>>]
  /\ latest = [idx |-> 0, fresh |-> FALSE]
  /\ writer = [pc |-> "idle", idx |-> 1]
  /\ reader = [pc |-> "idle", idx |-> 2]
  /\ published = 0
  /\ view = <<0, 0>>
  /\ since = 0

-----------------------------------------------------------------------------
(* publish. *)

PublishBegins ==
  /\ writer.pc = "idle" /\ published < MaxPublish
  /\ slots' = [slots EXCEPT ![writer.idx] = <<published + 1, @[2]>>]
  /\ writer' = [writer EXCEPT !.pc = "half"]
  /\ UNCHANGED <<latest, reader, published, view, since>>

PublishWrites ==
  /\ writer.pc = "half"
  /\ slots' = [slots EXCEPT ![writer.idx] = <<@[1], published + 1>>]
  /\ writer' = [writer EXCEPT !.pc = "swap"]
  /\ UNCHANGED <<latest, reader, published, view, since>>

\* Mutant of PublishSwaps: the slot swapped in is written again.
PublishSwapsKeepsSlot ==
  /\ writer.pc = "swap"
  /\ latest' = [idx |-> writer.idx, fresh |-> TRUE]
  /\ writer' = [writer EXCEPT !.pc = "idle"]
  /\ published' = published + 1
  /\ UNCHANGED <<slots, reader, view, since>>

PublishSwaps ==
  /\ writer.pc = "swap"
  /\ latest' = [idx |-> writer.idx, fresh |-> TRUE]
  /\ writer' = [pc |-> "idle", idx |-> latest.idx]
  /\ published' = published + 1
  /\ UNCHANGED <<slots, reader, view, since>>

-----------------------------------------------------------------------------
(* take and latest: take returns None, and latest reads the slot the       *)
(* reader already owns, when nothing is fresh.                             *)

TakeLoads ==
  /\ reader.pc = "idle"
  /\ since' = published
  /\ reader' = [reader EXCEPT !.pc = IF latest.fresh THEN "swap" ELSE "stale"]
  /\ UNCHANGED <<slots, latest, writer, published, view>>

TakeReturnsNone ==
  /\ reader.pc = "stale"
  /\ reader' = [reader EXCEPT !.pc = "idle"]
  /\ UNCHANGED <<slots, latest, writer, published, view, since>>

\* Mutant of TakeSwaps: FRESH is not cleared, so the slot handed back is taken
\* for a new snapshot by the next call.
TakeSwapsKeepsFresh ==
  /\ reader.pc = "swap"
  /\ latest' = [latest EXCEPT !.idx = reader.idx]
  /\ reader' = [pc |-> "read", idx |-> latest.idx]
  /\ UNCHANGED <<slots, writer, published, view, since>>

TakeSwaps ==
  /\ reader.pc = "swap"
  /\ latest' = [idx |-> reader.idx, fresh |-> FALSE]
  /\ reader' = [pc |-> "read", idx |-> latest.idx]
  /\ UNCHANGED <<slots, writer, published, view, since>>

LatestReadsOwn ==
  /\ reader.pc = "stale"
  /\ reader' = [reader EXCEPT !.pc = "read"]
  /\ UNCHANGED <<slots, latest, writer, published, view, since>>

ReadBegins ==
  /\ reader.pc = "read"
  /\ view' = <<slots[reader.idx][1], view[2]>>
  /\ reader' = [reader EXCEPT !.pc = "rest"]
  /\ UNCHANGED <<slots, latest, writer, published, since>>

ReadReturns ==
  /\ reader.pc = "rest"
  /\ view' = <<view[1], slots[reader.idx][2]>>
  /\ reader' = [reader EXCEPT !.pc = "idle"]
  /\ UNCHANGED <<slots, latest, writer, published, since>>

-----------------------------------------------------------------------------

Publish == PublishBegins \/ PublishWrites \/ PublishSwaps

Take == TakeLoads \/ TakeReturnsNone \/ TakeSwaps \/ LatestReadsOwn
          \/ ReadBegins \/ ReadReturns

Next == Publish \/ Take

Spec == Init /\ [][Next]_vars

-----------------------------------------------------------------------------
(* Properties. *)

\* The shape of the state, and the ownership the unsafe blocks of publish and
\* take rely on: the writer's slot, the reader's slot and the slot in `latest`
\* are always three different slots.
TypeOK ==
  /\ slots \in [Slots -> Int \X Int]
  /\ latest \in [idx : Slots, fresh : BOOLEAN]
  /\ writer \in [pc : {"idle", "half", "swap"}, idx : Slots]
  /\ reader \in [pc : {"idle", "swap", "stale", "read", "rest"}, idx : Slots]
  /\ published \in Nat /\ since \in 0..published
  /\ view \in Int \X Int
  /\ writer.idx # reader.idx /\ writer.idx # latest.idx /\ reader.idx # latest.idx

\* No torn snapshot is ever returned: the two halves the reader copied out,
\* while publishes went on, belong to the same snapshot.
NeverTorn == reader.pc = "idle" => view[1] = view[2]

\* The reader is never left behind: what a call leaves the reader with, the
\* None of take included, is at least as new as the last snapshot published
\* before the call began.
NeverBehind == reader.pc = "idle" => view[1] >= since
=============================================================================
