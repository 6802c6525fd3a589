------------------------------ MODULE Capture ------------------------------
(***************************************************************************)
(* The loop-rate capture of a drive: recorded by the drive's control loop, *)
(* sent back pair by pair on request or as one stream, assembled by the    *)
(* backend, pairs the bus drops asked for again.  The host asks the way    *)
(* the repository's own host does (tests/sim_bus.rs, capture_step): it     *)
(* reads once the status says the drive is done, and starts again on a     *)
(* drained bus.                                                            *)
(***************************************************************************)
EXTENDS Naturals, Sequences

CONSTANTS
  CaptureLen,   \* CAPTURE_LEN: samples the drive's buffer holds
  Wanted,       \* lengths asked for
  Divisors,     \* control loops per sample asked for
  PerTick,      \* stream frames of one tick
  MaxCaptures,  \* bound: captures started
  MaxDrops      \* bound: replies the bus drops

VARIABLES
  drive,    \* the drive's recorder
  stream,   \* where the drive's stream stands: <<>> or <<channel, chunk>>
  rx,       \* replies on their way
  buf,      \* the backend's CaptureBuffer
  left      \* captures and drops left

vars == <<drive, stream, rx, buf, left>>

Channels == 0..2
Status == 255
Zero == <<0, 0, 0>>

\* A sample is known by its capture, its channel and its place.
Sample(ch, i) == IF i < drive.pos THEN <<drive.capture, ch, i>> ELSE Zero

Cleared ==
  [recorded |-> 0, wanted |-> 0,
   rows |-> [ch \in Channels |-> [i \in 0..(CaptureLen - 1) |-> Zero]],
   received |-> [ch \in Channels |-> {}]]

DivCeil2(n) == (n + 1) \div 2

\* Mutant of Chunks: the last sample of an odd count is nobody's.
ChunksFloor == buf.recorded \div 2

Chunks == DivCeil2(buf.recorded)

Missing(ch) == {c \in 0..(Chunks - 1) : c \notin buf.received[ch]}

-----------------------------------------------------------------------------
(* The drive. *)

\* capture_reply: zero past what was recorded.
CaptureReply(ch, chunk) ==
  IF ch = Status THEN [ch |-> Status, recorded |-> drive.pos, wanted |-> drive.wanted]
  ELSE [ch |-> ch, chunk |-> chunk, samples |-> <<Sample(ch, 2 * chunk), Sample(ch, 2 * chunk + 1)>>]

CapturePairs == DivCeil2(drive.pos)

\* A reply is queued or, while drops are left, lost.
Enqueue(fs) ==
  \/ rx' = rx \o fs /\ UNCHANGED left
  \/ /\ fs # <<>> /\ left.drops > 0
     /\ rx' = rx \o Tail(fs)
     /\ left' = [left EXCEPT !.drops = @ - 1]

RecordCapture ==
  /\ drive.pos < drive.wanted
  /\ drive' = IF drive.tick + 1 >= drive.div
              THEN [drive EXCEPT !.tick = 0, !.pos = @ + 1]
              ELSE [drive EXCEPT !.tick = @ + 1]
  /\ UNCHANGED <<stream, rx, buf, left>>

\* Channels in order, pairs in order, up to the last recorded.
Frames ==
  LET pairs == CapturePairs
      at    == stream[1] * pairs + stream[2]
      upto  == IF at + PerTick > 3 * pairs THEN 3 * pairs ELSE at + PerTick
  IN [k \in 1..(upto - at) |-> CaptureReply((at + k - 1) \div pairs, (at + k - 1) % pairs)]

PumpStreams ==
  /\ stream # <<>>
  /\ LET pairs == CapturePairs
         next  == stream[1] * pairs + stream[2] + Len(Frames)
     IN stream' = IF next >= 3 * pairs THEN <<>> ELSE <<next \div pairs, next % pairs>>
  /\ Enqueue(Frames)
  /\ UNCHANGED <<drive, buf>>

-----------------------------------------------------------------------------
(* The backend and its host. *)

Started(d, w) ==
  [capture |-> drive.capture + 1, pos |-> 0, tick |-> 0,
   wanted |-> IF w > CaptureLen THEN CaptureLen ELSE w,
   div    |-> IF d = 0 THEN 1 ELSE d]

CanStart == left.captures > 0 /\ rx = <<>>

\* Mutant of CaptureStart: a stream under way goes on into the new capture.
CaptureStartStreaming(d, w) ==
  /\ CanStart
  /\ buf' = Cleared /\ drive' = Started(d, w)
  /\ left' = [left EXCEPT !.captures = @ - 1]
  /\ UNCHANGED <<stream, rx>>

\* capture_start: the buffer and the stream of the capture before are forgotten.
CaptureStart(d, w) ==
  /\ CanStart
  /\ stream' = <<>> /\ buf' = Cleared /\ drive' = Started(d, w)
  /\ left' = [left EXCEPT !.captures = @ - 1]
  /\ UNCHANGED rx

\* What the status says: the drive stopped by itself at the length asked for.
Stopped == buf.wanted > 0 /\ buf.recorded = buf.wanted

Ask(ch, chunk) == Enqueue(<<CaptureReply(ch, chunk)>>) /\ UNCHANGED <<drive, stream, buf>>

ReadStatus == drive.capture > 0 /\ rx = <<>> /\ Ask(Status, 0)

ReadMissing ==
  /\ Stopped /\ stream = <<>> /\ rx = <<>>
  /\ \E ch \in Channels : \E c \in Missing(ch) : Ask(ch, c)

CaptureStream ==
  /\ Stopped /\ stream = <<>> /\ rx = <<>> /\ Missing(0) # {}
  /\ stream' = <<0, 0>>
  /\ UNCHANGED <<drive, rx, buf, left>>

\* store: both samples of the pair, past the end nothing.
Store(f) ==
  [buf EXCEPT
     !.rows[f.ch] = [i \in DOMAIN @ |-> IF i \div 2 = f.chunk THEN f.samples[(i % 2) + 1] ELSE @[i]],
     !.received[f.ch] = @ \cup {f.chunk}]

SetStatus(f) == [buf EXCEPT !.recorded = f.recorded, !.wanted = f.wanted]

DrainRx ==
  /\ rx # <<>>
  /\ buf' = IF Head(rx).ch = Status THEN SetStatus(Head(rx)) ELSE Store(Head(rx))
  /\ rx' = Tail(rx)
  /\ UNCHANGED <<drive, stream, left>>

Init ==
  /\ drive = [capture |-> 0, pos |-> 0, tick |-> 0, wanted |-> 0, div |-> 1]
  /\ stream = <<>> /\ rx = <<>> /\ buf = Cleared
  /\ left = [captures |-> MaxCaptures, drops |-> MaxDrops]

Next ==
  \/ \E d \in Divisors, w \in Wanted : CaptureStart(d, w)
  \/ RecordCapture \/ PumpStreams
  \/ ReadStatus \/ ReadMissing \/ CaptureStream \/ DrainRx

Spec == Init /\ [][Next]_vars

-----------------------------------------------------------------------------

\* A capture the buffer calls complete (the drive stopped, no pair missing in any
\* channel) is whole and the last one started: every row holds that capture's own
\* sample, whatever the bus dropped, however stream and single reads mixed, and
\* whatever stream an earlier capture left under way (capture_start, store, missing).
ReadBackIsWhole ==
  (Stopped /\ \A ch \in Channels : Missing(ch) = {})
    => \A ch \in Channels : \A i \in 0..(buf.recorded - 1) :
         buf.rows[ch][i] = <<drive.capture, ch, i>>

=============================================================================
