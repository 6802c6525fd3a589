------------------------------- MODULE BoxIo -------------------------------
(***************************************************************************)
(* The control box's lines: the e-stop input and the declared digital      *)
(* lines, read, debounced and driven once per tick by the RT thread, with  *)
(* reads and writes that fail, and the probe that finds the chip they all  *)
(* come off.                                                               *)
(***************************************************************************)
EXTENDS Naturals, Sequences

CONSTANTS
  Reads,      \* DEBOUNCE_READS
  Chips,      \* the box's gpiochips, by number: "header", "other", "unnamed", "absent"
  Named,      \* PAR6_GPIO_CHIP: a chip's number, or NoChip
  MaxWrites   \* bound on write_io commands

VARIABLES
  chip,       \* the chip opened: <<>> before, <<NoChip>> refused
  line,       \* the electrical level of ESTOP_1 and of the one input (external)
  estop,      \* the e-stop's debouncer: stable level or <<>>, candidate, streak
  input,      \* the input's debouncer
  hw_estop,   \* the condition of the last tick
  out,        \* the output: published level, dirty flag, level on the pin
  told,       \* a failing read or write was logged
  estops,     \* the e-stop's raw reads, the last Reads of them
  held,       \* the input was published high and its pin has been high ever since
  writes

vars == <<chip, line, estop, input, hw_estop, out, told, estops, held, writes>>

-----------------------------------------------------------------------------
(* Opening. *)

CandidateOrder == <<4, 0, 1, 2, 3>>   \* CHIP_CANDIDATES, in the vendor's order

NoChip == 100

\* A chip that names its line otherwise is another chip; one that names none passes.
IsHeader(n) == Chips[n] \in {"header", "unnamed"}

\* header_chip: an explicit chip is taken at its word, else the first that answers.
HeaderChip ==
  IF Named # NoChip THEN <<Named>>
  ELSE LET answers == SelectSeq(CandidateOrder, LAMBDA n : n \in DOMAIN Chips /\ IsHeader(n))
       IN IF answers = <<>> THEN <<NoChip>> ELSE <<answers[1]>>

\* A line that cannot be opened is an error, never a line.
Openable(n) == n \in DOMAIN Chips /\ Chips[n] # "absent"

Open ==
  /\ chip = <<>>
  /\ chip' = IF Openable(HeaderChip[1]) THEN HeaderChip ELSE <<NoChip>>
  /\ UNCHANGED <<line, estop, input, hw_estop, out, told, estops, held, writes>>

Running == chip # <<>> /\ chip # <<NoChip>>

-----------------------------------------------------------------------------
(* The debouncer. *)

Unseeded == [stable |-> <<>>, candidate |-> FALSE, streak |-> 0]

\* Mutant of Streak: a break does not start the count again.
StreakKept(d, raw) == IF d.streak < Reads THEN d.streak + 1 ELSE Reads

Streak(d, raw) ==
  IF raw # d.candidate THEN 1 ELSE IF d.streak < Reads THEN d.streak + 1 ELSE Reads

\* The first read seeds; a new level needs Reads reads in a row.
Update(d, raw) ==
  IF d.stable = <<>>
  THEN [stable |-> <<raw>>, candidate |-> raw, streak |-> Reads]
  ELSE [stable |-> IF raw # d.stable[1] /\ Streak(d, raw) >= Reads THEN <<raw>> ELSE d.stable,
        candidate |-> raw, streak |-> Streak(d, raw)]

-----------------------------------------------------------------------------
(* A tick. *)

\* A line that cannot be read is reported pressed.
ReadEstop(ok) == ok /\ line.estop

\* read_inputs leaves the buffer alone when it fails, and the caller's buffer is
\* zeroed every tick.
ReadInput(ok) == ok /\ line.input

Recent(seq, x) == SubSeq(Append(seq, x), IF Len(seq) >= Reads THEN 2 ELSE 1, Len(seq) + 1)

\* EstopMonitor::pressed and read_io_inputs.
Reading(eok, iok) ==
  /\ estop' = Update(estop, ReadEstop(eok))
  /\ hw_estop' = ~estop'.stable[1]
  /\ input' = Update(input, ReadInput(iok))
  /\ estops' = Recent(estops, ReadEstop(eok))
  /\ held' = (line.input /\ (held \/ input'.stable[1]))

\* drive_io_outputs: only when a level moved, and once.
Driving(ok) ==
  out' = IF ~out.dirty THEN out
         ELSE [out EXCEPT !.dirty = FALSE, !.pin = IF ok THEN out.level ELSE @]

Tick ==
  /\ Running
  /\ \E eok, iok, wok \in BOOLEAN :
       /\ Reading(eok, iok) /\ Driving(wok)
       /\ told' = [estop |-> ~eok, input |-> ~iok, output |-> IF out.dirty THEN ~wok ELSE told.output]
  /\ UNCHANGED <<chip, line, writes>>

\* set_io_output, from a write_io the command plane accepted.
SetIoOutput ==
  /\ Running /\ writes < MaxWrites /\ writes' = writes + 1
  /\ \E level \in BOOLEAN :
       out' = IF level = out.level THEN out ELSE [out EXCEPT !.level = level, !.dirty = TRUE]
  /\ UNCHANGED <<chip, line, estop, input, hw_estop, told, estops, held>>

\* The button, the wiring, a contact that bounces (external).
Wire ==
  /\ line' \in [estop : BOOLEAN, input : BOOLEAN] \ {line}
  /\ UNCHANGED <<chip, estop, input, hw_estop, out, told, estops, held, writes>>

Init ==
  /\ chip = <<>> /\ line \in [estop : BOOLEAN, input : BOOLEAN]
  /\ estop = Unseeded /\ input = Unseeded /\ hw_estop = FALSE
  /\ out = [level |-> FALSE, dirty |-> FALSE, pin |-> FALSE]
  /\ told = [estop |-> FALSE, input |-> FALSE, output |-> FALSE]
  /\ estops = <<>> /\ held = FALSE /\ writes = 0

Next == Open \/ Tick \/ SetIoOutput \/ Wire

Spec == Init /\ [][Next]_vars

-----------------------------------------------------------------------------
(* Properties. *)

All(seq, x) == \A i \in DOMAIN seq : seq[i] = x

\* The button held down, or a line that cannot be read, is an e-stop within
\* DEBOUNCE_READS ticks, and after the first read the condition changes only on as many
\* reads that agree: a bounce neither trips nor releases it (Debouncer::update,
\* EstopMonitor::pressed).
Debounced ==
  LET full == Len(estops') = Reads IN
  /\ full /\ All(estops', FALSE) => hw_estop'
  /\ full /\ All(estops', TRUE) => ~hw_estop'
  /\ hw_estop' # hw_estop /\ estops # <<>> => full /\ All(estops', ~hw_estop')

PressIsSeen == [][Debounced]_vars

\* What the driver says of a failed read, that the last good reading stands: an input
\* published high stays high while its pin is, whatever reads fail (ChardevIo::read_inputs,
\* read_io_inputs).
LastLevelsHeld == held => input.stable = <<TRUE>>

=============================================================================
