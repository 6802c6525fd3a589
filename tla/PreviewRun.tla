----------------------------- MODULE PreviewRun -----------------------------
(***************************************************************************)
(* The offline physics run (par6d preview/run.rs, preview/driver.rs and    *)
(* preview/record.rs): a whole program pumped through the planner against  *)
(* a private engine, one engine tick per round, with a tick budget, and a  *)
(* record of rows whose spans say which command owns which.                *)
(*                                                                         *)
(* A row carries the number of the command that was executing when it was  *)
(* taken, 0 for none.  What the gate, the planner and the engine answer is *)
(* free; every command may be refused at its turn.                         *)
(***************************************************************************)
EXTENDS Integers, Sequences, FiniteSets

CONSTANTS Kinds,     \* the commands a program draws from
          MaxLength, \* bound: commands of the program
          Stride,    \* ticks per row
          Budget     \* budget_ticks

VARIABLES prog,      \* the program
          next,      \* the next command to start
          exec,      \* the command executing, its start row and the moves folded in
          spans, rows, since, ticks,
          held,      \* whether the engine's execution speed is zero
          pc,        \* "boot", "pump", "tick", "collect", "done"
          stop,
          ran        \* history: commands that were answered

vars == <<prog, next, exec, spans, rows, since, ticks, held, pc, stop, ran>>

None == [cmd |-> 0, start |-> 0, blended |-> {}]

Programs == UNION {[1..n -> Kinds] : n \in 1..MaxLength}

Init ==
  /\ prog \in Programs
  /\ next = 1 /\ exec = None /\ rows = <<>> /\ since = Stride - 1 /\ ticks = 0
  /\ spans = [i \in DOMAIN prog |-> [start |-> 0, rows |-> 0, error |-> FALSE]]
  /\ held = FALSE /\ pc = "boot" /\ stop = "completed" /\ ran = {}

\* The engine reaches IDLE, is enabled, landed, calibrated and referenced
\* before the record begins; a phase that outlives its budget gives no run.
Boot ==
  /\ pc = "boot" /\ pc' \in {"pump", "unbooted"}
  /\ UNCHANGED <<prog, next, exec, spans, rows, since, ticks, held, stop, ran>>

Faf == {"jog"}
Queued == {"move", "blend", "select", "tool"}

Pumping == pc = "pump" /\ exec.cmd = 0 /\ next <= Len(prog)
It == prog[next]
Answer(err) == [spans EXCEPT ![next] = [start |-> Len(rows), rows |-> 0, error |-> err]]

----------------------------------------------------------------------------
\* A fire-and-forget refusal answers only its own datagram.
RefuseAlone ==
  /\ next' = next + 1 /\ spans' = Answer(TRUE)
  /\ UNCHANGED <<pc, stop>>

\* A failure that leaves the lines behind it to run.
EndRunOpen ==
  /\ spans' = Answer(TRUE) /\ stop' = "failed"
  /\ next' = next + 1 /\ UNCHANGED pc

\* Any other refusal ends the run.
EndRun ==
  /\ spans' = Answer(TRUE) /\ stop' = "failed"
  /\ next' = Len(prog) + 1 /\ pc' = "done"

\* The decoder's, the gate's, the registries' and the replay's own refusals.
\* Streams and system commands the replay does not carry are always refused.
Refuse ==
  /\ Pumping
  /\ IF It \in Faf THEN RefuseAlone ELSE EndRun
  /\ ran' = ran \cup {next}
  /\ UNCHANGED <<prog, exec, rows, since, ticks, held>>

\* A control answered at once; the round's tick lets the engine take it.
Control(kind, scale0) ==
  /\ Pumping /\ It = kind
  /\ spans' = Answer(FALSE) /\ next' = next + 1 /\ ran' = ran \cup {next}
  /\ held' = scale0 /\ pc' = IF next < Len(prog) THEN "tick" ELSE "done"
  /\ UNCHANGED <<prog, exec, rows, since, ticks, stop>>

ReplayStop ==        \* a stop that clears nothing takes no tick
  /\ Pumping /\ It = "stop"
  /\ spans' = Answer(FALSE) /\ next' = next + 1 /\ ran' = ran \cup {next}
  /\ UNCHANGED <<prog, exec, rows, since, ticks, held, pc, stop>>

Controls ==
  \/ Control("clear", FALSE) \/ Control("resume", FALSE) \/ Control("pause", TRUE)
  \/ \E k \in {"io", "shapes", "config"} : Control(k, held)

\* A zero execution speed holds every queued command; a tool stop is not queued.
Held ==
  /\ Pumping /\ held /\ It \in Queued
  /\ pc' = "tick"
  /\ UNCHANGED <<prog, next, exec, spans, rows, since, ticks, held, stop, ran>>

StartToolStop ==
  /\ Pumping /\ It = "tool_stop"
  /\ exec' = [None EXCEPT !.cmd = next, !.start = Len(rows)]
  /\ next' = next + 1
  /\ UNCHANGED <<prog, spans, rows, since, ticks, held, pc, stop, ran>>

\* The planner takes the head and may fold the moves that blend into it.
Fold == {n \in 1..(Len(prog) - next + 1) :
           /\ \A k \in 0..(n - 2) : prog[next + k] = "blend"
           /\ n > 1 => prog[next + n - 1] \in {"move", "blend"}}

Start ==
  /\ Pumping /\ ~held /\ It \in Queued
  /\ \E n \in Fold :
       /\ exec' = [cmd |-> next, start |-> Len(rows), blended |-> (next + 1)..(next + n - 1)]
       /\ next' = next + n
  /\ UNCHANGED <<prog, spans, rows, since, ticks, held, pc, stop, ran>>

\* Nothing running and nothing left to start ends the record here.
EndPump ==
  /\ pc = "pump" /\ ~Pumping
  /\ pc' = IF exec.cmd = 0 THEN "done" ELSE "tick"
  /\ UNCHANGED <<prog, next, exec, spans, rows, since, ticks, held, stop, ran>>

----------------------------------------------------------------------------
Tick ==
  /\ pc = "tick" /\ pc' = "collect" /\ ticks' = ticks + 1
  /\ IF since + 1 < Stride THEN since' = since + 1 /\ rows' = rows
     ELSE since' = 0 /\ rows' = Append(rows, exec.cmd)
  /\ UNCHANGED <<prog, next, exec, spans, held, stop, ran>>

\* The next round, or the end of the budget with commands still queued.
Round ==
  IF exec'.cmd = 0 /\ next' > Len(prog) THEN pc' = "done" /\ stop' = stop
  ELSE IF ticks = Budget THEN pc' = "done" /\ stop' = "budget"
  ELSE pc' = "pump" /\ stop' = stop

Working ==
  /\ pc = "collect"
  /\ UNCHANGED <<prog, next, exec, spans, rows, since, ticks, held, ran>>
  /\ Round

Owns(err) == [i \in DOMAIN spans |->
  IF i = exec.cmd THEN [start |-> exec.start, rows |-> Len(rows) - exec.start, error |-> err]
  ELSE IF i \in exec.blended THEN [start |-> Len(rows), rows |-> 0, error |-> FALSE]
  ELSE spans[i]]

\* The planner reports the outcome of the command in flight.
Finishes ==
  /\ pc = "collect" /\ exec.cmd # 0
  /\ spans' = Owns(FALSE) /\ exec' = None /\ next' = next
  /\ ran' = ran \cup {exec.cmd} \cup exec.blended /\ Round
  /\ UNCHANGED <<prog, rows, since, ticks, held>>

\* A failed command: everything after it would be fiction.
Fails ==
  /\ pc = "collect" /\ exec.cmd # 0
  /\ spans' = Owns(TRUE) /\ exec' = None /\ next' = Len(prog) + 1
  /\ ran' = ran \cup {exec.cmd} \cup exec.blended
  /\ pc' = "done" /\ stop' = "failed"
  /\ UNCHANGED <<prog, rows, since, ticks, held>>

Next == Boot \/ Refuse \/ Controls \/ ReplayStop \/ Held \/ StartToolStop \/ Start \/ EndPump
        \/ Tick \/ Working \/ Finishes \/ Fails

Spec == Init /\ [][Next]_vars

----------------------------------------------------------------------------
OwnRows(i) == {k \in DOMAIN rows : rows[k] = i}

(* The record tells what happened.  "Completed" means every line was answered
   and none that queues failed; "failed" names the one line it failed on, and
   no line behind that one ran; "budget" means some line never finished; and
   the rows a finished line owns are exactly those taken while it executed. *)
RecordTellsTheRun ==
  LET Bad == {i \in DOMAIN prog : spans[i].error /\ prog[i] \notin Faf}
  IN  pc = "done" =>
        /\ stop = "completed" => ran = DOMAIN prog /\ Bad = {}
        /\ stop = "failed" =>
             \E b \in DOMAIN prog : Bad = {b} /\
                \A i \in DOMAIN prog : i > b => OwnRows(i) = {} /\ spans[i].rows = 0
        /\ stop = "budget" => ran # DOMAIN prog /\ Bad = {}
        /\ \A i \in ran : (spans[i].start + 1)..(spans[i].start + spans[i].rows) = OwnRows(i)
=============================================================================
