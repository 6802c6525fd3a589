------------------------------ MODULE Verdicts ------------------------------
(***************************************************************************)
(* Requests the server parks until the RT settles them: reset, FLASHING    *)
(* enter and exit, a bus swap, a bus scan (par6-server server.rs); the     *)
(* bridge's control blocks that turn each into RT commands and a verdict   *)
(* (par6d bridge.rs EnableControl, FlashingRequest, PendingSwap); and the  *)
(* RT that takes one command a tick.                                       *)
(*                                                                         *)
(* Three threads with views of their own: the server acts on the snapshot  *)
(* of its last poll, housekeeping on one it read before it took the lock,  *)
(* the RT on neither.  Deadlines may pass at any time.  A parked request   *)
(* carries `earned`, a history of what the RT did for it.                  *)
(***************************************************************************)
EXTENDS Integers, Sequences, FiniteSets

CONSTANTS Requests,    \* kinds of request clients send
          Cap,         \* requests a waiter list holds
          ScanIds,     \* node ids a scan pings
          Settle,      \* ticks a scan and an error clear settle for
          MaxRequests  \* bound: requests sent

VARIABLES rt,      \* the RT core
          cmds,    \* RT commands not yet taken
          op,      \* the swap closure the RT thread runs between ticks
          enable, flash, swap,    \* the bridge's control blocks and outcomes
          snapS, snapH,           \* the server's and housekeeping's snapshots
          parked,  \* requests awaiting a verdict
          srv,     \* the server's e-stop latch and simulator flag, and its bridge's
          sent,    \* requests sent
          told     \* what the last answering step told, and whether it was earned

vars == <<rt, cmds, op, enable, flash, swap, snapS, snapH, parked, srv, sent, told>>

View(r) == [mode |-> r.mode, enabled |-> r.enabled, id |-> r.id, epoch |-> r.epoch]

Init ==
  /\ rt = [mode |-> "idle", enabled |-> FALSE, id |-> 0, soft |-> FALSE, latched |-> FALSE,
           clear |-> 0, park |-> FALSE, bus |-> "sim", scan |-> 0, settle |-> 0, epoch |-> 0]
  /\ cmds = <<>> /\ op = "none"
  /\ enable = [next |-> 0, req |-> 0, out |-> "none"]
  /\ flash = [want |-> "none", out |-> "none"]
  /\ swap = [to |-> "none", out |-> "none"]
  /\ snapS = View(rt) /\ snapH = View(rt)
  /\ parked = {} /\ sent = 0 /\ told = {}
  /\ srv = [estop |-> FALSE, bus |-> "sim", bridge |-> "sim", to |-> "none"]

----------------------------------------------------------------------------
(* The server's handlers. *)
Of(kinds) == {p \in parked : p.kind \in kinds}
Asked(kind) ==
  kind \in Requests /\ sent < MaxRequests /\ sent' = sent + 1 /\ told' = {}
New(kind) == [kind |-> kind, n |-> sent, earned |-> FALSE, id |-> 0, epoch |-> 0, to |-> "none"]
Rt(what) == [op |-> what, id |-> 0]                    \* an RT command
Full(kinds) == Cardinality(Of(kinds)) >= Cap

\* Anything told "refused" at once needs nothing earned.
OnReset ==
  /\ Asked("reset")
  /\ IF Full({"reset"}) THEN UNCHANGED <<cmds, enable, parked, srv>>
     ELSE /\ parked' = parked \cup {[New("reset") EXCEPT !.id = enable.next + 1]}
          /\ srv' = [srv EXCEPT !.estop = FALSE]
          /\ cmds' = cmds \o <<Rt("soft_off"), Rt("clear")>>
          /\ enable' = [next |-> enable.next + 1, req |-> enable.next + 1, out |-> "none"]
  /\ UNCHANGED <<rt, op, flash, swap, snapS, snapH>>

\* The e-stop that forgets a verdict the server has not collected yet.
SupersededPendingOnly(e) == IF e.req # 0 THEN [e EXCEPT !.req = 0, !.out = "err"] ELSE e

\* The e-stop that drops a pending enable without a verdict.
SupersededSilently(e) == [e EXCEPT !.req = 0]

\* An e-stop supersedes a pending enable and an uncollected success.
Superseded(e) == IF e.req # 0 \/ e.out # "none" THEN [e EXCEPT !.req = 0, !.out = "err"] ELSE e

OnEstop ==
  /\ Asked("estop")
  /\ srv' = [srv EXCEPT !.estop = TRUE]
  /\ cmds' = Append(cmds, Rt("soft_on"))
  /\ enable' = Superseded(enable)
  /\ parked' = {IF p.kind = "reset" THEN [p EXCEPT !.earned = FALSE] ELSE p : p \in parked}
  /\ UNCHANGED <<rt, op, flash, swap, snapS, snapH>>

\* Both refresh the snapshot first; FLASHING is entered from an arm at rest.
OnEnterFlashing ==
  /\ Asked("enter")
  /\ snapS' = View(rt)
  /\ IF View(rt).mode \notin {"idle", "error"} \/ Full({"enter", "exit"})
     THEN UNCHANGED <<cmds, flash, parked>>
     ELSE /\ cmds' = cmds \o <<Rt("idle"), Rt("park"), Rt("flashing")>>
          /\ flash' = [want |-> "flash", out |-> "none"]
          /\ parked' = {IF p.kind = "exit" THEN [p EXCEPT !.earned = FALSE] ELSE p : p \in parked}
                       \cup {New("enter")}
  /\ UNCHANGED <<rt, op, enable, swap, snapH, srv>>

OnExitFlashing ==
  /\ Asked("exit")
  /\ snapS' = View(rt)
  /\ IF View(rt).mode # "flash" \/ Full({"enter", "exit"})
     THEN UNCHANGED <<cmds, flash, parked>>
     ELSE /\ cmds' = Append(cmds, Rt("idle"))
          /\ flash' = [want |-> "idle", out |-> "none"]
          /\ parked' = {IF p.kind = "enter" THEN [p EXCEPT !.earned = FALSE] ELSE p : p \in parked}
                       \cup {New("exit")}
  /\ UNCHANGED <<rt, op, enable, swap, snapH, srv>>

\* One swap at a time.
Swapping == swap.to # "none"
\* A hardware swap opens its interface on the command plane, and may fail to.
Opens(to, connect) == to = "hw" /\ (connect \/ srv.bridge # "hw")

\* set_simulator has nothing to install for the backend it runs on; any other
\* swap runs on the RT thread.  A full waiter list refuses the request and not
\* the swap.
StartSwap(to, connect) ==
  IF srv.bridge = to /\ ~connect
  THEN swap' = [swap EXCEPT !.out = "ok"] /\ UNCHANGED op
  ELSE swap' = [to |-> to, out |-> "none"] /\ op' = to

OnBusSwap(to, connect) ==
  /\ Asked("swap") /\ (connect => to = "hw")
  /\ \/ (Swapping \/ Opens(to, connect)) /\ UNCHANGED <<op, swap, parked, srv>>   \* refused
     \/ /\ ~Swapping /\ StartSwap(to, connect)
        /\ srv' = [srv EXCEPT !.to = to]
        /\ parked' = IF Full({"swap"}) THEN parked
                     ELSE parked \cup {[New("swap") EXCEPT !.to = to, !.earned = rt.bus = to]}
  /\ UNCHANGED <<rt, cmds, enable, flash, snapS, snapH>>

\* A scan is parked under the epoch of the server's snapshot.
OnBusScan ==
  /\ Asked("scan")
  /\ cmds' = Append(cmds, Rt("scan"))
  /\ parked' = parked \cup {[New("scan") EXCEPT !.epoch = snapS.epoch]}
  /\ UNCHANGED <<rt, op, enable, flash, swap, snapS, snapH, srv>>

\* A motion takes the arm out of IDLE, as a queued command would.
OnMotion ==
  /\ Asked("motion") /\ rt.mode = "idle" /\ rt.enabled /\ ~rt.latched
  /\ rt' = [rt EXCEPT !.mode = "exec", !.park = FALSE]
  /\ UNCHANGED <<cmds, op, enable, flash, swap, snapS, snapH, parked, srv>>

----------------------------------------------------------------------------
(* The server's poll: the snapshot, then each settled verdict in turn. *)
Refresh ==
  /\ snapS # View(rt) /\ snapS' = View(rt) /\ told' = {}
  /\ UNCHANGED <<rt, cmds, op, enable, flash, swap, snapH, parked, srv, sent>>

Tell(ps, ok) == told' = {[kind |-> p.kind, ok |-> ok, earned |-> p.earned] : p \in ps}

AnswerScans(late) ==
  LET ready == {p \in Of({"scan"}) : snapS.epoch # p.epoch \/ p \in late}
  IN  /\ ready # {} /\ late \subseteq Of({"scan"})
      /\ parked' = parked \ ready
      /\ told' = {[kind |-> p.kind, ok |-> p \notin late, earned |-> p.earned] : p \in ready}
      /\ UNCHANGED <<rt, cmds, op, enable, flash, swap, snapS, snapH, srv, sent>>

SettleEnable ==
  /\ enable.out # "none"
  /\ Tell(Of({"reset"}), enable.out = "ok")
  /\ parked' = parked \ Of({"reset"}) /\ enable' = [enable EXCEPT !.out = "none"]
  /\ UNCHANGED <<rt, cmds, op, flash, swap, snapS, snapH, srv, sent>>

SettleFlashing ==
  /\ flash.out # "none"
  /\ Tell(Of({"enter", "exit"}), flash.out = "ok")
  /\ parked' = parked \ Of({"enter", "exit"}) /\ flash' = [flash EXCEPT !.out = "none"]
  /\ UNCHANGED <<rt, cmds, op, enable, swap, snapS, snapH, srv, sent>>

\* The bridge adopts the swap it has in flight, the server the backend last
\* asked for, both only on success.
Adopted(s) ==
  [s EXCEPT !.to = "none",
            !.bridge = IF Swapping /\ swap.out = "ok" THEN swap.to ELSE @,
            !.bus = IF s.to # "none" /\ swap.out = "ok" THEN s.to ELSE @]

SettleBus ==
  /\ swap.out # "none"
  /\ srv' = Adopted(srv) /\ swap' = [to |-> "none", out |-> "none"]
  /\ Tell(Of({"swap"}), swap.out = "ok") /\ parked' = parked \ Of({"swap"})
  /\ UNCHANGED <<rt, cmds, op, enable, flash, snapS, snapH, sent>>

----------------------------------------------------------------------------
(* Housekeeping: reads a snapshot, then polls the control blocks with it. *)
ReadSnapshot ==
  /\ snapH # View(rt) /\ snapH' = View(rt) /\ told' = {}
  /\ UNCHANGED <<rt, cmds, op, enable, flash, swap, snapS, parked, srv, sent>>

\* An enable that takes any enabled arm for its own.
EnabledAnyway(v, req) == v.enabled

\* Only the request's own identity proves its clear and its enable finished.
EnabledFor(v, req) == v.enabled /\ v.id = req

\* EnableControl::poll: confirmed, or the window closed, or due to be sent again.
PollEnable ==
  /\ enable.req # 0 /\ told' = {}
  /\ enable' = [enable EXCEPT !.req = 0, !.out = IF EnabledFor(snapH, enable.req) THEN "ok" ELSE "err"]
  /\ UNCHANGED <<rt, cmds, op, flash, swap, snapS, snapH, parked, srv, sent>>

SendEnable ==
  /\ enable.req # 0 /\ told' = {} /\ ~EnabledFor(snapH, enable.req)
  /\ \A k \in DOMAIN cmds : cmds[k].op # "enable"                 \* bound: one in the queue
  /\ cmds' = Append(cmds, [op |-> "enable", id |-> enable.req])
  /\ UNCHANGED <<rt, op, enable, flash, swap, snapS, snapH, parked, srv, sent>>

Arrived == snapH.mode = flash.want \/ (flash.want = "idle" /\ snapH.mode # "flash")

PollFlashing ==
  /\ flash.want # "none"
  /\ flash' = [want |-> "none", out |-> IF Arrived THEN "ok" ELSE "err"]   \* or the window closed
  /\ told' = {}
  /\ UNCHANGED <<rt, cmds, op, enable, swap, snapS, snapH, parked, srv, sent>>

----------------------------------------------------------------------------
(* The RT thread. *)
\* replace_bus and the rest of the swap closure.  The re-seed of a simulator that
\* replace_bus has just configured, for the same joints and not silent, finds
\* nothing to refuse.
Installed(to) == [rt EXCEPT !.bus = to, !.mode = "boot", !.enabled = FALSE]

RunOp ==
  /\ op # "none" /\ op' = "none" /\ told' = {}
  /\ \/ rt' = Installed(op) /\ swap' = [swap EXCEPT !.out = "ok"]
     \/ rt' = rt /\ swap' = [swap EXCEPT !.out = "err"]           \* boot_configure refused
  /\ parked' = {[p EXCEPT !.earned = @ \/ (p.kind = "swap" /\ rt'.bus = p.to)] : p \in parked}
  /\ UNCHANGED <<cmds, enable, flash, snapS, snapH, srv, sent>>

\* One command a tick (apply_command).
Applied(r, c) ==
  CASE c.op = "soft_on"  -> [r EXCEPT !.soft = TRUE]
    [] c.op = "soft_off" -> [r EXCEPT !.soft = FALSE]
    [] c.op = "clear"    -> [r EXCEPT !.clear = Settle]
    [] c.op = "park"     -> [r EXCEPT !.park = TRUE]
    [] c.op = "scan"     -> IF r.mode = "flash" THEN r ELSE [r EXCEPT !.scan = ScanIds, !.settle = 0]
    [] c.op = "idle"     -> IF r.mode = "idle" THEN r ELSE [r EXCEPT !.mode = "idle", !.park = FALSE]
    [] c.op = "flashing" -> IF r.park /\ r.mode \in {"idle", "error"}
                         THEN [r EXCEPT !.mode = "flash", !.park = FALSE] ELSE r
    [] OTHER -> IF r.mode = "boot" \/ r.soft \/ r.latched \/ r.clear > 0 THEN r
                ELSE [r EXCEPT !.enabled = TRUE, !.id = c.id]

\* The latches and the clear countdown; a latched error leaves FLASHING alone.
Latched(r) ==
  LET hit == r.soft
      done == r.clear = 1
      l == hit \/ (r.latched /\ ~done)
  IN  [r EXCEPT !.latched = l, !.enabled = @ /\ ~l, !.clear = IF @ > 0 THEN @ - 1 ELSE 0,
                !.mode = CASE l /\ @ \notin {"flash", "boot"} -> "error"
                           [] ~l /\ @ \in {"error", "boot"} -> "idle"
                           [] OTHER -> @]

\* One ping a tick, then the settle, then the epoch.
StepScan(r) ==
  IF r.scan > 0 THEN [r EXCEPT !.scan = @ - 1, !.settle = IF r.scan = 1 THEN Settle ELSE 0]
  ELSE IF r.settle > 0
  THEN [r EXCEPT !.settle = @ - 1, !.epoch = IF r.settle = 1 THEN @ + 1 ELSE @]
  ELSE r

\* What the tick did for the requests parked: history.
Earn(r, p, taken) ==
  CASE p.kind = "reset" -> [p EXCEPT !.earned = @ \/ (~srv.estop /\ r.enabled /\ r.id >= p.id)]
    [] p.kind = "enter" -> [p EXCEPT !.earned = @ \/ (flash.want = "flash" /\ r.mode = "flash")]
    [] p.kind = "exit"  -> [p EXCEPT !.earned = @ \/ r.mode # "flash"]
    [] p.kind = "scan"  -> [p EXCEPT !.earned = @ \/ (p.id = 1 /\ r.epoch # rt.epoch),
                                     !.id = IF taken = "scan" THEN 1 ELSE @]
    [] OTHER -> p

Tick ==
  /\ cmds # <<>> \/ rt.clear > 0 \/ rt.scan > 0 \/ rt.settle > 0 \/ rt.mode = "boot"
  /\ LET c == IF cmds = <<>> THEN "none" ELSE Head(cmds).op
         a == IF cmds = <<>> THEN rt ELSE Applied(rt, Head(cmds))
     IN  /\ rt' = StepScan(Latched(a))
         /\ parked' = {Earn(rt', p, c) : p \in parked}
  /\ cmds' = IF cmds = <<>> THEN <<>> ELSE Tail(cmds)
  /\ told' = {}
  /\ UNCHANGED <<op, enable, flash, swap, snapS, snapH, srv, sent>>

----------------------------------------------------------------------------
LateScans == \E late \in SUBSET Of({"scan"}) : AnswerScans(late)

Next ==
  \/ OnReset \/ OnEstop \/ OnEnterFlashing \/ OnExitFlashing \/ OnBusScan \/ OnMotion
  \/ \E to \in {"sim", "hw"}, connect \in BOOLEAN : OnBusSwap(to, connect)
  \/ Refresh \/ LateScans \/ SettleEnable \/ SettleFlashing \/ SettleBus
  \/ ReadSnapshot \/ PollEnable \/ SendEnable \/ PollFlashing \/ RunOp \/ Tick

Spec == Init /\ [][Next]_vars

\* The server polls on a timer, housekeeping loops on a period, the RT thread
\* ticks and drains its operations; the deadlines of all of them pass.
FairSpec ==
  /\ Spec
  /\ WF_vars(LateScans) /\ WF_vars(SettleEnable) /\ WF_vars(SettleFlashing) /\ WF_vars(SettleBus)
  /\ WF_vars(PollEnable) /\ WF_vars(PollFlashing) /\ WF_vars(RunOp)

----------------------------------------------------------------------------
(* No reset is answered OK on the strength of having been asked: when it is, the
   RT has enabled the arm for this reset or a later one, after its clear, and
   no e-stop has come in since; a swap answered OK has run on that backend. *)
OkIsEarned ==
  \A t \in told : (t.ok /\ t.kind \in {"reset", "swap"}) => t.earned

(* Every request parked is answered, whatever supersedes it, whichever verdict
   is overwritten and whether or not the RT ever does what it asks. *)
EveryWaiterAnswered ==
  \A n \in 0 .. MaxRequests - 1 :
    (\E p \in parked : p.n = n) ~> ~(\E p \in parked : p.n = n)

(* PendingScan::epoch: "The scan epoch when the query arrived; a different one
   means the rescan finished."  A scan answered before its deadline reports a
   rescan that began after it was asked. *)
ScanIsItsOwn ==
  \A t \in told : (t.ok /\ t.kind = "scan") => t.earned
=============================================================================
