----------------------------- MODULE ClientWait -----------------------------
(***************************************************************************)
(* A client waiting for a queued command (par6-client core.rs): the        *)
(* request with its retry, the COMPLETE push, the STATUS broadcast as the  *)
(* fallback, the runtime's completion record as the last resort, the       *)
(* bounded log of completions, and a runtime that restarts and numbers its *)
(* queue from the start again.                                             *)
(*                                                                         *)
(* Datagrams overtake each other, and one that is never taken is lost.  A  *)
(* message carries, as a label the wire does not have, the session it was  *)
(* sent in.  A restart outlives every datagram and every query in flight.  *)
(***************************************************************************)
EXTENDS Integers, Sequences, FiniteSets

CONSTANTS MaxRequests,    \* bound: commands the client submits
          MaxOthers,      \* bound: commands of other clients
          MaxRestarts, MaxStatus, MaxErrors,
          Attempts,       \* 1 + retries
          Kept,           \* COMPLETIONS_KEPT
          Eager           \* a reply may reach the client before its session's first STATUS

VARIABLES srv, net, cl, others, restarts, errors

vars == <<srv, net, cl, others, restarts, errors>>

None == -2          \* no error, no status
Unattributed == -1
Indices == 0..(MaxRequests + MaxOthers)

NewSession(n) == [session |-> n, results |-> <<>>, error |-> None, seq |-> 0, keys |-> {}]
NoStatus == [session |-> 0, seq |-> 0, accepted |-> None, completed |-> None, error |-> None]
NoWait == [phase |-> "idle", index |-> 0, session |-> 0, from |-> 0, box |-> "empty"]
NoAnswer == [is |-> "none", index |-> 0, session |-> 0]

\* Client::connect on a runtime that is up.
Init ==
  /\ srv = NewSession(1) /\ net = {} /\ others = 0 /\ restarts = 0 /\ errors = 0
  /\ cl = [status |-> NoStatus, log |-> [i \in {} |-> "ok"], order |-> <<>>, req |-> 0,
           tries |-> 0, wait |-> NoWait, answer |-> NoAnswer]

----------------------------------------------------------------------------
(* The runtime, as the client sees it; CommandPlane models what is behind. *)

Accepted(s) == Len(s.results) - 1

\* The high-water mark: every index up to it has finished.
Completed(s) ==
  Cardinality({i \in 1..Len(s.results) : \A k \in 1..i : s.results[k] # "run"}) - 1

Frame(s) == [t |-> "status", session |-> s.session, seq |-> s.seq + 1,
             accepted |-> Accepted(s), completed |-> Completed(s), error |-> s.error]

\* A request is taken once per key; accepting one clears the standing error.
TakeRequest(m) ==
  LET known == {k \in srv.keys : k.key = m.key}
      index == IF known = {} THEN Len(srv.results) ELSE (CHOOSE k \in known : TRUE).index
  IN  /\ m.t = "request"
      /\ srv' = IF known # {} THEN srv
                ELSE [srv EXCEPT !.results = Append(@, "run"), !.error = None,
                                 !.keys = @ \cup {[key |-> m.key, index |-> index]}]
      /\ net' = (net \ {m}) \cup {[t |-> "ack", key |-> m.key, index |-> index,
                                   session |-> srv.session]}
      /\ UNCHANGED <<cl, others, restarts, errors>>

OtherRequest ==
  /\ others < MaxOthers /\ others' = others + 1
  /\ srv' = [srv EXCEPT !.results = Append(@, "run"), !.error = None]
  /\ UNCHANGED <<net, cl, restarts, errors>>

Push(s, i, ok) == [t |-> "push", index |-> i - 1, is |-> ok, session |-> s.session]
OwnIndices(s) == {k.index + 1 : k \in s.keys}

\* The head finishes: pushed to the client that sent it.
Finish ==
  \E i \in 1..Len(srv.results) :
    /\ srv.results[i] = "run" /\ \A k \in 1..(i - 1) : srv.results[k] # "run"
    /\ srv' = [srv EXCEPT !.results[i] = "ok"]
    /\ net' = net \cup {Push(srv, i, "ok") : k \in {i} \cap OwnIndices(srv)}
    /\ UNCHANGED <<cl, others, restarts, errors>>

\* The head fails: the queue behind it is cancelled, the error stands.
Fail ==
  \E i \in 1..Len(srv.results) :
    LET rest == {k \in 1..Len(srv.results) : k >= i}
    IN  /\ srv.results[i] = "run" /\ \A k \in 1..(i - 1) : srv.results[k] # "run"
        /\ errors < MaxErrors /\ errors' = errors + 1
        /\ srv' = [srv EXCEPT !.error = i - 1,
                              !.results = [k \in DOMAIN @ |-> IF k \in rest THEN "failed" ELSE @[k]]]
        /\ net' = net \cup {Push(srv, k, "failed") : k \in rest \cap OwnIndices(srv)}
        /\ UNCHANGED <<cl, others, restarts>>

\* An e-stop, or a refusal with nothing queued: an error of no command.
LatchError ==
  /\ errors < MaxErrors /\ errors' = errors + 1
  /\ \A k \in 1..Len(srv.results) : srv.results[k] # "run"
  /\ srv' = [srv EXCEPT !.error = Unattributed]
  /\ UNCHANGED <<net, cl, others, restarts>>

Broadcast ==
  /\ srv.seq < MaxStatus
  /\ srv' = [srv EXCEPT !.seq = @ + 1] /\ net' = net \cup {Frame(srv)}
  /\ UNCHANGED <<cl, others, restarts, errors>>

\* COMMAND_COMPLETION, from the runtime's own record.
AnswerAsk(m) ==
  /\ m.t = "ask"
  /\ net' = (net \ {m}) \cup
            {[t |-> "record", index |-> m.index, session |-> srv.session,
              is |-> IF m.index < Len(srv.results) THEN srv.results[m.index + 1] ELSE "run"]}
  /\ UNCHANGED <<srv, cl, others, restarts, errors>>

Restart ==
  /\ restarts < MaxRestarts /\ restarts' = restarts + 1
  /\ srv' = NewSession(srv.session + 1) /\ net' = {}
  /\ cl' = IF cl.wait.phase # "recover" THEN cl
           ELSE [cl EXCEPT !.wait = NoWait,
                           !.answer = [is |-> "unknown", index |-> cl.wait.index,
                                       session |-> cl.wait.session]]
  /\ UNCHANGED <<others, errors>>

----------------------------------------------------------------------------
(* The client's requests. *)

Request(key) == [t |-> "request", key |-> key, session |-> 0]

\* queued: one key and one req_id for every attempt.
Submit ==
  /\ cl.req < MaxRequests /\ cl.tries = 0 /\ cl.wait.phase = "idle"
  /\ cl' = [cl EXCEPT !.req = @ + 1, !.tries = 1, !.answer = NoAnswer]
  /\ net' = net \cup {Request(cl.req + 1)}
  /\ UNCHANGED <<srv, others, restarts, errors>>

\* roundtrip's timeout: send again, or give up; the command may still run.
Retry ==
  /\ cl.tries \in 1..Attempts /\ cl.wait.phase = "idle"
  /\ IF cl.tries < Attempts
     THEN cl' = [cl EXCEPT !.tries = @ + 1] /\ net' = net \cup {Request(cl.req)}
     ELSE cl' = [cl EXCEPT !.tries = 0] /\ net' = net
  /\ UNCHANGED <<srv, others, restarts, errors>>

\* reply_rx: the ack of the pending request; any other finds nobody waiting.
TakeAck(m) ==
  /\ m.t = "ack" /\ net' = net \ {m}
  /\ Eager \/ m.session = cl.status.session
  /\ cl' = IF cl.tries = 0 \/ m.key # cl.req \/ cl.wait.phase # "idle" THEN cl
           ELSE [cl EXCEPT !.tries = 0,
                           !.wait = [NoWait EXCEPT !.phase = "acked", !.index = m.index,
                                                   !.session = m.session]]
  /\ UNCHANGED <<srv, others, restarts, errors>>

----------------------------------------------------------------------------
(* wait_command. *)

Answered(c, is) ==
  [c EXCEPT !.wait = NoWait,
            !.answer = [is |-> is, index |-> c.wait.index, session |-> c.wait.session]]

\* A logged completion answers at once; else a waiter is registered and the
\* session the wait began in is noted.
BeginWait ==
  /\ cl.wait.phase = "acked"
  /\ cl' = IF cl.wait.index \in DOMAIN cl.log
           THEN Answered(cl, cl.log[cl.wait.index])
           ELSE [cl EXCEPT !.wait.phase = "race", !.wait.from = cl.status.session]
  /\ UNCHANGED <<srv, net, others, restarts, errors>>

Restarted(c) == c.wait.from # 0 /\ c.status.session # c.wait.from

(* mutant of BlockingError: an error that predates the command's acceptance blocks it *)
BlockingErrorAny(f, i) == f.error # None /\ f.error <= i

\* blocking_error: the stale-error ordering rule.
BlockingError(f, i) == f.error # None /\ f.error <= i /\ f.accepted >= i

\* race_completion, the push first.
RaceByPush ==
  /\ cl.wait.phase \in {"race", "grace"} /\ cl.wait.box \in {"ok", "failed"}
  /\ cl' = Answered(cl, cl.wait.box)
  /\ UNCHANGED <<srv, net, others, restarts, errors>>

\* Its channel closed under it: the restart dropped the waiters.
RaceByClose ==
  /\ cl.wait.phase = "race" /\ cl.wait.box = "closed"
  /\ cl' = Answered(cl, IF Restarted(cl) THEN "restarted" ELSE "unknown")
  /\ UNCHANGED <<srv, net, others, restarts, errors>>

\* The status stream first: a restart, a blocking error, or the high-water mark.
RaceByStatus ==
  LET f == cl.status
      i == cl.wait.index
  IN  /\ cl.wait.phase = "race" /\ f # NoStatus
      /\ Restarted(cl) \/ f.completed >= i \/ BlockingError(f, i)
      /\ cl' = CASE Restarted(cl) -> Answered(cl, "restarted")
                 [] ~Restarted(cl) /\ BlockingError(f, i) -> Answered(cl, "failed")
                 [] OTHER -> [cl EXCEPT !.wait.phase = "grace"]
      /\ UNCHANGED <<srv, net, others, restarts, errors>>

WaitTimesOut ==
  /\ cl.wait.phase = "race" /\ cl' = Answered(cl, "unknown")
  /\ UNCHANGED <<srv, net, others, restarts, errors>>

\* COMPLETE_GRACE over: recover_completion asks the runtime.
GraceEnds ==
  /\ cl.wait.phase = "grace"
  /\ cl' = [cl EXCEPT !.wait.phase = "recover"]
  /\ net' = net \cup {[t |-> "ask", index |-> cl.wait.index, session |-> 0]}
  /\ UNCHANGED <<srv, others, restarts, errors>>

\* record_completion: logged, the oldest evicted, the waiter told.
Recorded(c, i, is) ==
  LET order == IF i \in DOMAIN c.log THEN c.order ELSE Append(c.order, i)
      kept == IF Len(order) > Kept THEN Tail(order) ELSE order
      log == [k \in {kept[n] : n \in DOMAIN kept} |-> IF k = i THEN is ELSE c.log[k]]
      told == c.wait.phase \in {"race", "grace"} /\ c.wait.index = i /\ c.wait.box = "empty"
  IN  [c EXCEPT !.log = log, !.order = kept, !.wait.box = IF told THEN is ELSE @]

TakeRecord(m) ==
  /\ m.t = "record" /\ net' = net \ {m}
  /\ cl' = IF cl.wait.phase # "recover" \/ cl.wait.index # m.index THEN cl
           ELSE IF m.is = "run" THEN Answered(cl, "unknown")
           ELSE Answered(Recorded(cl, m.index, m.is), m.is)
  /\ UNCHANGED <<srv, others, restarts, errors>>

\* Every attempt of the query timed out.
RecoverFails ==
  /\ cl.wait.phase = "recover" /\ cl' = Answered(cl, "unknown")
  /\ UNCHANGED <<srv, net, others, restarts, errors>>

TakePush(m) ==
  /\ m.t = "push" /\ net' = net \ {m}
  /\ Eager \/ m.session = cl.status.session
  /\ cl' = Recorded(cl, m.index, m.is)
  /\ UNCHANGED <<srv, others, restarts, errors>>

(* mutant of OnRestart: the log of the old session is kept *)
OnRestartKeepsLog(c) == c

\* A new session's STATUS: what was logged names other commands now.
OnRestart(c) ==
  [c EXCEPT !.log = [i \in {} |-> "ok"], !.order = <<>>,
            !.wait.box = IF c.wait.phase \in {"race", "grace"} /\ @ = "empty" THEN "closed" ELSE @]

\* status_rx: a frame older than the last of its session is dropped.
TakeStatus(m) ==
  /\ m.t = "status" /\ net' = net \ {m}
  /\ cl' = IF cl.status.session = m.session /\ m.seq <= cl.status.seq THEN cl
           ELSE LET c == [cl EXCEPT !.status = [f \in DOMAIN NoStatus |-> m[f]]]
                IN  IF cl.status.session \notin {0, m.session} THEN OnRestart(c) ELSE c
  /\ UNCHANGED <<srv, others, restarts, errors>>

Next ==
  \/ OtherRequest \/ Finish \/ Fail \/ LatchError \/ Broadcast \/ Restart
  \/ Submit \/ Retry \/ BeginWait \/ RaceByPush \/ RaceByClose \/ RaceByStatus
  \/ WaitTimesOut \/ GraceEnds \/ RecoverFails
  \/ \E m \in net : \/ TakeRequest(m) \/ AnswerAsk(m) \/ TakeAck(m) \/ TakeRecord(m)
                    \/ TakePush(m) \/ TakeStatus(m)

Spec == Init /\ [][Next]_vars

----------------------------------------------------------------------------
(* wait_command says true only for a command that did succeed, in the session
   it was accepted in: not for one of the same number before or after a
   restart, not on a status frame of another session, not from an evicted or
   a stale log entry. *)
TrueIsOwnSuccess ==
  (cl.answer.is = "ok" /\ cl.answer.session = srv.session)
     => srv.results[cl.answer.index + 1] = "ok"

(* wait_command raises the robot's error when the command finished in error. *)
ErrorIsTheCommands ==
  (cl.answer.is = "failed" /\ cl.answer.session = srv.session)
     => srv.results[cl.answer.index + 1] = "failed"
=============================================================================
