----------------------------- MODULE ChunkTransfer -----------------------------
(***************************************************************************)
(* A queued command too large for one datagram, from the client's retries  *)
(* to the server's answer.                                                 *)
(*                                                                         *)
(*   client   splits the command into chunks, sends them all on every      *)
(*            attempt under one transfer id and one request id, and waits  *)
(*            for a reply (par6-client core.rs datagrams, roundtrip,       *)
(*            reply_rx; par6-proto chunk.rs split_into_chunks);            *)
(*   server   reassembles (chunk.rs Reassembler), remembers where a        *)
(*            transfer came from (server.rs on_chunk, transfer_addrs),     *)
(*            dispatches the whole command, which the idempotency key      *)
(*            accepts once, and answers transfers that went quiet with     *)
(*            COMM_CHUNK_TIMEOUT (expire_chunks).                          *)
(*                                                                         *)
(* The network is UDP: a datagram once sent may arrive never, several      *)
(* times and in any order, so `net` and `replies` only grow.  One request  *)
(* belongs to one client, and stands for its address.  The payload of a    *)
(* chunk is the request it comes from and its place in it.  Time is a      *)
(* choice: an idle transfer may expire, and a client may stop waiting, at  *)
(* any moment.                                                             *)
(***************************************************************************)
EXTENDS Integers, FiniteSets, Functions

CONSTANTS Requests,      \* request ids
          TransferOf,    \* the transfer id each request's client drew
          PartsOf,       \* chunks its payload splits into
          MaxParts,      \* MAX_TRANSFER_BYTES, in chunks
          MaxTransfers,  \* MAX_TRANSFERS_IN_FLIGHT
          Attempts       \* 1 + retries

VARIABLES sends,     \* client: attempts made, per request
          outcome,   \* client: what the roundtrip returned, per request
          net,       \* chunks in the network
          replies,   \* replies in the network
          transfers, \* Reassembler.transfers: transfer id -> Transfer
          addrs,     \* Core.transfer_addrs: transfer id -> client
          accepted,  \* requests whose command the queue accepted
          payloads   \* history: every payload handed to on_command_bytes

vars == <<sends, outcome, net, replies, transfers, addrs, accepted, payloads>>
clientVars == <<sends, outcome>>
serverVars == <<transfers, addrs, accepted, payloads>>

\* split_into_chunks.  The count fits the u16 of `total`: MAX_WAYPOINTS at the
\* smallest MTU is a quarter of it.
Chunks(r) ==
  {[req |-> r, transfer |-> TransferOf[r], index |-> i,
    total |-> PartsOf[r]] : i \in 0..(PartsOf[r] - 1)}

NoEntries == [t \in {} |-> 0]

Init ==
  /\ sends = [r \in Requests |-> 0]
  /\ outcome = [r \in Requests |-> "none"]
  /\ net = {} /\ replies = {}
  /\ transfers = NoEntries /\ addrs = NoEntries
  /\ accepted = {} /\ payloads = {}

-----------------------------------------------------------------------------
(* The client. *)

\* One attempt of roundtrip: every datagram again, after the last wait ended.
SendAttempt(r) ==
  /\ outcome[r] = "none" /\ sends[r] < Attempts
  /\ sends' = [sends EXCEPT ![r] = @ + 1]
  /\ net' = net \cup Chunks(r)
  /\ UNCHANGED <<outcome, replies, serverVars>>

ReceiveReply(r) ==
  /\ outcome[r] = "none" /\ sends[r] > 0
  /\ \E m \in replies :
       /\ m.req = r
       /\ outcome' = [outcome EXCEPT ![r] = m.answer]
  /\ UNCHANGED <<sends, net, replies, serverVars>>

GiveUp(r) ==
  /\ outcome[r] = "none" /\ sends[r] = Attempts
  /\ outcome' = [outcome EXCEPT ![r] = "unconfirmed"]
  /\ UNCHANGED <<sends, net, replies, serverVars>>

-----------------------------------------------------------------------------
(* The server: one chunk arrives. *)

Remove(f, t) == RestrictDomain(f, LAMBDA x : x # t)

Insert(f, t, v) == [x \in DOMAIN f \cup {t} |-> IF x = t THEN v ELSE f[x]]

\* The transfer a chunk belongs to: the open one, or a new one.
Opened(c) ==
  IF c.transfer \in DOMAIN transfers THEN transfers[c.transfer]
  ELSE [req |-> c.req, total |-> c.total, parts |-> NoEntries]

\* Mutant of TooManyTransfers: one transfer too many is admitted.
TooManyTransfersOffByOne(c) ==
  c.transfer \notin DOMAIN transfers /\ Cardinality(DOMAIN transfers) > MaxTransfers

TooManyTransfers(c) ==
  c.transfer \notin DOMAIN transfers /\ Cardinality(DOMAIN transfers) >= MaxTransfers

\* Mutant of Mismatch: the request id of a chunk is not compared.
MismatchOfTotal(c) == Opened(c).total # c.total

Mismatch(c) == Opened(c).total # c.total \/ Opened(c).req # c.req

\* A part already there is kept; the chunk's data is where it came from.
WithPart(c) ==
  LET t == Opened(c) IN
  IF c.index \in DOMAIN t.parts THEN t
  ELSE [t EXCEPT !.parts = Insert(@, c.index, c.req)]

TooLarge(c) ==
  c.index \notin DOMAIN Opened(c).parts
    /\ Cardinality(DOMAIN Opened(c).parts) + 1 > MaxParts

Whole(t) == Cardinality(DOMAIN t.parts) = t.total

Reply(r, answer) == replies' = replies \cup {[req |-> r, answer |-> answer]}

\* Mutant of RefuseChunk: the address of a refused chunk is kept.
RefuseChunkKeepsAddr(c) ==
  /\ TooManyTransfers(c) \/ Mismatch(c) \/ TooLarge(c)
  /\ transfers' = Remove(transfers, c.transfer)
  /\ addrs' = Insert(addrs, c.transfer, c.req)
  /\ Reply(c.req, "error")
  /\ UNCHANGED <<clientVars, net, accepted, payloads>>

\* push failed: the transfer, if it was open, is gone with its address, and
\* the sender of this chunk is told.
RefuseChunk(c) ==
  /\ TooManyTransfers(c) \/ Mismatch(c) \/ TooLarge(c)
  /\ transfers' = Remove(transfers, c.transfer)
  /\ addrs' = Remove(addrs, c.transfer)
  /\ Reply(c.req, "error")
  /\ UNCHANGED <<clientVars, net, accepted, payloads>>

KeepChunk(c) ==
  /\ ~TooManyTransfers(c) /\ ~Mismatch(c) /\ ~TooLarge(c)
  /\ ~Whole(WithPart(c))
  /\ transfers' = Insert(transfers, c.transfer, WithPart(c))
  /\ addrs' = Insert(addrs, c.transfer, c.req)
  /\ UNCHANGED <<clientVars, net, replies, accepted, payloads>>

\* The last part: the command is dispatched.  A key the queue has seen is
\* answered like the first time.
CompleteChunk(c) ==
  /\ ~TooManyTransfers(c) /\ ~Mismatch(c) /\ ~TooLarge(c)
  /\ Whole(WithPart(c))
  /\ transfers' = Remove(transfers, c.transfer)
  /\ addrs' = Remove(addrs, c.transfer)
  /\ payloads' = payloads \cup {[req |-> c.req, parts |-> WithPart(c).parts]}
  /\ accepted' = accepted \cup {c.req}
  /\ Reply(c.req, "ok")
  /\ UNCHANGED <<clientVars, net>>

OnChunk(c) == RefuseChunk(c) \/ KeepChunk(c) \/ CompleteChunk(c)

\* expire and expire_chunks: one transfer that went quiet.
Expire(t) ==
  /\ t \in DOMAIN transfers
  /\ transfers' = Remove(transfers, t)
  /\ addrs' = Remove(addrs, t)
  /\ IF t \in DOMAIN addrs /\ addrs[t] = transfers[t].req
     THEN Reply(transfers[t].req, "error")
     ELSE UNCHANGED replies
  /\ UNCHANGED <<clientVars, net, accepted, payloads>>

-----------------------------------------------------------------------------

Client == \E r \in Requests : SendAttempt(r) \/ ReceiveReply(r) \/ GiveUp(r)

Server == \/ \E c \in net : OnChunk(c)
          \/ \E t \in DOMAIN transfers : Expire(t)

Next == Client \/ Server

Spec == Init /\ [][Next]_vars

-----------------------------------------------------------------------------
(* Properties. *)

\* The shape of the state: never more transfers open than the table allows,
\* and every open one still lacks a part.
TypeOK ==
  /\ sends \in [Requests -> 0..Attempts]
  /\ outcome \in [Requests -> {"none", "ok", "error", "unconfirmed"}]
  /\ net \subseteq UNION {Chunks(r) : r \in Requests}
  /\ replies \subseteq [req : Requests, answer : {"ok", "error"}]
  /\ accepted \subseteq Requests
  /\ Cardinality(DOMAIN transfers) <= MaxTransfers
  /\ \A t \in DOMAIN transfers : ~Whole(transfers[t])

\* What is dispatched is the payload one client sent, every part of it and
\* nothing of another transfer, whatever was lost, repeated, reordered or sent
\* under the same transfer id.
PayloadsIntact ==
  \A p \in payloads :
    p.parts = [i \in 0..(PartsOf[p.req] - 1) |-> p.req]

\* The two tables stay in step across refusals, completions and timeouts, so
\* every transfer that times out is answered, and answered to its own sender.
AddrsInStep ==
  /\ DOMAIN addrs = DOMAIN transfers
  /\ \A t \in DOMAIN transfers : addrs[t] = transfers[t].req

\* Over a network that loses, repeats and reorders, with clients that retry and may
\* have drawn one transfer id: what is dispatched is one client's whole payload, and
\* every transfer left open can be answered to its own sender (Reassembler::push,
\* expire, and the server's address table).
TransfersAreSound == TypeOK /\ PayloadsIntact /\ AddrsInStep

=============================================================================
