---------------------------- MODULE DaemonProofs ----------------------------
(***************************************************************************)
(* Proofs about components of the daemon's side, for every value of their  *)
(* constants: the calibration that leaves the session as it found it, the  *)
(* reassembly of transfers, the verdicts that are earned, the process loop *)
(* that maintenance breaks, the status frames, the client that waits, the  *)
(* server's line of datagrams, the offline run's record and the preview's. *)
(*                                                                         *)
(* A theorem speaks of one component's own specification (Cal!Spec, ...)   *)
(* under MCDaemon's names for its variables; the property is the one the   *)
(* run `daemon` checks, which reads as the component's own.                *)
(***************************************************************************)
EXTENDS MCDaemon, SequenceTheorems, FiniteSetTheorems, WellFoundedInduction, TLAPS

-----------------------------------------------------------------------------
(* Calibration. *)

(* Where the arm is known to be at rest, the policy and the profile to be the
   operator's, and no error to have been met, as long as nothing that puts
   something back went unconfirmed. *)
CalBefore == {"declared", "angles", "plan", "policy"}
CalAfter == {"fit", "home", "judge", "declare"}
CalAtRest ==
  CalBefore \cup CalAfter \cup {"profile", "select", "unselect", "unpolicy", "undeclare", "end"}
CalTheirPolicy == CalBefore \cup CalAfter \cup {"homestop", "undeclare", "end"}
CalTheirProfile ==
  CalBefore \cup CalAfter \cup {"profile", "select", "unpolicy", "homestop", "undeclare", "end"}
CalPlaces ==
  CalAtRest \cup {"homestop", "approach", "failstop", "sweep", "sweepstop", "stop"}

CalRobots ==
  [policy : {"theirs", "settled"}, profile : {"theirs", "ruckig"},
   payload : {"theirs", "measured"}, moving : BOOLEAN]

CalTypeOK ==
  /\ cal_pc \in CalPlaces
  /\ cal_result \in {"ok", "error"}
  /\ cal_robot \in CalRobots
  /\ cal_adrift \in BOOLEAN

CalInv ==
  /\ CalTypeOK
  /\ cal_pc \in CalAfter => cal_result = "ok"
  /\ cal_pc = "undeclare" => cal_result = "error"
  /\ cal_pc \notin {"undeclare", "end"} => cal_robot.payload = "theirs"
  /\ cal_adrift = FALSE =>
       /\ cal_pc \in CalAtRest => cal_robot.moving = FALSE
       /\ cal_pc \in CalTheirPolicy => cal_robot.policy = "theirs"
       /\ cal_pc \in CalTheirProfile => cal_robot.profile = "theirs"
       /\ cal_pc = "end" /\ cal_result = "error" => cal_robot.payload = "theirs"

\* The session as Calibration finds it satisfies the invariant (Calibration!Init).
LEMMA CalInitially == Cal!Init => CalInv
  <1> SUFFICES ASSUME Cal!Init PROVE CalInv
    OBVIOUS
  <1>1. cal_robot \in CalRobots
    BY DEF Cal!Init, CalRobots
  <1>2. cal_robot.moving = FALSE /\ cal_robot.policy = "theirs"
        /\ cal_robot.profile = "theirs" /\ cal_robot.payload = "theirs"
    BY Zenon DEF Cal!Init
  <1>3. cal_pc = "declared" /\ cal_result = "ok" /\ cal_adrift \in BOOLEAN
    BY Zenon DEF Cal!Init
  <1>4. QED
    BY <1>1, <1>2, <1>3 DEF CalInv, CalTypeOK, CalPlaces, CalAtRest, CalAfter, CalBefore,
         CalTheirPolicy, CalTheirProfile

\* Only a confirmed call that puts something back leaves the session not adrift
\* (Calibration!Back).
LEMMA CalBackConfirmed ==
  ASSUME NEW o \in Cal!Outcomes, Cal!Back(o), cal_adrift \in BOOLEAN
  PROVE  /\ cal_adrift' \in BOOLEAN
         /\ cal_adrift' = FALSE => cal_adrift = FALSE /\ o = Cal!Confirmed
  <1> DEFINE lost == o.is # "confirmed"
  <1>1. cal_adrift' = (cal_adrift \/ lost)
    BY Zenon DEF Cal!Back
  <1>2. ~lost => o = Cal!Confirmed
    BY DEF Cal!Outcomes, Cal!Confirmed, Cal!Refused
  <1> HIDE DEF lost
  <1>3. cal_adrift' \in BOOLEAN
    BY <1>1, Zenon
  <1>4. ASSUME cal_adrift' = FALSE PROVE cal_adrift = FALSE /\ o = Cal!Confirmed
    <2>1. ~(cal_adrift \/ lost)
      BY <1>1, <1>4, Zenon
    <2>2. QED
      BY <2>1, <1>2, Zenon
  <1>5. QED
    BY <1>3, <1>4, Zenon

\* Every call of the procedure, whether confirmed, refused or lost, keeps the invariant
\* (Calibration!Next).
LEMMA CalStep == CalInv /\ [Cal!Next]_(Cal!vars) => CalInv'
  <1> SUFFICES ASSUME CalInv, [Cal!Next]_(Cal!vars) PROVE CalInv'
    OBVIOUS
  <1> USE DEF CalInv, CalTypeOK, CalPlaces, CalAtRest, CalAfter, CalBefore, CalTheirPolicy,
              CalTheirProfile, Cal!Outcomes, Cal!Confirmed, Cal!Refused, Cal!On, CalRobots
  <1>1. CASE Cal!ReadDeclared
    BY <1>1 DEF Cal!ReadDeclared, Cal!Query
  <1>2. CASE Cal!ReadAngles
    BY <1>2 DEF Cal!ReadAngles, Cal!Query
  <1>3. CASE Cal!PlanPoses
    BY <1>3 DEF Cal!PlanPoses
  <1>4. CASE Cal!SetPolicy
    BY <1>4 DEF Cal!SetPolicy
  <1>5. CASE Cal!ReadProfile
    BY <1>5 DEF Cal!ReadProfile, Cal!Query
  <1>6. CASE Cal!SelectProfile
    BY <1>6 DEF Cal!SelectProfile
  <1>7. CASE Cal!Approach
    BY <1>7 DEF Cal!Approach, Cal!MoveTo
  <1>8. CASE Cal!StopAfterMove
    <2>1. PICK o \in Cal!Outcomes : Cal!Back(o) /\ 
            cal_robot' = (IF o.ran THEN [cal_robot EXCEPT !.moving = FALSE] ELSE cal_robot)
      BY <1>8 DEF Cal!StopAfterMove, Cal!Stop
    <2>2. cal_adrift' \in BOOLEAN /\ (cal_adrift' = FALSE => cal_adrift = FALSE /\ o = Cal!Confirmed)
      BY <2>1, CalBackConfirmed
    <2>3. QED
      BY <1>8, <2>1, <2>2 DEF Cal!StopAfterMove, Cal!Stop
  <1>9. CASE Cal!Sweep
    BY <1>9 DEF Cal!Sweep
  <1>10. CASE Cal!StopAfterSweep
    <2>1. PICK o \in Cal!Outcomes : Cal!Back(o) /\ 
            cal_robot' = (IF o.ran THEN [cal_robot EXCEPT !.moving = FALSE] ELSE cal_robot)
      BY <1>10 DEF Cal!StopAfterSweep
    <2>2. cal_adrift' \in BOOLEAN /\ (cal_adrift' = FALSE => cal_adrift = FALSE /\ o = Cal!Confirmed)
      BY <2>1, CalBackConfirmed
    <2>3. QED
      BY <1>10, <2>1, <2>2 DEF Cal!StopAfterSweep
  <1>11. CASE Cal!StopRun
    <2>1. PICK o \in Cal!Outcomes : Cal!Back(o) /\ 
            cal_robot' = (IF o.ran THEN [cal_robot EXCEPT !.moving = FALSE] ELSE cal_robot)
      BY <1>11 DEF Cal!StopRun, Cal!Stop
    <2>2. cal_adrift' \in BOOLEAN /\ (cal_adrift' = FALSE => cal_adrift = FALSE /\ o = Cal!Confirmed)
      BY <2>1, CalBackConfirmed
    <2>3. /\ cal_pc = "stop" /\ cal_pc' = "unselect" /\ cal_result' \in {"ok", "error"}
          /\ UNCHANGED cal_sweep
      BY <1>11 DEF Cal!StopRun, Cal!Stop
    <2>4. /\ cal_robot' \in CalRobots
          /\ cal_robot'.policy = cal_robot.policy /\ cal_robot'.profile = cal_robot.profile
          /\ cal_robot'.payload = cal_robot.payload
      BY <2>1
    <2>5. o = Cal!Confirmed => cal_robot'.moving = FALSE
      BY <2>1
    <2>6. QED
      BY <2>2, <2>3, <2>4, <2>5
  <1>12. CASE Cal!RestoreProfile
    <2>1. PICK o \in Cal!Outcomes : Cal!Back(o) /\ 
            cal_robot' = (IF o.ran THEN [cal_robot EXCEPT !.profile = "theirs"] ELSE cal_robot)
      BY <1>12 DEF Cal!RestoreProfile
    <2>2. cal_adrift' \in BOOLEAN /\ (cal_adrift' = FALSE => cal_adrift = FALSE /\ o = Cal!Confirmed)
      BY <2>1, CalBackConfirmed
    <2>3. QED
      BY <1>12, <2>1, <2>2 DEF Cal!RestoreProfile
  <1>13. CASE Cal!RestorePolicy
    <2>1. PICK o \in Cal!Outcomes : Cal!Back(o) /\ 
            cal_robot' = (IF o.ran THEN [cal_robot EXCEPT !.policy = "theirs"] ELSE cal_robot)
            /\ cal_result' = (IF o.is = "refused" THEN "error" ELSE cal_result)
      BY <1>13 DEF Cal!RestorePolicy
    <2>2. cal_adrift' \in BOOLEAN /\ (cal_adrift' = FALSE => cal_adrift = FALSE /\ o = Cal!Confirmed)
      BY <2>1, CalBackConfirmed
    <2>3. QED
      BY <1>13, <2>1, <2>2 DEF Cal!RestorePolicy
  <1>14. CASE Cal!Fit
    BY <1>14 DEF Cal!Fit
  <1>15. CASE Cal!GoHome
    <2>1. ASSUME NEW o \in Cal!Outcomes, o.is # "confirmed", Cal!Back(o),
                 cal_robot' = (IF o.ran THEN [cal_robot EXCEPT !.moving = TRUE] ELSE cal_robot),
                 cal_pc = "home", cal_pc' = "end", cal_result' = "error"
          PROVE  CalInv'
      <3>0. o # Cal!Confirmed
        BY <2>1
      <3>1. cal_adrift' \in BOOLEAN /\ cal_adrift' # FALSE
        <4> HIDE DEF Cal!Confirmed, Cal!Outcomes
        <4>1. cal_adrift \in BOOLEAN
          OBVIOUS
        <4>2. QED
          BY <2>1, <3>0, <4>1, CalBackConfirmed, Zenon
      <3>2. cal_robot' \in CalRobots
        BY <2>1
      <3>3. QED
        BY <2>1, <3>1, <3>2
    <2>2. ASSUME Cal!On(Cal!Confirmed), cal_robot' = [cal_robot EXCEPT !.moving = FALSE],
                 cal_pc = "home", cal_pc' = "judge", cal_result' = cal_result
          PROVE  CalInv'
      BY <2>2
    <2>3. ASSUME Cal!On(Cal!Confirmed), cal_robot' = [cal_robot EXCEPT !.moving = TRUE],
                 cal_pc = "home", cal_pc' = "homestop", cal_result' = "error"
          PROVE  CalInv'
      BY <2>3
    <2>4. QED
      BY <1>15, <2>1, <2>2, <2>3 DEF Cal!GoHome, Cal!MoveTo
  <1>16. CASE Cal!StopAtHome
    <2>1. PICK o \in Cal!Outcomes : Cal!Back(o) /\ 
            cal_robot' = (IF o.ran THEN [cal_robot EXCEPT !.moving = FALSE] ELSE cal_robot)
      BY <1>16 DEF Cal!StopAtHome, Cal!Stop
    <2>2. cal_adrift' \in BOOLEAN /\ (cal_adrift' = FALSE => cal_adrift = FALSE /\ o = Cal!Confirmed)
      BY <2>1, CalBackConfirmed
    <2>3. /\ cal_pc = "homestop" /\ cal_pc' = "end" /\ cal_result' \in {"ok", "error"}
          /\ UNCHANGED cal_sweep
      BY <1>16 DEF Cal!StopAtHome, Cal!Stop
    <2>4. /\ cal_robot' \in CalRobots
          /\ cal_robot'.policy = cal_robot.policy /\ cal_robot'.profile = cal_robot.profile
          /\ cal_robot'.payload = cal_robot.payload
      BY <2>1
    <2>5. o = Cal!Confirmed => cal_robot'.moving = FALSE
      BY <2>1
    <2>6. QED
      BY <2>2, <2>3, <2>4, <2>5
  <1>17. CASE Cal!Judge
    BY <1>17 DEF Cal!Judge
  <1>18. CASE Cal!Declare
    BY <1>18 DEF Cal!Declare
  <1>19. CASE Cal!Undeclare
    <2>1. PICK o \in Cal!Outcomes : Cal!Back(o) /\ 
            cal_robot' = (IF o.ran THEN [cal_robot EXCEPT !.payload = "theirs"] ELSE cal_robot)
      BY <1>19 DEF Cal!Undeclare
    <2>2. cal_adrift' \in BOOLEAN /\ (cal_adrift' = FALSE => cal_adrift = FALSE /\ o = Cal!Confirmed)
      BY <2>1, CalBackConfirmed
    <2>3. QED
      BY <1>19, <2>1, <2>2 DEF Cal!Undeclare
  <1>20. CASE UNCHANGED Cal!vars
    BY <1>20 DEF Cal!vars
  <1>21. QED
    BY <1>1, <1>2, <1>3, <1>4, <1>5, <1>6, <1>7, <1>8, <1>9, <1>10, <1>11, <1>12, <1>13,
       <1>14, <1>15, <1>16, <1>17, <1>18, <1>19, <1>20 DEF Cal!Next

\* A calibration leaves the arm stopped and the session the operator's on every way out,
\* for any number of poses and of datagrams lost (Calibration!LeftAsFound).
THEOREM SessionIsRestored == Cal!Spec => []LeftAsFound
  <1>1. CalInv => LeftAsFound
    BY DEF CalInv, CalTypeOK, CalAtRest, CalTheirPolicy, CalTheirProfile, LeftAsFound,
           Cal!LeftAsFound
  <1>2. QED
    BY CalInitially, CalStep, <1>1, PTL DEF Cal!Spec

-----------------------------------------------------------------------------
(* ChunkTransfer. *)

(* An open transfer holds some of the parts of one request, each from it. *)
Partial(r, D) ==
  [req |-> r, total |-> ChunkPartsOf[r], parts |-> [i \in D |-> r]]

PlacesOf(r) == 0..(ChunkPartsOf[r] - 1)

OpenTransfer(e) ==
  \E r \in ChunkRequests : \E D \in SUBSET PlacesOf(r) :
    e = Partial(r, D) /\ Cardinality(D) # ChunkPartsOf[r]

ChunksTyped ==
  /\ chunks_sends \in [ChunkRequests -> 0..ChunkAttempts]
  /\ chunks_outcome \in [ChunkRequests -> {"none", "ok", "error", "unconfirmed"}]
  /\ chunks_net \subseteq UNION {Chunks!Chunks(r) : r \in ChunkRequests}
  /\ chunks_replies \subseteq [req : ChunkRequests, answer : {"ok", "error"}]
  /\ chunks_accepted \subseteq ChunkRequests

(* transfer_addrs names the sender of every open transfer and of no other. *)
ChunksInStep ==
  /\ IsFiniteSet(DOMAIN chunks_transfers)
  /\ Cardinality(DOMAIN chunks_transfers) <= ChunkMaxTransfers
  /\ \A t \in DOMAIN chunks_transfers : OpenTransfer(chunks_transfers[t])
  /\ DOMAIN chunks_addrs = DOMAIN chunks_transfers
  /\ \A t \in DOMAIN chunks_transfers : chunks_addrs[t] = chunks_transfers[t].req

ChunksWhole ==
  \A p \in chunks_payloads : p.parts = [i \in PlacesOf(p.req) |-> p.req]

ChunksInv == ChunksTyped /\ ChunksInStep /\ ChunksWhole

\* FiniteSets counts alike under ChunkTransfer's name and its own.
LEMMA ChunksCount == ASSUME NEW S PROVE Chunks!Cardinality(S) = Cardinality(S)
  BY DEF Chunks!Cardinality, Cardinality

\* Forgetting a transfer takes its entry out of a table and nothing else
\* (ChunkTransfer!Remove).
LEMMA ChunksRemove ==
  ASSUME NEW f, NEW t
  PROVE  /\ DOMAIN Chunks!Remove(f, t) = DOMAIN f \ {t}
         /\ \A x \in DOMAIN f \ {t} : Chunks!Remove(f, t)[x] = f[x]
  BY DEF Chunks!Remove, Chunks!RestrictDomain, Chunks!Restrict

\* A request's places are as many as its chunks.
LEMMA PlacesCount ==
  ASSUME NEW r \in ChunkRequests
  PROVE  IsFiniteSet(PlacesOf(r)) /\ Cardinality(PlacesOf(r)) = ChunkPartsOf[r]
  <1>1. ChunkPartsOf[r] \in Nat
    BY ChunkAssumption
  <1>2. QED
    BY <1>1, FS_Interval, SMTT(40) DEF PlacesOf

\* A chunk in the network is one of a request's, at a place of its own (split_into_chunks).
LEMMA ChunkInNet ==
  ASSUME ChunksInv, NEW c \in chunks_net
  PROVE  /\ c.req \in ChunkRequests /\ c.index \in PlacesOf(c.req)
         /\ c.transfer = ChunkTransferOf[c.req] /\ c.total = ChunkPartsOf[c.req]
  BY DEF ChunksInv, ChunksTyped, Chunks!Chunks, PlacesOf

\* A chunk that is not refused adds its place to a transfer of its own request
\* (Reassembler::push).
LEMMA ChunkJoins ==
  ASSUME ChunksInv, NEW c \in chunks_net, ~Chunks!Mismatch(c)
  PROVE  \E D \in SUBSET PlacesOf(c.req) :
           /\ Chunks!Opened(c) = Partial(c.req, D)
           /\ Chunks!WithPart(c) = Partial(c.req, D \cup {c.index})
  <1>1. /\ c.req \in ChunkRequests /\ c.index \in PlacesOf(c.req)
        /\ c.total = ChunkPartsOf[c.req]
    BY ChunkInNet
  <1>2. PICK D \in SUBSET PlacesOf(c.req) : Chunks!Opened(c) = Partial(c.req, D)
    <2>1. CASE c.transfer \in DOMAIN chunks_transfers
      <3>1. Chunks!Opened(c) = chunks_transfers[c.transfer]
        BY <2>1 DEF Chunks!Opened
      <3>2. PICK r \in ChunkRequests : \E D \in SUBSET PlacesOf(r) :
              chunks_transfers[c.transfer] = Partial(r, D)
        BY <2>1 DEF ChunksInv, ChunksInStep, OpenTransfer
      <3>3. Chunks!Opened(c).req = r
        BY <3>1, <3>2 DEF Partial
      <3>4. r = c.req
        BY <3>3 DEF Chunks!Mismatch
      <3>5. QED
        BY <3>1, <3>2, <3>4
    <2>2. CASE c.transfer \notin DOMAIN chunks_transfers
      <3>1. Chunks!Opened(c) = [req |-> c.req, total |-> c.total, parts |-> Chunks!NoEntries]
        BY <2>2 DEF Chunks!Opened
      <3>2. Chunks!NoEntries = [i \in {} |-> c.req]
        BY DEF Chunks!NoEntries
      <3>3. Chunks!Opened(c) = Partial(c.req, {})
        BY <3>1, <3>2, <1>1 DEF Partial
      <3>4. QED
        BY <3>3
    <2>3. QED
      BY <2>1, <2>2
  <1>3. Chunks!WithPart(c) = Partial(c.req, D \cup {c.index})
    <2> DEFINE P == [i \in D |-> c.req]
    <2>1. Chunks!Opened(c) = [req |-> c.req, total |-> ChunkPartsOf[c.req], parts |-> P]
      BY <1>2 DEF Partial
    <2>2. DOMAIN P = D
      OBVIOUS
    <2>3. CASE c.index \in D
      <3>1. D \cup {c.index} = D
        BY <2>3
      <3>2. Chunks!WithPart(c) = Chunks!Opened(c)
        BY <2>1, <2>2, <2>3 DEF Chunks!WithPart
      <3>3. QED
        BY <3>1, <3>2, <1>2
    <2>4. CASE c.index \notin D
      <3>1. Chunks!Insert(P, c.index, c.req) = [i \in D \cup {c.index} |-> c.req]
        BY DEF Chunks!Insert
      <3>2. Chunks!Opened(c).parts = P
        BY <2>1
      <3>3. Chunks!WithPart(c)
              = [Chunks!Opened(c) EXCEPT !.parts = Chunks!Insert(P, c.index, c.req)]
        BY <2>2, <2>4, <3>2 DEF Chunks!WithPart
      <3> HIDE DEF P
      <3>4. QED
        BY <2>1, <3>1, <3>3 DEF Partial
    <2>5. QED
      BY <2>3, <2>4
  <1>4. QED
    BY <1>2, <1>3

\* Two tables without an entry are in step when they were in step with it.
LEMMA ChunksForget ==
  ASSUME ChunksInv, NEW t, chunks_transfers' = Chunks!Remove(chunks_transfers, t),
         chunks_addrs' = Chunks!Remove(chunks_addrs, t)
  PROVE  ChunksInStep'
  <1> DEFINE D == DOMAIN chunks_transfers
  <1>1. /\ IsFiniteSet(D) /\ Cardinality(D) <= ChunkMaxTransfers
        /\ \A x \in D : OpenTransfer(chunks_transfers[x])
        /\ DOMAIN chunks_addrs = D
        /\ \A x \in D : chunks_addrs[x] = chunks_transfers[x].req
    BY DEF ChunksInv, ChunksInStep
  <1>2. /\ DOMAIN chunks_transfers' = D \ {t}
        /\ \A x \in D \ {t} : chunks_transfers'[x] = chunks_transfers[x]
    BY ChunksRemove
  <1>3. /\ DOMAIN chunks_addrs' = D \ {t}
        /\ \A x \in D \ {t} : chunks_addrs'[x] = chunks_addrs[x]
    BY ChunksRemove, <1>1
  <1> HIDE DEF D
  <1>4. IsFiniteSet(D \ {t}) /\ Cardinality(D \ {t}) <= ChunkMaxTransfers
    <2>1. IsFiniteSet(D \ {t}) /\ Cardinality(D \ {t}) <= Cardinality(D)
      BY <1>1, FS_Subset
    <2>2. Cardinality(D \ {t}) \in Nat /\ Cardinality(D) \in Nat
      BY <1>1, <2>1, FS_CardinalityType
    <2>3. QED
      BY <1>1, <2>1, <2>2, ChunkAssumption
  <1>5. \A x \in D \ {t} : OpenTransfer(chunks_transfers'[x])
    BY <1>1, <1>2
  <1>6. \A x \in D \ {t} : chunks_addrs'[x] = chunks_transfers'[x].req
    BY <1>1, <1>2, <1>3
  <1>7. QED
    BY <1>2, <1>3, <1>4, <1>5, <1>6 DEF ChunksInStep, OpenTransfer

\* A step of a client leaves the server's tables and what it dispatched alone
\* (roundtrip: SendAttempt, ReceiveReply, GiveUp).
LEMMA ChunksClientStep ==
  ASSUME ChunksInv, NEW r \in ChunkRequests,
         Chunks!SendAttempt(r) \/ Chunks!ReceiveReply(r) \/ Chunks!GiveUp(r)
  PROVE  ChunksInv'
  <1>1. UNCHANGED <<chunks_transfers, chunks_addrs, chunks_payloads, chunks_accepted,
                    chunks_replies>>
    BY DEF Chunks!SendAttempt, Chunks!ReceiveReply, Chunks!GiveUp, Chunks!serverVars
  <1>2. ChunksInStep' /\ ChunksWhole'
    BY <1>1 DEF ChunksInv, ChunksInStep, ChunksWhole, OpenTransfer
  <1>3. ChunksTyped'
    <2> USE DEF ChunksInv, ChunksTyped
    <2>1. CASE Chunks!SendAttempt(r)
      <3>1. chunks_sends[r] + 1 \in 0..ChunkAttempts
        BY <2>1, ChunkAssumption DEF Chunks!SendAttempt
      <3>2. chunks_sends' \in [ChunkRequests -> 0..ChunkAttempts]
        BY <2>1, <3>1 DEF Chunks!SendAttempt
      <3>3. chunks_net' \subseteq UNION {Chunks!Chunks(x) : x \in ChunkRequests}
        BY <2>1 DEF Chunks!SendAttempt
      <3>4. QED
        BY <1>1, <2>1, <3>2, <3>3 DEF Chunks!SendAttempt
    <2>2. CASE Chunks!ReceiveReply(r)
      BY <1>1, <2>2 DEF Chunks!ReceiveReply
    <2>3. CASE Chunks!GiveUp(r)
      BY <1>1, <2>3 DEF Chunks!GiveUp
    <2>4. QED
      BY <2>1, <2>2, <2>3
  <1>4. QED
    BY <1>2, <1>3 DEF ChunksInv

\* A refused chunk takes its transfer and the address with it (on_chunk).
LEMMA ChunksRefuseStep ==
  ASSUME ChunksInv, NEW c \in chunks_net, Chunks!RefuseChunk(c)
  PROVE  ChunksInv'
  <1>1. c.req \in ChunkRequests
    BY ChunkInNet
  <1>2. ChunksInStep'
    BY ChunksForget DEF Chunks!RefuseChunk
  <1>3. ChunksTyped' /\ ChunksWhole'
    BY <1>1 DEF Chunks!RefuseChunk, Chunks!Reply, Chunks!clientVars, ChunksInv, ChunksTyped,
                ChunksWhole
  <1>4. QED
    BY <1>2, <1>3 DEF ChunksInv

\* A part that does not complete its transfer is kept in it, with the address of its
\* sender (on_chunk).
LEMMA ChunksKeepStep ==
  ASSUME ChunksInv, NEW c \in chunks_net, Chunks!KeepChunk(c)
  PROVE  ChunksInv'
  <1> DEFINE D == DOMAIN chunks_transfers
             t == c.transfer
             v == Chunks!WithPart(c)
  <1>1. c.req \in ChunkRequests /\ c.index \in PlacesOf(c.req)
    BY ChunkInNet
  <1>2. PICK P \in SUBSET PlacesOf(c.req) :
          Chunks!Opened(c) = Partial(c.req, P) /\ v = Partial(c.req, P \cup {c.index})
    BY ChunkJoins DEF Chunks!KeepChunk
  <1>3. Cardinality(P \cup {c.index}) # ChunkPartsOf[c.req]
    <2>1. ~Chunks!Whole(v)
      BY DEF Chunks!KeepChunk
    <2>2. v.total = ChunkPartsOf[c.req] /\ DOMAIN v.parts = P \cup {c.index}
      BY <1>2 DEF Partial
    <2> HIDE DEF v
    <2>3. QED
      BY <2>1, <2>2, ChunksCount DEF Chunks!Whole
  <1>4. OpenTransfer(v) /\ v.req = c.req
    <2>1. P \cup {c.index} \in SUBSET PlacesOf(c.req)
      BY <1>1
    <2>2. v.req = c.req
      BY <1>2 DEF Partial
    <2> HIDE DEF v
    <2>3. QED
      BY <1>1, <1>2, <1>3, <2>1, <2>2 DEF OpenTransfer
  <1>5. /\ chunks_transfers' = Chunks!Insert(chunks_transfers, t, v)
        /\ chunks_addrs' = Chunks!Insert(chunks_addrs, t, c.req)
    BY DEF Chunks!KeepChunk
  <1>6. /\ IsFiniteSet(D) /\ Cardinality(D) <= ChunkMaxTransfers
        /\ \A x \in D : OpenTransfer(chunks_transfers[x])
        /\ DOMAIN chunks_addrs = D
        /\ \A x \in D : chunks_addrs[x] = chunks_transfers[x].req
    BY DEF ChunksInv, ChunksInStep
  <1>7. t \in D \/ Cardinality(D) < ChunkMaxTransfers
    <2>1. ~(t \notin D /\ Cardinality(D) >= ChunkMaxTransfers)
      BY ChunksCount DEF Chunks!KeepChunk, Chunks!TooManyTransfers
    <2>2. Cardinality(D) \in Nat
      BY <1>6, FS_CardinalityType
    <2> HIDE DEF D, t
    <2>3. QED
      BY <2>1, <2>2, ChunkAssumption
  <1> HIDE DEF t, v
  <1>8. /\ DOMAIN chunks_transfers' = D \cup {t} /\ chunks_transfers'[t] = v
        /\ \A x \in D \ {t} : chunks_transfers'[x] = chunks_transfers[x]
    BY <1>5 DEF Chunks!Insert
  <1>9. /\ DOMAIN chunks_addrs' = D \cup {t} /\ chunks_addrs'[t] = c.req
        /\ \A x \in D \ {t} : chunks_addrs'[x] = chunks_addrs[x]
    BY <1>5, <1>6 DEF Chunks!Insert
  <1> HIDE DEF D
  <1>10. IsFiniteSet(D \cup {t}) /\ Cardinality(D \cup {t}) <= ChunkMaxTransfers
    <2>1. /\ IsFiniteSet(D \cup {t})
          /\ Cardinality(D \cup {t}) = IF t \in D THEN Cardinality(D) ELSE Cardinality(D) + 1
      BY <1>6, FS_AddElement
    <2>2. Cardinality(D) \in Nat
      BY <1>6, FS_CardinalityType
    <2>3. QED
      BY <1>6, <1>7, <2>1, <2>2, ChunkAssumption
  <1>11. ChunksInStep'
    <2>1. \A x \in D \cup {t} : OpenTransfer(chunks_transfers'[x])
      BY <1>4, <1>6, <1>8
    <2>2. \A x \in D \cup {t} : chunks_addrs'[x] = chunks_transfers'[x].req
      BY <1>4, <1>6, <1>8, <1>9
    <2>3. QED
      BY <1>8, <1>9, <1>10, <2>1, <2>2 DEF ChunksInStep, OpenTransfer
  <1>12. ChunksTyped' /\ ChunksWhole'
    BY DEF Chunks!KeepChunk, Chunks!clientVars, ChunksInv, ChunksTyped, ChunksWhole
  <1>13. QED
    BY <1>11, <1>12 DEF ChunksInv

\* The last part completes exactly the payload its request was split into (on_chunk).
LEMMA ChunksCompleteStep ==
  ASSUME ChunksInv, NEW c \in chunks_net, Chunks!CompleteChunk(c)
  PROVE  ChunksInv'
  <1>1. c.req \in ChunkRequests /\ c.index \in PlacesOf(c.req)
    BY ChunkInNet
  <1>2. PICK P \in SUBSET PlacesOf(c.req) :
          Chunks!WithPart(c) = Partial(c.req, P \cup {c.index})
    BY ChunkJoins DEF Chunks!CompleteChunk
  <1>3. Cardinality(P \cup {c.index}) = ChunkPartsOf[c.req]
    <2> DEFINE v == Chunks!WithPart(c)
    <2>1. Chunks!Whole(v)
      BY DEF Chunks!CompleteChunk
    <2>2. v.total = ChunkPartsOf[c.req] /\ DOMAIN v.parts = P \cup {c.index}
      BY <1>2 DEF Partial
    <2> HIDE DEF v
    <2>3. QED
      BY <2>1, <2>2, ChunksCount DEF Chunks!Whole
  <1>4. P \cup {c.index} = PlacesOf(c.req)
    <2>1. P \cup {c.index} \in SUBSET PlacesOf(c.req)
      BY <1>1
    <2>2. QED
      BY <1>1, <1>3, <2>1, PlacesCount, FS_Subset
  <1>5. Chunks!WithPart(c).parts = [i \in PlacesOf(c.req) |-> c.req]
    BY <1>2, <1>4 DEF Partial
  <1>6. ChunksWhole'
    <2> DEFINE v == Chunks!WithPart(c)
    <2>1. chunks_payloads' = chunks_payloads \cup {[req |-> c.req, parts |-> v.parts]}
      BY DEF Chunks!CompleteChunk
    <2>2. v.parts = [i \in PlacesOf(c.req) |-> c.req]
      BY <1>5
    <2> HIDE DEF v
    <2>3. ASSUME NEW p \in chunks_payloads' PROVE p.parts = [i \in PlacesOf(p.req) |-> p.req]
      <3>1. CASE p \in chunks_payloads
        BY <3>1 DEF ChunksInv, ChunksWhole
      <3>2. CASE p = [req |-> c.req, parts |-> v.parts]
        <4>1. p.req = c.req /\ p.parts = v.parts
          BY <3>2
        <4>2. QED
          BY <4>1, <2>2
      <3>3. QED
        BY <2>1, <3>1, <3>2
    <2>4. QED
      BY <2>3 DEF ChunksWhole, PlacesOf
  <1>7. ChunksInStep'
    BY ChunksForget DEF Chunks!CompleteChunk
  <1>8. ChunksTyped'
    BY <1>1 DEF Chunks!CompleteChunk, Chunks!Reply, Chunks!clientVars, ChunksInv, ChunksTyped
  <1>9. QED
    BY <1>6, <1>7, <1>8 DEF ChunksInv

\* A transfer that expires leaves both tables, and only its own sender is told
\* (expire_chunks).
LEMMA ChunksExpireStep ==
  ASSUME ChunksInv, NEW t \in DOMAIN chunks_transfers, Chunks!Expire(t)
  PROVE  ChunksInv'
  <1>1. chunks_transfers[t].req \in ChunkRequests
    <2>1. PICK r \in ChunkRequests : \E D \in SUBSET PlacesOf(r) :
            chunks_transfers[t] = Partial(r, D)
      BY DEF ChunksInv, ChunksInStep, OpenTransfer
    <2>2. QED
      BY <2>1 DEF Partial
  <1>2. ChunksInStep'
    BY ChunksForget DEF Chunks!Expire
  <1>3. ChunksTyped' /\ ChunksWhole'
    BY <1>1 DEF Chunks!Expire, Chunks!Reply, Chunks!clientVars, ChunksInv, ChunksTyped,
                ChunksWhole
  <1>4. QED
    BY <1>2, <1>3 DEF ChunksInv

\* The empty tables a server starts with satisfy the invariant (ChunkTransfer!Init).
LEMMA ChunksInitially == Chunks!Init => ChunksInv
  <1> SUFFICES ASSUME Chunks!Init PROVE ChunksInv
    OBVIOUS
  <1>1. DOMAIN chunks_transfers = {} /\ DOMAIN chunks_addrs = {}
    BY DEF Chunks!Init, Chunks!NoEntries
  <1>2. ChunksInStep
    BY <1>1, FS_EmptySet, ChunkAssumption DEF ChunksInStep
  <1>3. ChunksTyped /\ ChunksWhole
    BY ChunkAssumption DEF Chunks!Init, ChunksTyped, ChunksWhole
  <1>4. QED
    BY <1>2, <1>3 DEF ChunksInv

\* What a server dispatches is one client's whole payload and every open transfer can be
\* answered to its sender, for any number of requests, chunks, transfers and attempts, over
\* a network that loses, repeats and reorders (ChunkTransfer!TransfersAreSound).
THEOREM TransfersStaySound == Chunks!Spec => []TransfersAreSound
  <1>1. ChunksInv => TransfersAreSound
    <2> SUFFICES ASSUME ChunksInv PROVE Chunks!TransfersAreSound
      BY DEF TransfersAreSound
    <2>1. \A t \in DOMAIN chunks_transfers : ~Chunks!Whole(chunks_transfers[t])
      <3> SUFFICES ASSUME NEW t \in DOMAIN chunks_transfers
                   PROVE  ~Chunks!Whole(chunks_transfers[t])
        OBVIOUS
      <3>0. PICK r \in ChunkRequests : \E D \in SUBSET PlacesOf(r) :
              chunks_transfers[t] = Partial(r, D) /\ Cardinality(D) # ChunkPartsOf[r]
        BY DEF ChunksInv, ChunksInStep, OpenTransfer
      <3>1. PICK D \in SUBSET PlacesOf(r) :
              chunks_transfers[t] = Partial(r, D) /\ Cardinality(D) # ChunkPartsOf[r]
        BY <3>0
      <3>2. /\ DOMAIN chunks_transfers[t].parts = D
            /\ chunks_transfers[t].total = ChunkPartsOf[r]
        BY <3>1 DEF Partial
      <3>3. QED
        BY <3>1, <3>2, ChunksCount DEF Chunks!Whole
    <2>2. Chunks!TypeOK
      BY <2>1, ChunksCount DEF ChunksInv, ChunksTyped, ChunksInStep, Chunks!TypeOK
    <2>3. Chunks!PayloadsIntact /\ Chunks!AddrsInStep
      BY DEF ChunksInv, ChunksWhole, ChunksInStep, PlacesOf, Chunks!PayloadsIntact,
             Chunks!AddrsInStep
    <2>4. QED
      BY <2>2, <2>3 DEF Chunks!TransfersAreSound
  <1>2. ChunksInv /\ [Chunks!Next]_(Chunks!vars) => ChunksInv'
    <2> SUFFICES ASSUME ChunksInv, [Chunks!Next]_(Chunks!vars) PROVE ChunksInv'
      OBVIOUS
    <2>1. CASE Chunks!Client
      BY <2>1, ChunksClientStep DEF Chunks!Client
    <2>2. CASE \E c \in chunks_net : Chunks!OnChunk(c)
      BY <2>2, ChunksRefuseStep, ChunksKeepStep, ChunksCompleteStep DEF Chunks!OnChunk
    <2>3. CASE \E t \in DOMAIN chunks_transfers : Chunks!Expire(t)
      BY <2>3, ChunksExpireStep
    <2>4. CASE UNCHANGED Chunks!vars
      BY <2>4, ZenonT(40) DEF Chunks!vars, ChunksInv, ChunksTyped, ChunksInStep, ChunksWhole, OpenTransfer
    <2>5. QED
      BY <2>1, <2>2, <2>3, <2>4 DEF Chunks!Next, Chunks!Server
  <1>3. QED
    BY ChunksInitially, <1>1, <1>2, PTL DEF Chunks!Spec

-----------------------------------------------------------------------------
(* Verdicts. *)

WaitBuses == {"sim", "hw"}
WaitOutcomes == {"none", "ok", "err"}
WaitRtFields ==
  {"mode", "enabled", "id", "soft", "latched", "clear", "park", "bus", "scan", "settle", "epoch"}
WaitFields == {"kind", "n", "earned", "id", "epoch", "to"}

WaitOps == {"soft_on", "soft_off", "clear", "park", "flashing", "idle", "scan", "enable"}

\* RT commands that bear no identity above n.
WaitCmds(n) == [op : WaitOps, id : 0..n]

WaitCore(r) ==
  DOMAIN r = WaitRtFields /\ r.enabled \in BOOLEAN /\ r.id \in Nat /\ r.bus \in WaitBuses

WaitRequest(p) == DOMAIN p = WaitFields /\ p.earned \in BOOLEAN /\ p.id \in Nat

WaitsTyped ==
  /\ waits_enable \in [next : Nat, req : Nat, out : WaitOutcomes]
  /\ waits_srv \in [estop : BOOLEAN, bus : WaitBuses, bridge : WaitBuses,
                    to : WaitBuses \cup {"none"}]
  /\ waits_swap \in [to : WaitBuses \cup {"none"}, out : WaitOutcomes]
  /\ waits_op \in WaitBuses \cup {"none"}
  /\ WaitCore(waits_rt)
  /\ waits_snapH.enabled \in BOOLEAN /\ waits_snapH.id \in Nat
  /\ waits_cmds \in Seq(WaitCmds(waits_enable.next))
  /\ \A p \in waits_parked : WaitRequest(p)

ResetsDone(P) == \A p \in P : p.kind = "reset" => p.earned = TRUE
SwapsDone(P) == \A p \in P : p.kind = "swap" => p.earned = TRUE

(* Identities only grow, and a pending enable is the last one drawn with no e-stop
   since; so an arm enabled under it was enabled for every reset still parked. *)
WaitsResets ==
  /\ waits_enable.req # 0 => waits_srv.estop = FALSE /\ waits_enable.req = waits_enable.next
  /\ waits_rt.id <= waits_enable.next /\ waits_snapH.id <= waits_enable.next
  /\ \A p \in waits_parked : p.kind = "reset" => p.id <= waits_enable.next
  /\ waits_enable.req # 0 /\ waits_rt.enabled = TRUE /\ waits_rt.id = waits_enable.req
       => ResetsDone(waits_parked)
  /\ waits_enable.req # 0 /\ waits_snapH.enabled = TRUE /\ waits_snapH.id = waits_enable.req
       => ResetsDone(waits_parked)
  /\ waits_enable.out = "ok" => ResetsDone(waits_parked)

(* One swap at a time: between swaps the bridge's flag is the bus the RT drives,
   and what is parked for an earlier one was answered by the backend it got. *)
WaitsSwaps ==
  /\ waits_swap.to = "none" => waits_op = "none" /\ SwapsDone(waits_parked)
  /\ waits_swap.to # "none" /\ waits_swap.out = "none" => waits_op = waits_swap.to
  /\ waits_swap.out # "none" => waits_op = "none"
  /\ waits_swap.to # "none" /\ waits_swap.out = "ok" => waits_rt.bus = waits_swap.to
  /\ ~(waits_swap.to # "none" /\ waits_swap.out = "ok") => waits_rt.bus = waits_srv.bridge
  /\ waits_swap.out = "ok" => SwapsDone(waits_parked)
  /\ \A p \in waits_parked : p.kind = "swap" => p.earned = TRUE \/ p.to = waits_swap.to

WaitsInv == WaitsTyped /\ WaitsResets /\ WaitsSwaps /\ Waits!OkIsEarned

\* A step that parks nothing, takes no earned mark away and leaves the swap, the server,
\* the RT's bus and its queue of operations alone keeps the swaps' part.
LEMMA WaitsSwapFrame ==
  ASSUME WaitsInv, UNCHANGED <<waits_swap, waits_op>>, waits_srv'.bridge = waits_srv.bridge,
         waits_rt'.bus = waits_rt.bus,
         \A q \in waits_parked' : q.kind = "swap" =>
           \E p \in waits_parked : p.kind = "swap" /\ q.to = p.to
                                   /\ (p.earned = TRUE => q.earned = TRUE)
  PROVE  WaitsSwaps'
  <1>1. SwapsDone(waits_parked) => SwapsDone(waits_parked')
    BY DEF SwapsDone
  <1>2. \A q \in waits_parked' : q.kind = "swap" => q.earned = TRUE \/ q.to = waits_swap.to
    BY DEF WaitsInv, WaitsSwaps
  <1>3. QED
    BY <1>1, <1>2 DEF WaitsInv, WaitsSwaps

\* The first states satisfy the invariant (Verdicts!Init).
LEMMA WaitsInitially == Waits!Init => WaitsInv
  <1> SUFFICES ASSUME Waits!Init PROVE WaitsInv
    OBVIOUS
  <1> USE DEF Waits!Init
  <1>1. WaitCore(waits_rt) /\ waits_rt.id = 0 /\ waits_rt.bus = "sim"
    BY DEF WaitCore, WaitRtFields, WaitBuses
  <1>2. waits_snapH.enabled \in BOOLEAN /\ waits_snapH.id = 0
    BY DEF Waits!View
  <1>3. WaitsTyped
    <2>1. waits_cmds \in Seq(WaitCmds(waits_enable.next))
      OBVIOUS
    <2>2. QED
      BY <1>1, <1>2, <2>1 DEF WaitsTyped, WaitBuses, WaitOutcomes
  <1>4. WaitsResets /\ WaitsSwaps
    BY <1>1, <1>2 DEF WaitsResets, WaitsSwaps, ResetsDone, SwapsDone
  <1>5. Waits!OkIsEarned
    BY DEF Waits!OkIsEarned
  <1>6. QED
    BY <1>3, <1>4, <1>5 DEF WaitsInv

\* Commands stay bounded when commands that are so are added, and when the bound grows.
LEMMA CommandsBounded ==
  ASSUME NEW n \in Nat, NEW c \in Seq(WaitCmds(n))
  PROVE  /\ c \in Seq(WaitCmds(n + 1))
         /\ \A x \in WaitCmds(n) : Append(c, x) \in Seq(WaitCmds(n))
         /\ \A o \in WaitOps \ {"enable"} : Waits!Rt(o) \in WaitCmds(n)
         /\ c # <<>> => Head(c) \in WaitCmds(n) /\ Tail(c) \in Seq(WaitCmds(n))
  <1>1. WaitCmds(n) \subseteq WaitCmds(n + 1)
    BY DEF WaitCmds
  <1>2. \A o \in WaitOps \ {"enable"} : Waits!Rt(o) \in WaitCmds(n)
    BY DEF Waits!Rt, WaitCmds
  <1> HIDE DEF WaitCmds
  <1>3. c \in Seq(WaitCmds(n + 1))
    BY <1>1
  <1>4. \A x \in WaitCmds(n) : Append(c, x) \in Seq(WaitCmds(n))
    BY AppendProperties
  <1>5. c # <<>> => Head(c) \in WaitCmds(n) /\ Tail(c) \in Seq(WaitCmds(n))
    BY HeadTailProperties
  <1>6. QED
    BY <1>2, <1>3, <1>4, <1>5

\* A new reset draws the next identity, which nothing the RT did bears (OnReset).
LEMMA WaitsReset == ASSUME WaitsInv, Waits!OnReset PROVE WaitsInv'
  <1> DEFINE n == waits_enable.next
             new == [Waits!New("reset") EXCEPT !.id = n + 1]
  <1>0. waits_told' = {}
    BY DEF Waits!OnReset, Waits!Asked
  <1>a. Waits!OkIsEarned'
    BY <1>0 DEF Waits!OkIsEarned
  <1>1. CASE UNCHANGED <<waits_cmds, waits_enable, waits_parked, waits_srv>>
    BY <1>1, <1>a DEF Waits!OnReset, WaitsInv, WaitsTyped, WaitsResets, WaitsSwaps
  <1>2. CASE /\ waits_parked' = waits_parked \cup {new}
             /\ waits_srv' = [waits_srv EXCEPT !.estop = FALSE]
             /\ waits_cmds' = waits_cmds \o <<Waits!Rt("soft_off"), Waits!Rt("clear")>>
             /\ waits_enable' = [next |-> n + 1, req |-> n + 1, out |-> "none"]
    <2>1. n \in Nat
      BY DEF WaitsInv, WaitsTyped
    <2>2. /\ DOMAIN new = WaitFields /\ new.earned = FALSE /\ new.id = n + 1
          /\ new.kind = "reset"
      BY DEF Waits!New, WaitFields
    <2>3. UNCHANGED <<waits_rt, waits_op, waits_swap, waits_snapH>>
      BY DEF Waits!OnReset
    <2> HIDE DEF new
    <2>4. waits_cmds' \in Seq(WaitCmds(n + 1))
      <3> DEFINE c == waits_cmds
                 d == <<Waits!Rt("soft_off"), Waits!Rt("clear")>>
      <3>1. c \in Seq(WaitCmds(n))
        BY DEF WaitsInv, WaitsTyped
      <3>2. c \in Seq(WaitCmds(n + 1))
        BY <2>1, <3>1, CommandsBounded
      <3>3. Waits!Rt("soft_off") \in WaitCmds(n + 1) /\ Waits!Rt("clear") \in WaitCmds(n + 1)
        BY <2>1, <3>2, CommandsBounded DEF WaitOps
      <3>4. d \in Seq(WaitCmds(n + 1))
        BY <3>3
      <3>5. waits_cmds' = c \o d
        BY <1>2
      <3> HIDE DEF c, d, n
      <3>6. QED
        BY <3>2, <3>4, <3>5, ConcatProperties
    <2>5. /\ waits_enable'.next = n + 1 /\ waits_enable'.req = n + 1 /\ waits_enable'.out = "none"
          /\ waits_enable' \in [next : Nat, req : Nat, out : WaitOutcomes]
      BY <1>2, <2>1 DEF WaitOutcomes
    <2>6. /\ waits_srv' \in [estop : BOOLEAN, bus : WaitBuses, bridge : WaitBuses,
                             to : WaitBuses \cup {"none"}]
          /\ waits_srv'.estop = FALSE /\ waits_srv'.bridge = waits_srv.bridge
      BY <1>2 DEF WaitsInv, WaitsTyped
    <2>7. WaitsTyped'
      BY <1>2, <2>1, <2>2, <2>3, <2>4, <2>5, <2>6 DEF WaitsInv, WaitsTyped, WaitRequest
    <2>8. WaitsResets'
      <3>1. /\ waits_rt.id \in Nat /\ waits_rt.id <= n /\ waits_snapH.id \in Nat
            /\ waits_snapH.id <= n
        BY DEF WaitsInv, WaitsTyped, WaitsResets, WaitCore
      <3>2. \A p \in waits_parked : p.kind = "reset" => p.id \in Nat /\ p.id <= n
        BY DEF WaitsInv, WaitsTyped, WaitsResets, WaitRequest
      <3> HIDE DEF n
      <3>3. /\ waits_rt'.id <= n + 1 /\ waits_rt'.id # n + 1
            /\ waits_snapH'.id <= n + 1 /\ waits_snapH'.id # n + 1
        BY <2>1, <2>3, <3>1
      <3>4. \A p \in waits_parked' : p.kind = "reset" => p.id <= n + 1
        BY <1>2, <2>1, <2>2, <3>2
      <3>5. QED
        BY <2>4, <2>5, <2>6, <3>3, <3>4 DEF WaitsResets
    <2>9. WaitsSwaps'
      BY <1>2, <2>2, <2>3, <2>6, WaitsSwapFrame
    <2>10. QED
      BY <1>a, <2>7, <2>8, <2>9 DEF WaitsInv
  <1>3. QED
    BY <1>1, <1>2 DEF Waits!OnReset

\* An e-stop takes back the enable that is pending, an uncollected success, and what the
\* parked resets had earned (OnEstop).
LEMMA WaitsEstop == ASSUME WaitsInv, Waits!OnEstop PROVE WaitsInv'
  <1>0. waits_told' = {}
    BY DEF Waits!OnEstop, Waits!Asked
  <1>1. UNCHANGED <<waits_rt, waits_op, waits_swap, waits_snapH>>
    BY DEF Waits!OnEstop
  <1>2. /\ waits_enable' \in [next : Nat, req : Nat, out : WaitOutcomes]
        /\ waits_enable'.next = waits_enable.next /\ waits_enable'.req = 0
        /\ waits_enable'.out # "ok"
    BY DEF Waits!OnEstop, Waits!Superseded, WaitsInv, WaitsTyped, WaitOutcomes
  <1>3. /\ waits_srv' \in [estop : BOOLEAN, bus : WaitBuses, bridge : WaitBuses,
                           to : WaitBuses \cup {"none"}]
        /\ waits_srv'.bridge = waits_srv.bridge
    BY DEF Waits!OnEstop, WaitsInv, WaitsTyped
  <1>4. \A q \in waits_parked' :
          /\ WaitRequest(q)
          /\ \E p \in waits_parked : /\ q.kind = p.kind /\ q.id = p.id /\ q.to = p.to
                                     /\ (p.kind # "reset" => q.earned = p.earned)
    <2> SUFFICES ASSUME NEW p \in waits_parked,
                        NEW q, q = IF p.kind = "reset" THEN [p EXCEPT !.earned = FALSE] ELSE p
                 PROVE  /\ WaitRequest(q) /\ q.kind = p.kind /\ q.id = p.id /\ q.to = p.to
                        /\ (p.kind # "reset" => q.earned = p.earned)
      BY DEF Waits!OnEstop
    <2>1. WaitRequest(p)
      BY DEF WaitsInv, WaitsTyped
    <2>2. CASE p.kind = "reset"
      BY <2>1, <2>2 DEF WaitRequest, WaitFields
    <2>3. CASE p.kind # "reset"
      BY <2>1, <2>3
    <2>4. QED
      BY <2>2, <2>3
  <1>5. waits_cmds' \in Seq(WaitCmds(waits_enable.next))
    <2>1. waits_cmds' = Append(waits_cmds, Waits!Rt("soft_on"))
      BY DEF Waits!OnEstop
    <2>2. waits_cmds \in Seq(WaitCmds(waits_enable.next)) /\ waits_enable.next \in Nat
      BY DEF WaitsInv, WaitsTyped
    <2>3. Waits!Rt("soft_on") \in WaitCmds(waits_enable.next)
      BY <2>2, CommandsBounded DEF WaitOps
    <2>4. QED
      BY <2>1, <2>2, <2>3, CommandsBounded
  <1>6. WaitsTyped'
    BY <1>1, <1>2, <1>3, <1>4, <1>5 DEF WaitsInv, WaitsTyped
  <1>7. WaitsResets'
    <2>1. \A q \in waits_parked' : q.kind = "reset" => q.id <= waits_enable.next
      BY <1>4 DEF WaitsInv, WaitsResets
    <2>2. QED
      BY <1>1, <1>2, <1>5, <2>1 DEF WaitsInv, WaitsResets
  <1>8. WaitsSwaps'
    BY <1>1, <1>3, <1>4, WaitsSwapFrame
  <1>9. QED
    BY <1>0, <1>6, <1>7, <1>8 DEF WaitsInv, Waits!OkIsEarned

\* A step that leaves the enable block, the RT's identity and mark, housekeeping's snapshot
\* and the e-stop latch alone, and takes no reset's mark, keeps the resets' part.
LEMMA WaitsResetFrame ==
  ASSUME WaitsInv, UNCHANGED <<waits_enable, waits_snapH>>, waits_srv'.estop = waits_srv.estop,
         waits_rt'.id = waits_rt.id, waits_rt'.enabled = TRUE => waits_rt.enabled = TRUE,
         \A q \in waits_parked' : q.kind = "reset" =>
           \E p \in waits_parked : p.kind = "reset" /\ q.id = p.id
                                   /\ (p.earned = TRUE => q.earned = TRUE)
  PROVE  WaitsResets'
  <1>1. ResetsDone(waits_parked) => ResetsDone(waits_parked')
    BY DEF ResetsDone
  <1>2. \A q \in waits_parked' : q.kind = "reset" => q.id <= waits_enable.next
    BY DEF WaitsInv, WaitsResets
  <1>3. QED
    BY <1>1, <1>2 DEF WaitsInv, WaitsResets

\* Entering and leaving FLASHING park requests of their own kind (OnEnterFlashing,
\* OnExitFlashing).
LEMMA WaitsFlashing ==
  ASSUME WaitsInv, Waits!OnEnterFlashing \/ Waits!OnExitFlashing
  PROVE  WaitsInv'
  <1>0. waits_told' = {}
    BY DEF Waits!OnEnterFlashing, Waits!OnExitFlashing, Waits!Asked
  <1>1. UNCHANGED <<waits_rt, waits_op, waits_enable, waits_swap, waits_snapH, waits_srv>>
    BY DEF Waits!OnEnterFlashing, Waits!OnExitFlashing
  <1>2. /\ waits_cmds \in Seq(WaitCmds(waits_enable.next)) /\ waits_enable.next \in Nat
        /\ \A p \in waits_parked : WaitRequest(p)
    BY DEF WaitsInv, WaitsTyped
  <1>3. waits_cmds' \in Seq(WaitCmds(waits_enable.next))
    <2> DEFINE n == waits_enable.next
               d == <<Waits!Rt("idle"), Waits!Rt("park"), Waits!Rt("flashing")>>
    <2>1. /\ Waits!Rt("idle") \in WaitCmds(n) /\ Waits!Rt("park") \in WaitCmds(n)
          /\ Waits!Rt("flashing") \in WaitCmds(n)
      BY <1>2, CommandsBounded DEF WaitOps
    <2>2. d \in Seq(WaitCmds(n))
      BY <2>1
    <2>3. waits_cmds' \in {waits_cmds, waits_cmds \o d, Append(waits_cmds, Waits!Rt("idle"))}
      BY DEF Waits!OnEnterFlashing, Waits!OnExitFlashing
    <2> HIDE DEF n, d
    <2>4. waits_cmds \o d \in Seq(WaitCmds(n))
      BY <1>2, <2>2, ConcatProperties DEF n
    <2>5. Append(waits_cmds, Waits!Rt("idle")) \in Seq(WaitCmds(n))
      BY <1>2, <2>1, CommandsBounded DEF n
    <2>6. QED
      BY <1>2, <2>3, <2>4, <2>5 DEF n
  <1>4. \A q \in waits_parked' :
          /\ WaitRequest(q)
          /\ q.kind \in {"reset", "swap"} => q \in waits_parked
    <2>1. ASSUME NEW k \in {"enter", "exit"}
          PROVE  WaitRequest(Waits!New(k)) /\ Waits!New(k).kind = k
      BY DEF Waits!New, WaitRequest, WaitFields
    <2>2. ASSUME NEW p \in waits_parked, NEW k \in {"enter", "exit"}
          PROVE  LET q == IF p.kind = k THEN [p EXCEPT !.earned = FALSE] ELSE p
                 IN  WaitRequest(q) /\ (q.kind \in {"reset", "swap"} => q \in waits_parked)
      <3>1. WaitRequest(p)
        BY <1>2
      <3>2. CASE p.kind = k
        BY <3>1, <3>2 DEF WaitRequest, WaitFields
      <3>3. CASE p.kind # k
        BY <3>1, <3>3
      <3>4. QED
        BY <3>2, <3>3
    <2>3. \/ waits_parked' = waits_parked
          \/ waits_parked' = {IF p.kind = "exit" THEN [p EXCEPT !.earned = FALSE] ELSE p :
                                p \in waits_parked} \cup {Waits!New("enter")}
          \/ waits_parked' = {IF p.kind = "enter" THEN [p EXCEPT !.earned = FALSE] ELSE p :
                                p \in waits_parked} \cup {Waits!New("exit")}
      BY DEF Waits!OnEnterFlashing, Waits!OnExitFlashing
    <2> HIDE DEF Waits!New
    <2>4. QED
      BY <1>2, <2>1, <2>2, <2>3
  <1>5. WaitsTyped'
    BY <1>1, <1>3, <1>4 DEF WaitsInv, WaitsTyped
  <1>6. WaitsResets'
    BY <1>1, <1>4, WaitsResetFrame
  <1>7. WaitsSwaps'
    BY <1>1, <1>4, WaitsSwapFrame
  <1>8. QED
    BY <1>0, <1>5, <1>6, <1>7 DEF WaitsInv, Waits!OkIsEarned

\* A scan is parked without a word about resets and swaps (OnBusScan).
LEMMA WaitsScan == ASSUME WaitsInv, Waits!OnBusScan PROVE WaitsInv'
  <1>0. waits_told' = {}
    BY DEF Waits!OnBusScan, Waits!Asked
  <1>1. UNCHANGED <<waits_rt, waits_op, waits_enable, waits_swap, waits_snapH, waits_srv>>
    BY DEF Waits!OnBusScan
  <1>2. /\ waits_cmds \in Seq(WaitCmds(waits_enable.next)) /\ waits_enable.next \in Nat
        /\ \A p \in waits_parked : WaitRequest(p)
    BY DEF WaitsInv, WaitsTyped
  <1>3. waits_cmds' \in Seq(WaitCmds(waits_enable.next))
    <2>1. Waits!Rt("scan") \in WaitCmds(waits_enable.next)
      BY <1>2, CommandsBounded DEF WaitOps
    <2>2. QED
      BY <1>2, <2>1, CommandsBounded DEF Waits!OnBusScan
  <1>4. \A q \in waits_parked' :
          /\ WaitRequest(q)
          /\ q.kind \in {"reset", "swap"} => q \in waits_parked
    <2> DEFINE new == [Waits!New("scan") EXCEPT !.epoch = waits_snapS.epoch]
    <2>1. WaitRequest(new) /\ new.kind = "scan"
      BY DEF Waits!New, WaitRequest, WaitFields
    <2>2. waits_parked' = waits_parked \cup {new}
      BY DEF Waits!OnBusScan
    <2> HIDE DEF new
    <2>3. QED
      BY <1>2, <2>1, <2>2
  <1>5. WaitsTyped'
    BY <1>1, <1>3, <1>4 DEF WaitsInv, WaitsTyped
  <1>6. WaitsResets' /\ WaitsSwaps'
    BY <1>1, <1>4, WaitsResetFrame, WaitsSwapFrame
  <1>7. QED
    BY <1>0, <1>5, <1>6 DEF WaitsInv, Waits!OkIsEarned

\* A motion changes the RT's mode (OnMotion).
LEMMA WaitsMotion == ASSUME WaitsInv, Waits!OnMotion PROVE WaitsInv'
  <1>0. waits_told' = {}
    BY DEF Waits!OnMotion, Waits!Asked
  <1>1. UNCHANGED <<waits_cmds, waits_op, waits_enable, waits_swap, waits_snapH, waits_srv,
                    waits_parked>>
    BY DEF Waits!OnMotion
  <1>2. /\ WaitCore(waits_rt') /\ waits_rt'.id = waits_rt.id /\ waits_rt'.bus = waits_rt.bus
        /\ waits_rt'.enabled = waits_rt.enabled
    <2>1. waits_rt' = [waits_rt EXCEPT !.mode = "exec", !.park = FALSE] /\ WaitCore(waits_rt)
      BY DEF Waits!OnMotion, WaitsInv, WaitsTyped
    <2>2. QED
      BY <2>1 DEF WaitCore, WaitRtFields
  <1>3. WaitsTyped'
    BY <1>1, <1>2 DEF WaitsInv, WaitsTyped
  <1>4. WaitsResets' /\ WaitsSwaps'
    BY <1>1, <1>2, WaitsResetFrame, WaitsSwapFrame
  <1>5. QED
    BY <1>0, <1>3, <1>4 DEF WaitsInv, Waits!OkIsEarned

\* A swap to the backend that runs is earned as it is asked; any other is told to the RT,
\* and only when no swap is under way (OnBusSwap).
LEMMA WaitsBusSwap ==
  ASSUME WaitsInv, NEW to \in WaitBuses, NEW connect \in BOOLEAN, Waits!OnBusSwap(to, connect)
  PROVE  WaitsInv'
  <1> DEFINE new == [Waits!New("swap") EXCEPT !.to = to, !.earned = waits_rt.bus = to]
  <1>0. waits_told' = {}
    BY DEF Waits!OnBusSwap, Waits!Asked
  <1>1. UNCHANGED <<waits_rt, waits_cmds, waits_enable, waits_snapH>>
    BY DEF Waits!OnBusSwap
  <1>2. CASE UNCHANGED <<waits_op, waits_swap, waits_parked, waits_srv>>
    BY <1>0, <1>1, <1>2 DEF WaitsInv, WaitsTyped, WaitsResets, WaitsSwaps, Waits!OkIsEarned
  <1>3. CASE /\ ~Waits!Swapping /\ Waits!StartSwap(to, connect)
             /\ waits_srv' = [waits_srv EXCEPT !.to = to]
             /\ waits_parked' = (IF Waits!Full({"swap"}) THEN waits_parked
                                 ELSE waits_parked \cup {new})
    <2>1. /\ WaitRequest(new) /\ new.kind = "swap" /\ new.to = to
          /\ waits_rt.bus = to => new.earned = TRUE
      <3> DEFINE e == waits_rt.bus = to
      <3>1. e \in BOOLEAN /\ (waits_rt.bus = to => e = TRUE)
        OBVIOUS
      <3> HIDE DEF e
      <3>2. new = [Waits!New("swap") EXCEPT !.to = to, !.earned = e]
        BY DEF e
      <3>3. QED
        BY <3>1, <3>2 DEF Waits!New, WaitRequest, WaitFields
    <2>2. \A q \in waits_parked' : q \in waits_parked \/ q = new
      BY <1>3
    <2> HIDE DEF new
    <2>3. /\ waits_srv' \in [estop : BOOLEAN, bus : WaitBuses, bridge : WaitBuses,
                             to : WaitBuses \cup {"none"}]
          /\ waits_srv'.bridge = waits_srv.bridge /\ waits_srv'.estop = waits_srv.estop
      BY <1>3 DEF WaitsInv, WaitsTyped
    <2>4. /\ waits_swap.to = "none" /\ waits_op = "none" /\ SwapsDone(waits_parked)
          /\ waits_rt.bus = waits_srv.bridge
      BY <1>3 DEF WaitsInv, WaitsSwaps, Waits!Swapping
    <2>5. WaitsResets'
      BY <1>1, <2>1, <2>2, <2>3, WaitsResetFrame
    <2>6. CASE waits_srv.bridge = to /\ ~connect
      <3>1. /\ waits_swap' = [waits_swap EXCEPT !.out = "ok"] /\ UNCHANGED waits_op
        BY <1>3, <2>6 DEF Waits!StartSwap
      <3>2. /\ waits_swap' \in [to : WaitBuses \cup {"none"}, out : WaitOutcomes]
            /\ waits_swap'.to = "none" /\ waits_swap'.out = "ok"
        BY <2>4, <3>1 DEF WaitsInv, WaitsTyped, WaitOutcomes
      <3>3. SwapsDone(waits_parked')
        BY <2>1, <2>2, <2>4, <2>6 DEF SwapsDone
      <3>4. WaitsTyped'
        BY <1>1, <2>1, <2>2, <2>3, <3>1, <3>2 DEF WaitsInv, WaitsTyped
      <3>5. WaitsSwaps'
        BY <1>1, <2>3, <2>4, <3>1, <3>2, <3>3 DEF WaitsSwaps, SwapsDone
      <3>6. QED
        BY <1>0, <2>5, <3>4, <3>5 DEF WaitsInv, Waits!OkIsEarned
    <2>7. CASE ~(waits_srv.bridge = to /\ ~connect)
      <3>1. /\ waits_swap' = [to |-> to, out |-> "none"] /\ waits_op' = to
        BY <1>3, <2>7 DEF Waits!StartSwap
      <3>2. /\ waits_swap' \in [to : WaitBuses \cup {"none"}, out : WaitOutcomes]
            /\ waits_swap'.to = to /\ waits_swap'.out = "none" /\ to # "none"
        BY <3>1 DEF WaitOutcomes, WaitBuses
      <3>3. \A q \in waits_parked' : q.kind = "swap" => q.earned = TRUE \/ q.to = to
        BY <2>1, <2>2, <2>4 DEF SwapsDone
      <3>4. WaitsTyped'
        BY <1>1, <2>1, <2>2, <2>3, <3>1, <3>2 DEF WaitsInv, WaitsTyped
      <3>5. WaitsSwaps'
        BY <1>1, <2>3, <2>4, <3>1, <3>2, <3>3 DEF WaitsSwaps
      <3>6. QED
        BY <1>0, <2>5, <3>4, <3>5 DEF WaitsInv, Waits!OkIsEarned
    <2>8. QED
      BY <2>6, <2>7
  <1>4. QED
    BY <1>2, <1>3 DEF Waits!OnBusSwap

\* Polls and reads of a snapshot that answer nobody (Refresh, ReadSnapshot, PollEnable,
\* PollFlashing): an enable is confirmed only under its own identity.
LEMMA WaitsPolls ==
  ASSUME WaitsInv, Waits!Refresh \/ Waits!ReadSnapshot \/ Waits!PollEnable \/ Waits!PollFlashing
  PROVE  WaitsInv'
  <1>0. waits_told' = {}
    BY DEF Waits!Refresh, Waits!ReadSnapshot, Waits!PollEnable, Waits!PollFlashing
  <1>1. UNCHANGED <<waits_rt, waits_cmds, waits_op, waits_swap, waits_parked, waits_srv>>
    BY DEF Waits!Refresh, Waits!ReadSnapshot, Waits!PollEnable, Waits!PollFlashing
  <1>2. WaitsSwaps'
    BY <1>1 DEF WaitsInv, WaitsSwaps
  <1>3. CASE Waits!Refresh \/ Waits!PollFlashing
    <2>1. UNCHANGED <<waits_enable, waits_snapH>>
      BY <1>3 DEF Waits!Refresh, Waits!PollFlashing
    <2>2. QED
      BY <1>0, <1>1, <1>2, <2>1 DEF WaitsInv, WaitsTyped, WaitsResets, Waits!OkIsEarned
  <1>4. CASE Waits!ReadSnapshot
    <2>1. /\ UNCHANGED waits_enable
          /\ waits_snapH'.enabled = waits_rt.enabled /\ waits_snapH'.id = waits_rt.id
      BY <1>4 DEF Waits!ReadSnapshot, Waits!View
    <2>2. WaitsTyped'
      BY <1>1, <2>1 DEF WaitsInv, WaitsTyped, WaitCore
    <2>3. WaitsResets'
      BY <1>1, <2>1 DEF WaitsInv, WaitsResets
    <2>4. QED
      BY <1>0, <1>2, <2>2, <2>3 DEF WaitsInv, Waits!OkIsEarned
  <1>5. CASE Waits!PollEnable
    <2>1. /\ UNCHANGED waits_snapH
          /\ waits_enable.req # 0
          /\ waits_enable' =
               [waits_enable EXCEPT !.req = 0,
                  !.out = IF Waits!EnabledFor(waits_snapH, waits_enable.req) THEN "ok" ELSE "err"]
      BY <1>5 DEF Waits!PollEnable
    <2>2. /\ waits_enable' \in [next : Nat, req : Nat, out : WaitOutcomes]
          /\ waits_enable'.next = waits_enable.next /\ waits_enable'.req = 0
          /\ waits_enable'.out = "ok" => Waits!EnabledFor(waits_snapH, waits_enable.req)
      BY <2>1 DEF WaitsInv, WaitsTyped, WaitOutcomes
    <2>3. waits_enable'.out = "ok" => ResetsDone(waits_parked)
      <3>1. waits_snapH.enabled \in BOOLEAN
        BY DEF WaitsInv, WaitsTyped
      <3>2. QED
        BY <2>1, <2>2, <3>1 DEF WaitsInv, WaitsResets, Waits!EnabledFor
    <2>4. WaitsTyped'
      BY <1>1, <2>1, <2>2 DEF WaitsInv, WaitsTyped
    <2>5. WaitsResets'
      BY <1>1, <2>1, <2>2, <2>3 DEF WaitsInv, WaitsResets
    <2>6. QED
      BY <1>0, <1>2, <2>4, <2>5 DEF WaitsInv, Waits!OkIsEarned
  <1>6. QED
    BY <1>3, <1>4, <1>5

\* An enable is sent again under the identity it was drawn with (SendEnable).
LEMMA WaitsSendEnable == ASSUME WaitsInv, Waits!SendEnable PROVE WaitsInv'
  <1>0. waits_told' = {}
    BY DEF Waits!SendEnable
  <1>1. UNCHANGED <<waits_rt, waits_op, waits_enable, waits_swap, waits_snapH, waits_srv,
                    waits_parked>>
    BY DEF Waits!SendEnable
  <1>2. /\ waits_cmds \in Seq(WaitCmds(waits_enable.next)) /\ waits_enable.next \in Nat
        /\ waits_enable.req = waits_enable.next
    BY DEF WaitsInv, WaitsTyped, WaitsResets, Waits!SendEnable
  <1>3. waits_cmds' \in Seq(WaitCmds(waits_enable.next))
    <2>1. [op |-> "enable", id |-> waits_enable.req] \in WaitCmds(waits_enable.next)
      BY <1>2 DEF WaitCmds, WaitOps
    <2>2. waits_cmds' = Append(waits_cmds, [op |-> "enable", id |-> waits_enable.req])
      BY DEF Waits!SendEnable
    <2>3. QED
      BY <1>2, <2>1, <2>2, CommandsBounded
  <1>4. WaitsTyped'
    BY <1>1, <1>3 DEF WaitsInv, WaitsTyped
  <1>5. WaitsResets' /\ WaitsSwaps'
    BY <1>1 DEF WaitsInv, WaitsResets, WaitsSwaps
  <1>6. QED
    BY <1>0, <1>4, <1>5 DEF WaitsInv, Waits!OkIsEarned

\* Scans and FLASHING are answered without a word about resets and swaps (LateScans,
\* SettleFlashing).
LEMMA WaitsOthersAnswered ==
  ASSUME WaitsInv, Waits!LateScans \/ Waits!SettleFlashing
  PROVE  WaitsInv'
  <1>1. UNCHANGED <<waits_rt, waits_cmds, waits_op, waits_enable, waits_swap, waits_snapH,
                    waits_srv>>
    BY DEF Waits!LateScans, Waits!AnswerScans, Waits!SettleFlashing
  <1>2. waits_parked' \subseteq waits_parked
    BY DEF Waits!LateScans, Waits!AnswerScans, Waits!SettleFlashing
  <1>3. \A t \in waits_told' : t.kind \in {"scan", "enter", "exit"}
    <2>1. CASE Waits!SettleFlashing
      BY <2>1 DEF Waits!SettleFlashing, Waits!Tell, Waits!Of
    <2>2. CASE Waits!LateScans
      BY <2>2 DEF Waits!LateScans, Waits!AnswerScans, Waits!Of
    <2>3. QED
      BY <2>1, <2>2
  <1>4. WaitsTyped'
    BY <1>1, <1>2 DEF WaitsInv, WaitsTyped
  <1>5. WaitsResets' /\ WaitsSwaps'
    BY <1>1, <1>2, WaitsResetFrame, WaitsSwapFrame
  <1>6. QED
    BY <1>3, <1>4, <1>5 DEF WaitsInv, Waits!OkIsEarned

\* A reset's verdict answers every reset parked, each of which it holds for (SettleEnable).
LEMMA WaitsSettleEnable == ASSUME WaitsInv, Waits!SettleEnable PROVE WaitsInv'
  <1>1. UNCHANGED <<waits_rt, waits_cmds, waits_op, waits_swap, waits_snapH, waits_srv>>
    BY DEF Waits!SettleEnable
  <1>2. waits_parked' = waits_parked \ Waits!Of({"reset"})
    BY DEF Waits!SettleEnable
  <1>3. /\ waits_enable' \in [next : Nat, req : Nat, out : WaitOutcomes]
        /\ waits_enable'.next = waits_enable.next /\ waits_enable'.req = waits_enable.req
        /\ waits_enable'.out = "none"
    BY DEF Waits!SettleEnable, WaitsInv, WaitsTyped, WaitOutcomes
  <1>4. Waits!OkIsEarned'
    <2>1. \A t \in waits_told' : \E p \in waits_parked :
            p.kind = "reset" /\ t.ok = (waits_enable.out = "ok") /\ t.earned = p.earned
      BY DEF Waits!SettleEnable, Waits!Tell, Waits!Of
    <2>2. waits_enable.out = "ok" => ResetsDone(waits_parked)
      BY DEF WaitsInv, WaitsResets
    <2>3. \A t \in waits_told' : t.ok => t.earned = TRUE
      BY <2>1, <2>2 DEF ResetsDone
    <2>4. QED
      BY <2>3 DEF Waits!OkIsEarned
  <1>5. WaitsTyped'
    BY <1>1, <1>2, <1>3 DEF WaitsInv, WaitsTyped
  <1>6. WaitsResets'
    <2>1. \A q \in waits_parked' : q \in waits_parked /\ q.kind # "reset"
      BY <1>2 DEF Waits!Of
    <2>2. QED
      BY <1>1, <1>3, <2>1 DEF WaitsInv, WaitsResets, ResetsDone
  <1>7. WaitsSwaps'
    BY <1>1, <1>2, WaitsSwapFrame
  <1>8. QED
    BY <1>4, <1>5, <1>6, <1>7 DEF WaitsInv

\* A swap's verdict answers every swap parked and the bridge adopts the bus the RT drives
\* (SettleBus).
LEMMA WaitsSettleBus == ASSUME WaitsInv, Waits!SettleBus PROVE WaitsInv'
  <1>1. UNCHANGED <<waits_rt, waits_cmds, waits_op, waits_enable, waits_snapH>>
    BY DEF Waits!SettleBus
  <1>2. \A q \in waits_parked' : q \in waits_parked /\ q.kind # "swap"
    BY DEF Waits!SettleBus, Waits!Of
  <1>3. waits_swap' = [to |-> "none", out |-> "none"] /\ waits_swap.out # "none"
    BY DEF Waits!SettleBus
  <1>4. /\ waits_srv' \in [estop : BOOLEAN, bus : WaitBuses, bridge : WaitBuses,
                           to : WaitBuses \cup {"none"}]
        /\ waits_srv'.estop = waits_srv.estop
        /\ waits_srv'.bridge = IF waits_swap.to # "none" /\ waits_swap.out = "ok"
                               THEN waits_swap.to ELSE waits_srv.bridge
    BY DEF Waits!SettleBus, Waits!Adopted, Waits!Swapping, WaitsInv, WaitsTyped
  <1>5. Waits!OkIsEarned'
    <2>1. \A t \in waits_told' : \E p \in waits_parked :
            p.kind = "swap" /\ t.ok = (waits_swap.out = "ok") /\ t.earned = p.earned
      BY DEF Waits!SettleBus, Waits!Tell, Waits!Of
    <2>2. waits_swap.out = "ok" => SwapsDone(waits_parked)
      BY DEF WaitsInv, WaitsSwaps
    <2>3. \A t \in waits_told' : t.ok => t.earned = TRUE
      BY <2>1, <2>2 DEF SwapsDone
    <2>4. QED
      BY <2>3 DEF Waits!OkIsEarned
  <1>6. WaitsTyped'
    BY <1>1, <1>2, <1>3, <1>4 DEF WaitsInv, WaitsTyped, WaitOutcomes
  <1>7. WaitsResets'
    BY <1>1, <1>2, <1>4, WaitsResetFrame
  <1>8. WaitsSwaps'
    BY <1>1, <1>2, <1>3, <1>4 DEF WaitsInv, WaitsSwaps, SwapsDone
  <1>9. QED
    BY <1>5, <1>6, <1>7, <1>8 DEF WaitsInv

\* The swap closure installs the backend asked for, or leaves the RT as it was (RunOp).
LEMMA WaitsRunOp == ASSUME WaitsInv, Waits!RunOp PROVE WaitsInv'
  <1>0. waits_told' = {}
    BY DEF Waits!RunOp
  <1>1. UNCHANGED <<waits_cmds, waits_enable, waits_snapH, waits_srv>> /\ waits_op' = "none"
    BY DEF Waits!RunOp
  <1>2. /\ waits_op \in WaitBuses /\ waits_op = waits_swap.to /\ waits_swap.out = "none"
        /\ waits_op # "none" /\ waits_rt.bus = waits_srv.bridge
    BY DEF Waits!RunOp, WaitsInv, WaitsTyped, WaitsSwaps, WaitBuses
  <1>3. /\ WaitCore(waits_rt') /\ waits_rt'.id = waits_rt.id
        /\ waits_rt'.enabled = TRUE => waits_rt.enabled = TRUE
        /\ waits_swap' \in [to : WaitBuses \cup {"none"}, out : WaitOutcomes]
        /\ waits_swap'.to = waits_op
        /\ \/ waits_rt'.bus = waits_op /\ waits_swap'.out = "ok"
           \/ waits_rt'.bus = waits_rt.bus /\ waits_swap'.out = "err"
    <2>0. WaitCore(waits_rt) /\ waits_swap \in [to : WaitBuses \cup {"none"}, out : WaitOutcomes]
      BY DEF WaitsInv, WaitsTyped
    <2>1. CASE waits_rt' = Waits!Installed(waits_op) /\ waits_swap' = [waits_swap EXCEPT !.out = "ok"]
      BY <1>2, <2>0, <2>1 DEF Waits!Installed, WaitCore, WaitRtFields, WaitOutcomes
    <2>2. CASE waits_rt' = waits_rt /\ waits_swap' = [waits_swap EXCEPT !.out = "err"]
      BY <1>2, <2>0, <2>2 DEF WaitOutcomes
    <2>3. QED
      BY <2>1, <2>2 DEF Waits!RunOp
  <1>4. \A q \in waits_parked' :
          /\ WaitRequest(q)
          /\ \E p \in waits_parked :
               /\ q.kind = p.kind /\ q.id = p.id /\ q.to = p.to
               /\ (p.earned = TRUE => q.earned = TRUE)
               /\ (p.kind = "swap" /\ waits_rt'.bus = p.to => q.earned = TRUE)
    <2> SUFFICES ASSUME NEW p \in waits_parked,
                        NEW q, q = [p EXCEPT !.earned = @ \/ (p.kind = "swap" /\ waits_rt'.bus = p.to)]
                 PROVE  /\ WaitRequest(q) /\ q.kind = p.kind /\ q.id = p.id /\ q.to = p.to
                        /\ (p.earned = TRUE => q.earned = TRUE)
                        /\ (p.kind = "swap" /\ waits_rt'.bus = p.to => q.earned = TRUE)
      BY DEF Waits!RunOp
    <2> DEFINE e == p.earned \/ (p.kind = "swap" /\ waits_rt'.bus = p.to)
    <2>1. WaitRequest(p)
      BY DEF WaitsInv, WaitsTyped
    <2>2. /\ e \in BOOLEAN /\ (p.earned = TRUE => e = TRUE)
          /\ (p.kind = "swap" /\ waits_rt'.bus = p.to => e = TRUE)
      OBVIOUS
    <2>3. q = [p EXCEPT !.earned = e]
      OBVIOUS
    <2> HIDE DEF e
    <2>4. QED
      BY <2>1, <2>2, <2>3 DEF WaitRequest, WaitFields
  <1>5. WaitsTyped'
    BY <1>1, <1>3, <1>4 DEF WaitsInv, WaitsTyped
  <1>6. WaitsResets'
    <2>1. \A q \in waits_parked' : q.kind = "reset" =>
            \E p \in waits_parked : p.kind = "reset" /\ q.id = p.id
                                    /\ (p.earned = TRUE => q.earned = TRUE)
      BY <1>4
    <2>2. QED
      BY <1>1, <1>3, <2>1, WaitsResetFrame
  <1>7. WaitsSwaps'
    <2>1. \A q \in waits_parked' : q.kind = "swap" => q.earned = TRUE \/ q.to = waits_op
      BY <1>2, <1>4 DEF WaitsInv, WaitsSwaps
    <2>2. waits_rt'.bus = waits_op => SwapsDone(waits_parked')
      BY <1>2, <1>4 DEF WaitsInv, WaitsSwaps, SwapsDone
    <2>3. QED
      BY <1>1, <1>2, <1>3, <2>1, <2>2 DEF WaitsSwaps
  <1>8. QED
    BY <1>0, <1>5, <1>6, <1>7 DEF WaitsInv, Waits!OkIsEarned

\* A tick keeps the bus, and takes the identity of an enable it applies or keeps its own
\* (Applied, Latched, StepScan).
LEMMA TickCore ==
  ASSUME NEW n, NEW r, WaitCore(r), NEW c \in WaitCmds(n),
         NEW a, a \in {r, Waits!Applied(r, c)},
         NEW s, s = Waits!StepScan(Waits!Latched(a))
  PROVE  WaitCore(s) /\ s.bus = r.bus /\ s.id \in {r.id, c.id}
  <1>1. WaitCore(a) /\ a.bus = r.bus /\ a.id \in {r.id, c.id}
    <2>1. c.id \in Nat
      BY DEF WaitCmds
    <2>2. QED
      BY <2>1 DEF WaitCore, WaitRtFields, Waits!Applied
  <1>2. ASSUME NEW l, l = Waits!Latched(a)
        PROVE  WaitCore(l) /\ l.bus = a.bus /\ l.id = a.id
    <2> DEFINE latch == a.soft \/ (a.latched /\ ~(a.clear = 1))
               on == a.enabled /\ ~latch
               left == IF a.clear > 0 THEN a.clear - 1 ELSE 0
               mode == CASE latch /\ a.mode \notin {"flash", "boot"} -> "error"
                         [] ~latch /\ a.mode \in {"error", "boot"} -> "idle"
                         [] OTHER -> a.mode
    <2>1. l = [a EXCEPT !.latched = latch, !.enabled = on, !.clear = left, !.mode = mode]
      BY <1>1, <1>2 DEF Waits!Latched, WaitCore, WaitRtFields
    <2>2. on \in BOOLEAN
      OBVIOUS
    <2> HIDE DEF latch, on, left, mode
    <2>3. QED
      BY <1>1, <2>1, <2>2 DEF WaitCore, WaitRtFields
  <1>3. ASSUME NEW l, WaitCore(l), s = Waits!StepScan(l)
        PROVE  WaitCore(s) /\ s.bus = l.bus /\ s.id = l.id
    BY <1>3 DEF WaitCore, WaitRtFields, Waits!StepScan
  <1>4. QED
    BY <1>1, <1>2, <1>3

\* A tick takes no mark away, and gives one to every reset the arm is now enabled for
\* (Earn).
LEMMA TickEarns ==
  ASSUME NEW r, NEW p, WaitRequest(p), NEW t, NEW q, q = Waits!Earn(r, p, t)
  PROVE  /\ WaitRequest(q) /\ q.kind = p.kind /\ q.to = p.to
         /\ (p.kind = "reset" => q.id = p.id) /\ (p.earned = TRUE => q.earned = TRUE)
         /\ (p.kind = "reset" /\ waits_srv.estop = FALSE /\ r.enabled = TRUE /\ r.id >= p.id
               => q.earned = TRUE)
  <1>1. CASE p.kind = "reset"
    <2> DEFINE e == p.earned \/ (~waits_srv.estop /\ r.enabled /\ r.id >= p.id)
    <2>1. q = [p EXCEPT !.earned = e]
      BY <1>1 DEF Waits!Earn
    <2>2. /\ e \in BOOLEAN /\ (p.earned = TRUE => e = TRUE)
          /\ (waits_srv.estop = FALSE /\ r.enabled = TRUE /\ r.id >= p.id => e = TRUE)
      OBVIOUS
    <2> HIDE DEF e
    <2>3. QED
      BY <1>1, <2>1, <2>2 DEF WaitRequest, WaitFields
  <1>2. CASE p.kind \in {"enter", "exit"}
    <2> DEFINE e == p.earned \/ (waits_flash.want = "flash" /\ r.mode = "flash")
               f == p.earned \/ r.mode # "flash"
    <2>1. q = [p EXCEPT !.earned = e] \/ q = [p EXCEPT !.earned = f]
      BY <1>2 DEF Waits!Earn
    <2>2. e \in BOOLEAN /\ f \in BOOLEAN /\ (p.earned = TRUE => e = TRUE /\ f = TRUE)
      OBVIOUS
    <2> HIDE DEF e, f
    <2>3. QED
      BY <1>2, <2>1, <2>2 DEF WaitRequest, WaitFields
  <1>3. CASE p.kind = "scan"
    <2> DEFINE e == p.earned \/ (p.id = 1 /\ r.epoch # waits_rt.epoch)
               i == IF t = "scan" THEN 1 ELSE p.id
    <2>1. q = [p EXCEPT !.earned = e, !.id = i]
      BY <1>3 DEF Waits!Earn, WaitRequest, WaitFields
    <2>2. e \in BOOLEAN /\ (p.earned = TRUE => e = TRUE)
      OBVIOUS
    <2>3. i \in Nat
      BY DEF WaitRequest
    <2> HIDE DEF e, i
    <2>4. QED
      BY <1>3, <2>1, <2>2, <2>3 DEF WaitRequest, WaitFields
  <1>4. CASE p.kind \notin {"reset", "enter", "exit", "scan"}
    <2>1. q = p
      BY <1>4 DEF Waits!Earn
    <2>2. QED
      BY <1>4, <2>1
  <1>5. QED
    BY <1>1, <1>2, <1>3, <1>4

\* The RT's tick (Tick).
LEMMA WaitsTick == ASSUME WaitsInv, Waits!Tick PROVE WaitsInv'
  <1> DEFINE n == waits_enable.next
             nop == [op |-> "idle", id |-> 0]
             c == IF waits_cmds = <<>> THEN nop ELSE Head(waits_cmds)
             taken == IF waits_cmds = <<>> THEN "none" ELSE Head(waits_cmds).op
             a == IF waits_cmds = <<>> THEN waits_rt ELSE Waits!Applied(waits_rt, c)
  <1>0. waits_told' = {}
    BY DEF Waits!Tick
  <1>1. UNCHANGED <<waits_op, waits_enable, waits_swap, waits_snapH, waits_srv>>
    BY DEF Waits!Tick
  <1>2. /\ waits_cmds \in Seq(WaitCmds(n)) /\ n \in Nat /\ WaitCore(waits_rt)
        /\ \A p \in waits_parked : WaitRequest(p)
    BY DEF WaitsInv, WaitsTyped
  <1>3. c \in WaitCmds(n) /\ waits_cmds' \in Seq(WaitCmds(n))
    <2>1. CASE waits_cmds = <<>>
      <3>1. nop \in WaitCmds(n)
        BY <1>2 DEF WaitCmds, WaitOps
      <3>2. QED
        BY <1>2, <2>1, <3>1 DEF Waits!Tick
    <2>2. CASE waits_cmds # <<>>
      BY <1>2, <2>2, CommandsBounded DEF Waits!Tick
    <2>3. QED
      BY <2>1, <2>2
  <1>4. /\ a \in {waits_rt, Waits!Applied(waits_rt, c)}
        /\ waits_rt' = Waits!StepScan(Waits!Latched(a))
        /\ waits_parked' = {Waits!Earn(waits_rt', p, taken) : p \in waits_parked}
    BY DEF Waits!Tick
  <1> HIDE DEF a, c, taken
  <1>5. WaitCore(waits_rt') /\ waits_rt'.bus = waits_rt.bus /\ waits_rt'.id \in {waits_rt.id, c.id}
    BY <1>2, <1>3, <1>4, TickCore
  <1>6. \A q \in waits_parked' :
          /\ WaitRequest(q)
          /\ \E p \in waits_parked :
               /\ q.kind = p.kind /\ q.to = p.to
               /\ (p.kind = "reset" => q.id = p.id) /\ (p.earned = TRUE => q.earned = TRUE)
               /\ (p.kind = "reset" /\ waits_srv.estop = FALSE /\ waits_rt'.enabled = TRUE
                     /\ waits_rt'.id >= p.id => q.earned = TRUE)
    <2>1. ASSUME NEW q \in waits_parked'
          PROVE  \E p \in waits_parked : q = Waits!Earn(waits_rt', p, taken)
      BY <1>4
    <2> SUFFICES ASSUME NEW q \in waits_parked', NEW p \in waits_parked,
                        q = Waits!Earn(waits_rt', p, taken)
                 PROVE  /\ WaitRequest(q) /\ q.kind = p.kind /\ q.to = p.to
                        /\ (p.kind = "reset" => q.id = p.id)
                        /\ (p.earned = TRUE => q.earned = TRUE)
                        /\ (p.kind = "reset" /\ waits_srv.estop = FALSE
                              /\ waits_rt'.enabled = TRUE /\ waits_rt'.id >= p.id
                              => q.earned = TRUE)
      BY <2>1, Zenon
    <2>2. WaitRequest(p)
      BY <1>2
    <2> DEFINE r == waits_rt'
    <2>3. q = Waits!Earn(r, p, taken)
      OBVIOUS
    <2> HIDE DEF r
    <2>4. /\ WaitRequest(q) /\ q.kind = p.kind /\ q.to = p.to
          /\ (p.kind = "reset" => q.id = p.id) /\ (p.earned = TRUE => q.earned = TRUE)
          /\ (p.kind = "reset" /\ waits_srv.estop = FALSE /\ r.enabled = TRUE /\ r.id >= p.id
                => q.earned = TRUE)
      BY <2>2, <2>3, TickEarns, ZenonT(40)
    <2>5. QED
      BY <2>4 DEF r
  <1>7. WaitsTyped'
    BY <1>1, <1>2, <1>3, <1>5, <1>6 DEF WaitsInv, WaitsTyped
  <1>8. WaitsResets'
    <2>1. waits_rt'.id \in Nat /\ waits_rt'.id <= n
      <3>1. c.id \in 0..n
        BY <1>3 DEF WaitCmds
      <3>2. waits_rt.id \in Nat /\ waits_rt.id <= n
        BY DEF WaitsInv, WaitsTyped, WaitsResets, WaitCore
      <3>3. QED
        BY <1>2, <1>5, <3>1, <3>2
    <2>2. \A q \in waits_parked' : q.kind = "reset" => q.id <= n
      BY <1>6 DEF WaitsInv, WaitsResets
    <2>3. ResetsDone(waits_parked) => ResetsDone(waits_parked')
      BY <1>6 DEF ResetsDone
    <2>4. /\ waits_enable.req # 0 /\ waits_rt'.enabled = TRUE /\ waits_rt'.id = waits_enable.req
            => ResetsDone(waits_parked')
      <3> SUFFICES ASSUME waits_enable.req # 0, waits_rt'.enabled = TRUE,
                          waits_rt'.id = waits_enable.req, NEW q \in waits_parked',
                          q.kind = "reset"
                   PROVE  q.earned = TRUE
        BY DEF ResetsDone
      <3>1. waits_srv.estop = FALSE /\ waits_rt'.id = n
        BY DEF WaitsInv, WaitsResets
      <3>2. PICK p \in waits_parked :
               /\ q.kind = p.kind
               /\ (p.kind = "reset" /\ waits_srv.estop = FALSE /\ waits_rt'.enabled = TRUE
                     /\ waits_rt'.id >= p.id => q.earned = TRUE)
        BY <1>6
      <3>3. p.id \in Nat /\ p.id <= n
        BY <3>2, <1>2 DEF WaitsInv, WaitsResets, WaitRequest
      <3>4. waits_rt'.id >= p.id
        BY <1>2, <3>1, <3>3
      <3>5. QED
        BY <3>1, <3>2, <3>4
    <2>5. QED
      BY <1>1, <2>1, <2>2, <2>3, <2>4 DEF WaitsInv, WaitsResets
  <1>9. WaitsSwaps'
    <2>1. \A q \in waits_parked' : q.kind = "swap" =>
            \E p \in waits_parked : p.kind = "swap" /\ q.to = p.to
                                    /\ (p.earned = TRUE => q.earned = TRUE)
      BY <1>6
    <2>2. QED
      BY <1>1, <1>5, <2>1, WaitsSwapFrame
  <1>10. QED
    BY <1>0, <1>7, <1>8, <1>9 DEF WaitsInv, Waits!OkIsEarned

\* Every step keeps the invariant.
LEMMA WaitsStep == ASSUME WaitsInv, [Waits!Next]_Waits!vars PROVE WaitsInv'
  <1>1. CASE Waits!OnReset
    BY <1>1, WaitsReset
  <1>2. CASE Waits!OnEstop
    BY <1>2, WaitsEstop
  <1>3. CASE Waits!OnEnterFlashing \/ Waits!OnExitFlashing
    BY <1>3, WaitsFlashing
  <1>4. CASE Waits!OnBusScan \/ Waits!OnMotion
    BY <1>4, WaitsScan, WaitsMotion
  <1>5. CASE \E to \in {"sim", "hw"}, connect \in BOOLEAN : Waits!OnBusSwap(to, connect)
    BY <1>5, WaitsBusSwap DEF WaitBuses
  <1>6. CASE Waits!Refresh \/ Waits!ReadSnapshot \/ Waits!PollEnable \/ Waits!PollFlashing
    BY <1>6, WaitsPolls
  <1>7. CASE Waits!LateScans \/ Waits!SettleFlashing
    BY <1>7, WaitsOthersAnswered
  <1>8. CASE Waits!SettleEnable \/ Waits!SettleBus
    BY <1>8, WaitsSettleEnable, WaitsSettleBus
  <1>9. CASE Waits!SendEnable \/ Waits!RunOp \/ Waits!Tick
    BY <1>9, WaitsSendEnable, WaitsRunOp, WaitsTick
  <1>10. CASE UNCHANGED Waits!vars
    BY <1>10 DEF Waits!vars, WaitsInv, WaitsTyped, WaitsResets, WaitsSwaps, Waits!OkIsEarned
  <1>11. QED
    BY <1>1, <1>2, <1>3, <1>4, <1>5, <1>6, <1>7, <1>8, <1>9, <1>10 DEF Waits!Next

(* No reset is answered OK unless the RT has enabled the arm for it or a later one, after
   its clear and with no e-stop since, and no swap unless the RT has driven the backend it
   asked for: whatever the requests, however many, in whatever order the server polls,
   housekeeping reads and the RT ticks (server.rs settle_enable and settle_bus; bridge.rs
   EnableControl, PendingSwap). *)
THEOREM VerdictsAreEarned == Waits!Spec => []OkIsEarned
  <1>1. WaitsInv => OkIsEarned
    BY DEF WaitsInv, OkIsEarned
  <1>2. QED
    BY <1>1, WaitsInitially, WaitsStep, PTL DEF Waits!Spec

-----------------------------------------------------------------------------
(* Daemon. *)

(* From the drain's last look at the channel to the end of run(), an op in the channel
   has its sender between its two steps or behind both. *)
ProcInv ==
  /\ proc_ops \in Nat /\ proc_sending \in Nat
  /\ DOMAIN proc_flags = {"shutdown", "rt_break"}
  /\ DOMAIN proc_rt = {"at", "left"}
  /\ (proc_rt.at \in {"look", "run"} /\ proc_ops > 0)
       => (proc_flags.rt_break = TRUE \/ proc_sending > 0)

\* The RT thread's steps (rt_loop, shutdown_stop_paced).
LEMMA ProcThread == ASSUME ProcInv, Process!RtThread PROVE ProcInv'
  <1> USE DEF ProcInv, Process!Rt, Process!Step, Process!rest
  <1>1. CASE Process!RtTop
    BY <1>1 DEF Process!RtTop
  <1>2. CASE Process!RtReset
    BY <1>2 DEF Process!RtReset
  <1>3. CASE Process!RtDrain
    BY <1>3 DEF Process!RtDrain
  <1>4. CASE Process!RtLook
    BY <1>4 DEF Process!RtLook
  <1>5. CASE Process!RtRun
    <2>1. UNCHANGED <<proc_ops, proc_sending, proc_flags>>
      BY <1>5 DEF Process!RtRun
    <2>2. proc_rt' = proc_rt \/ proc_rt' = [proc_rt EXCEPT !.at = "top"]
      BY <1>5 DEF Process!RtRun
    <2>3. QED
      BY <2>1, <2>2
  <1>6. CASE Process!BeginStop
    BY <1>6 DEF Process!BeginStop
  <1>7. CASE Process!Park
    <2>1. UNCHANGED <<proc_ops, proc_sending, proc_flags>> /\ proc_rt.at = "park"
      BY <1>7 DEF Process!Park
    <2>2. \/ proc_rt' = [at |-> "settle", left |-> ProcSettleTicks]
          \/ proc_rt' = [proc_rt EXCEPT !.left = @ - 1]
      BY <1>7 DEF Process!Park, Process!EndPark
    <2>3. QED
      BY <2>1, <2>2
  <1>8. CASE Process!Settle
    <2>1. UNCHANGED <<proc_ops, proc_sending, proc_flags>> /\ proc_rt.at = "settle"
      BY <1>8 DEF Process!Settle
    <2>2. \/ proc_rt' = [at |-> "limp", left |-> 0]
          \/ proc_rt' = [proc_rt EXCEPT !.left = @ - 1]
      BY <1>8 DEF Process!Settle
    <2>3. QED
      BY <2>1, <2>2
  <1>9. CASE Process!Limp
    <2>1. UNCHANGED <<proc_ops, proc_sending, proc_flags>>
      BY <1>9 DEF Process!Limp
    <2>2. proc_rt' = [proc_rt EXCEPT !.at = "off"]
      BY <1>9 DEF Process!Limp
    <2>3. QED
      BY <2>1, <2>2
  <1>10. CASE Process!RtEnds
    BY <1>10 DEF Process!RtEnds
  <1>11. QED
    BY <1>1, <1>2, <1>3, <1>4, <1>5, <1>6, <1>7, <1>8, <1>9, <1>10 DEF Process!RtThread

\* The boot touches neither the flags nor the loop (Daemon::start).
LEMMA ProcBoot == Process!Boot => UNCHANGED <<proc_ops, proc_sending, proc_flags, proc_rt>>
  BY DEF Process!Boot, Process!LoadConfig, Process!OpenBus, Process!ProbeTool,
         Process!ResolveTiming, Process!BuildModels, Process!BuildEngines, Process!OpenEstop,
         Process!OpenLines, Process!BuildCore, Process!InstallLayer, Process!SpawnPlanner,
         Process!SpawnServer, Process!SpawnRt, Process!SpawnTee, Process!SpawnRest,
         Process!Refuse, Process!Goes, Process!Spawn, Process!running

\* Every step keeps the invariant: the sender's two stores, the supervisor's, and all that
\* ends a thread.
LEMMA ProcStep == ASSUME ProcInv, [Process!Next]_Process!vars PROVE ProcInv'
  <1>1. CASE Process!Boot
    BY <1>1, ProcBoot DEF ProcInv
  <1>2. CASE Process!RtThread
    BY <1>2, ProcThread
  <1>3. CASE Process!SendOp
    BY <1>3 DEF ProcInv, Process!SendOp
  <1>4. CASE Process!RaiseBreak
    BY <1>4 DEF ProcInv, Process!RaiseBreak
  <1>5. CASE Process!SendCommand \/ Process!WorkerEnds \/ Process!TeeEnds \/ Process!PlannerDies
             \/ Process!ServerEnds \/ Process!Signal
    BY <1>5 DEF ProcInv, Process!SendCommand, Process!WorkerEnds, Process!TeeEnds,
                Process!PlannerDies, Process!ServerEnds, Process!Signal
  <1>6. CASE Process!Supervisor
    BY <1>6 DEF ProcInv, Process!Supervisor, Process!Watch, Process!RaiseShutdown,
                Process!RaiseRtBreak, Process!Join
  <1>7. CASE UNCHANGED Process!vars
    BY <1>7 DEF ProcInv, Process!vars
  <1>8. QED
    BY <1>1, <1>2, <1>3, <1>4, <1>5, <1>6, <1>7 DEF Process!Next

(* No op waits behind a running loop: while run() ticks with an op in the channel, rt_break
   is up or its sender is about to raise it, for any number of ops, senders and faults and
   however the stop's two stores fall between them (par6d daemon.rs rt_loop, CoreLink::op). *)
THEOREM OpsAlwaysBreak == Process!Spec => []OpsBreakTheLoop
  <1>1. Process!Init => ProcInv
    BY DEF Process!Init, ProcInv
  <1>2. ProcInv => OpsBreakTheLoop
    BY DEF ProcInv, OpsBreakTheLoop, Process!OpsBreakTheLoop, Process!Rt
  <1>3. QED
    BY <1>1, <1>2, ProcStep, PTL DEF Process!Spec

-----------------------------------------------------------------------------
(* StatusPlane. *)

(* On multicast the frames a reachable host missed are among the failures the ladder
   counts; on unicast none is missed any more. *)
LinkInv ==
  /\ status_link \in [unicast : BOOLEAN, errors : Nat]
  /\ status_net \in [group : BOOLEAN, host : BOOLEAN]
  /\ status_lost \in Nat /\ status_lost <= StatusSendErrors
  /\ status_link.unicast = FALSE
       => status_lost <= status_link.errors /\ status_link.errors < StatusSendErrors

(* The tick the next frame is paced by is the tick of the last frame. *)
PaceInv == status_last = status_frame.of /\ status_twice = FALSE

\* The queue [first, next) named by its front and its length.
Span(q) == q.first .. (q.next - 1)
Spans == [first : Nat \ {0}, next : Nat \ {0}]

\* The queue of the last frame is the one the server has asked the planner to price.
AskedFor == \E q \in Spans : /\ q.first <= q.next /\ status_asked = Status!Key(q)
                             /\ status_frame.queue = Span(q)

Estimates(m) == {i \in DOMAIN m : m[i].op = "estimate"}

(* The last estimate in the planner's mailbox, or when there is none the one it has
   published, prices the queue of the last frame. *)
PriceInv ==
  /\ \A i \in Estimates(status_planner.mailbox) :
       (\A j \in Estimates(status_planner.mailbox) : j <= i)
         => status_planner.mailbox[i].of = status_frame.queue
  /\ Estimates(status_planner.mailbox) = {} => status_report.priced = status_frame.queue

StatusMail == Seq([op : {"estimate", "clear"}, of : SUBSET Nat])

EtaInv ==
  /\ status_queue \in Spans /\ status_queue.first <= status_queue.next
  /\ status_planner.mailbox \in StatusMail /\ DOMAIN status_planner = {"mailbox", "latch"}
  /\ status_frame.live => status_frame.collision
  /\ AskedFor /\ PriceInv

StatusInv == LinkInv /\ PaceInv /\ EtaInv

\* A send: delivered, or counted until the ladder steps down (Send, NoteSendFailure).
LEMMA StatusSends == ASSUME LinkInv, Status!Send, UNCHANGED status_net PROVE LinkInv'
  <1> DEFINE e == status_link.errors
             m == StatusSendErrors
             d == Status!Delivered(status_link, status_net)
  <1>1. m \in Nat /\ m > 0
    BY StatusAssumption
  <1>2. /\ status_link \in [unicast : BOOLEAN, errors : Nat] /\ e \in Nat
        /\ status_net \in [group : BOOLEAN, host : BOOLEAN] /\ status_lost \in Nat
        /\ status_lost <= m
        /\ status_link.unicast = FALSE => status_lost <= e /\ e < m
    BY DEF LinkInv
  <1>3. CASE d
    <2>1. status_link' = [status_link EXCEPT !.errors = 0] /\ status_lost' = 0
      BY <1>3 DEF Status!Send
    <2>2. QED
      BY <1>1, <1>2, <2>1 DEF LinkInv
  <1>4. CASE ~d
    <2>1. /\ status_link' = Status!NoteSendFailure(status_link)
          /\ status_lost' = IF ~status_net.host THEN 0 ELSE status_lost + 1
      BY <1>4 DEF Status!Send
    <2>2. CASE status_link.unicast = TRUE
      <3>1. status_net.host = FALSE
        BY <1>2, <1>4, <2>2 DEF Status!Delivered
      <3>2. status_lost' = 0 /\ status_link' = [status_link EXCEPT !.errors = 0]
        BY <2>1, <2>2, <3>1 DEF Status!NoteSendFailure
      <3>3. QED
        BY <1>1, <1>2, <2>2, <3>2 DEF LinkInv
    <2>3. CASE status_link.unicast = FALSE /\ e + 1 >= m
      <3>1. status_link' = [unicast |-> TRUE, errors |-> 0]
        BY <2>1, <2>3 DEF Status!NoteSendFailure
      <3>2. status_lost' \in Nat /\ status_lost' <= m
        BY <1>1, <1>2, <2>1, <2>3
      <3>3. QED
        BY <1>1, <1>2, <3>1, <3>2 DEF LinkInv
    <2>4. CASE status_link.unicast = FALSE /\ ~(e + 1 >= m)
      <3>1. status_link' = [status_link EXCEPT !.errors = e + 1]
        BY <2>1, <2>4 DEF Status!NoteSendFailure
      <3>2. /\ status_lost' \in Nat /\ status_lost' <= m /\ status_lost' <= e + 1
            /\ e + 1 < m /\ e + 1 \in Nat
        <4> HIDE DEF e, m
        <4>1. QED
          BY <1>1, <1>2, <2>1, <2>4
      <3>3. QED
        BY <1>1, <1>2, <3>1, <3>2 DEF LinkInv
    <2>5. QED
      BY <1>2, <2>2, <2>3, <2>4
  <1>5. QED
    BY <1>3, <1>4

\* The front and the length name the queue (Key).
LEMMA KeyNamesQueue ==
  ASSUME NEW p \in Spans, NEW q \in Spans, p.first <= p.next, q.first <= q.next,
         Status!Key(p) = Status!Key(q)
  PROVE  Span(p) = Span(q)
  <1> DEFINE a == p.first
             b == p.next
             c == q.first
             d == q.next
             ka == IF b = a THEN 0 ELSE a
             kc == IF d = c THEN 0 ELSE c
  <1>1. a \in Nat \ {0} /\ b \in Nat \ {0} /\ c \in Nat \ {0} /\ d \in Nat \ {0} /\ a <= b /\ c <= d
    BY DEF Spans
  <1>2. <<ka, b - a>> = <<kc, d - c>>
    BY DEF Status!Key
  <1>3. ka = kc /\ b - a = d - c
    BY <1>2
  <1> HIDE DEF a, b, c, d
  <1>4. \/ a = c /\ b = d
        \/ a = b /\ c = d
    BY <1>1, <1>3
  <1>5. a = b => a .. (b - 1) = {}
    BY <1>1
  <1>6. c = d => c .. (d - 1) = {}
    BY <1>1
  <1>7. a .. (b - 1) = c .. (d - 1)
    BY <1>4, <1>5, <1>6
  <1>8. QED
    BY <1>7 DEF Span, a, b, c, d

\* A frame is built of the queue it asks a price for (Build_status, RefreshQueueEstimate).
LEMMA StatusPriced ==
  ASSUME EtaInv, Status!RefreshQueueEstimate, NEW s, NEW w,
         status_frame' = Status!Build_status(s, w), UNCHANGED <<status_queue, status_report>>
  PROVE  EtaInv'
  <1> DEFINE q == status_queue
             m == status_planner.mailbox
             e == [op |-> "estimate", of |-> Span(q)]
  <1>1. q \in Spans /\ q.first <= q.next /\ m \in StatusMail
    BY DEF EtaInv
  <1>2. status_frame'.queue = Span(q) /\ (status_frame'.live => status_frame'.collision)
    BY DEF Status!Build_status, Status!Pending, Span, Status!Update_collision
  <1>3. status_asked' = Status!Key(q)
    BY DEF Status!RefreshQueueEstimate
  <1>4. AskedFor'
    BY <1>1, <1>2, <1>3 DEF AskedFor, EtaInv
  <1>5. CASE Status!Key(q) = status_asked
    <2>1. status_planner' = status_planner
      BY <1>5 DEF Status!RefreshQueueEstimate
    <2>2. status_frame.queue = Span(q)
      <3>1. PICK p \in Spans : /\ p.first <= p.next /\ status_asked = Status!Key(p)
                               /\ status_frame.queue = Span(p)
        BY DEF EtaInv, AskedFor
      <3>2. QED
        BY <1>1, <1>5, <3>1, KeyNamesQueue
    <2>3. PriceInv'
      BY <1>2, <2>1, <2>2 DEF EtaInv, PriceInv
    <2>4. QED
      BY <1>1, <1>2, <1>4, <2>1, <2>3 DEF EtaInv
  <1>6. CASE Status!Key(q) # status_asked
    <2>1. status_planner' = [status_planner EXCEPT !.mailbox = Append(m, e)]
      BY <1>6 DEF Status!RefreshQueueEstimate, Status!Pending, Span
    <2>2. status_planner'.mailbox = Append(m, e) /\ DOMAIN status_planner' = {"mailbox", "latch"}
      BY <2>1 DEF EtaInv
    <2>3. Span(q) \in SUBSET Nat
      BY <1>1 DEF Span, Spans
    <2>4. e \in [op : {"estimate", "clear"}, of : SUBSET Nat] /\ e.op = "estimate" /\ e.of = Span(q)
      BY <2>3
    <2> HIDE DEF e, m, q
    <2>5. /\ Append(m, e) \in StatusMail /\ Len(Append(m, e)) = Len(m) + 1
          /\ Append(m, e)[Len(m) + 1] = e /\ Len(m) \in Nat
          /\ DOMAIN Append(m, e) = 1 .. (Len(m) + 1)
      BY <1>1, <2>4, AppendProperties DEF StatusMail
    <2>6. /\ Len(m) + 1 \in Estimates(Append(m, e))
          /\ \A i \in Estimates(Append(m, e)) : i <= Len(m) + 1
      BY <2>4, <2>5 DEF Estimates
    <2>7. \A i \in Estimates(Append(m, e)) :
            (\A j \in Estimates(Append(m, e)) : j <= i) => i = Len(m) + 1
      BY <2>5, <2>6 DEF Estimates
    <2>8. PriceInv'
      BY <1>2, <2>2, <2>4, <2>5, <2>6, <2>7 DEF PriceInv
    <2>9. QED
      BY <1>1, <1>2, <1>4, <2>2, <2>5, <2>8 DEF EtaInv, q
  <1>7. QED
    BY <1>5, <1>6

\* A request of another kind at the end of the mailbox, or the oldest serviced, keeps the
\* last estimate the last one.
LEMMA MailboxMoves ==
  ASSUME NEW m \in StatusMail
  PROVE  /\ LET c == [op |-> "clear", of |-> {}] IN
              /\ Append(m, c) \in StatusMail /\ Estimates(Append(m, c)) = Estimates(m)
              /\ \A i \in Estimates(m) : Append(m, c)[i] = m[i]
         /\ m # <<>> =>
              /\ Tail(m) \in StatusMail /\ m[1] = Head(m) /\ 1 \in DOMAIN m
              /\ \A i \in DOMAIN m : i \in Nat /\ i >= 1 /\ (i # 1 => i - 1 \in DOMAIN Tail(m))
              /\ \A i \in DOMAIN Tail(m) : i \in Nat /\ i + 1 \in DOMAIN m /\ Tail(m)[i] = m[i + 1]
  <1> DEFINE c == [op |-> "clear", of |-> {}]
             M == [op : {"estimate", "clear"}, of : SUBSET Nat]
  <1>1. c \in M /\ c.op # "estimate"
    OBVIOUS
  <1>2. m \in Seq(M)
    BY DEF StatusMail
  <1> HIDE DEF c, M
  <1>3. /\ Append(m, c) \in Seq(M) /\ Len(Append(m, c)) = Len(m) + 1 /\ Len(m) \in Nat
        /\ \A i \in 1 .. Len(m) : Append(m, c)[i] = m[i]
        /\ Append(m, c)[Len(m) + 1] = c
        /\ DOMAIN Append(m, c) = 1 .. (Len(m) + 1) /\ DOMAIN m = 1 .. Len(m)
    BY <1>1, <1>2, AppendProperties
  <1>4. Estimates(Append(m, c)) = Estimates(m)
    BY <1>1, <1>3 DEF Estimates
  <1>5. \A i \in Estimates(m) : Append(m, c)[i] = m[i]
    BY <1>3 DEF Estimates
  <1>6. ASSUME m # <<>>
        PROVE  /\ Tail(m) \in Seq(M) /\ m[1] = Head(m) /\ 1 \in DOMAIN m
               /\ \A i \in DOMAIN m : i \in Nat /\ i >= 1 /\ (i # 1 => i - 1 \in DOMAIN Tail(m))
               /\ \A i \in DOMAIN Tail(m) : i \in Nat /\ i + 1 \in DOMAIN m /\ Tail(m)[i] = m[i + 1]
    <2>1. /\ Tail(m) \in Seq(M) /\ Len(Tail(m)) = Len(m) - 1 /\ Len(m) \in Nat /\ Len(m) > 0
          /\ DOMAIN m = 1 .. Len(m) /\ DOMAIN Tail(m) = 1 .. Len(Tail(m))
          /\ \A i \in 1 .. Len(Tail(m)) : Tail(m)[i] = m[i + 1]
          /\ m[1] = Head(m)
      BY <1>2, <1>6, HeadTailProperties, LenProperties, EmptySeq
    <2>2. QED
      BY <2>1
  <1>7. QED
    BY <1>2, <1>3, <1>4, <1>5, <1>6 DEF StatusMail, c, M

\* A pass publishes the price it was asked for and nothing else (PlannerPass).
LEMMA StatusPass == ASSUME EtaInv, Status!PlannerPass PROVE EtaInv'
  <1> DEFINE m == status_planner.mailbox
             t == Tail(m)
  <1>1. m \in StatusMail /\ m # <<>>
    BY DEF EtaInv, Status!PlannerPass
  <1>2. UNCHANGED <<status_queue, status_frame, status_asked>>
    BY DEF Status!PlannerPass
  <1>3. /\ status_planner'.mailbox = t /\ DOMAIN status_planner' = {"mailbox", "latch"}
        /\ status_report'.priced = IF Head(m).op = "estimate" THEN Head(m).of
                                   ELSE status_report.priced
    BY DEF Status!PlannerPass
  <1>4. /\ t \in StatusMail /\ m[1] = Head(m) /\ 1 \in DOMAIN m
        /\ \A i \in DOMAIN m : i \in Nat /\ i >= 1 /\ (i # 1 => i - 1 \in DOMAIN t)
        /\ \A i \in DOMAIN t : i \in Nat /\ i + 1 \in DOMAIN m /\ t[i] = m[i + 1]
    BY <1>1, MailboxMoves
  <1>5. /\ \A i \in Estimates(m) : (\A j \in Estimates(m) : j <= i)
                                     => m[i].of = status_frame.queue
        /\ Estimates(m) = {} => status_report.priced = status_frame.queue
    BY DEF EtaInv, PriceInv
  <1> HIDE DEF m, t
  <1>6. ASSUME NEW i \in Estimates(t), \A j \in Estimates(t) : j <= i
        PROVE  t[i].of = status_frame.queue
    <2>1. i + 1 \in Estimates(m) /\ t[i] = m[i + 1] /\ i \in Nat
      BY <1>4 DEF Estimates
    <2>2. ASSUME NEW j \in Estimates(m) PROVE j <= i + 1
      <3>1. j \in Nat /\ j >= 1 /\ j \in DOMAIN m /\ m[j].op = "estimate"
        BY <1>4 DEF Estimates
      <3>2. CASE j = 1
        BY <2>1, <3>2
      <3>3. CASE j # 1
        <4>1. j - 1 \in DOMAIN t
          BY <1>4, <3>1, <3>3
        <4>2. t[j - 1] = m[(j - 1) + 1] /\ (j - 1) + 1 = j
          BY <1>4, <3>1, <4>1
        <4>3. j - 1 \in Estimates(t)
          BY <3>1, <4>1, <4>2 DEF Estimates
        <4>4. QED
          BY <1>6, <2>1, <3>1, <4>3
      <3>4. QED
        BY <3>2, <3>3
    <2>3. QED
      BY <1>5, <2>1, <2>2
  <1>7. ASSUME Estimates(t) = {} PROVE status_report'.priced = status_frame.queue
    <2>1. \A j \in Estimates(m) : j = 1
      <3> SUFFICES ASSUME NEW j \in Estimates(m), j # 1 PROVE FALSE
        OBVIOUS
      <3>1. j \in Nat /\ j \in DOMAIN m /\ m[j].op = "estimate" /\ j - 1 \in DOMAIN t
        BY <1>4 DEF Estimates
      <3>2. t[j - 1] = m[(j - 1) + 1] /\ (j - 1) + 1 = j
        BY <1>4, <3>1
      <3>3. j - 1 \in Estimates(t)
        BY <3>1, <3>2 DEF Estimates
      <3>4. QED
        BY <1>7, <3>3
    <2>2. CASE Head(m).op = "estimate"
      <3>1. 1 \in Estimates(m)
        BY <1>4, <2>2 DEF Estimates
      <3>2. m[1].of = status_frame.queue
        BY <1>5, <2>1, <3>1
      <3>3. QED
        BY <1>3, <1>4, <2>2, <3>2
    <2>3. CASE Head(m).op # "estimate"
      <3>1. Estimates(m) = {}
        BY <1>4, <2>1, <2>3 DEF Estimates
      <3>2. QED
        BY <1>3, <1>5, <2>3, <3>1
    <2>4. QED
      BY <2>2, <2>3
  <1>8. PriceInv'
    BY <1>2, <1>3, <1>6, <1>7 DEF PriceInv
  <1>9. QED
    BY <1>2, <1>3, <1>4, <1>8 DEF EtaInv, AskedFor

\* A frame is emitted, by the tick or by the timer (EmitStatus).
LEMMA StatusEmits ==
  ASSUME StatusInv, NEW s, NEW w, Status!EmitStatus(s, w),
         UNCHANGED <<status_queue, status_report, status_net>>
  PROVE  LinkInv' /\ EtaInv' /\ status_last' = status_frame'.of
  <1>1. LinkInv'
    BY StatusSends DEF StatusInv, Status!EmitStatus
  <1>2. EtaInv'
    BY StatusPriced DEF StatusInv, Status!EmitStatus
  <1>3. status_last' = status_frame'.of
    BY DEF Status!EmitStatus, Status!Build_status
  <1>4. QED
    BY <1>1, <1>2, <1>3

\* Every step keeps the invariant.
LEMMA StatusStep == ASSUME StatusInv, [Status!Next]_Status!vars PROVE StatusInv'
  <1>1. CASE Status!EmitStatusOnTick
    <2>1. UNCHANGED <<status_queue, status_report, status_net>>
      BY <1>1 DEF Status!EmitStatusOnTick
    <2>2. CASE status_last # <<>> /\ Status!SameStride(Status!Fresh.tick, status_last[1])
      <3>1. UNCHANGED <<status_last, status_frame, status_asked, status_planner, status_link,
                        status_lost, status_twice>>
        BY <1>1, <2>2 DEF Status!EmitStatusOnTick
      <3>2. QED
        BY <2>1, <3>1 DEF StatusInv, LinkInv, PaceInv, EtaInv, AskedFor, PriceInv
    <2>3. CASE ~(status_last # <<>> /\ Status!SameStride(Status!Fresh.tick, status_last[1]))
      <3>1. /\ Status!EmitStatus(Status!Fresh, Status!Wall)
            /\ status_twice' = (status_twice \/ (status_frame.of # <<>>
                                  /\ Status!SameStride(Status!Fresh.tick, status_frame.of[1])))
        BY <1>1, <2>3 DEF Status!EmitStatusOnTick
      <3>2. status_twice' = FALSE
        BY <2>3, <3>1 DEF StatusInv, PaceInv
      <3>3. QED
        BY <2>1, <3>1, <3>2, StatusEmits DEF StatusInv, PaceInv
    <2>4. QED
      BY <2>2, <2>3
  <1>2. CASE Status!OnStatus
    <2>1. /\ UNCHANGED <<status_queue, status_report, status_net, status_twice>>
          /\ Status!EmitStatus(Status!Fresh, Status!Wall)
      BY <1>2 DEF Status!OnStatus
    <2>2. QED
      BY <2>1, StatusEmits DEF StatusInv, PaceInv
  <1>3. CASE Status!Accept
    <2>1. /\ UNCHANGED <<status_link, status_net, status_lost, status_last, status_frame,
                         status_twice, status_asked, status_report>>
          /\ status_queue' = [status_queue EXCEPT !.next = status_queue.next + 1]
          /\ status_planner' = [status_planner EXCEPT !.mailbox =
                                  Append(status_planner.mailbox, [op |-> "clear", of |-> {}])]
      BY <1>3 DEF Status!Accept, Status!Server
    <2>2. status_queue' \in Spans /\ status_queue'.first <= status_queue'.next
      BY <2>1 DEF StatusInv, EtaInv, Spans
    <2>3. /\ status_planner'.mailbox \in StatusMail /\ DOMAIN status_planner' = {"mailbox", "latch"}
          /\ Estimates(status_planner'.mailbox) = Estimates(status_planner.mailbox)
          /\ \A i \in Estimates(status_planner.mailbox) :
               status_planner'.mailbox[i] = status_planner.mailbox[i]
      <3>1. status_planner.mailbox \in StatusMail
        BY DEF StatusInv, EtaInv
      <3>2. status_planner'.mailbox = Append(status_planner.mailbox, [op |-> "clear", of |-> {}])
        BY <2>1 DEF StatusInv, EtaInv
      <3>3. DOMAIN status_planner' = {"mailbox", "latch"}
        BY <2>1 DEF StatusInv, EtaInv
      <3>4. QED
        BY <3>1, <3>2, <3>3, MailboxMoves
    <2>4. PriceInv'
      BY <2>1, <2>3 DEF StatusInv, EtaInv, PriceInv
    <2>5. QED
      BY <2>1, <2>2, <2>3, <2>4 DEF StatusInv, LinkInv, PaceInv, EtaInv, AskedFor
  <1>4. CASE Status!Leave
    <2>1. UNCHANGED <<status_link, status_net, status_lost, status_last, status_frame,
                      status_twice, status_asked, status_report, status_planner>>
      BY <1>4 DEF Status!Leave, Status!Server
    <2>2. status_queue' \in Spans /\ status_queue'.first <= status_queue'.next
      <3>1. PICK n \in {status_queue.first + 1, status_queue.next} :
               status_queue' = [status_queue EXCEPT !.first = n]
        BY <1>4 DEF Status!Leave, Status!Server
      <3>2. status_queue \in Spans /\ status_queue.next > status_queue.first
        BY <1>4 DEF Status!Leave, StatusInv, EtaInv
      <3>3. QED
        BY <3>1, <3>2 DEF Spans
    <2>3. QED
      BY <2>1, <2>2 DEF StatusInv, LinkInv, PaceInv, EtaInv, AskedFor, PriceInv
  <1>5. CASE Status!PlannerPass
    <2>1. UNCHANGED <<status_link, status_net, status_lost, status_last, status_frame,
                      status_twice>>
      BY <1>5 DEF Status!PlannerPass
    <2>2. QED
      BY <1>5, <2>1, StatusPass DEF StatusInv, LinkInv, PaceInv
  <1>6. CASE Status!Network
    <2>1. /\ status_net' \in [group : BOOLEAN, host : BOOLEAN]
          /\ UNCHANGED <<status_link, status_lost, status_last, status_frame, status_twice,
                         status_queue, status_asked, status_report, status_planner>>
      BY <1>6 DEF Status!Network
    <2>2. QED
      BY <2>1 DEF StatusInv, LinkInv, PaceInv, EtaInv, AskedFor, PriceInv
  <1>7. CASE Status!SetStatusRate \/ Status!StreamRefused \/ Status!RtTick \/ Status!Clock
             \/ UNCHANGED Status!vars
    <2>1. UNCHANGED <<status_link, status_net, status_lost, status_last, status_frame,
                      status_twice, status_queue, status_asked, status_report, status_planner>>
      BY <1>7 DEF Status!SetStatusRate, Status!StreamRefused, Status!RtTick, Status!Clock,
                  Status!vars
    <2>2. QED
      BY <2>1 DEF StatusInv, LinkInv, PaceInv, EtaInv, AskedFor, PriceInv
  <1>8. QED
    BY <1>1, <1>2, <1>3, <1>4, <1>5, <1>6, <1>7 DEF Status!Next

\* The first states satisfy the invariant (StatusPlane!Init).
LEMMA StatusInitially == Status!Init => StatusInv
  <1> SUFFICES ASSUME Status!Init PROVE StatusInv
    OBVIOUS
  <1>1. PICK t \in StatusTransports : status_link = Status!Open(t, status_net)
    BY DEF Status!Init
  <1>2. status_link.errors = 0 /\ status_link \in [unicast : BOOLEAN, errors : Nat]
    <2> DEFINE u == t = "unicast" \/ (t = "auto" /\ ~Status!Probe(status_net))
    <2>1. u \in BOOLEAN
      OBVIOUS
    <2>2. status_link = [unicast |-> u, errors |-> 0]
      BY <1>1 DEF Status!Open
    <2> HIDE DEF u
    <2>3. QED
      BY <2>1, <2>2
  <1>3. LinkInv
    BY <1>2, StatusAssumption DEF LinkInv, Status!Init
  <1>4. PaceInv
    BY DEF PaceInv, Status!Init
  <1>5. AskedFor
    <2> DEFINE q == [first |-> 1, next |-> 1]
    <2>1. q \in Spans /\ q.first <= q.next /\ Status!Key(q) = <<0, 0>>
      BY DEF Spans, Status!Key
    <2>2. Span(q) = {}
      BY DEF Span
    <2>3. status_asked = <<0, 0>> /\ status_frame.queue = {}
      BY DEF Status!Init
    <2> HIDE DEF q
    <2>4. QED
      BY <2>1, <2>2, <2>3 DEF AskedFor
  <1>6. status_planner.mailbox = <<>> /\ DOMAIN status_planner = {"mailbox", "latch"}
    BY DEF Status!Init
  <1>7. PriceInv
    <2>1. Estimates(status_planner.mailbox) = {}
      BY <1>6 DEF Estimates
    <2>2. status_report.priced = {} /\ status_frame.queue = {}
      BY DEF Status!Init
    <2>3. QED
      BY <2>1, <2>2 DEF PriceInv
  <1>8. EtaInv
    <2>1. status_queue \in Spans /\ status_queue.first <= status_queue.next
      BY DEF Status!Init, Spans
    <2>2. status_planner.mailbox \in StatusMail
      BY <1>6 DEF StatusMail
    <2>3. status_frame.live => status_frame.collision
      BY DEF Status!Init
    <2>4. QED
      BY <1>5, <1>6, <1>7, <2>1, <2>2, <2>3 DEF EtaInv
  <1>9. QED
    BY <1>3, <1>4, <1>8 DEF StatusInv

(* A reachable host misses at most MAX_SEND_ERRORS frames in a row, and no tick frame
   describes a stride the last frame described, for every status rate, transport and
   number of network changes (link.rs note_send_failure, server.rs emit_status). *)
THEOREM StatusAlwaysHeard == Status!Spec => []StatusHeard
  <1>1. StatusInv => StatusHeard
    BY DEF StatusInv, LinkInv, PaceInv, StatusHeard, Status!StatusHeard
  <1>2. QED
    BY <1>1, StatusInitially, StatusStep, PTL DEF Status!Spec

(* No frame drops a live collision verdict, and once the planner has serviced its mailbox
   the price it publishes is that of the last frame's queue, for a queue of any length
   (server.rs update_collision, refresh_queue_estimate). *)
THEOREM FramesStayCurrent == Status!Spec => []FrameIsCurrent
  <1>1. StatusInv => FrameIsCurrent
    <2> SUFFICES ASSUME StatusInv PROVE Status!FrameIsCurrent
      BY DEF FrameIsCurrent
    <2>1. status_planner.mailbox = <<>> => Estimates(status_planner.mailbox) = {}
      BY DEF Estimates
    <2>2. QED
      BY <2>1 DEF StatusInv, EtaInv, PriceInv, Status!FrameIsCurrent
  <1>2. QED
    BY <1>1, StatusInitially, StatusStep, PTL DEF Status!Spec

-----------------------------------------------------------------------------
(* ClientWait. *)

CliEnds == {"run", "ok", "failed"}
CliFields == {"status", "log", "order", "req", "tries", "wait", "answer"}
CliWaitFields == {"phase", "index", "session", "from", "box"}

\* The command of index i of the runtime's session has succeeded.
OkAt(s, i) == i \in Nat /\ i + 1 \in DOMAIN s.results /\ s.results[i + 1] = "ok"

(* The runtime: commands finish from the front, so what still runs is a suffix. *)
CliRuntime(s) ==
  /\ DOMAIN s = {"session", "results", "error", "seq", "keys"}
  /\ s.session \in Nat /\ s.session # 0
  /\ s.results \in Seq(CliEnds)
  /\ \A k \in s.keys : k.index \in Nat
  /\ \A j, k \in DOMAIN s.results : j < k /\ s.results[j] = "run" => s.results[k] = "run"

(* A datagram in flight is of this session, and a success it reports has happened. *)
CliMessage(m, s) ==
  /\ m.t \in {"status", "push", "record", "ack"} => m.session = s.session
  /\ m.t \in {"push", "record", "ack", "ask"} => m.index \in Nat
  /\ m.t \in {"push", "record"} /\ m.is = "ok" => OkAt(s, m.index)

CliNet(n, s) == \A m \in n : CliMessage(m, s)

(* What the client knows.  Its log speaks of the session of its last STATUS; it waits for
   no command of a session it has had no STATUS of. *)
CliTyped(c) ==
  /\ DOMAIN c = CliFields /\ DOMAIN c.wait = CliWaitFields
  /\ c.status.session \in Nat /\ c.wait.session \in Nat /\ c.answer.session \in Nat
  /\ c.wait.index \in Nat
  /\ c.order \in Seq(Nat) /\ DOMAIN c.log = {c.order[n] : n \in DOMAIN c.order}

CliClaims(c, s) ==
  /\ c.status.session <= s.session /\ c.wait.session <= s.session
  /\ c.answer.session <= s.session
  /\ c.status.session = 0 => c.wait.phase = "idle" /\ c.order = <<>>
  /\ c.wait.phase # "idle" /\ c.wait.session = s.session => c.status.session = s.session
  /\ c.status.session = s.session => \A i \in DOMAIN c.log : c.log[i] = "ok" => OkAt(s, i)
  /\ c.wait.box = "ok" /\ c.wait.session = s.session => OkAt(s, c.wait.index)
  /\ c.answer.is = "ok" /\ c.answer.session = s.session => OkAt(s, c.answer.index)

CliKnows(c, s) == CliTyped(c) /\ CliClaims(c, s)

CliInv ==
  /\ CliRuntime(client_srv) /\ CliNet(client_net, client_srv)
  /\ CliKnows(client_cl, client_srv)

\* The runtime goes on in its session and takes no success back.
GoesOn(s, t) == t.session = s.session /\ \A i : OkAt(s, i) => OkAt(t, i)

\* While it does, all that was known stays true.
LEMMA CliStays ==
  ASSUME NEW s, NEW t, GoesOn(s, t), NEW n, CliNet(n, s), NEW c, CliKnows(c, s)
  PROVE  CliNet(n, t) /\ CliKnows(c, t)
  <1>1. CliNet(n, t)
    BY DEF CliNet, CliMessage, GoesOn
  <1>2. CliKnows(c, t)
    BY DEF CliKnows, CliClaims, GoesOn
  <1>3. QED
    BY <1>1, <1>2

\* A command taken into the queue runs last (TakeRequest, OtherRequest).
LEMMA CliAppends ==
  ASSUME NEW s, CliRuntime(s), NEW t, CliRuntime(s) => DOMAIN t = DOMAIN s,
         t.session = s.session, t.results = Append(s.results, "run"),
         \A k \in t.keys : k.index \in Nat
  PROVE  CliRuntime(t) /\ GoesOn(s, t)
  <1> DEFINE r == s.results
  <1>1. r \in Seq(CliEnds) /\ "run" \in CliEnds
    BY DEF CliRuntime, CliEnds
  <1>2. /\ Append(r, "run") \in Seq(CliEnds) /\ Len(r) \in Nat
        /\ DOMAIN r = 1 .. Len(r) /\ DOMAIN Append(r, "run") = 1 .. (Len(r) + 1)
        /\ \A i \in 1 .. Len(r) : Append(r, "run")[i] = r[i]
        /\ Append(r, "run")[Len(r) + 1] = "run"
    BY <1>1, AppendProperties
  <1>3. \A j, k \in DOMAIN r : j < k /\ r[j] = "run" => r[k] = "run"
    BY DEF CliRuntime
  <1> HIDE DEF r
  <1>4. \A j, k \in DOMAIN Append(r, "run") :
          j < k /\ Append(r, "run")[j] = "run" => Append(r, "run")[k] = "run"
    BY <1>2, <1>3
  <1>5. CliRuntime(t)
    BY <1>2, <1>4 DEF CliRuntime, r
  <1>6. GoesOn(s, t)
    BY <1>2 DEF GoesOn, OkAt, r
  <1>7. QED
    BY <1>5, <1>6

\* A command finishes or fails at the head of what runs (Finish, Fail).
LEMMA CliEnding ==
  ASSUME NEW s, CliRuntime(s), NEW t, DOMAIN t = DOMAIN s,
         t.session = s.session, t.keys = s.keys,
         NEW i \in 1 .. Len(s.results), s.results[i] = "run",
         \A k \in 1 .. (i - 1) : s.results[k] # "run",
         \/ t.results = [s.results EXCEPT ![i] = "ok"]
         \/ t.results = [k \in DOMAIN s.results |-> IF k >= i THEN "failed" ELSE s.results[k]]
  PROVE  CliRuntime(t) /\ GoesOn(s, t)
  <1> DEFINE r == s.results
             u == t.results
  <1>1. r \in Seq(CliEnds) /\ Len(r) \in Nat /\ DOMAIN r = 1 .. Len(r) /\ i \in DOMAIN r
        /\ i \in Nat
    BY DEF CliRuntime
  <1>2. \A j, k \in DOMAIN r : j < k /\ r[j] = "run" => r[k] = "run"
    BY DEF CliRuntime
  <1>3. /\ r[i] = "run" /\ \A k \in 1 .. (i - 1) : r[k] # "run"
        /\ \/ u = [r EXCEPT ![i] = "ok"]
           \/ u = [k \in DOMAIN r |-> IF k >= i THEN "failed" ELSE r[k]]
    OBVIOUS
  <1>4. \A k \in DOMAIN r : r[k] \in CliEnds
    BY <1>1
  <1> HIDE DEF r, u
  <1>5. DOMAIN u = DOMAIN r /\ \A k \in DOMAIN r : u[k] \in CliEnds
    BY <1>3, <1>4 DEF CliEnds
  <1>6. u \in Seq(CliEnds)
    <2>1. u = [k \in 1 .. Len(r) |-> u[k]]
      BY <1>1, <1>3
    <2>2. u \in [1 .. Len(r) -> CliEnds]
      BY <1>1, <1>5, <2>1
    <2>3. QED
      BY <1>1, <2>2, SMTT(40) DEF Seq
  <1>7. \A j, k \in DOMAIN u : j < k /\ u[j] = "run" => u[k] = "run"
    <2> SUFFICES ASSUME NEW j \in DOMAIN r, NEW k \in DOMAIN r, j < k, u[j] = "run"
                 PROVE  u[k] = "run"
      BY <1>5
    <2>1. j \in Nat /\ k \in Nat /\ j >= 1
      BY <1>1
    <2>2. j > i /\ r[j] = "run" /\ u = [r EXCEPT ![i] = "ok"]
      BY <1>1, <1>3, <2>1
    <2>3. r[k] = "run" /\ k # i
      BY <1>1, <1>2, <2>1, <2>2
    <2>4. QED
      BY <2>2, <2>3
  <1>8. \A k \in DOMAIN r : r[k] = "ok" => u[k] = "ok"
    <2> SUFFICES ASSUME NEW k \in DOMAIN r, r[k] = "ok" PROVE u[k] = "ok"
      OBVIOUS
    <2>1. k \in Nat /\ k # i
      BY <1>1, <1>3
    <2>2. ~(k > i)
      BY <1>1, <1>2, <1>3
    <2>3. QED
      BY <1>1, <1>3, <2>1, <2>2
  <1>9. CliRuntime(t)
    BY <1>6, <1>7 DEF CliRuntime, u
  <1>10. GoesOn(s, t)
    BY <1>5, <1>8 DEF GoesOn, OkAt, r, u
  <1>11. QED
    BY <1>9, <1>10

\* A wait that ends says what it may (Answered).
LEMMA CliAnswers ==
  ASSUME NEW c, NEW s, CliRuntime(s), CliKnows(c, s), NEW is,
         is = "ok" /\ c.wait.session = s.session => OkAt(s, c.wait.index)
  PROVE  CliKnows(Client!Answered(c, is), s)
  <1> DEFINE a == [is |-> is, index |-> c.wait.index, session |-> c.wait.session]
             d == Client!Answered(c, is)
  <1>1. /\ DOMAIN d = CliFields /\ d.wait = Client!NoWait /\ d.answer = a
        /\ d.status = c.status /\ d.log = c.log /\ d.order = c.order
    BY DEF Client!Answered, CliKnows, CliTyped, CliFields
  <1>2. /\ DOMAIN Client!NoWait = CliWaitFields /\ Client!NoWait.phase = "idle"
        /\ Client!NoWait.index = 0 /\ Client!NoWait.session = 0 /\ Client!NoWait.box # "ok"
    BY DEF Client!NoWait, CliWaitFields
  <1>3. a.is = is /\ a.index = c.wait.index /\ a.session = c.wait.session
    OBVIOUS
  <1> HIDE DEF a, d, Client!NoWait
  <1>4. CliTyped(d)
    BY <1>1, <1>2, <1>3 DEF CliKnows, CliTyped
  <1>5. CliClaims(d, s)
    <2>1. 0 <= s.session
      BY DEF CliRuntime
    <2>2. QED
      BY <1>1, <1>2, <1>3, <2>1 DEF CliKnows, CliClaims
  <1>6. QED
    BY <1>4, <1>5 DEF CliKnows, d

\* A completion is logged, the oldest evicted and the waiter told (Recorded).
LEMMA CliRecords ==
  ASSUME NEW c, NEW s, CliKnows(c, s), c.status.session # 0,
         NEW i \in Nat, NEW is, is = "ok" => OkAt(s, i)
  PROVE  /\ CliKnows(Client!Recorded(c, i, is), s)
         /\ Client!Recorded(c, i, is).wait.session = c.wait.session
         /\ Client!Recorded(c, i, is).wait.index = c.wait.index
  <1> DEFINE order == IF i \in DOMAIN c.log THEN c.order ELSE Append(c.order, i)
             kept == IF Len(order) > ClientKept THEN Tail(order) ELSE order
             log == [k \in {kept[n] : n \in DOMAIN kept} |-> IF k = i THEN is ELSE c.log[k]]
             told == c.wait.phase \in {"race", "grace"} /\ c.wait.index = i
                       /\ c.wait.box = "empty"
             box == IF told THEN is ELSE c.wait.box
             d == Client!Recorded(c, i, is)
  <1>1. c.order \in Seq(Nat) /\ DOMAIN c.log = {c.order[n] : n \in DOMAIN c.order}
    BY DEF CliKnows, CliTyped
  <1>2. /\ DOMAIN d = CliFields /\ d.log = log /\ d.order = kept
        /\ d.status = c.status /\ d.answer = c.answer
        /\ DOMAIN d.wait = CliWaitFields /\ d.wait.phase = c.wait.phase
        /\ d.wait.index = c.wait.index /\ d.wait.session = c.wait.session /\ d.wait.box = box
    <2> HIDE DEF log, kept, box
    <2>1. d = [c EXCEPT !.log = log, !.order = kept, !.wait.box = box]
      BY DEF Client!Recorded, log, kept, box
    <2>2. QED
      BY <2>1 DEF CliKnows, CliTyped, CliFields, CliWaitFields
  <1>3. order \in Seq(Nat) /\ \A n \in DOMAIN order : order[n] = i \/ order[n] \in DOMAIN c.log
    <2>1. CASE i \in DOMAIN c.log
      BY <1>1, <2>1
    <2>2. CASE i \notin DOMAIN c.log
      BY <1>1, <2>2, AppendProperties
    <2>3. QED
      BY <2>1, <2>2
  <1> HIDE DEF order
  <1>4. kept \in Seq(Nat) /\ \A n \in DOMAIN kept : kept[n] = i \/ kept[n] \in DOMAIN c.log
    <2>1. CASE kept = order
      BY <1>3, <2>1
    <2>2. CASE kept = Tail(order) /\ order # <<>>
      <3>1. /\ Tail(order) \in Seq(Nat)
            /\ DOMAIN Tail(order) = 1 .. Len(Tail(order)) /\ Len(Tail(order)) = Len(order) - 1
            /\ \A n \in 1 .. Len(Tail(order)) : Tail(order)[n] = order[n + 1]
            /\ Len(order) \in Nat /\ DOMAIN order = 1 .. Len(order)
        BY <1>3, <2>2, HeadTailProperties, LenProperties
      <3>2. \A n \in DOMAIN Tail(order) : n + 1 \in DOMAIN order /\ Tail(order)[n] = order[n + 1]
        BY <3>1
      <3>3. QED
        BY <1>3, <2>2, <3>1, <3>2
    <2>3. kept = order \/ (kept = Tail(order) /\ order # <<>>)
      <3>1. order = <<>> => Len(order) = 0
        OBVIOUS
      <3>2. QED
        BY <3>1, ClientAssumption
    <2>4. QED
      BY <2>1, <2>2, <2>3
  <1>5. /\ DOMAIN log = {kept[n] : n \in DOMAIN kept}
        /\ \A k \in DOMAIN log : \/ k = i /\ log[k] = is
                                 \/ k \in DOMAIN c.log /\ log[k] = c.log[k]
    <2> HIDE DEF kept
    <2>1. QED
      BY <1>4
  <1> HIDE DEF kept, log, d
  <1>6. CliTyped(d)
    BY <1>2, <1>4, <1>5 DEF CliKnows, CliTyped
  <1>7. CliClaims(d, s)
    <2>1. c.status.session = s.session => \A k \in DOMAIN log : log[k] = "ok" => OkAt(s, k)
      BY <1>5 DEF CliKnows, CliClaims
    <2>2. box = "ok" /\ c.wait.session = s.session => OkAt(s, c.wait.index)
      BY DEF CliKnows, CliClaims
    <2> HIDE DEF box
    <2>3. QED
      BY <1>2, <2>1, <2>2 DEF CliKnows, CliClaims
  <1>8. QED
    BY <1>2, <1>6, <1>7 DEF CliKnows, d

\* The runtime's own steps and the requests it takes (TakeRequest, OtherRequest, Finish, Fail,
\* LatchError, Broadcast, AnswerAsk).
LEMMA CliRuntimeSteps ==
  ASSUME CliInv,
         \/ \E m \in client_net : Client!TakeRequest(m) \/ Client!AnswerAsk(m)
         \/ Client!OtherRequest \/ Client!Finish \/ Client!Fail \/ Client!LatchError
         \/ Client!Broadcast
  PROVE  CliInv'
  <1> DEFINE s == client_srv
             t == client_srv'
  <1>0. CliRuntime(s) /\ CliNet(client_net, s) /\ CliKnows(client_cl, s)
    BY DEF CliInv
  <1>1. UNCHANGED client_cl
    BY DEF Client!TakeRequest, Client!AnswerAsk, Client!OtherRequest, Client!Finish, Client!Fail,
           Client!LatchError, Client!Broadcast
  <1>2. SUFFICES CliRuntime(t) /\ GoesOn(s, t)
                 /\ \A m \in client_net' : m \in client_net \/ CliMessage(m, t)
    <2>1. ASSUME CliRuntime(t) /\ GoesOn(s, t)
                 /\ \A m \in client_net' : m \in client_net \/ CliMessage(m, t)
          PROVE  CliInv'
      <3> HIDE DEF s, t
      <3>1. CliNet(client_net, t) /\ CliKnows(client_cl, t)
        BY <1>0, <2>1, CliStays
      <3>2. CliNet(client_net', t)
        BY <2>1, <3>1 DEF CliNet
      <3>3. QED
        BY <1>1, <2>1, <3>1, <3>2 DEF CliInv, t
    <2>2. QED
      BY <2>1
  <1>3. CASE \E m \in client_net : Client!TakeRequest(m)
    <2>1. PICK m \in client_net : Client!TakeRequest(m)
      BY <1>3
    <2> DEFINE known == {k \in s.keys : k.key = m.key}
               index == IF known = {} THEN Len(s.results) ELSE (CHOOSE k \in known : TRUE).index
               ack == [t |-> "ack", key |-> m.key, index |-> index, session |-> s.session]
    <2>2. index \in Nat
      <3>1. s.results \in Seq(CliEnds) /\ \A k \in s.keys : k.index \in Nat
        BY <1>0 DEF CliRuntime
      <3>2. CASE known = {}
        BY <3>1, <3>2
      <3>3. CASE known # {}
        <4>1. (CHOOSE k \in known : TRUE) \in s.keys
          BY <3>3, SMTT(40)
        <4>2. QED
          BY <3>1, <3>3, <4>1
      <3>4. QED
        BY <3>2, <3>3
    <2>3. /\ client_net' = (client_net \ {m}) \cup {ack}
          /\ \/ t = s
             \/ t = [s EXCEPT !.results = Append(s.results, "run"), !.error = Client!None,
                              !.keys = s.keys \cup {[key |-> m.key, index |-> index]}]
      BY <2>1 DEF Client!TakeRequest
    <2>4. t.session = s.session
      BY <1>0, <2>3 DEF CliRuntime
    <2>5. CliMessage(ack, t)
      BY <2>2, <2>4 DEF CliMessage
    <2>6. CASE t = s
      BY <1>0, <2>3, <2>5, <2>6 DEF GoesOn
    <2>7. CASE t = [s EXCEPT !.results = Append(s.results, "run"), !.error = Client!None,
                             !.keys = s.keys \cup {[key |-> m.key, index |-> index]}]
      <3> DEFINE key == [key |-> m.key, index |-> index]
      <3>1. key.index = index
        OBVIOUS
      <3> HIDE DEF key, index
      <3>2. /\ DOMAIN t = DOMAIN s /\ t.results = Append(s.results, "run")
            /\ t.keys = s.keys \cup {key}
        BY <1>0, <2>7 DEF CliRuntime, key
      <3>3. \A k \in t.keys : k.index \in Nat
        BY <1>0, <2>2, <3>1, <3>2 DEF CliRuntime
      <3>4. CliRuntime(t) /\ GoesOn(s, t)
        BY <1>0, <2>4, <3>2, <3>3, CliAppends
      <3>5. QED
        BY <2>3, <2>5, <3>4
    <2>8. QED
      BY <2>3, <2>6, <2>7
  <1>4. CASE Client!OtherRequest
    <2>1. t = [s EXCEPT !.results = Append(s.results, "run"), !.error = Client!None]
          /\ UNCHANGED client_net
      BY <1>4 DEF Client!OtherRequest
    <2>2. /\ DOMAIN t = DOMAIN s /\ t.results = Append(s.results, "run")
          /\ t.keys = s.keys /\ t.session = s.session
      BY <1>0, <2>1 DEF CliRuntime
    <2>3. \A k \in t.keys : k.index \in Nat
      BY <1>0, <2>2 DEF CliRuntime
    <2>4. CliRuntime(t) /\ GoesOn(s, t)
      BY <1>0, <2>2, <2>3, CliAppends
    <2>5. QED
      BY <2>1, <2>4
  <1>5. CASE Client!Finish
    <2>1. PICK i \in 1 .. Len(s.results) :
            /\ s.results[i] = "run" /\ \A k \in 1 .. (i - 1) : s.results[k] # "run"
            /\ t = [s EXCEPT !.results[i] = "ok"]
            /\ client_net' = client_net \cup
                 {Client!Push(s, i, "ok") : k \in {i} \cap Client!OwnIndices(s)}
      BY <1>5 DEF Client!Finish
    <2>2. /\ DOMAIN t = DOMAIN s /\ t.results = [s.results EXCEPT ![i] = "ok"]
          /\ t.keys = s.keys /\ t.session = s.session
      BY <1>0, <2>1 DEF CliRuntime
    <2>3. CliRuntime(t) /\ GoesOn(s, t)
      BY <1>0, <2>1, <2>2, CliEnding
    <2>4. s.results \in Seq(CliEnds)
      BY <1>0 DEF CliRuntime
    <2>5. /\ i \in Nat /\ i - 1 \in Nat /\ (i - 1) + 1 = i /\ i \in DOMAIN s.results
      BY <2>1, <2>4
    <2>6. OkAt(t, i - 1)
      BY <2>2, <2>5 DEF OkAt
    <2>7. CliMessage(Client!Push(s, i, "ok"), t)
      BY <2>2, <2>5, <2>6 DEF CliMessage, Client!Push
    <2>8. QED
      BY <2>1, <2>3, <2>7
  <1>6. CASE Client!Fail
    <2>1. PICK i \in 1 .. Len(s.results) :
            LET rest == {k \in 1 .. Len(s.results) : k >= i} IN
            /\ s.results[i] = "run" /\ \A k \in 1 .. (i - 1) : s.results[k] # "run"
            /\ t = [s EXCEPT !.error = i - 1,
                             !.results = [k \in DOMAIN s.results |->
                                            IF k \in rest THEN "failed" ELSE s.results[k]]]
            /\ client_net' = client_net \cup
                 {Client!Push(s, k, "failed") : k \in rest \cap Client!OwnIndices(s)}
      BY <1>6 DEF Client!Fail
    <2>2. s.results \in Seq(CliEnds) /\ DOMAIN s.results = 1 .. Len(s.results)
      BY <1>0 DEF CliRuntime
    <2>3. /\ DOMAIN t = DOMAIN s /\ t.keys = s.keys /\ t.session = s.session
          /\ t.results = [k \in DOMAIN s.results |->
                            IF k \in {x \in 1 .. Len(s.results) : x >= i} THEN "failed"
                            ELSE s.results[k]]
      BY <1>0, <2>1 DEF CliRuntime
    <2>4. t.results = [k \in DOMAIN s.results |-> IF k >= i THEN "failed" ELSE s.results[k]]
      BY <2>2, <2>3
    <2>5. CliRuntime(t) /\ GoesOn(s, t)
      BY <1>0, <2>1, <2>3, <2>4, CliEnding
    <2>6. \A k \in 1 .. Len(s.results) : CliMessage(Client!Push(s, k, "failed"), t)
      BY <2>2, <2>3 DEF CliMessage, Client!Push
    <2>7. QED
      BY <2>1, <2>5, <2>6, ZenonT(40)
  <1>7. CASE Client!LatchError
    <2>1. /\ t = [s EXCEPT !.error = Client!Unattributed] /\ UNCHANGED client_net
      BY <1>7 DEF Client!LatchError
    <2>2. /\ DOMAIN t = DOMAIN s /\ t.results = s.results /\ t.keys = s.keys
          /\ t.session = s.session
      BY <1>0, <2>1 DEF CliRuntime
    <2>3. QED
      BY <1>0, <2>1, <2>2 DEF CliRuntime, GoesOn, OkAt
  <1>8. CASE Client!Broadcast
    <2>1. /\ t = [s EXCEPT !.seq = s.seq + 1]
          /\ client_net' = client_net \cup {Client!Frame(s)}
      BY <1>8 DEF Client!Broadcast
    <2>2. /\ DOMAIN t = DOMAIN s /\ t.results = s.results /\ t.keys = s.keys
          /\ t.session = s.session
      BY <1>0, <2>1 DEF CliRuntime
    <2>3. CliMessage(Client!Frame(s), t)
      BY <2>2 DEF Client!Frame, CliMessage
    <2>4. QED
      BY <1>0, <2>1, <2>2, <2>3 DEF CliRuntime, GoesOn, OkAt
  <1>9. CASE \E m \in client_net : Client!AnswerAsk(m)
    <2>1. PICK m \in client_net : Client!AnswerAsk(m)
      BY <1>9
    <2> DEFINE is == IF m.index < Len(s.results) THEN s.results[m.index + 1] ELSE "run"
               ans == [t |-> "record", index |-> m.index, session |-> s.session, is |-> is]
    <2>2. /\ t = s /\ m.t = "ask" /\ client_net' = (client_net \ {m}) \cup {ans}
      BY <2>1 DEF Client!AnswerAsk
    <2>3. m.index \in Nat
      BY <1>0, <2>2 DEF CliNet, CliMessage
    <2>4. is = "ok" => OkAt(s, m.index)
      <3>1. s.results \in Seq(CliEnds)
        BY <1>0 DEF CliRuntime
      <3>2. QED
        BY <2>3, <3>1 DEF OkAt
    <2> HIDE DEF is
    <2>5. CliMessage(ans, t)
      BY <2>2, <2>3, <2>4 DEF CliMessage
    <2>6. QED
      BY <1>0, <2>2, <2>5 DEF GoesOn
  <1>10. QED
    BY <1>3, <1>4, <1>5, <1>6, <1>7, <1>8, <1>9

\* A restart leaves nothing of its session in flight, and every claim of an older one
\* behind (Restart).
LEMMA CliRestart == ASSUME CliInv, Client!Restart PROVE CliInv'
  <1> DEFINE s == client_srv
             t == client_srv'
             c == client_cl
  <1>1. CliRuntime(s) /\ CliKnows(c, s)
    BY DEF CliInv
  <1>2. t = Client!NewSession(s.session + 1) /\ client_net' = {}
    BY DEF Client!Restart
  <1>3. s.session \in Nat /\ s.session # 0
    BY <1>1 DEF CliRuntime
  <1>4. CliRuntime(t) /\ t.session = s.session + 1
    BY <1>2, <1>3 DEF CliRuntime, Client!NewSession
  <1>5. /\ CliTyped(c) /\ c.status.session <= s.session /\ c.wait.session <= s.session
        /\ c.answer.session <= s.session
        /\ c.status.session = 0 => c.wait.phase = "idle" /\ c.order = <<>>
    BY <1>1 DEF CliKnows, CliClaims
  <1>6. /\ c.status.session \in Nat /\ c.wait.session \in Nat /\ c.answer.session \in Nat
    BY <1>5 DEF CliTyped
  <1>7. /\ c.status.session < t.session /\ c.wait.session < t.session
        /\ c.answer.session < t.session
    BY <1>3, <1>4, <1>5, <1>6
  <1>8. CliKnows(c, t)
    <2>1. c.status.session # t.session /\ c.wait.session # t.session /\ c.answer.session # t.session
          /\ c.status.session <= t.session /\ c.wait.session <= t.session
          /\ c.answer.session <= t.session
      BY <1>3, <1>4, <1>6, <1>7
    <2>2. QED
      BY <1>5, <2>1 DEF CliKnows, CliClaims
  <1>9. CliKnows(client_cl', t)
    <2>1. CASE client_cl' = c
      BY <1>8, <2>1
    <2>2. CASE client_cl' = Client!Answered(c, "unknown")
      <3> HIDE DEF t, c
      <3>1. QED
        BY <1>4, <1>8, <2>2, CliAnswers
    <2>3. QED
      BY <2>1, <2>2 DEF Client!Restart, Client!Answered
  <1>10. QED
    BY <1>2, <1>4, <1>9 DEF CliInv, CliNet

\* The client's requests and its retries (Submit, Retry).
LEMMA CliRequests == ASSUME CliInv, Client!Submit \/ Client!Retry PROVE CliInv'
  <1> DEFINE s == client_srv
             c == client_cl
             d == client_cl'
  <1>1. CliRuntime(s) /\ CliNet(client_net, s) /\ CliKnows(c, s) /\ UNCHANGED client_srv
    BY DEF CliInv, Client!Submit, Client!Retry
  <1>2. \A m \in client_net' : m \in client_net \/ m.t = "request"
    BY DEF Client!Submit, Client!Retry, Client!Request
  <1>3. CliNet(client_net', s)
    <2>1. \A m : m.t = "request" => CliMessage(m, s)
      BY DEF CliMessage
    <2>2. QED
      BY <1>1, <1>2, <2>1 DEF CliNet
  <1>4. /\ DOMAIN d = CliFields /\ d.status = c.status /\ d.log = c.log /\ d.order = c.order
        /\ d.wait = c.wait /\ d.answer \in {c.answer, Client!NoAnswer}
    <2>1. \/ d = [c EXCEPT !.req = c.req + 1, !.tries = 1, !.answer = Client!NoAnswer]
          \/ d = [c EXCEPT !.tries = c.tries + 1] \/ d = [c EXCEPT !.tries = 0]
      BY DEF Client!Submit, Client!Retry
    <2>2. DOMAIN c = CliFields
      BY <1>1 DEF CliKnows, CliTyped
    <2> HIDE DEF c, d
    <2>3. QED
      BY <2>1, <2>2 DEF CliFields
  <1>5. Client!NoAnswer.session = 0 /\ Client!NoAnswer.is # "ok"
    BY DEF Client!NoAnswer
  <1>6. CliKnows(d, s)
    <2>1. CliTyped(d)
      BY <1>1, <1>4, <1>5 DEF CliKnows, CliTyped
    <2>2. 0 <= s.session
      BY <1>1 DEF CliRuntime
    <2>3. CliClaims(d, s)
      BY <1>1, <1>4, <1>5, <2>2 DEF CliKnows, CliClaims
    <2>4. QED
      BY <2>1, <2>3 DEF CliKnows
  <1>7. QED
    BY <1>1, <1>3, <1>6 DEF CliInv

\* The steps of a wait (BeginWait, the races, the grace, and every way it ends).
LEMMA CliWaits ==
  ASSUME CliInv,
         \/ Client!BeginWait \/ Client!RaceByPush \/ Client!RaceByClose \/ Client!RaceByStatus
         \/ Client!WaitTimesOut \/ Client!GraceEnds \/ Client!RecoverFails
  PROVE  CliInv'
  <1> DEFINE s == client_srv
             c == client_cl
             d == client_cl'
  <1>1. CliRuntime(s) /\ CliNet(client_net, s) /\ CliKnows(c, s) /\ UNCHANGED client_srv
    BY DEF CliInv, Client!BeginWait, Client!RaceByPush, Client!RaceByClose, Client!RaceByStatus,
           Client!WaitTimesOut, Client!GraceEnds, Client!RecoverFails
  <1>2. CliNet(client_net', s)
    <2>1. \/ client_net' = client_net
          \/ client_net' = client_net \cup {[t |-> "ask", index |-> c.wait.index, session |-> 0]}
      BY DEF Client!BeginWait, Client!RaceByPush, Client!RaceByClose, Client!RaceByStatus,
             Client!WaitTimesOut, Client!GraceEnds, Client!RecoverFails
    <2>2. c.wait.index \in Nat
      BY <1>1 DEF CliKnows, CliTyped
    <2>3. CliMessage([t |-> "ask", index |-> c.wait.index, session |-> 0], s)
      BY <2>2 DEF CliMessage
    <2>4. QED
      BY <1>1, <2>1, <2>3 DEF CliNet
  <1>3. \/ \E is : d = Client!Answered(c, is)
                   /\ (is = "ok" /\ c.wait.session = s.session => OkAt(s, c.wait.index))
        \/ /\ c.wait.phase # "idle"
           /\ \E p \in {"grace", "recover"} : d = [c EXCEPT !.wait.phase = p]
        \/ /\ c.wait.phase # "idle"
           /\ d = [c EXCEPT !.wait.phase = "race", !.wait.from = c.status.session]
    <2>1. CASE Client!BeginWait
      <3>1. CASE c.wait.index \in DOMAIN c.log
        <4>1. d = Client!Answered(c, c.log[c.wait.index]) /\ c.wait.phase = "acked"
          BY <2>1, <3>1 DEF Client!BeginWait
        <4>2. c.log[c.wait.index] = "ok" /\ c.wait.session = s.session => OkAt(s, c.wait.index)
          BY <1>1, <3>1, <4>1 DEF CliKnows, CliClaims
        <4>3. QED
          BY <4>1, <4>2
      <3>2. CASE c.wait.index \notin DOMAIN c.log
        BY <2>1, <3>2 DEF Client!BeginWait
      <3>3. QED
        BY <3>1, <3>2
    <2>2. CASE Client!RaceByPush
      <3>1. d = Client!Answered(c, c.wait.box)
        BY <2>2 DEF Client!RaceByPush
      <3>2. c.wait.box = "ok" /\ c.wait.session = s.session => OkAt(s, c.wait.index)
        BY <1>1 DEF CliKnows, CliClaims
      <3>3. QED
        BY <3>1, <3>2
    <2>3. CASE Client!RaceByClose
      <3>1. d = Client!Answered(c, "restarted") \/ d = Client!Answered(c, "unknown")
        BY <2>3 DEF Client!RaceByClose
      <3>2. QED
        BY <3>1
    <2>4. CASE Client!RaceByStatus
      <3>1. \/ d = Client!Answered(c, "restarted") \/ d = Client!Answered(c, "failed")
            \/ c.wait.phase = "race" /\ d = [c EXCEPT !.wait.phase = "grace"]
        BY <2>4 DEF Client!RaceByStatus
      <3>2. QED
        BY <3>1
    <2>5. CASE Client!WaitTimesOut \/ Client!RecoverFails
      <3>1. d = Client!Answered(c, "unknown")
        BY <2>5 DEF Client!WaitTimesOut, Client!RecoverFails
      <3>2. QED
        BY <3>1
    <2>6. CASE Client!GraceEnds
      BY <2>6 DEF Client!GraceEnds
    <2>7. QED
      BY <2>1, <2>2, <2>3, <2>4, <2>5, <2>6
  <1> HIDE DEF c, d, s
  <1>4. CliKnows(d, s)
    <2>1. ASSUME NEW is, d = Client!Answered(c, is),
                 is = "ok" /\ c.wait.session = s.session => OkAt(s, c.wait.index)
          PROVE  CliKnows(d, s)
      BY <1>1, <2>1, CliAnswers
    <2>2. ASSUME NEW p, NEW f, c.wait.phase # "idle",
                 d = [c EXCEPT !.wait.phase = p] \/ d = [c EXCEPT !.wait.phase = p, !.wait.from = f]
          PROVE  CliKnows(d, s)
      <3>1. DOMAIN c = CliFields /\ DOMAIN c.wait = CliWaitFields
        BY <1>1 DEF CliKnows, CliTyped
      <3>2. /\ DOMAIN d = CliFields /\ d.status = c.status /\ d.log = c.log /\ d.order = c.order
            /\ d.answer = c.answer
            /\ DOMAIN d.wait = CliWaitFields /\ d.wait.index = c.wait.index
            /\ d.wait.session = c.wait.session /\ d.wait.box = c.wait.box
        <4>1. CASE d = [c EXCEPT !.wait.phase = p]
          BY <3>1, <4>1 DEF CliFields, CliWaitFields
        <4>2. CASE d = [c EXCEPT !.wait.phase = p, !.wait.from = f]
          BY <3>1, <4>2 DEF CliFields, CliWaitFields
        <4>3. QED
          BY <2>2, <4>1, <4>2
      <3>3. CliTyped(d)
        BY <1>1, <3>2 DEF CliKnows, CliTyped
      <3>4. CliClaims(d, s)
        BY <1>1, <2>2, <3>2 DEF CliKnows, CliClaims
      <3>5. QED
        BY <3>3, <3>4 DEF CliKnows
    <2>3. QED
      BY <1>3, <2>1, <2>2
  <1>5. QED
    BY <1>1, <1>2, <1>4 DEF CliInv, c, d, s

\* What the client takes off the network (TakeAck, TakeRecord, TakePush, TakeStatus).
LEMMA CliTakes ==
  ASSUME CliInv, NEW m \in client_net,
         Client!TakeAck(m) \/ Client!TakeRecord(m) \/ Client!TakePush(m) \/ Client!TakeStatus(m)
  PROVE  CliInv'
  <1> DEFINE s == client_srv
             c == client_cl
             d == client_cl'
  <1>1. CliRuntime(s) /\ CliNet(client_net, s) /\ CliKnows(c, s) /\ UNCHANGED client_srv
    BY DEF CliInv, Client!TakeAck, Client!TakeRecord, Client!TakePush, Client!TakeStatus
  <1>2. CliNet(client_net', s)
    BY <1>1 DEF CliNet, Client!TakeAck, Client!TakeRecord, Client!TakePush, Client!TakeStatus
  <1>3. CliMessage(m, s) /\ s.session \in Nat /\ s.session # 0
    BY <1>1 DEF CliNet, CliRuntime
  <1>4. DOMAIN c = CliFields /\ DOMAIN c.wait = CliWaitFields
    BY <1>1 DEF CliKnows, CliTyped
  <1>5. SUFFICES d # c => CliKnows(d, s)
    BY <1>1, <1>2 DEF CliInv
  <1>6. CASE Client!TakeAck(m)
    <2> SUFFICES ASSUME d # c PROVE CliKnows(d, s)
      OBVIOUS
    <2> DEFINE w == [Client!NoWait EXCEPT !.phase = "acked", !.index = m.index,
                                          !.session = m.session]
    <2>1. /\ d = [c EXCEPT !.tries = 0, !.wait = w]
          /\ m.t = "ack" /\ m.session = c.status.session
      BY <1>6 DEF Client!TakeAck
    <2>2. m.session = s.session /\ m.index \in Nat
      BY <1>3, <2>1 DEF CliMessage
    <2>3. /\ DOMAIN w = CliWaitFields /\ w.index = m.index /\ w.session = m.session
          /\ w.box # "ok" /\ w.phase # "idle"
      BY DEF Client!NoWait, CliWaitFields
    <2> HIDE DEF w, c, d, s
    <2>4. /\ DOMAIN d = CliFields /\ d.status = c.status /\ d.log = c.log /\ d.order = c.order
          /\ d.answer = c.answer /\ d.wait = w
      BY <1>4, <2>1 DEF CliFields
    <2>5. CliTyped(d)
      BY <1>1, <1>3, <2>2, <2>3, <2>4 DEF CliKnows, CliTyped
    <2>6. CliClaims(d, s)
      BY <1>1, <1>3, <2>1, <2>2, <2>3, <2>4 DEF CliKnows, CliClaims
    <2>7. QED
      BY <2>5, <2>6 DEF CliKnows
  <1>7. CASE Client!TakeRecord(m)
    <2> SUFFICES ASSUME d # c PROVE CliKnows(d, s)
      OBVIOUS
    <2>1. /\ m.t = "record" /\ c.wait.phase = "recover" /\ c.wait.index = m.index
          /\ \/ d = Client!Answered(c, "unknown")
             \/ d = Client!Answered(Client!Recorded(c, m.index, m.is), m.is)
      BY <1>7 DEF Client!TakeRecord
    <2>2. m.index \in Nat /\ (m.is = "ok" => OkAt(s, m.index))
      BY <1>3, <2>1 DEF CliMessage
    <2>3. c.status.session # 0
      BY <1>1, <2>1 DEF CliKnows, CliClaims
    <2> HIDE DEF c, d, s
    <2>4. CASE d = Client!Answered(c, "unknown")
      BY <1>1, <2>4, CliAnswers
    <2>5. CASE d = Client!Answered(Client!Recorded(c, m.index, m.is), m.is)
      <3> DEFINE r == Client!Recorded(c, m.index, m.is)
      <3>1. CliKnows(r, s) /\ r.wait.index = m.index
        BY <1>1, <2>1, <2>2, <2>3, CliRecords
      <3>2. d = Client!Answered(r, m.is)
        BY <2>5
      <3> HIDE DEF r
      <3>3. QED
        BY <1>1, <2>2, <3>1, <3>2, CliAnswers
    <2>6. QED
      BY <2>1, <2>4, <2>5
  <1>8. CASE Client!TakePush(m)
    <2>1. /\ m.t = "push" /\ m.session = c.status.session
          /\ d = Client!Recorded(c, m.index, m.is)
      BY <1>8 DEF Client!TakePush
    <2>2. /\ m.session = s.session /\ m.index \in Nat /\ (m.is = "ok" => OkAt(s, m.index))
      BY <1>3, <2>1 DEF CliMessage
    <2> HIDE DEF c, d, s
    <2>3. c.status.session # 0
      BY <1>3, <2>1, <2>2
    <2>4. CliKnows(d, s)
      BY <1>1, <2>1, <2>2, <2>3, CliRecords
    <2>5. QED
      BY <2>4
  <1>9. CASE Client!TakeStatus(m)
    <2> SUFFICES ASSUME d # c PROVE CliKnows(d, s)
      OBVIOUS
    <2> DEFINE f == [x \in DOMAIN Client!NoStatus |-> m[x]]
               e == [c EXCEPT !.status = f]
    <2>1. /\ m.t = "status"
          /\ d = IF c.status.session \notin {0, m.session} THEN Client!OnRestart(e) ELSE e
      BY <1>9 DEF Client!TakeStatus
    <2>2. m.session = s.session
      BY <1>3, <2>1 DEF CliMessage
    <2>3. f.session = m.session
      BY DEF Client!NoStatus
    <2> HIDE DEF f, c, d, s
    <2>4. /\ DOMAIN e = CliFields /\ e.status = f /\ e.log = c.log /\ e.order = c.order
          /\ e.wait = c.wait /\ e.answer = c.answer
      BY <1>4 DEF CliFields
    <2> HIDE DEF e
    <2>5. CliTyped(e)
      BY <1>1, <1>3, <2>2, <2>3, <2>4 DEF CliKnows, CliTyped
    <2>6. CASE c.status.session \in {0, m.session}
      <3>1. d = e
        BY <2>1, <2>6
      <3>2. c.status.session = 0 => DOMAIN c.log = {}
        BY <1>1 DEF CliKnows, CliTyped, CliClaims
      <3>3. CliClaims(e, s)
        BY <1>1, <1>3, <2>2, <2>3, <2>4, <2>6, <3>2 DEF CliKnows, CliClaims
      <3>4. QED
        BY <2>5, <3>1, <3>3 DEF CliKnows
    <2>7. CASE c.status.session \notin {0, m.session}
      <3> DEFINE box == IF c.wait.phase \in {"race", "grace"} /\ c.wait.box = "empty"
                        THEN "closed" ELSE c.wait.box
                 log == [i \in {} |-> "ok"]
      <3>1. d = [e EXCEPT !.log = log, !.order = <<>>, !.wait.box = box]
        BY <2>1, <2>4, <2>7 DEF Client!OnRestart
      <3>2. box = "ok" => c.wait.box = "ok"
        OBVIOUS
      <3>3. DOMAIN log = {}
        OBVIOUS
      <3> HIDE DEF box, log
      <3>4. /\ DOMAIN d = CliFields /\ d.status = f /\ d.log = log /\ d.order = <<>>
            /\ d.answer = c.answer
            /\ DOMAIN d.wait = CliWaitFields /\ d.wait.index = c.wait.index
            /\ d.wait.session = c.wait.session /\ d.wait.box = box /\ d.wait.phase = c.wait.phase
        BY <1>4, <2>4, <3>1 DEF CliFields, CliWaitFields
      <3>5. CliTyped(d)
        <4>1. <<>> \in Seq(Nat) /\ {<<>>[n] : n \in DOMAIN <<>>} = {}
          OBVIOUS
        <4>2. QED
          BY <1>1, <1>3, <2>2, <2>3, <3>3, <3>4, <4>1 DEF CliKnows, CliTyped
      <3>6. CliClaims(d, s)
        BY <1>1, <1>3, <2>2, <2>3, <3>2, <3>3, <3>4 DEF CliKnows, CliClaims
      <3>7. QED
        BY <3>5, <3>6 DEF CliKnows
    <2>8. QED
      BY <2>6, <2>7
  <1>10. QED
    BY <1>6, <1>7, <1>8, <1>9

\* The first states satisfy the invariant (ClientWait!Init).
LEMMA CliInitially == Client!Init => CliInv
  <1> SUFFICES ASSUME Client!Init PROVE CliInv
    OBVIOUS
  <1>1. CliRuntime(client_srv) /\ client_srv.session = 1
    BY DEF Client!Init, Client!NewSession, CliRuntime
  <1>2. CliNet(client_net, client_srv)
    BY DEF Client!Init, CliNet
  <1>3. /\ DOMAIN client_cl = CliFields /\ DOMAIN client_cl.wait = CliWaitFields
        /\ client_cl.status.session = 0 /\ client_cl.wait.session = 0
        /\ client_cl.answer.session = 0 /\ client_cl.wait.index = 0
        /\ client_cl.order = <<>> /\ DOMAIN client_cl.log = {} /\ client_cl.wait.phase = "idle"
    BY DEF Client!Init, Client!NoStatus, Client!NoWait, Client!NoAnswer, CliFields, CliWaitFields
  <1>4. CliTyped(client_cl)
    <2>1. <<>> \in Seq(Nat) /\ {<<>>[n] : n \in DOMAIN <<>>} = {}
      OBVIOUS
    <2>2. QED
      BY <1>3, <2>1 DEF CliTyped
  <1>5. CliClaims(client_cl, client_srv)
    BY <1>1, <1>3 DEF CliClaims
  <1>6. QED
    BY <1>1, <1>2, <1>4, <1>5 DEF CliInv, CliKnows

\* Every step keeps the invariant.
LEMMA CliStep == ASSUME CliInv, [Client!Next]_Client!vars PROVE CliInv'
  <1>1. CASE \/ \E m \in client_net : Client!TakeRequest(m) \/ Client!AnswerAsk(m)
             \/ Client!OtherRequest \/ Client!Finish \/ Client!Fail \/ Client!LatchError
             \/ Client!Broadcast
    BY <1>1, CliRuntimeSteps
  <1>2. CASE Client!Restart
    BY <1>2, CliRestart
  <1>3. CASE Client!Submit \/ Client!Retry
    BY <1>3, CliRequests
  <1>4. CASE \/ Client!BeginWait \/ Client!RaceByPush \/ Client!RaceByClose \/ Client!RaceByStatus
             \/ Client!WaitTimesOut \/ Client!GraceEnds \/ Client!RecoverFails
    BY <1>4, CliWaits
  <1>5. CASE \E m \in client_net : \/ Client!TakeAck(m) \/ Client!TakeRecord(m)
                                   \/ Client!TakePush(m) \/ Client!TakeStatus(m)
    BY <1>5, CliTakes
  <1>6. CASE UNCHANGED Client!vars
    BY <1>6 DEF Client!vars, CliInv
  <1>7. QED
    BY <1>1, <1>2, <1>3, <1>4, <1>5, <1>6 DEF Client!Next

(* wait_command says true only for a command that succeeded in the session it was accepted
   in, for any number of commands, clients, restarts and errors and any length of the
   client's log (par6-client core.rs wait_command, record_completion; a reply reaches the
   client after its session's first STATUS, as Eager = FALSE says). *)
THEOREM TrueStaysOwnSuccess == Client!Spec => []TrueIsOwnSuccess
  <1>1. CliInv => TrueIsOwnSuccess
    BY DEF CliInv, CliKnows, CliClaims, OkAt, TrueIsOwnSuccess, Client!TrueIsOwnSuccess
  <1>2. QED
    BY <1>1, CliInitially, CliStep, PTL DEF Client!Spec

-----------------------------------------------------------------------------
(* ServerIntake. *)

\* A non-empty set of naturals has a least member.
LEMMA LeastNumber ==
  ASSUME NEW T, T \subseteq Nat, T # {}
  PROVE  \E m \in T : \A k \in T : m <= k
  <1> DEFINE R == OpToRel(<, Nat)
  <1>1. PICK m \in T : \A k \in T : ~(<<k, m>> \in R)
    <2>1. IsWellFoundedOn(R, Nat)
      BY NatLessThanWellFounded
    <2> HIDE DEF R
    <2>2. QED
      BY <2>1, WFMin
  <1>2. \A k \in T : ~(k < m)
    BY <1>1 DEF OpToRel
  <1>3. QED
    BY <1>2

(* A set of places is counted off in their order. *)
Enumerates(g, S) == Intake!Increasing(g) /\ {g[i] : i \in DOMAIN g} = S

Listed(n) ==
  \A S \in SUBSET (1..n) : \E m \in 0..n : \E g \in [1..m -> 1..n] : Enumerates(g, S)

\* Counting off one place more.
LEMMA ListedStep ==
  ASSUME NEW n \in Nat, Listed(n)
  PROVE  Listed(n + 1)
  <1> SUFFICES ASSUME NEW S \in SUBSET (1..(n + 1))
               PROVE  \E m \in 0..(n + 1) : \E g \in [1..m -> 1..(n + 1)] : Enumerates(g, S)
    BY DEF Listed
  <1>1. S \ {n + 1} \in SUBSET (1..n)
    OBVIOUS
  <1>0. PICK m \in 0..n : \E g \in [1..m -> 1..n] : Enumerates(g, S \ {n + 1})
    BY <1>1 DEF Listed
  <1>2. PICK g \in [1..m -> 1..n] : Enumerates(g, S \ {n + 1})
    BY <1>0
  <1>3. CASE n + 1 \notin S
    <2>1. S \ {n + 1} = S /\ m \in 0..(n + 1) /\ g \in [1..m -> 1..(n + 1)]
      BY <1>3
    <2>2. QED
      BY <1>2, <2>1
  <1>4. CASE n + 1 \in S
    <2> DEFINE h == [i \in 1..(m + 1) |-> IF i = m + 1 THEN n + 1 ELSE g[i]]
    <2>1. m + 1 \in 0..(n + 1) /\ h \in [1..(m + 1) -> 1..(n + 1)]
      OBVIOUS
    <2>2. DOMAIN h = 1..(m + 1) /\ DOMAIN g = 1..m
      OBVIOUS
    <2>3. h[m + 1] = n + 1 /\ \A i \in 1..m : h[i] = g[i] /\ g[i] \in 1..n
      OBVIOUS
    <2> HIDE DEF h
    <2>4. Intake!Increasing(h)
      <3> SUFFICES ASSUME NEW i \in 1..(m + 1), NEW j \in 1..(m + 1), i < j
                   PROVE  h[i] < h[j]
        BY <2>2 DEF Intake!Increasing
      <3>1. i \in 1..m
        OBVIOUS
      <3>2. CASE j = m + 1
        BY <2>3, <3>1, <3>2
      <3>3. CASE j # m + 1
        <4>1. j \in 1..m
          BY <3>3
        <4>2. g[i] < g[j]
          BY <1>2, <2>2, <3>1, <4>1 DEF Enumerates, Intake!Increasing
        <4>3. QED
          BY <2>3, <3>1, <4>1, <4>2
      <3>4. QED
        BY <3>2, <3>3
    <2>5. {h[i] : i \in DOMAIN h} = S
      <3>1. {g[i] : i \in 1..m} = S \ {n + 1}
        BY <1>2, <2>2 DEF Enumerates
      <3>2. {h[i] : i \in 1..(m + 1)} = {g[i] : i \in 1..m} \cup {n + 1}
        <4>1. \A i \in 1..(m + 1) : i \in 1..m \/ i = m + 1
          OBVIOUS
        <4>2. \A i \in 1..m : i \in 1..(m + 1)
          OBVIOUS
        <4>3. m + 1 \in 1..(m + 1)
          OBVIOUS
        <4>4. QED
          BY <2>3, <4>1, <4>2, <4>3
      <3>3. QED
        BY <1>4, <2>2, <3>1, <3>2
    <2>6. QED
      BY <2>1, <2>4, <2>5 DEF Enumerates
  <1>5. QED
    BY <1>3, <1>4

\* Every set of places can be counted off in its order.
LEMMA PlacesListed == \A n \in Nat : Listed(n)
  <1> DEFINE T == {n \in Nat : ~Listed(n)}
  <1>1. Listed(0)
    <2> SUFFICES ASSUME NEW S \in SUBSET (1..0)
                 PROVE  \E m \in 0..0 : \E g \in [1..m -> 1..0] : Enumerates(g, S)
      BY DEF Listed
    <2>1. S = {} /\ 1..0 = {}
      OBVIOUS
    <2> DEFINE g == [i \in 1..0 |-> i]
    <2>2. g \in [1..0 -> 1..0] /\ DOMAIN g = {}
      BY <2>1
    <2> HIDE DEF g
    <2>3. Enumerates(g, S)
      BY <2>1, <2>2 DEF Enumerates, Intake!Increasing
    <2>4. 0 \in 0..0
      OBVIOUS
    <2>5. QED
      BY <2>2, <2>3, <2>4
  <1>2. CASE T = {}
    BY <1>2
  <1>3. CASE T # {}
    <2>1. T \subseteq Nat
      OBVIOUS
    <2>2. PICK k \in T : \A j \in T : k <= j
      BY <1>3, <2>1, LeastNumber
    <2>3. k \in Nat /\ ~Listed(k)
      BY <2>2
    <2>4. k # 0
      BY <1>1, <2>3
    <2>5. k - 1 \in Nat /\ k = (k - 1) + 1 /\ ~(k <= k - 1)
      BY <2>3, <2>4
    <2>6. Listed(k - 1)
      BY <2>2, <2>5
    <2>7. Listed((k - 1) + 1)
      BY <2>5, <2>6, ListedStep
    <2>8. QED
      BY <2>3, <2>5, <2>7
  <1>4. QED
    BY <1>2, <1>3

-----------------------------------------------------------------------------
(* A line of datagrams, by their numbers. *)

IntakeDatagrams == [n : Nat, kind : IntakeKinds]

Numbers(q) == {q[i].n : i \in DOMAIN q}
InArrival(q) == \A i, j \in DOMAIN q : i < j => q[i].n < q[j].n
Earlier(A, B) == \A a \in A, b \in B : a < b

IntakeHandled == {intake_done[i] : i \in DOMAIN intake_done}

IntakeTyped ==
  /\ intake_sock \in Seq(IntakeDatagrams) /\ intake_deferred \in Seq(IntakeDatagrams)
  /\ intake_cur \in Seq(IntakeDatagrams) /\ Len(intake_cur) <= 1
  /\ intake_done \in Seq(Nat) /\ intake_sent \in Nat
  /\ intake_dropped \subseteq IntakeDatagrams
  /\ intake_stream \in Intake!Streams \cup {Intake!None}

(* Handled, in hand, put aside, on the socket: each in the order of arrival and before the
   next. *)
IntakeOrdered ==
  /\ Intake!Increasing(intake_done)
  /\ InArrival(intake_deferred) /\ InArrival(intake_sock)
  /\ Earlier(IntakeHandled, Numbers(intake_cur))
  /\ Earlier(IntakeHandled, Numbers(intake_deferred))
  /\ Earlier(IntakeHandled, Numbers(intake_sock))
  /\ Earlier(Numbers(intake_cur), Numbers(intake_deferred))
  /\ Earlier(Numbers(intake_cur), Numbers(intake_sock))
  /\ Earlier(Numbers(intake_deferred), Numbers(intake_sock))

IntakeLine ==
  IntakeHandled \cup Numbers(intake_cur) \cup Numbers(intake_deferred)
    \cup Numbers(intake_sock)

(* What arrived is in the line or was dropped, and never both. *)
IntakeAccounted ==
  /\ IntakeLine \cup {d.n : d \in intake_dropped} = 1..intake_sent
  /\ IntakeLine \cap {d.n : d \in intake_dropped} = {}
  /\ \A d \in intake_dropped : d.kind \in Intake!Streams

IntakeInv == IntakeTyped /\ IntakeOrdered /\ IntakeAccounted

-----------------------------------------------------------------------------

\* Taking the head off a line in order of arrival.
LEMMA LineHead ==
  ASSUME NEW q \in Seq(IntakeDatagrams), q # <<>>, InArrival(q)
  PROVE  /\ Head(q) \in IntakeDatagrams /\ Tail(q) \in Seq(IntakeDatagrams)
         /\ InArrival(Tail(q))
         /\ Numbers(q) = {Head(q).n} \cup Numbers(Tail(q))
         /\ Earlier({Head(q).n}, Numbers(Tail(q)))
  <1> DEFINE k == Len(q)
  <1>1. k \in Nat \ {0} /\ DOMAIN q = 1..k
    BY EmptySeq
  <1>2. Head(q) = q[1] /\ q[1] \in IntakeDatagrams
    BY <1>1
  <1>3. Tail(q) \in Seq(IntakeDatagrams) /\ Len(Tail(q)) = k - 1
    OBVIOUS
  <1>4. DOMAIN Tail(q) = 1..(k - 1) /\ \A i \in 1..(k - 1) : Tail(q)[i] = q[i + 1]
    BY <1>1, <1>3
  <1> HIDE DEF k
  <1>5. \A i \in 1..(k - 1) : i + 1 \in 1..k /\ 1 < i + 1
    BY <1>1
  <1>6. 1 \in 1..k /\ \A i \in 1..k : i = 1 \/ (i - 1 \in 1..(k - 1) /\ (i - 1) + 1 = i)
    BY <1>1
  <1>7. InArrival(Tail(q))
    <2> SUFFICES ASSUME NEW i \in 1..(k - 1), NEW j \in 1..(k - 1), i < j
                 PROVE  Tail(q)[i].n < Tail(q)[j].n
      BY <1>4 DEF InArrival
    <2>1. i + 1 < j + 1
      BY <1>1
    <2>2. q[i + 1].n < q[j + 1].n
      BY <1>1, <1>5, <2>1 DEF InArrival
    <2>3. QED
      BY <1>4, <2>2
  <1>8. Numbers(q) = {q[1].n} \cup Numbers(Tail(q))
    <2>1. \A i \in 1..k : q[i].n \in {q[1].n} \cup Numbers(Tail(q))
      <3> SUFFICES ASSUME NEW i \in 1..k, i # 1 PROVE q[i].n \in Numbers(Tail(q))
        OBVIOUS
      <3>1. i - 1 \in DOMAIN Tail(q) /\ Tail(q)[i - 1] = q[i]
        BY <1>4, <1>6
      <3>2. QED
        BY <3>1 DEF Numbers
    <2>2. \A i \in 1..(k - 1) : Tail(q)[i].n \in Numbers(q)
      BY <1>1, <1>4, <1>5 DEF Numbers
    <2>3. q[1].n \in Numbers(q)
      BY <1>1, <1>6 DEF Numbers
    <2>4. QED
      BY <1>1, <1>4, <2>1, <2>2, <2>3 DEF Numbers
  <1>9. \A i \in 1..(k - 1) : q[1].n < q[i + 1].n
    BY <1>1, <1>5, <1>6 DEF InArrival
  <1>10. Earlier({q[1].n}, Numbers(Tail(q)))
    BY <1>4, <1>9 DEF Earlier, Numbers
  <1>11. QED
    BY <1>2, <1>3, <1>7, <1>8, <1>10

\* Joining two lines.
LEMMA LineJoin ==
  ASSUME NEW p \in Seq(IntakeDatagrams), NEW q \in Seq(IntakeDatagrams), InArrival(p),
         InArrival(q), Earlier(Numbers(p), Numbers(q))
  PROVE  /\ p \o q \in Seq(IntakeDatagrams) /\ InArrival(p \o q)
         /\ Numbers(p \o q) = Numbers(p) \cup Numbers(q)
  <1> DEFINE k == Len(p)  l == Len(q)
  <1>1. k \in Nat /\ l \in Nat /\ DOMAIN p = 1..k /\ DOMAIN q = 1..l
    OBVIOUS
  <1>2. p \o q \in Seq(IntakeDatagrams) /\ DOMAIN (p \o q) = 1..(k + l)
    OBVIOUS
  <1>3. \A i \in 1..k : (p \o q)[i] = p[i]
    OBVIOUS
  <1>4. \A i \in 1..(k + l) : i \notin 1..k => (p \o q)[i] = q[i - k]
    OBVIOUS
  <1> HIDE DEF k, l
  <1>5. \A i \in 1..(k + l) : i \notin 1..k => i - k \in 1..l
    BY <1>1
  <1>6. \A i \in 1..k : i \in 1..(k + l)
    BY <1>1
  <1>7. \A i \in 1..l : i + k \in 1..(k + l) /\ i + k \notin 1..k /\ (i + k) - k = i
    BY <1>1
  <1>8. \A i \in 1..k, j \in 1..l : p[i].n < q[j].n
    BY <1>1 DEF Earlier, Numbers
  <1>9. InArrival(p \o q)
    <2> SUFFICES ASSUME NEW i \in 1..(k + l), NEW j \in 1..(k + l), i < j
                 PROVE  (p \o q)[i].n < (p \o q)[j].n
      BY <1>2 DEF InArrival
    <2>1. CASE i \in 1..k /\ j \in 1..k
      BY <1>1, <1>3, <2>1 DEF InArrival
    <2>2. CASE i \in 1..k /\ j \notin 1..k
      BY <1>3, <1>4, <1>5, <1>8, <2>2
    <2>3. CASE i \notin 1..k
      <3>1. j \notin 1..k /\ i - k < j - k
        BY <1>1, <2>3
      <3>2. i - k \in 1..l /\ j - k \in 1..l
        BY <1>5, <2>3, <3>1
      <3>3. q[i - k].n < q[j - k].n
        BY <1>1, <3>1, <3>2 DEF InArrival
      <3>4. QED
        BY <1>4, <2>3, <3>1, <3>3
    <2>4. QED
      BY <2>1, <2>2, <2>3
  <1>10. Numbers(p \o q) = Numbers(p) \cup Numbers(q)
    <2>1. \A i \in 1..(k + l) : (p \o q)[i].n \in Numbers(p) \cup Numbers(q)
      BY <1>1, <1>3, <1>4, <1>5 DEF Numbers
    <2>2. \A i \in 1..k : p[i].n \in Numbers(p \o q)
      BY <1>2, <1>3, <1>6 DEF Numbers
    <2>3. \A i \in 1..l : q[i].n \in Numbers(p \o q)
      <3> SUFFICES ASSUME NEW i \in 1..l PROVE q[i].n \in Numbers(p \o q)
        OBVIOUS
      <3>1. (p \o q)[i + k] = q[i]
        BY <1>4, <1>7
      <3>2. i + k \in DOMAIN (p \o q)
        BY <1>2, <1>7
      <3>3. QED
        BY <3>1, <3>2 DEF Numbers
    <2>4. QED
      BY <1>1, <1>2, <2>1, <2>2, <2>3 DEF Numbers
  <1>11. QED
    BY <1>2, <1>9, <1>10

\* The drain splits the socket's line: what it keeps, what it discards, what it leaves.
LEMMA DrainSplits ==
  ASSUME IntakeTyped, IntakeOrdered, NEW superseded, Intake!Drain(superseded)
  PROVE  \E kept \in Seq(IntakeDatagrams) : \E gone \in SUBSET IntakeDatagrams :
           /\ intake_deferred' = intake_deferred \o kept
           /\ intake_dropped' = intake_dropped \cup gone
           /\ intake_sock' \in Seq(IntakeDatagrams)
           /\ InArrival(kept) /\ InArrival(intake_sock')
           /\ Earlier(Numbers(kept), Numbers(intake_sock'))
           /\ Numbers(intake_sock)
                = Numbers(kept) \cup Numbers(intake_sock') \cup {d.n : d \in gone}
           /\ Numbers(kept) \cap {d.n : d \in gone} = {}
           /\ Numbers(intake_sock') \cap {d.n : d \in gone} = {}
           /\ \A d \in gone : d.kind = superseded
  <1> DEFINE q == intake_sock
             k == Len(q)
             m == IF k < IntakeDrain THEN k ELSE IntakeDrain
             D == Intake!Drained
             keep == {j \in 1..m : q[j].kind # superseded}
             g == Intake!KeptPlaces(superseded)
             kept == Intake!Kept(superseded)
             drop == {j \in 1..m : q[j].kind = superseded}
             gone == {q[j] : j \in drop}
             rest == intake_sock'
  <1>1. q \in Seq(IntakeDatagrams) /\ k \in Nat /\ DOMAIN q = 1..k /\ InArrival(q)
    BY DEF IntakeTyped, IntakeOrdered
  <1>2. m \in Nat /\ m <= k
    BY <1>1, IntakeAssumption
  <1>3. D = SubSeq(q, 1, m)
    BY DEF Intake!Drained
  <1>4. rest = SubSeq(q, Len(D) + 1, Len(q))
    BY DEF Intake!Drain
  <1>5. intake_deferred' = intake_deferred \o kept
    BY DEF Intake!Drain
  <1>6. intake_dropped' = intake_dropped \cup {D[i] : i \in {j \in DOMAIN D : D[j].kind = superseded}}
    BY DEF Intake!Drain
  <1>7. g = CHOOSE f \in UNION {[1..l -> DOMAIN D] : l \in 0..Len(D)} :
              /\ Intake!Increasing(f)
              /\ {f[i] : i \in DOMAIN f} = {j \in DOMAIN D : D[j].kind # superseded}
    BY DEF Intake!KeptPlaces
  <1>8. kept = [i \in DOMAIN g |-> D[g[i]]]
    BY DEF Intake!Kept
  <1> HIDE DEF m, D, g, kept, rest, k, q
  <1>9. D \in Seq(IntakeDatagrams) /\ Len(D) = m /\ \A i \in 1..m : D[i] = q[i]
    BY <1>1, <1>2, <1>3 DEF k
  <1>10. DOMAIN D = 1..m
    BY <1>9
  <1>11. rest \in Seq(IntakeDatagrams) /\ Len(rest) = k - m
         /\ \A i \in 1..(k - m) : rest[i] = q[m + i]
    <2>1. rest = SubSeq(q, m + 1, k)
      BY <1>4, <1>9 DEF k
    <2>2. QED
      BY <1>1, <1>2, <2>1 DEF k
  <1>12. DOMAIN rest = 1..(k - m)
    BY <1>11
  <1>13. {j \in DOMAIN D : D[j].kind # superseded} = keep
    BY <1>9, <1>10
  <1>14. {D[i] : i \in {j \in DOMAIN D : D[j].kind = superseded}} = gone
    BY <1>9, <1>10
  <1>15. \E l \in 0..m : \E f \in [1..l -> 1..m] : Enumerates(f, keep)
    <2>1. keep \in SUBSET (1..m)
      OBVIOUS
    <2> HIDE DEF keep
    <2>2. QED
      BY <1>2, <2>1, PlacesListed DEF Listed
  <1>16. g \in UNION {[1..l -> 1..m] : l \in 0..m} /\ Enumerates(g, keep)
    <2> HIDE DEF keep
    <2>1. \E f \in UNION {[1..l -> DOMAIN D] : l \in 0..Len(D)} :
            /\ Intake!Increasing(f)
            /\ {f[i] : i \in DOMAIN f} = {j \in DOMAIN D : D[j].kind # superseded}
      <3>0. PICK w \in 0..m : \E f \in [1..w -> 1..m] : Enumerates(f, keep)
        BY <1>15
      <3>1. PICK f \in [1..w -> 1..m] : Enumerates(f, keep)
        BY <3>0
      <3>2. f \in UNION {[1..n -> 1..m] : n \in 0..m}
        BY <3>0, <3>1
      <3>3. Len(D) = m /\ DOMAIN D = 1..m
        BY <1>9, <1>10
      <3>4. Intake!Increasing(f) /\ {f[i] : i \in DOMAIN f} = keep
        BY <3>1 DEF Enumerates
      <3> HIDE DEF Enumerates
      <3>5. f \in UNION {[1..n -> DOMAIN D] : n \in 0..Len(D)}
        BY <3>2, <3>3
      <3>6. QED
        BY <1>13, <3>4, <3>5, Zenon
    <2>2. /\ g \in UNION {[1..l -> DOMAIN D] : l \in 0..Len(D)}
          /\ Intake!Increasing(g)
          /\ {g[i] : i \in DOMAIN g} = {j \in DOMAIN D : D[j].kind # superseded}
      BY <1>7, <2>1
    <2>3. QED
      BY <1>9, <1>10, <1>13, <2>2 DEF Enumerates
  <1>17. PICK l \in 0..m : g \in [1..l -> 1..m]
    BY <1>16
  <1>18. l \in Nat /\ DOMAIN g = 1..l /\ \A i \in 1..l : g[i] \in 1..m
    BY <1>2, <1>17
  <1>19. DOMAIN kept = 1..l /\ \A i \in 1..l : kept[i] = q[g[i]]
    BY <1>8, <1>9, <1>18
  <1>20. \A i \in 1..m : i \in 1..k /\ q[i] \in IntakeDatagrams
    <2>1. \A i \in 1..m : i \in 1..k
      BY <1>1, <1>2
    <2>2. QED
      BY <1>1, <2>1
  <1>21. kept \in Seq(IntakeDatagrams)
    <2>1. kept \in [1..l -> IntakeDatagrams]
      BY <1>8, <1>18, <1>19, <1>20
    <2>2. QED
      BY <1>18, <2>1, SeqDef
  <1>22. InArrival(kept)
    <2> SUFFICES ASSUME NEW i \in 1..l, NEW j \in 1..l, i < j
                 PROVE  kept[i].n < kept[j].n
      BY <1>19 DEF InArrival
    <2>1. g[i] < g[j]
      BY <1>16, <1>18 DEF Enumerates, Intake!Increasing
    <2>2. g[i] \in 1..k /\ g[j] \in 1..k
      BY <1>18, <1>20
    <2>3. q[g[i]].n < q[g[j]].n
      BY <1>1, <2>1, <2>2 DEF InArrival
    <2>4. QED
      BY <1>19, <2>3
  <1>23. \A i \in 1..(k - m) : m + i \in 1..k /\ m + i \notin 1..m
    BY <1>1, <1>2
  <1>24. InArrival(rest)
    <2> SUFFICES ASSUME NEW i \in 1..(k - m), NEW j \in 1..(k - m), i < j
                 PROVE  rest[i].n < rest[j].n
      BY <1>12 DEF InArrival
    <2>1. m + i < m + j
      BY <1>1, <1>2
    <2>2. q[m + i].n < q[m + j].n
      BY <1>1, <1>23, <2>1 DEF InArrival
    <2>3. QED
      BY <1>11, <2>2
  <1>25. \A i \in 1..m, j \in 1..(k - m) : q[i].n < q[m + j].n
    <2> SUFFICES ASSUME NEW i \in 1..m, NEW j \in 1..(k - m) PROVE q[i].n < q[m + j].n
      OBVIOUS
    <2>1. i < m + j
      BY <1>1, <1>2
    <2>2. QED
      BY <1>1, <1>20, <1>23, <2>1 DEF InArrival
  <1>26. Earlier(Numbers(kept), Numbers(rest))
    <2> SUFFICES ASSUME NEW i \in 1..l, NEW j \in 1..(k - m)
                 PROVE  kept[i].n < rest[j].n
      BY <1>12, <1>19 DEF Earlier, Numbers
    <2>1. g[i] \in 1..m
      BY <1>18
    <2>2. q[g[i]].n < q[m + j].n
      BY <1>25, <2>1
    <2>3. QED
      BY <1>11, <1>19, <2>2
  <1>27. {g[i] : i \in 1..l} = keep
    BY <1>16, <1>18 DEF Enumerates
  <1>28. Numbers(kept) = {q[j].n : j \in keep}
    BY <1>19, <1>27 DEF Numbers
  <1>29. {d.n : d \in gone} = {q[j].n : j \in drop}
    OBVIOUS
  <1>30. Numbers(rest) = {q[m + i].n : i \in 1..(k - m)}
    BY <1>11, <1>12 DEF Numbers
  <1>31. Numbers(q) = {q[j].n : j \in 1..k}
    BY <1>1 DEF Numbers
  <1>32. \A i \in 1..k : i \in keep \/ i \in drop \/ \E j \in 1..(k - m) : i = m + j
    <2> SUFFICES ASSUME NEW i \in 1..k, i \notin 1..m
                 PROVE  \E j \in 1..(k - m) : i = m + j
      OBVIOUS
    <2>1. i - m \in 1..(k - m) /\ i = m + (i - m)
      BY <1>1, <1>2
    <2>2. QED
      BY <2>1
  <1>33. keep \subseteq 1..m /\ drop \subseteq 1..m /\ keep \cap drop = {}
    OBVIOUS
  <1>34. gone \in SUBSET IntakeDatagrams /\ \A d \in gone : d.kind = superseded
    BY <1>20
  <1> HIDE DEF keep, drop, gone
  <1>35. \A i, j \in 1..k : q[i].n = q[j].n => i = j
    <2> SUFFICES ASSUME NEW i \in 1..k, NEW j \in 1..k, q[i].n = q[j].n PROVE i = j
      OBVIOUS
    <2>0. q[i] \in IntakeDatagrams /\ q[j] \in IntakeDatagrams
      BY <1>1
    <2>1. q[i].n \in Nat /\ q[j].n \in Nat
      BY <2>0 DEF IntakeDatagrams
    <2>2. ~(i < j)
      BY <1>1, <2>1 DEF InArrival
    <2>3. ~(j < i)
      BY <1>1, <2>1 DEF InArrival
    <2>4. QED
      BY <1>1, <2>2, <2>3
  <1>36. Numbers(q) = Numbers(kept) \cup Numbers(rest) \cup {d.n : d \in gone}
    BY <1>20, <1>23, <1>28, <1>29, <1>30, <1>31, <1>32, <1>33
  <1>37. Numbers(kept) \cap {d.n : d \in gone} = {}
    <2> SUFFICES ASSUME NEW i \in keep, NEW j \in drop, q[i].n = q[j].n PROVE FALSE
      BY <1>28, <1>29
    <2>1. i \in 1..k /\ j \in 1..k
      BY <1>20, <1>33
    <2>2. QED
      BY <1>33, <1>35, <2>1
  <1>38. Numbers(rest) \cap {d.n : d \in gone} = {}
    <2> SUFFICES ASSUME NEW i \in 1..(k - m), NEW j \in drop, q[m + i].n = q[j].n PROVE FALSE
      BY <1>29, <1>30
    <2>1. j \in 1..m /\ j \in 1..k /\ m + i \in 1..k /\ m + i \notin 1..m
      BY <1>20, <1>23, <1>33
    <2>2. m + i = j
      BY <1>35, <2>1
    <2>3. QED
      BY <2>1, <2>2
  <1>39. intake_dropped' = intake_dropped \cup gone
    BY <1>6, <1>14
  <1>40. QED
    BY <1>5, <1>11, <1>21, <1>22, <1>24, <1>26, <1>34, <1>36, <1>37, <1>38, <1>39
      DEF q, rest

\* What a handler does to the line: nothing, or the drain of a stream.
LEMMA IntakeHandles ==
  ASSUME IntakeTyped, NEW d, Intake!Dispatch(d)
  PROVE  /\ intake_stream' \in Intake!Streams \cup {Intake!None}
         /\ \/ UNCHANGED <<intake_sock, intake_deferred, intake_dropped>>
            \/ intake_stream \in Intake!Streams /\ Intake!Drain(intake_stream)
  <1> USE DEF Intake!NoDrain, IntakeTyped
  <1>1. CASE Intake!UpdateInPlace(d)
    BY <1>1 DEF Intake!UpdateInPlace
  <1>2. CASE Intake!Preempt(d)
    <2>1. intake_stream' \in Intake!Streams \cup {Intake!None}
      BY <1>2 DEF Intake!Preempt
    <2>2. IF intake_stream # Intake!None THEN Intake!Drain(intake_stream) ELSE Intake!NoDrain
      BY <1>2 DEF Intake!Preempt
    <2>3. QED
      BY <2>1, <2>2
  <1>3. CASE Intake!RefuseFaf(d)
    BY <1>3 DEF Intake!RefuseFaf
  <1>4. CASE Intake!Estop(d)
    BY <1>4 DEF Intake!Estop
  <1>5. CASE Intake!Stop(d)
    BY <1>5 DEF Intake!Stop
  <1>6. CASE Intake!Pause(d)
    BY <1>6 DEF Intake!Pause
  <1>7. CASE Intake!Reset(d)
    BY <1>7 DEF Intake!Reset
  <1>8. CASE Intake!Teleport(d)
    <2>1. intake_stream' \in Intake!Streams \cup {Intake!None}
      BY <1>8 DEF Intake!Teleport
    <2>2. IF intake_stream # Intake!None THEN Intake!Drain(intake_stream) ELSE Intake!NoDrain
      BY <1>8 DEF Intake!Teleport
    <2>3. QED
      BY <2>1, <2>2
  <1>9. CASE Intake!RefuseTeleport(d)
    BY <1>9 DEF Intake!RefuseTeleport
  <1>10. CASE Intake!Configure(d)
    BY <1>10 DEF Intake!Configure
  <1>11. CASE Intake!SetStatusRate(d)
    BY <1>11 DEF Intake!SetStatusRate
  <1>12. CASE Intake!Commission(d)
    BY <1>12 DEF Intake!Commission
  <1>13. CASE Intake!Queue(d)
    BY <1>13 DEF Intake!Queue
  <1>14. CASE Intake!Answer(d)
    BY <1>14 DEF Intake!Answer
  <1>15. QED
    BY <1>1, <1>2, <1>3, <1>4, <1>5, <1>6, <1>7, <1>8, <1>9, <1>10, <1>11, <1>12, <1>13,
       <1>14 DEF Intake!Dispatch, Intake!Stream

\* What the datagram in hand leaves behind when it is handled.
LEMMA IntakeHandsOver ==
  ASSUME IntakeTyped, IntakeOrdered, intake_cur # <<>>,
         intake_done' = Append(intake_done, intake_cur[1].n), intake_cur' = <<>>
  PROVE  /\ intake_done' \in Seq(Nat) /\ intake_cur' \in Seq(IntakeDatagrams)
         /\ Len(intake_cur') <= 1
         /\ Intake!Increasing(intake_done')
         /\ IntakeHandled' = IntakeHandled \cup Numbers(intake_cur)
         /\ Numbers(intake_cur') = {}
  <1> DEFINE m == Len(intake_done)  c == intake_cur[1].n
  <1> DEFINE u == Len(intake_cur)
  <1>0. intake_cur \in Seq(IntakeDatagrams) /\ u \in Nat /\ u # 0 /\ u <= 1
    BY EmptySeq DEF IntakeTyped
  <1> HIDE DEF u
  <1>a. u = 1
    BY <1>0
  <1>1. Len(intake_cur) = 1 /\ DOMAIN intake_cur = {1}
    BY <1>0, <1>a DEF u
  <1>2. intake_cur[1] \in IntakeDatagrams /\ Numbers(intake_cur) = {c}
    BY <1>1 DEF IntakeTyped, Numbers
  <1>3. c \in Nat
    BY <1>2 DEF IntakeDatagrams
  <1>4. m \in Nat /\ DOMAIN intake_done = 1..m /\ intake_done \in Seq(Nat)
    BY DEF IntakeTyped
  <1>5. /\ intake_done' \in Seq(Nat) /\ DOMAIN intake_done' = 1..(m + 1)
        /\ intake_done'[m + 1] = c /\ \A i \in 1..m : intake_done'[i] = intake_done[i]
    BY <1>3, <1>4
  <1>6. \A i \in 1..m : intake_done[i] < c
    BY <1>2, <1>4 DEF IntakeOrdered, Earlier, IntakeHandled
  <1> HIDE DEF m, c
  <1>7. \A i \in 1..(m + 1) : i \in 1..m \/ i = m + 1
    BY <1>4
  <1>8. \A i \in 1..m : i \in 1..(m + 1)
    BY <1>4
  <1>9. m + 1 \in 1..(m + 1)
    BY <1>4
  <1>10. Intake!Increasing(intake_done')
    <2> SUFFICES ASSUME NEW i \in 1..(m + 1), NEW j \in 1..(m + 1), i < j
                 PROVE  intake_done'[i] < intake_done'[j]
      BY <1>5 DEF Intake!Increasing
    <2>1. i \in 1..m
      BY <1>4
    <2>2. CASE j \in 1..m
      <3>1. intake_done[i] < intake_done[j]
        BY <1>4, <2>1, <2>2 DEF IntakeOrdered, Intake!Increasing
      <3>2. QED
        BY <1>5, <2>1, <2>2, <3>1
    <2>3. CASE j = m + 1
      BY <1>5, <1>6, <2>1, <2>3
    <2>4. QED
      BY <1>7, <2>2, <2>3
  <1>11. IntakeHandled' = IntakeHandled \cup {c}
    BY <1>4, <1>5, <1>7, <1>8, <1>9 DEF IntakeHandled
  <1>12. intake_cur' \in Seq(IntakeDatagrams) /\ Len(intake_cur') <= 1 /\ Numbers(intake_cur') = {}
    BY DEF Numbers
  <1>13. QED
    BY <1>2, <1>5, <1>10, <1>11, <1>12

\* A datagram is handled: the line moves up by one, less what a drain discards.
LEMMA IntakeOnDatagram ==
  ASSUME IntakeInv, Intake!OnDatagram
  PROVE  IntakeInv'
  <1>1. /\ intake_cur # <<>> /\ Intake!Dispatch(intake_cur[1])
        /\ intake_done' = Append(intake_done, intake_cur[1].n) /\ intake_cur' = <<>>
        /\ intake_sent' = intake_sent
    BY DEF Intake!OnDatagram
  <1>2. IntakeTyped /\ IntakeOrdered /\ IntakeAccounted
    BY DEF IntakeInv
  <1>3. /\ intake_done' \in Seq(Nat) /\ intake_cur' \in Seq(IntakeDatagrams)
        /\ Len(intake_cur') <= 1
        /\ Intake!Increasing(intake_done')
        /\ IntakeHandled' = IntakeHandled \cup Numbers(intake_cur)
        /\ Numbers(intake_cur') = {}
    BY <1>1, <1>2, IntakeHandsOver
  <1>4. /\ intake_stream' \in Intake!Streams \cup {Intake!None}
        /\ \/ UNCHANGED <<intake_sock, intake_deferred, intake_dropped>>
           \/ intake_stream \in Intake!Streams /\ Intake!Drain(intake_stream)
    BY <1>1, <1>2, IntakeHandles
  <1>5. CASE UNCHANGED <<intake_sock, intake_deferred, intake_dropped>>
    <2>1. IntakeTyped'
      BY <1>1, <1>2, <1>3, <1>4, <1>5 DEF IntakeTyped
    <2>2. IntakeOrdered'
      <3> DEFINE A == Numbers(intake_deferred)  H == IntakeHandled
                 C == Numbers(intake_cur)  Q == Numbers(intake_sock)
      <3>1. /\ Earlier(H, C) /\ Earlier(H, A) /\ Earlier(H, Q) /\ Earlier(C, A)
            /\ Earlier(C, Q) /\ Earlier(A, Q)
        BY <1>2 DEF IntakeOrdered
      <3>2. /\ Numbers(intake_cur)' = {} /\ Numbers(intake_deferred)' = A
            /\ Numbers(intake_sock)' = Q /\ IntakeHandled' = H \cup C
        BY <1>3, <1>5 DEF Numbers
      <3>3. InArrival(intake_deferred)' /\ Intake!Increasing(intake_done)'
            /\ InArrival(intake_sock)'
        BY <1>2, <1>3, <1>5 DEF IntakeOrdered, InArrival
      <3> HIDE DEF A, H, C, Q
      <3>4. /\ Earlier(H \cup C, {}) /\ Earlier(H \cup C, A) /\ Earlier(H \cup C, Q)
            /\ Earlier({}, A) /\ Earlier({}, Q)
        BY <3>1 DEF Earlier
      <3>5. QED
        BY <3>1, <3>2, <3>3, <3>4 DEF IntakeOrdered
    <2>3. IntakeAccounted'
      BY <1>1, <1>2, <1>3, <1>5 DEF IntakeAccounted, IntakeLine, Numbers
    <2>4. QED
      BY <2>1, <2>2, <2>3 DEF IntakeInv
  <1>6. CASE intake_stream \in Intake!Streams /\ Intake!Drain(intake_stream)
    <2>0. PICK kept \in Seq(IntakeDatagrams) : \E gone \in SUBSET IntakeDatagrams :
           /\ intake_deferred' = intake_deferred \o kept
           /\ intake_dropped' = intake_dropped \cup gone
           /\ intake_sock' \in Seq(IntakeDatagrams)
           /\ InArrival(kept) /\ InArrival(intake_sock')
           /\ Earlier(Numbers(kept), Numbers(intake_sock'))
           /\ Numbers(intake_sock)
                = Numbers(kept) \cup Numbers(intake_sock') \cup {d.n : d \in gone}
           /\ Numbers(kept) \cap {d.n : d \in gone} = {}
           /\ Numbers(intake_sock') \cap {d.n : d \in gone} = {}
           /\ \A d \in gone : d.kind = intake_stream
      BY <1>2, <1>6, DrainSplits
    <2>1. PICK gone \in SUBSET IntakeDatagrams :
           /\ intake_deferred' = intake_deferred \o kept
           /\ intake_dropped' = intake_dropped \cup gone
           /\ intake_sock' \in Seq(IntakeDatagrams)
           /\ InArrival(kept) /\ InArrival(intake_sock')
           /\ Earlier(Numbers(kept), Numbers(intake_sock'))
           /\ Numbers(intake_sock)
                = Numbers(kept) \cup Numbers(intake_sock') \cup {d.n : d \in gone}
           /\ Numbers(kept) \cap {d.n : d \in gone} = {}
           /\ Numbers(intake_sock') \cap {d.n : d \in gone} = {}
           /\ \A d \in gone : d.kind = intake_stream
      BY <2>0
    <2> DEFINE G == {d.n : d \in gone}  K == Numbers(kept)  S == Numbers(intake_sock')
               A == Numbers(intake_deferred)  H == IntakeHandled  C == Numbers(intake_cur)
               X == {d.n : d \in intake_dropped}  Q == Numbers(intake_sock)
    <2>2. Q = K \cup S \cup G /\ K \cap G = {} /\ S \cap G = {}
      BY <2>1
    <2>3. Earlier(H, C) /\ Earlier(H, A) /\ Earlier(H, Q) /\ Earlier(C, A) /\ Earlier(C, Q)
          /\ Earlier(A, Q) /\ Earlier(K, S)
      BY <1>2, <2>1 DEF IntakeOrdered
    <2>4. intake_deferred \in Seq(IntakeDatagrams) /\ InArrival(intake_deferred)
      BY <1>2 DEF IntakeTyped, IntakeOrdered
    <2>5. Earlier(A, K)
      BY <2>2, <2>3 DEF Earlier
    <2>6. /\ intake_deferred \o kept \in Seq(IntakeDatagrams)
          /\ InArrival(intake_deferred \o kept)
          /\ Numbers(intake_deferred \o kept) = A \cup K
      BY <2>1, <2>4, <2>5, LineJoin
    <2>7. /\ intake_deferred' \in Seq(IntakeDatagrams)
          /\ InArrival(intake_deferred') /\ Numbers(intake_deferred') = A \cup K
      BY <2>1, <2>6
    <2>8. IntakeTyped'
      BY <1>1, <1>2, <1>3, <1>4, <2>1, <2>7 DEF IntakeTyped
    <2>9. Numbers(intake_sock)' = S /\ Numbers(intake_deferred)' = A \cup K
          /\ Numbers(intake_cur)' = {} /\ IntakeHandled' = H \cup C
          /\ {d.n : d \in intake_dropped'} = X \cup G
      BY <1>3, <2>1, <2>7
    <2>10. H \cup C \cup A \cup Q \cup X = 1..intake_sent
           /\ (H \cup C \cup A \cup Q) \cap X = {}
      BY <1>2 DEF IntakeAccounted, IntakeLine
    <2>11. H \cup C \cup A \cup Q \subseteq Nat
      BY <2>10
    <2>a. InArrival(intake_sock') /\ InArrival(intake_deferred')
      BY <2>1, <2>7
    <2>b. \A d \in intake_dropped' : d.kind \in Intake!Streams
      BY <1>2, <1>6, <2>1 DEF IntakeAccounted
    <2> HIDE DEF G, K, S, A, H, C, X, Q
    <2>12. Earlier(H \cup C, A \cup K) /\ Earlier(H \cup C, S) /\ Earlier(A \cup K, S)
      BY <2>2, <2>3 DEF Earlier
    <2>13. Earlier({}, A \cup K) /\ Earlier({}, S) /\ Earlier(H \cup C, {})
      BY DEF Earlier
    <2>14. IntakeOrdered'
      BY <1>3, <2>9, <2>12, <2>13, <2>a DEF IntakeOrdered
    <2>15. (H \cup C \cup A) \cap G = {}
      BY <2>2, <2>3, <2>11 DEF Earlier
    <2>16. IntakeLine' = H \cup C \cup {} \cup (A \cup K) \cup S
      BY <2>9 DEF IntakeLine
    <2>17. IntakeLine' \cup (X \cup G) = 1..intake_sent /\ IntakeLine' \cap (X \cup G) = {}
      BY <2>2, <2>10, <2>15, <2>16
    <2>18. IntakeAccounted'
      BY <1>1, <2>9, <2>17, <2>b DEF IntakeAccounted
    <2>19. QED
      BY <2>8, <2>14, <2>18 DEF IntakeInv
  <1>7. QED
    BY <1>4, <1>5, <1>6

\* Taking the next datagram, put aside or off the socket.
LEMMA IntakeTakes ==
  ASSUME IntakeInv, Intake!TakeDatagram \/ Intake!TakeDeferred
  PROVE  IntakeInv'
  <1>1. IntakeTyped /\ IntakeOrdered /\ IntakeAccounted
    BY DEF IntakeInv
  <1>2. ASSUME NEW q \in Seq(IntakeDatagrams), q # <<>>, InArrival(q)
        PROVE  /\ <<Head(q)>> \in Seq(IntakeDatagrams) /\ Len(<<Head(q)>>) <= 1
               /\ Numbers(<<Head(q)>>) = {Head(q).n}
               /\ Tail(q) \in Seq(IntakeDatagrams) /\ InArrival(Tail(q))
               /\ Numbers(q) = Numbers(<<Head(q)>>) \cup Numbers(Tail(q))
               /\ Earlier(Numbers(<<Head(q)>>), Numbers(Tail(q)))
    <2>1. /\ Head(q) \in IntakeDatagrams /\ Tail(q) \in Seq(IntakeDatagrams)
          /\ InArrival(Tail(q))
          /\ Numbers(q) = {Head(q).n} \cup Numbers(Tail(q))
          /\ Earlier({Head(q).n}, Numbers(Tail(q)))
      BY <1>2, LineHead
    <2>2. <<Head(q)>> \in Seq(IntakeDatagrams) /\ Len(<<Head(q)>>) <= 1
          /\ Numbers(<<Head(q)>>) = {Head(q).n}
      BY <2>1 DEF Numbers
    <2>3. QED
      BY <2>1, <2>2
  <1>3. CASE Intake!TakeDatagram
    <2>1. /\ intake_cur = <<>> /\ intake_deferred = <<>> /\ intake_sock # <<>>
          /\ intake_cur' = <<Head(intake_sock)>> /\ intake_sock' = Tail(intake_sock)
          /\ intake_deferred' = intake_deferred /\ intake_stream' = intake_stream
          /\ intake_sent' = intake_sent /\ intake_done' = intake_done
          /\ intake_dropped' = intake_dropped
      BY <1>3 DEF Intake!TakeDatagram
    <2>2. intake_sock \in Seq(IntakeDatagrams) /\ InArrival(intake_sock)
      BY <1>1 DEF IntakeTyped, IntakeOrdered
    <2>3. /\ intake_cur' \in Seq(IntakeDatagrams) /\ Len(intake_cur') <= 1
          /\ intake_sock' \in Seq(IntakeDatagrams) /\ InArrival(intake_sock')
          /\ Numbers(intake_sock) = Numbers(intake_cur') \cup Numbers(intake_sock')
          /\ Earlier(Numbers(intake_cur'), Numbers(intake_sock'))
      BY <1>2, <2>1, <2>2
    <2>4. IntakeTyped'
      BY <1>1, <2>1, <2>3 DEF IntakeTyped
    <2>5. Numbers(intake_cur) = {} /\ Numbers(intake_deferred) = {} /\ Numbers(intake_deferred') = {}
          /\ IntakeHandled' = IntakeHandled
      BY <2>1 DEF Numbers, IntakeHandled
    <2>6. IntakeLine' = IntakeLine
      BY <2>3, <2>5 DEF IntakeLine
    <2>7. IntakeAccounted'
      BY <1>1, <2>1, <2>6 DEF IntakeAccounted
    <2>8. IntakeOrdered'
      BY <1>1, <2>1, <2>3, <2>5 DEF IntakeOrdered, Earlier, InArrival, Intake!Increasing
    <2>9. QED
      BY <2>4, <2>7, <2>8 DEF IntakeInv
  <1>4. CASE Intake!TakeDeferred
    <2>1. /\ intake_cur = <<>> /\ intake_deferred # <<>>
          /\ intake_cur' = <<Head(intake_deferred)>> /\ intake_deferred' = Tail(intake_deferred)
          /\ intake_sock' = intake_sock /\ intake_stream' = intake_stream
          /\ intake_sent' = intake_sent /\ intake_done' = intake_done
          /\ intake_dropped' = intake_dropped
      BY <1>4 DEF Intake!TakeDeferred
    <2>2. intake_deferred \in Seq(IntakeDatagrams) /\ InArrival(intake_deferred)
      BY <1>1 DEF IntakeTyped, IntakeOrdered
    <2>3. /\ intake_cur' \in Seq(IntakeDatagrams) /\ Len(intake_cur') <= 1
          /\ intake_deferred' \in Seq(IntakeDatagrams) /\ InArrival(intake_deferred')
          /\ Numbers(intake_deferred) = Numbers(intake_cur') \cup Numbers(intake_deferred')
          /\ Earlier(Numbers(intake_cur'), Numbers(intake_deferred'))
      BY <1>2, <2>1, <2>2
    <2>4. IntakeTyped'
      BY <1>1, <2>1, <2>3 DEF IntakeTyped
    <2>5. Numbers(intake_cur) = {} /\ Numbers(intake_sock') = Numbers(intake_sock)
          /\ IntakeHandled' = IntakeHandled
      BY <2>1 DEF Numbers, IntakeHandled
    <2>6. IntakeLine' = IntakeLine
      BY <2>3, <2>5 DEF IntakeLine
    <2>7. IntakeAccounted'
      BY <1>1, <2>1, <2>6 DEF IntakeAccounted
    <2>8. IntakeOrdered'
      BY <1>1, <2>1, <2>3, <2>5 DEF IntakeOrdered, Earlier, InArrival, Intake!Increasing
    <2>9. QED
      BY <2>4, <2>7, <2>8 DEF IntakeInv
  <1>5. QED
    BY <1>3, <1>4

\* A client's datagram joins the end of the line.
LEMMA IntakeArrives ==
  ASSUME IntakeInv, Intake!Arrive
  PROVE  IntakeInv'
  <1>1. IntakeTyped /\ IntakeOrdered /\ IntakeAccounted
    BY DEF IntakeInv
  <1>2. PICK kind \in IntakeKinds :
          intake_sock' = Append(intake_sock, [n |-> intake_sent + 1, kind |-> kind])
    BY DEF Intake!Arrive
  <1>3. /\ intake_sent' = intake_sent + 1
        /\ intake_deferred' = intake_deferred /\ intake_stream' = intake_stream
        /\ intake_cur' = intake_cur /\ intake_done' = intake_done
        /\ intake_dropped' = intake_dropped
    BY DEF Intake!Arrive
  <1> DEFINE d == [n |-> intake_sent + 1, kind |-> kind]
             H == IntakeHandled  C == Numbers(intake_cur)  A == Numbers(intake_deferred)
             Q == Numbers(intake_sock)  X == {e.n : e \in intake_dropped}
  <1>4. intake_sent \in Nat /\ intake_sock \in Seq(IntakeDatagrams) /\ InArrival(intake_sock)
    BY <1>1 DEF IntakeTyped, IntakeOrdered
  <1>5. <<d>> \in Seq(IntakeDatagrams) /\ InArrival(<<d>>) /\ Numbers(<<d>>) = {intake_sent + 1}
    BY <1>4 DEF IntakeDatagrams, InArrival, Numbers
  <1>6. intake_sock' = intake_sock \o <<d>>
    BY <1>2, <1>4, <1>5
  <1>7. /\ H \cup C \cup A \cup Q \cup X = 1..intake_sent
        /\ (H \cup C \cup A \cup Q) \cap X = {}
        /\ \A e \in intake_dropped : e.kind \in Intake!Streams
    BY <1>1 DEF IntakeAccounted, IntakeLine
  <1>8. /\ Earlier(H, C) /\ Earlier(H, A) /\ Earlier(H, Q) /\ Earlier(C, A) /\ Earlier(C, Q)
        /\ Earlier(A, Q)
    BY <1>1 DEF IntakeOrdered
  <1> DEFINE N == {intake_sent + 1}
  <1>9. /\ Earlier(H, N) /\ Earlier(C, N) /\ Earlier(A, N) /\ Earlier(Q, N)
        /\ N \cap X = {} /\ 1..(intake_sent + 1) = (1..intake_sent) \cup N
    <2>1. \A i \in H \cup C \cup A \cup Q \cup X : i \in 1..intake_sent
      BY <1>7
    <2>2. \A i \in 1..intake_sent : i < intake_sent + 1
      BY <1>4
    <2>3. 1..(intake_sent + 1) = (1..intake_sent) \cup N
      BY <1>4
    <2> HIDE DEF H, C, A, Q, X
    <2>4. QED
      BY <1>4, <2>1, <2>2, <2>3 DEF Earlier
  <1>10. /\ intake_sock' \in Seq(IntakeDatagrams) /\ InArrival(intake_sock')
         /\ Numbers(intake_sock') = Q \cup N
    <2>1. Earlier(Numbers(intake_sock), Numbers(<<d>>))
      BY <1>5, <1>9
    <2> HIDE DEF d
    <2>2. QED
      BY <1>4, <1>5, <1>6, <2>1, LineJoin
  <1>11. IntakeTyped'
    BY <1>1, <1>3, <1>4, <1>10 DEF IntakeTyped
  <1>12. IntakeHandled' = H /\ Numbers(intake_cur)' = C /\ Numbers(intake_deferred)' = A
         /\ Numbers(intake_sock)' = Q \cup N /\ {e.n : e \in intake_dropped'} = X
    BY <1>3, <1>10 DEF IntakeHandled, Numbers
  <1>13. InArrival(intake_deferred)' /\ Intake!Increasing(intake_done)' /\ InArrival(intake_sock)'
    BY <1>1, <1>3, <1>10 DEF IntakeOrdered, InArrival, Intake!Increasing
  <1> HIDE DEF H, C, A, Q, X, N, d
  <1>14. Earlier(H, Q \cup N) /\ Earlier(C, Q \cup N) /\ Earlier(A, Q \cup N)
    BY <1>8, <1>9 DEF Earlier
  <1>15. IntakeOrdered'
    BY <1>8, <1>12, <1>13, <1>14 DEF IntakeOrdered
  <1>16. IntakeLine' = H \cup C \cup A \cup (Q \cup N)
    BY <1>12 DEF IntakeLine
  <1>17. IntakeLine' \cup X = 1..(intake_sent + 1) /\ IntakeLine' \cap X = {}
    BY <1>7, <1>9, <1>16
  <1>18. IntakeAccounted'
    BY <1>3, <1>7, <1>12, <1>17 DEF IntakeAccounted
  <1>19. QED
    BY <1>11, <1>15, <1>18 DEF IntakeInv

\* One step of the run loop keeps the line.
LEMMA IntakeStep == IntakeInv /\ [Intake!Next]_(Intake!vars) => IntakeInv'
  <1> SUFFICES ASSUME IntakeInv, [Intake!Next]_(Intake!vars) PROVE IntakeInv'
    OBVIOUS
  <1>1. CASE Intake!TakeDatagram \/ Intake!TakeDeferred
    BY <1>1, IntakeTakes
  <1>2. CASE Intake!OnDatagram
    BY <1>2, IntakeOnDatagram
  <1>3. CASE Intake!Arrive
    BY <1>3, IntakeArrives
  <1>4. CASE Intake!OnPoll \/ UNCHANGED Intake!vars
    <2>1. UNCHANGED <<intake_sock, intake_deferred, intake_cur, intake_stream, intake_sent,
                      intake_done, intake_dropped>>
      BY <1>4 DEF Intake!OnPoll, Intake!vars
    <2>2. IntakeTyped'
      BY <2>1 DEF IntakeInv, IntakeTyped
    <2>3. IntakeOrdered'
      BY <2>1 DEF IntakeInv, IntakeOrdered, IntakeHandled, Numbers, InArrival, Earlier,
                  Intake!Increasing
    <2>4. IntakeAccounted'
      BY <2>1 DEF IntakeInv, IntakeAccounted, IntakeLine, IntakeHandled, Numbers
    <2>5. QED
      BY <2>2, <2>3, <2>4 DEF IntakeInv
  <1>5. QED
    BY <1>1, <1>2, <1>3, <1>4 DEF Intake!Next

\* The line is empty when the server starts.
LEMMA IntakeInitially == Intake!Init => IntakeInv
  <1> SUFFICES ASSUME Intake!Init PROVE IntakeInv
    OBVIOUS
  <1>1. /\ intake_sock = <<>> /\ intake_deferred = <<>> /\ intake_cur = <<>>
        /\ intake_done = <<>> /\ intake_dropped = {} /\ intake_sent = 0
        /\ intake_stream = Intake!None
    BY DEF Intake!Init
  <1>2. IntakeTyped
    BY <1>1 DEF IntakeTyped
  <1>3. IntakeOrdered
    BY <1>1 DEF IntakeOrdered, IntakeHandled, Numbers, InArrival, Earlier, Intake!Increasing
  <1>4. IntakeAccounted
    BY <1>1 DEF IntakeAccounted, IntakeLine, IntakeHandled, Numbers
  <1>5. QED
    BY <1>2, <1>3, <1>4 DEF IntakeInv

-----------------------------------------------------------------------------

Values(q) == {q[i] : i \in DOMAIN q}

\* Joining two rising sequences of numbers.
LEMMA NumbersJoin ==
  ASSUME NEW p \in Seq(Nat), NEW q \in Seq(Nat), Intake!Increasing(p), Intake!Increasing(q),
         Earlier(Values(p), Values(q))
  PROVE  /\ p \o q \in Seq(Nat) /\ Intake!Increasing(p \o q)
         /\ Values(p \o q) = Values(p) \cup Values(q)
  <1> DEFINE k == Len(p)  l == Len(q)
  <1>1. k \in Nat /\ l \in Nat /\ DOMAIN p = 1..k /\ DOMAIN q = 1..l
    OBVIOUS
  <1>2. p \o q \in Seq(Nat) /\ DOMAIN (p \o q) = 1..(k + l)
    OBVIOUS
  <1>3. \A i \in 1..k : (p \o q)[i] = p[i]
    OBVIOUS
  <1>4. \A i \in 1..(k + l) : i \notin 1..k => (p \o q)[i] = q[i - k]
    OBVIOUS
  <1> HIDE DEF k, l
  <1>5. \A i \in 1..(k + l) : i \notin 1..k => i - k \in 1..l
    BY <1>1
  <1>6. \A i \in 1..k : i \in 1..(k + l)
    BY <1>1
  <1>7. \A i \in 1..l : i + k \in 1..(k + l) /\ i + k \notin 1..k /\ (i + k) - k = i
    BY <1>1
  <1>8. \A i \in 1..k, j \in 1..l : p[i] < q[j]
    BY <1>1 DEF Earlier, Values
  <1>9. Intake!Increasing(p \o q)
    <2> SUFFICES ASSUME NEW i \in 1..(k + l), NEW j \in 1..(k + l), i < j
                 PROVE  (p \o q)[i] < (p \o q)[j]
      BY <1>2 DEF Intake!Increasing
    <2>1. CASE i \in 1..k /\ j \in 1..k
      <3>1. p[i] < p[j]
        BY <1>1, <2>1 DEF Intake!Increasing
      <3>2. QED
        BY <1>3, <2>1, <3>1
    <2>2. CASE i \in 1..k /\ j \notin 1..k
      BY <1>3, <1>4, <1>5, <1>8, <2>2
    <2>3. CASE i \notin 1..k
      <3>1. j \notin 1..k /\ i - k < j - k
        BY <1>1, <2>3
      <3>2. i - k \in 1..l /\ j - k \in 1..l
        BY <1>5, <2>3, <3>1
      <3>3. q[i - k] < q[j - k]
        BY <1>1, <3>1, <3>2 DEF Intake!Increasing
      <3>4. QED
        BY <1>4, <2>3, <3>1, <3>3
    <2>4. QED
      BY <2>1, <2>2, <2>3
  <1>10. Values(p \o q) = Values(p) \cup Values(q)
    <2>1. \A i \in 1..(k + l) : (p \o q)[i] \in Values(p) \cup Values(q)
      BY <1>1, <1>3, <1>4, <1>5 DEF Values
    <2>2. \A i \in 1..k : p[i] \in Values(p \o q)
      BY <1>2, <1>3, <1>6 DEF Values
    <2>3. \A i \in 1..l : q[i] \in Values(p \o q)
      <3> SUFFICES ASSUME NEW i \in 1..l PROVE q[i] \in Values(p \o q)
        OBVIOUS
      <3>1. (p \o q)[i + k] = q[i]
        BY <1>4, <1>7
      <3>2. i + k \in DOMAIN (p \o q)
        BY <1>2, <1>7
      <3>3. QED
        BY <3>1, <3>2 DEF Values
    <2>4. QED
      BY <1>1, <1>2, <2>1, <2>2, <2>3 DEF Values
  <1>11. QED
    BY <1>2, <1>9, <1>10

\* The numbers of a line of datagrams.
LEMMA LineNumbers ==
  ASSUME NEW q \in Seq(IntakeDatagrams), InArrival(q)
  PROVE  /\ [i \in DOMAIN q |-> q[i].n] \in Seq(Nat)
         /\ Intake!Increasing([i \in DOMAIN q |-> q[i].n])
         /\ Values([i \in DOMAIN q |-> q[i].n]) = Numbers(q)
  <1>1. Len(q) \in Nat /\ DOMAIN q = 1..Len(q)
    OBVIOUS
  <1>2. \A i \in DOMAIN q : q[i].n \in Nat
    <2> SUFFICES ASSUME NEW i \in DOMAIN q PROVE q[i].n \in Nat
      OBVIOUS
    <2>1. q[i] \in IntakeDatagrams
      OBVIOUS
    <2>2. QED
      BY <2>1 DEF IntakeDatagrams
  <1>3. [i \in DOMAIN q |-> q[i].n] \in [1..Len(q) -> Nat]
    BY <1>1, <1>2
  <1>4. [i \in DOMAIN q |-> q[i].n] \in Seq(Nat)
    BY <1>1, <1>3, SeqDef
  <1>5. QED
    BY <1>4 DEF Intake!Increasing, InArrival, Values, Numbers

\* A preemption costs nobody else anything, whatever the datagrams, however many are sent and
\* however few a drain may take: they are handled in the order they arrived, and what is never
\* handled is a setpoint of the stream that was preempted (ServerIntake!HandledInOrder).
THEOREM LineIsKept == Intake!Spec => []HandledInOrder
  <1>1. IntakeInv => HandledInOrder
    <2> SUFFICES ASSUME IntakeInv PROVE Intake!HandledInOrder
      BY DEF HandledInOrder
    <2> DEFINE c == [i \in DOMAIN intake_cur |-> intake_cur[i].n]
               a == [i \in DOMAIN intake_deferred |-> intake_deferred[i].n]
               s == [i \in DOMAIN intake_sock |-> intake_sock[i].n]
    <2>1. IntakeTyped /\ IntakeOrdered /\ IntakeAccounted
      BY DEF IntakeInv
    <2>2. intake_cur \in Seq(IntakeDatagrams) /\ InArrival(intake_cur)
      <3>1. intake_cur \in Seq(IntakeDatagrams) /\ Len(intake_cur) \in Nat
        BY <2>1 DEF IntakeTyped
      <3>2. Len(intake_cur) <= 1
        BY <2>1 DEF IntakeTyped
      <3>3. \A i, j \in 1..Len(intake_cur) : ~(i < j)
        BY <3>1, <3>2
      <3>4. QED
        BY <3>1, <3>3 DEF InArrival
    <2>3. c \in Seq(Nat) /\ Intake!Increasing(c) /\ Values(c) = Numbers(intake_cur)
      BY <2>2, LineNumbers
    <2>4. /\ intake_deferred \in Seq(IntakeDatagrams) /\ InArrival(intake_deferred)
          /\ intake_sock \in Seq(IntakeDatagrams) /\ InArrival(intake_sock)
      BY <2>1 DEF IntakeTyped, IntakeOrdered
    <2>5. a \in Seq(Nat) /\ Intake!Increasing(a) /\ Values(a) = Numbers(intake_deferred)
      BY <2>4, LineNumbers
    <2>6. s \in Seq(Nat) /\ Intake!Increasing(s) /\ Values(s) = Numbers(intake_sock)
      BY <2>4, LineNumbers
    <2>7. intake_done \in Seq(Nat) /\ Intake!Increasing(intake_done)
          /\ Values(intake_done) = IntakeHandled
      BY <2>1 DEF IntakeTyped, IntakeOrdered, Values, IntakeHandled
    <2> HIDE DEF c, a, s
    <2>8. /\ Earlier(Values(intake_done), Values(c)) /\ Earlier(Values(intake_done), Values(a))
          /\ Earlier(Values(intake_done), Values(s)) /\ Earlier(Values(c), Values(a))
          /\ Earlier(Values(c), Values(s)) /\ Earlier(Values(a), Values(s))
      BY <2>1, <2>3, <2>5, <2>6, <2>7 DEF IntakeOrdered
    <2>9. /\ intake_done \o c \in Seq(Nat) /\ Intake!Increasing(intake_done \o c)
          /\ Values(intake_done \o c) = Values(intake_done) \cup Values(c)
      BY <2>3, <2>7, <2>8, NumbersJoin
    <2>10. Earlier(Values(intake_done \o c), Values(a))
      BY <2>8, <2>9 DEF Earlier
    <2>11. /\ (intake_done \o c) \o a \in Seq(Nat) /\ Intake!Increasing((intake_done \o c) \o a)
           /\ Values((intake_done \o c) \o a) = Values(intake_done \o c) \cup Values(a)
      BY <2>5, <2>9, <2>10, NumbersJoin
    <2>12. Earlier(Values((intake_done \o c) \o a), Values(s))
      BY <2>8, <2>9, <2>11 DEF Earlier
    <2> DEFINE line == ((intake_done \o c) \o a) \o s
    <2>13. /\ Intake!Increasing(line)
           /\ Values(line) = Values((intake_done \o c) \o a) \cup Values(s)
      BY <2>6, <2>11, <2>12, NumbersJoin
    <2>14. Values(line) = IntakeLine
      BY <2>3, <2>5, <2>6, <2>7, <2>9, <2>11, <2>13 DEF IntakeLine
    <2>15. {d.n : d \in intake_dropped} = (1..intake_sent) \ Values(line)
      BY <2>1, <2>14 DEF IntakeAccounted
    <2>16. \A d \in intake_dropped : d.kind \in Intake!Streams
      BY <2>1 DEF IntakeAccounted
    <2>17. /\ \A i, j \in DOMAIN line : i < j => line[i] < line[j]
           /\ {d.n : d \in intake_dropped} = (1..intake_sent) \ {line[i] : i \in DOMAIN line}
      BY <2>13, <2>15 DEF Intake!Increasing, Values
    <2>18. QED
      BY <2>16, <2>17 DEF Intake!HandledInOrder, c, a, s
  <1>2. QED
    BY IntakeInitially, IntakeStep, <1>1, PTL DEF Intake!Spec

-----------------------------------------------------------------------------
(* PreviewRun. *)

RunSpans == [start : Nat, rows : Nat, error : BOOLEAN]
RunLines == 1..Len(run_prog)

(* The rows of record r that name line i, and what records w and r agree on but for line c. *)
RowsOf(r, i) == {k \in 1..Len(r) : r[k] = i}
SameBut(w, r, c) == \A i : i # c => RowsOf(w, i) = RowsOf(r, i)

RunTyped ==
  /\ run_prog \in Seq(RunKinds) /\ run_rows \in Seq(Nat)
  /\ run_next \in Nat /\ 1 <= run_next /\ run_next <= Len(run_prog) + 1
  /\ run_spans \in [RunLines -> RunSpans]

(* What executes started in its turn, is no datagram of its own, and the moves folded into it
   are those up to the next to start. *)
RunExecutes ==
  /\ run_exec.cmd = 0 => run_exec = Run!None /\ run_ran = 1..(run_next - 1)
  /\ run_exec.cmd # 0 =>
       /\ run_exec.cmd \in RunLines /\ run_exec.cmd < run_next
       /\ run_exec.blended = (run_exec.cmd + 1)..(run_next - 1)
       /\ run_ran = 1..(run_exec.cmd - 1) /\ run_prog[run_exec.cmd] \notin Run!Faf
       /\ run_exec.start \in Nat /\ run_exec.start <= Len(run_rows)
       /\ RowsOf(run_rows, run_exec.cmd) = (run_exec.start + 1)..Len(run_rows)

(* An answered line owns the rows its span says; one still to answer owns none, but for the
   one that executes, and is on record as nothing yet. *)
RunRecorded ==
  \A i \in RunLines :
    /\ i \in run_ran =>
         /\ RowsOf(run_rows, i) =
              (run_spans[i].start + 1)..(run_spans[i].start + run_spans[i].rows)
         /\ run_spans[i].error => run_prog[i] \in Run!Faf
    /\ i \notin run_ran =>
         /\ run_spans[i].rows = 0 /\ ~run_spans[i].error
         /\ i # run_exec.cmd => RowsOf(run_rows, i) = {}

RunWorking == RunTyped /\ RunExecutes /\ RunRecorded /\ run_stop = "completed"

(* Line b failed, it alone, and nothing behind it ran. *)
RunFailedAt(b) ==
  /\ run_ran \subseteq RunLines
  /\ \A i \in RunLines :
       /\ run_spans[i].error /\ run_prog[i] \notin Run!Faf <=> i = b
       /\ i > b => RowsOf(run_rows, i) = {} /\ run_spans[i].rows = 0
       /\ i \in run_ran =>
            RowsOf(run_rows, i) =
              (run_spans[i].start + 1)..(run_spans[i].start + run_spans[i].rows)

RunDone ==
  \/ RunWorking /\ run_exec.cmd = 0 /\ run_next = Len(run_prog) + 1
  \/ /\ RunTyped /\ RunExecutes /\ RunRecorded /\ run_stop = "budget"
     /\ run_exec.cmd # 0 \/ run_next <= Len(run_prog)
  \/ /\ run_stop = "failed" /\ run_prog \in Seq(RunKinds) /\ run_rows \in Seq(Nat)
     /\ \E b \in RunLines : RunFailedAt(b)

RunInv ==
  /\ run_pc \in {"boot", "unbooted", "pump", "tick", "collect"} => RunWorking
  /\ run_pc = "done" => RunDone
  /\ run_pc \in {"boot", "unbooted", "pump", "tick", "collect", "done"}

\* The rows a record holds of a line, as the property counts them.
LEMMA RunOwnRows ==
  ASSUME run_rows \in Seq(Nat)
  PROVE  \A i : Run!OwnRows(i) = RowsOf(run_rows, i)
  BY DEF Run!OwnRows, RowsOf

\* A row is taken.
LEMMA RunRowTaken ==
  \A r \in Seq(Nat), c \in Nat : \A w : w = Append(r, c) =>
    /\ w \in Seq(Nat) /\ Len(w) = Len(r) + 1
    /\ RowsOf(w, c) = RowsOf(r, c) \cup {Len(r) + 1}
    /\ SameBut(w, r, c)
  <1> SUFFICES ASSUME NEW r \in Seq(Nat), NEW c \in Nat, NEW w, w = Append(r, c)
               PROVE  /\ w \in Seq(Nat) /\ Len(w) = Len(r) + 1
                      /\ RowsOf(w, c) = RowsOf(r, c) \cup {Len(r) + 1}
                      /\ SameBut(w, r, c)
    OBVIOUS
  <1>1. /\ w \in Seq(Nat) /\ Len(w) = Len(r) + 1 /\ w[Len(r) + 1] = c
        /\ \A k \in 1..Len(r) : w[k] = r[k]
    OBVIOUS
  <1>2. Len(r) \in Nat
    OBVIOUS
  <1>3. 1..Len(w) = (1..Len(r)) \cup {Len(r) + 1}
    BY <1>1, <1>2
  <1>4. QED
    BY <1>1, <1>3 DEF RowsOf, SameBut

\* A record that is completed as it stands.
LEMMA RunCompletes ==
  ASSUME RunTyped, RunExecutes, RunRecorded, run_stop = "completed",
         run_exec.cmd = 0, run_next = Len(run_prog) + 1
  PROVE  Run!RecordTellsTheRun
  <1>0. Len(run_prog) \in Nat /\ DOMAIN run_prog = RunLines
    BY DEF RunTyped, RunLines
  <1>1. run_ran = RunLines
    BY <1>0 DEF RunExecutes, RunLines
  <1>2. {i \in DOMAIN run_prog : run_spans[i].error /\ run_prog[i] \notin Run!Faf} = {}
    BY <1>0, <1>1 DEF RunRecorded
  <1>3. \A i \in run_ran :
          (run_spans[i].start + 1)..(run_spans[i].start + run_spans[i].rows) = Run!OwnRows(i)
    BY <1>1, RunOwnRows DEF RunRecorded, RunTyped
  <1>4. QED
    BY <1>0, <1>1, <1>2, <1>3 DEF Run!RecordTellsTheRun

\* A record that ran out of its budget as it stands.
LEMMA RunExhausts ==
  ASSUME RunTyped, RunExecutes, RunRecorded, run_stop = "budget",
         run_exec.cmd # 0 \/ run_next <= Len(run_prog)
  PROVE  Run!RecordTellsTheRun
  <1>0. /\ Len(run_prog) \in Nat /\ DOMAIN run_prog = RunLines /\ run_next \in Nat
        /\ 1 <= run_next
    BY DEF RunTyped, RunLines
  <1>1. run_ran \subseteq RunLines /\ run_ran # RunLines
    <2>1. CASE run_exec.cmd = 0
      <3>1. run_next \in RunLines /\ run_next \notin run_ran
        BY <1>0, <2>1 DEF RunExecutes, RunLines
      <3>2. run_ran \subseteq RunLines
        BY <1>0, <2>1 DEF RunExecutes, RunLines
      <3>3. QED
        BY <3>1, <3>2
    <2>2. CASE run_exec.cmd # 0
      <3>1. run_exec.cmd \in RunLines /\ run_ran = 1..(run_exec.cmd - 1)
        BY <2>2 DEF RunExecutes
      <3>2. run_exec.cmd \notin run_ran /\ run_ran \subseteq RunLines
        BY <1>0, <3>1 DEF RunLines
      <3>3. QED
        BY <3>1, <3>2
    <2>3. QED
      BY <2>1, <2>2
  <1>2. {i \in DOMAIN run_prog : run_spans[i].error /\ run_prog[i] \notin Run!Faf} = {}
    BY <1>0 DEF RunRecorded
  <1>3. \A i \in run_ran :
          (run_spans[i].start + 1)..(run_spans[i].start + run_spans[i].rows) = Run!OwnRows(i)
    BY <1>1, RunOwnRows DEF RunRecorded, RunTyped
  <1>4. QED
    BY <1>0, <1>1, <1>2, <1>3 DEF Run!RecordTellsTheRun

\* A record that tells of a failure.
LEMMA RunFailsAt ==
  ASSUME run_prog \in Seq(RunKinds), run_rows \in Seq(Nat), run_stop = "failed",
         NEW b \in RunLines, RunFailedAt(b)
  PROVE  Run!RecordTellsTheRun
  <1>0. DOMAIN run_prog = RunLines
    BY DEF RunLines
  <1>1. {i \in DOMAIN run_prog : run_spans[i].error /\ run_prog[i] \notin Run!Faf} = {b}
    BY <1>0 DEF RunFailedAt
  <1>2. \A i \in RunLines : i > b => Run!OwnRows(i) = {} /\ run_spans[i].rows = 0
    BY RunOwnRows DEF RunFailedAt
  <1>3. \A i \in run_ran :
          (run_spans[i].start + 1)..(run_spans[i].start + run_spans[i].rows) = Run!OwnRows(i)
    BY RunOwnRows DEF RunFailedAt
  <1>4. QED
    BY <1>0, <1>1, <1>2, <1>3 DEF Run!RecordTellsTheRun

\* A line is answered at its turn, without executing.
LEMMA RunAnswers ==
  ASSUME RunWorking, Run!Pumping, NEW err \in BOOLEAN, run_spans' = Run!Answer(err),
         run_prog' = run_prog, run_rows' = run_rows, run_exec' = run_exec,
         run_ran' = run_ran \cup {run_next}, run_stop' = run_stop,
         run_next' = run_next + 1, err => run_prog[run_next] \in Run!Faf
  PROVE  RunWorking'
  <1>0. /\ run_prog \in Seq(RunKinds) /\ run_rows \in Seq(Nat) /\ run_next \in Nat
        /\ 1 <= run_next /\ run_next <= Len(run_prog) /\ run_spans \in [RunLines -> RunSpans]
        /\ run_exec.cmd = 0 /\ run_exec = Run!None /\ run_ran = 1..(run_next - 1)
        /\ Len(run_prog) \in Nat /\ Len(run_rows) \in Nat
    BY DEF RunWorking, RunTyped, RunExecutes, Run!Pumping
  <1> DEFINE s == [start |-> Len(run_rows), rows |-> 0, error |-> err]
  <1>1. s \in RunSpans /\ s.start = Len(run_rows) /\ s.rows = 0 /\ s.error = err
    BY <1>0 DEF RunSpans
  <1>2. run_spans' = [run_spans EXCEPT ![run_next] = s]
    BY DEF Run!Answer
  <1> HIDE DEF s
  <1>3. RunLines' = RunLines /\ run_next \in RunLines
    BY <1>0 DEF RunLines
  <1>4. /\ run_spans' \in [RunLines -> RunSpans] /\ run_spans'[run_next] = s
        /\ \A i \in RunLines : i # run_next => run_spans'[i] = run_spans[i]
    BY <1>0, <1>1, <1>2, <1>3
  <1>5. RunTyped'
    BY <1>0, <1>3, <1>4 DEF RunTyped
  <1>6. RunExecutes'
    <2>1. run_ran' = 1..(run_next' - 1)
      BY <1>0
    <2>2. QED
      BY <1>0, <2>1 DEF RunExecutes
  <1>7. RunRecorded'
    <2>1. SUFFICES ASSUME NEW i \in RunLines
                   PROVE  /\ i \in run_ran' =>
                               /\ RowsOf(run_rows, i) =
                                    (run_spans'[i].start + 1)..(run_spans'[i].start + run_spans'[i].rows)
                               /\ run_spans'[i].error => run_prog[i] \in Run!Faf
                          /\ i \notin run_ran' =>
                               /\ run_spans'[i].rows = 0 /\ ~run_spans'[i].error
                               /\ i # run_exec.cmd => RowsOf(run_rows, i) = {}
      BY <1>3 DEF RunRecorded, RowsOf
    <2>2. CASE i = run_next
      <3>1. run_next \notin run_ran /\ run_next # run_exec.cmd
        BY <1>0
      <3>2. RowsOf(run_rows, i) = {}
        BY <1>3, <2>2, <3>1 DEF RunWorking, RunRecorded
      <3>3. (Len(run_rows) + 1)..(Len(run_rows) + 0) = {}
        BY <1>0
      <3>4. QED
        BY <1>1, <1>4, <2>2, <3>2, <3>3
    <2>3. CASE i # run_next
      BY <1>4, <2>1, <2>3 DEF RunWorking, RunRecorded
    <2>4. QED
      BY <2>2, <2>3
  <1>8. QED
    BY <1>5, <1>6, <1>7 DEF RunWorking

\* A refusal that ends the run.
LEMMA RunEndsRefused ==
  ASSUME RunWorking, Run!Pumping, run_spans' = Run!Answer(TRUE),
         run_prog' = run_prog, run_rows' = run_rows, run_stop' = "failed",
         run_ran' = run_ran \cup {run_next}, run_prog[run_next] \notin Run!Faf
  PROVE  RunDone'
  <1>0. /\ run_prog \in Seq(RunKinds) /\ run_rows \in Seq(Nat) /\ run_next \in Nat
        /\ 1 <= run_next /\ run_next <= Len(run_prog) /\ run_spans \in [RunLines -> RunSpans]
        /\ run_exec.cmd = 0 /\ run_ran = 1..(run_next - 1)
        /\ Len(run_prog) \in Nat /\ Len(run_rows) \in Nat
    BY DEF RunWorking, RunTyped, RunExecutes, Run!Pumping
  <1> DEFINE s == [start |-> Len(run_rows), rows |-> 0, error |-> TRUE]
  <1>1. s \in RunSpans /\ s.start = Len(run_rows) /\ s.rows = 0 /\ s.error
    BY <1>0 DEF RunSpans
  <1>2. run_spans' = [run_spans EXCEPT ![run_next] = s]
    BY DEF Run!Answer
  <1> HIDE DEF s
  <1>3. RunLines' = RunLines /\ run_next \in RunLines
    BY <1>0 DEF RunLines
  <1>4. /\ run_spans'[run_next] = s
        /\ \A i \in RunLines : i # run_next => run_spans'[i] = run_spans[i]
    BY <1>0, <1>1, <1>2, <1>3
  <1>5. run_ran' \subseteq RunLines
    BY <1>0 DEF RunLines
  <1>6. ASSUME NEW i \in RunLines
        PROVE  /\ run_spans'[i].error /\ run_prog[i] \notin Run!Faf <=> i = run_next
               /\ i > run_next => RowsOf(run_rows, i) = {} /\ run_spans'[i].rows = 0
               /\ i \in run_ran' =>
                    RowsOf(run_rows, i) =
                      (run_spans'[i].start + 1)..(run_spans'[i].start + run_spans'[i].rows)
    <2>1. CASE i = run_next
      <3>1. run_next \notin run_ran /\ run_next # run_exec.cmd
        BY <1>0
      <3>2. RowsOf(run_rows, i) = {}
        BY <1>3, <2>1, <3>1 DEF RunWorking, RunRecorded
      <3>3. (Len(run_rows) + 1)..(Len(run_rows) + 0) = {}
        BY <1>0
      <3>4. ~(i > run_next)
        BY <1>0, <2>1
      <3>5. QED
        BY <1>1, <1>4, <2>1, <3>2, <3>3, <3>4
    <2>2. CASE i # run_next
      <3>1. i > run_next => i \notin run_ran /\ i # run_exec.cmd
        BY <1>0 DEF RunLines
      <3>2. run_spans'[i] = run_spans[i]
        BY <1>4, <2>2
      <3>3. QED
        BY <2>2, <3>1, <3>2 DEF RunWorking, RunRecorded
    <2>3. QED
      BY <2>1, <2>2
  <1>7. PICK b \in RunLines : b = run_next
    BY <1>3
  <1>8. RunFailedAt(b)'
    <2>1. run_ran' \subseteq RunLines'
      BY <1>3, <1>5
    <2>2. ASSUME NEW i \in RunLines'
          PROVE  /\ run_spans'[i].error /\ run_prog'[i] \notin Run!Faf <=> i = b
                 /\ i > b => RowsOf(run_rows', i) = {} /\ run_spans'[i].rows = 0
                 /\ i \in run_ran' =>
                      RowsOf(run_rows', i) =
                        (run_spans'[i].start + 1)..(run_spans'[i].start + run_spans'[i].rows)
      <3>1. i \in RunLines
        BY <1>3, <2>2
      <3>2. run_rows' = run_rows /\ run_prog' = run_prog
        OBVIOUS
      <3>3. QED
        BY <1>6, <1>7, <3>1, <3>2, Zenon
    <2>3. QED
      BY <2>1, <2>2 DEF RunFailedAt
  <1>9. QED
    BY <1>0, <1>3, <1>8 DEF RunDone

\* A line starts to execute, with n lines of the program in it.
LEMMA RunStarts ==
  ASSUME RunWorking, Run!Pumping, NEW n \in Nat \ {0}, run_next + n <= Len(run_prog) + 1,
         run_exec' = [cmd |-> run_next, start |-> Len(run_rows),
                      blended |-> (run_next + 1)..(run_next + n - 1)],
         run_next' = run_next + n, run_prog[run_next] \notin Run!Faf,
         run_prog' = run_prog, run_rows' = run_rows, run_spans' = run_spans,
         run_ran' = run_ran, run_stop' = run_stop
  PROVE  RunWorking'
  <1>0. /\ run_prog \in Seq(RunKinds) /\ run_rows \in Seq(Nat) /\ run_next \in Nat
        /\ 1 <= run_next /\ run_next <= Len(run_prog) /\ run_spans \in [RunLines -> RunSpans]
        /\ run_exec.cmd = 0 /\ run_ran = 1..(run_next - 1)
        /\ Len(run_prog) \in Nat /\ Len(run_rows) \in Nat
    BY DEF RunWorking, RunTyped, RunExecutes, Run!Pumping
  <1>1. RunLines' = RunLines /\ run_next \in RunLines /\ run_next \notin run_ran
    BY <1>0 DEF RunLines
  <1>2. RunTyped'
    BY <1>0, <1>1 DEF RunTyped
  <1>3. /\ run_exec'.cmd = run_next /\ run_exec'.start = Len(run_rows)
        /\ run_exec'.blended = (run_next + 1)..(run_next + n - 1)
    OBVIOUS
  <1>4. RowsOf(run_rows, run_next) = {}
    BY <1>0, <1>1 DEF RunWorking, RunRecorded
  <1>5. RunExecutes'
    <2>1. (Len(run_rows) + 1)..Len(run_rows) = {}
      BY <1>0
    <2>2. run_exec'.cmd # 0 /\ run_exec'.cmd < run_next' /\ run_ran' = 1..(run_exec'.cmd - 1)
      BY <1>0, <1>3
    <2>3. RowsOf(run_rows', run_exec'.cmd) = (run_exec'.start + 1)..Len(run_rows')
      BY <1>3, <1>4, <2>1
    <2>4. /\ run_exec'.start \in Nat /\ run_exec'.start <= Len(run_rows')
          /\ run_exec'.cmd \in RunLines' /\ run_prog'[run_exec'.cmd] \notin Run!Faf
          /\ run_exec'.blended = (run_exec'.cmd + 1)..(run_next' - 1)
      BY <1>0, <1>1, <1>3
    <2>5. QED
      BY <2>2, <2>3, <2>4 DEF RunExecutes, RowsOf
  <1>6. RunRecorded'
    <2>1. \A i \in RunLines : i # run_exec.cmd
      BY <1>0 DEF RunLines
    <2>2. QED
      BY <1>1, <2>1 DEF RunWorking, RunRecorded, RowsOf
  <1>7. QED
    BY <1>2, <1>5, <1>6 DEF RunWorking

\* What changes nothing the record is made of.
LEMMA RunIdles ==
  ASSUME RunTyped, RunExecutes, RunRecorded,
         run_exec' = run_exec, run_next' = run_next, run_prog' = run_prog,
         run_rows' = run_rows, run_spans' = run_spans, run_ran' = run_ran
  PROVE  RunTyped' /\ RunExecutes' /\ RunRecorded'
  BY DEF RunTyped, RunExecutes, RunRecorded, RunLines, RowsOf

\* A row is taken, for the line that executes if there is one.
LEMMA RunTakesRow ==
  ASSUME RunWorking, run_rows' = Append(run_rows, run_exec.cmd),
         run_exec' = run_exec, run_next' = run_next, run_prog' = run_prog,
         run_spans' = run_spans, run_ran' = run_ran, run_stop' = run_stop
  PROVE  RunWorking'
  <1>p. PICK c, r, w : c = run_exec.cmd /\ r = run_rows /\ w = run_rows'
    OBVIOUS
  <1>0. /\ run_prog \in Seq(RunKinds) /\ r \in Seq(Nat) /\ run_next \in Nat
        /\ Len(run_prog) \in Nat /\ Len(r) \in Nat /\ RunTyped /\ RunExecutes /\ RunRecorded
    BY <1>p DEF RunWorking, RunTyped
  <1>1. c \in Nat /\ c \notin run_ran
    <2>1. CASE c = 0
      BY <1>p, <1>0, <2>1 DEF RunExecutes
    <2>2. CASE c # 0
      <3>1. c \in 1..Len(run_prog) /\ run_ran = 1..(c - 1)
        BY <1>p, <1>0, <2>2 DEF RunExecutes, RunLines
      <3>2. QED
        BY <1>0, <3>1
    <2>3. QED
      BY <2>1, <2>2
  <1>2. w = Append(r, c)
    BY <1>p
  <1>3. /\ w \in Seq(Nat) /\ Len(w) = Len(r) + 1
        /\ RowsOf(w, c) = RowsOf(r, c) \cup {Len(r) + 1}
        /\ SameBut(w, r, c)
    <2>1. r \in Seq(Nat) /\ c \in Nat /\ w = Append(r, c)
      BY <1>0, <1>1, <1>2
    <2>2. QED
      BY <2>1, RunRowTaken, Zenon
  <1>4. RunTyped' /\ RunLines' = RunLines
    BY <1>p, <1>0, <1>3 DEF RunTyped, RunLines
  <1>5. RunExecutes'
    <2>1. CASE c = 0
      BY <1>p, <1>0, <2>1 DEF RunExecutes
    <2>2. CASE c # 0
      <3>1. /\ run_exec.start \in Nat /\ run_exec.start <= Len(r)
            /\ RowsOf(r, c) = (run_exec.start + 1)..Len(r)
        BY <1>p, <1>0, <2>2 DEF RunExecutes
      <3>2. RowsOf(w, c) = (run_exec.start + 1)..Len(w) /\ run_exec.start <= Len(w)
        BY <1>0, <1>3, <3>1
      <3>3. /\ c \in RunLines /\ c < run_next /\ run_exec.blended = (c + 1)..(run_next - 1)
            /\ run_ran = 1..(c - 1) /\ run_prog[c] \notin Run!Faf
        BY <1>p, <1>0, <2>2 DEF RunExecutes
      <3>4. QED
        BY <1>p, <1>4, <2>2, <3>1, <3>2, <3>3 DEF RunExecutes, RowsOf
    <2>3. QED
      BY <2>1, <2>2
  <1>6. RunRecorded'
    <2>1. SUFFICES ASSUME NEW i \in RunLines
                   PROVE  /\ i \in run_ran =>
                               /\ RowsOf(w, i) =
                                    (run_spans[i].start + 1)..(run_spans[i].start + run_spans[i].rows)
                               /\ run_spans[i].error => run_prog[i] \in Run!Faf
                          /\ i \notin run_ran =>
                               /\ run_spans[i].rows = 0 /\ ~run_spans[i].error
                               /\ i # c => RowsOf(w, i) = {}
      BY <1>p, <1>4 DEF RunRecorded, RowsOf
    <2>2. CASE i = c
      BY <1>p, <1>0, <1>1, <2>1, <2>2 DEF RunRecorded
    <2>3. CASE i # c
      <3>1. RowsOf(w, i) = RowsOf(r, i)
        BY <1>3, <2>3, Zenon DEF SameBut
      <3>2. QED
        BY <1>p, <1>0, <2>1, <2>3, <3>1 DEF RunRecorded
    <2>4. QED
      BY <2>2, <2>3
  <1>7. QED
    BY <1>4, <1>5, <1>6 DEF RunWorking

\* The command in flight is answered, with the moves folded into it.
LEMMA RunOwns ==
  ASSUME RunWorking, run_exec.cmd # 0, NEW err \in BOOLEAN, run_spans' = Run!Owns(err),
         run_ran' = run_ran \cup {run_exec.cmd} \cup run_exec.blended
  PROVE  /\ run_spans' \in [RunLines -> RunSpans] /\ run_ran' = 1..(run_next - 1)
         /\ run_spans'[run_exec.cmd].error = err
         /\ \A i \in RunLines :
              /\ i \in run_ran' =>
                   RowsOf(run_rows, i) =
                     (run_spans'[i].start + 1)..(run_spans'[i].start + run_spans'[i].rows)
              /\ i \notin run_ran' =>
                   run_spans'[i].rows = 0 /\ ~run_spans'[i].error /\ RowsOf(run_rows, i) = {}
              /\ i # run_exec.cmd /\ run_spans'[i].error => run_prog[i] \in Run!Faf
              /\ i > run_exec.cmd => run_spans'[i].rows = 0 /\ RowsOf(run_rows, i) = {}
  <1>p. PICK c, n, st, l : /\ c = run_exec.cmd /\ n = run_next /\ st = run_exec.start
                           /\ l = Len(run_rows)
    OBVIOUS
  <1>0. /\ n \in Nat /\ l \in Nat /\ st \in Nat /\ st <= l /\ c \in RunLines /\ c < n
        /\ c \in Nat /\ run_exec.blended = (c + 1)..(n - 1) /\ run_ran = 1..(c - 1)
        /\ n <= Len(run_prog) + 1 /\ Len(run_prog) \in Nat
        /\ RowsOf(run_rows, c) = (st + 1)..l /\ run_spans \in [RunLines -> RunSpans]
        /\ run_prog[c] \notin Run!Faf
    <2>1. /\ run_next \in Nat /\ Len(run_rows) \in Nat /\ run_next <= Len(run_prog) + 1
          /\ Len(run_prog) \in Nat /\ run_spans \in [RunLines -> RunSpans]
      BY DEF RunWorking, RunTyped
    <2>2. /\ run_exec.cmd \in RunLines /\ run_exec.cmd < run_next
          /\ run_exec.blended = (run_exec.cmd + 1)..(run_next - 1)
          /\ run_ran = 1..(run_exec.cmd - 1) /\ run_prog[run_exec.cmd] \notin Run!Faf
          /\ run_exec.start \in Nat /\ run_exec.start <= Len(run_rows)
          /\ RowsOf(run_rows, run_exec.cmd) = (run_exec.start + 1)..Len(run_rows)
      BY DEF RunWorking, RunExecutes
    <2>3. run_exec.cmd \in Nat
      BY <2>1, <2>2 DEF RunLines
    <2>4. QED
      BY <1>p, <2>1, <2>2, <2>3
  <1> DEFINE own == [start |-> st, rows |-> l - st, error |-> err]
             fold == [start |-> l, rows |-> 0, error |-> FALSE]
  <1>1. own \in RunSpans /\ own.start = st /\ own.rows = l - st /\ own.error = err
    BY <1>0 DEF RunSpans
  <1>2. fold \in RunSpans /\ fold.start = l /\ fold.rows = 0 /\ ~fold.error
    BY <1>0 DEF RunSpans
  <1>3. run_spans' = [i \in RunLines |-> IF i = c THEN own
                                         ELSE IF i \in (c + 1)..(n - 1) THEN fold
                                         ELSE run_spans[i]]
    <2>1. DOMAIN run_spans = RunLines
      BY <1>0
    <2>2. QED
      BY <1>p, <1>0, <2>1 DEF Run!Owns
  <1> HIDE DEF own, fold
  <1>4. /\ run_spans'[c] = own
        /\ \A i \in RunLines : i \in (c + 1)..(n - 1) => run_spans'[i] = fold
        /\ \A i \in RunLines : i # c /\ i \notin (c + 1)..(n - 1) => run_spans'[i] = run_spans[i]
    <2>1. run_spans'[c] = own
      BY <1>0, <1>3
    <2>2. ASSUME NEW i \in RunLines, i \in (c + 1)..(n - 1)
          PROVE  run_spans'[i] = fold
      <3>1. i # c
        BY <1>0, <2>2
      <3>2. QED
        BY <1>3, <2>2, <3>1
    <2>3. ASSUME NEW i \in RunLines, i # c /\ i \notin (c + 1)..(n - 1)
          PROVE  run_spans'[i] = run_spans[i]
      BY <1>3, <2>3
    <2>4. QED
      BY <2>1, <2>2, <2>3
  <1>5. run_spans' \in [RunLines -> RunSpans]
    BY <1>0, <1>1, <1>2, <1>3
  <1>6. run_ran' = 1..(n - 1)
    <2>1. run_ran' = (1..(c - 1)) \cup {c} \cup ((c + 1)..(n - 1)) /\ 1 <= c
      BY <1>p, <1>0 DEF RunLines
    <2>2. QED
      BY <1>0, <2>1
  <1>7. ASSUME NEW i \in RunLines
        PROVE  /\ i \in run_ran' =>
                    RowsOf(run_rows, i) =
                      (run_spans'[i].start + 1)..(run_spans'[i].start + run_spans'[i].rows)
               /\ i \notin run_ran' =>
                    run_spans'[i].rows = 0 /\ ~run_spans'[i].error /\ RowsOf(run_rows, i) = {}
               /\ i # c /\ run_spans'[i].error => run_prog[i] \in Run!Faf
               /\ i > c => run_spans'[i].rows = 0 /\ RowsOf(run_rows, i) = {}
    <2>0. i \in Nat /\ 1 <= i
      BY <1>0 DEF RunLines
    <2>1. CASE i = c
      <3>1. i \in run_ran' /\ ~(i > c)
        BY <1>0, <1>6, <2>0, <2>1
      <3>2. st + (l - st) = l
        BY <1>0
      <3>3. QED
        BY <1>0, <1>1, <1>4, <2>1, <3>1, <3>2
    <2>2. CASE i \in (c + 1)..(n - 1)
      <3>1. i \notin run_ran /\ i # c /\ i \in run_ran'
        BY <1>0, <1>6, <2>0, <2>2
      <3>2. RowsOf(run_rows, i) = {}
        BY <1>p, <3>1 DEF RunWorking, RunRecorded
      <3>3. (l + 1)..(l + 0) = {}
        BY <1>0
      <3>4. QED
        BY <1>2, <1>4, <2>2, <3>1, <3>2, <3>3
    <2>3. CASE i # c /\ i \notin (c + 1)..(n - 1)
      <3>1. (i \in run_ran' <=> i \in run_ran) /\ (i > c => i \notin run_ran)
        BY <1>0, <1>6, <2>0, <2>3
      <3>2. run_spans'[i] = run_spans[i]
        BY <1>4, <2>3
      <3>3. QED
        BY <1>p, <2>3, <3>1, <3>2 DEF RunWorking, RunRecorded
    <2>4. QED
      BY <2>1, <2>2, <2>3
  <1>8. QED
    BY <1>p, <1>1, <1>4, <1>5, <1>6, <1>7

\* The command in flight succeeds.
LEMMA RunSucceeds ==
  ASSUME RunWorking, run_exec.cmd # 0, run_spans' = Run!Owns(FALSE), run_exec' = Run!None,
         run_ran' = run_ran \cup {run_exec.cmd} \cup run_exec.blended,
         run_next' = run_next, run_prog' = run_prog, run_rows' = run_rows
  PROVE  RunTyped' /\ RunExecutes' /\ RunRecorded'
  <1>1. /\ run_spans' \in [RunLines -> RunSpans] /\ run_ran' = 1..(run_next - 1)
        /\ run_spans'[run_exec.cmd].error = FALSE
        /\ \A i \in RunLines :
             /\ i \in run_ran' =>
                  RowsOf(run_rows, i) =
                    (run_spans'[i].start + 1)..(run_spans'[i].start + run_spans'[i].rows)
             /\ i \notin run_ran' =>
                  run_spans'[i].rows = 0 /\ ~run_spans'[i].error /\ RowsOf(run_rows, i) = {}
             /\ i # run_exec.cmd /\ run_spans'[i].error => run_prog[i] \in Run!Faf
    BY RunOwns, FALSE \in BOOLEAN
  <1>2. RunLines' = RunLines
    BY DEF RunLines
  <1>3. RunTyped'
    BY <1>1, <1>2 DEF RunWorking, RunTyped
  <1>4. RunExecutes'
    BY <1>1 DEF RunExecutes, Run!None
  <1>5. RunRecorded'
    <2>1. SUFFICES ASSUME NEW i \in RunLines
                   PROVE  /\ i \in run_ran' =>
                               /\ RowsOf(run_rows, i) =
                                    (run_spans'[i].start + 1)..(run_spans'[i].start + run_spans'[i].rows)
                               /\ run_spans'[i].error => run_prog[i] \in Run!Faf
                          /\ i \notin run_ran' =>
                               /\ run_spans'[i].rows = 0 /\ ~run_spans'[i].error
                               /\ RowsOf(run_rows, i) = {}
      BY <1>2 DEF RunRecorded, RowsOf
    <2>2. QED
      BY <1>1, <2>1
  <1>6. QED
    BY <1>3, <1>4, <1>5

\* The command in flight fails.
LEMMA RunEndsFailed ==
  ASSUME RunWorking, run_exec.cmd # 0, run_spans' = Run!Owns(TRUE),
         run_ran' = run_ran \cup {run_exec.cmd} \cup run_exec.blended,
         run_prog' = run_prog, run_rows' = run_rows, run_stop' = "failed"
  PROVE  RunDone'
  <1>1. /\ run_spans' \in [RunLines -> RunSpans] /\ run_ran' = 1..(run_next - 1)
        /\ run_spans'[run_exec.cmd].error = TRUE
        /\ \A i \in RunLines :
             /\ i \in run_ran' =>
                  RowsOf(run_rows, i) =
                    (run_spans'[i].start + 1)..(run_spans'[i].start + run_spans'[i].rows)
             /\ i # run_exec.cmd /\ run_spans'[i].error => run_prog[i] \in Run!Faf
             /\ i > run_exec.cmd => run_spans'[i].rows = 0 /\ RowsOf(run_rows, i) = {}
    BY RunOwns, TRUE \in BOOLEAN
  <1>2. RunLines' = RunLines
    BY DEF RunLines
  <1>3. /\ run_exec.cmd \in RunLines /\ run_prog[run_exec.cmd] \notin Run!Faf
        /\ run_next \in Nat /\ run_next <= Len(run_prog) + 1 /\ Len(run_prog) \in Nat
        /\ run_prog \in Seq(RunKinds) /\ run_rows \in Seq(Nat)
    BY DEF RunWorking, RunTyped, RunExecutes
  <1>4. PICK b \in RunLines : b = run_exec.cmd
    BY <1>3
  <1>5. RunFailedAt(b)'
    <2>1. run_ran' \subseteq RunLines'
      BY <1>1, <1>2, <1>3 DEF RunLines
    <2>2. ASSUME NEW i \in RunLines'
          PROVE  /\ run_spans'[i].error /\ run_prog'[i] \notin Run!Faf <=> i = b
                 /\ i > b => RowsOf(run_rows', i) = {} /\ run_spans'[i].rows = 0
                 /\ i \in run_ran' =>
                      RowsOf(run_rows', i) =
                        (run_spans'[i].start + 1)..(run_spans'[i].start + run_spans'[i].rows)
      <3>1. i \in RunLines
        BY <1>2, <2>2
      <3>2. run_rows' = run_rows /\ run_prog' = run_prog
        OBVIOUS
      <3>3. i = b => run_spans'[i].error /\ run_prog'[i] \notin Run!Faf
        BY <1>1, <1>3, <1>4, <3>2
      <3>4. i # b /\ run_spans'[i].error => run_prog'[i] \in Run!Faf
        BY <1>1, <1>4, <3>1, <3>2
      <3>5. i > b => RowsOf(run_rows', i) = {} /\ run_spans'[i].rows = 0
        BY <1>1, <1>4, <3>1, <3>2
      <3>6. i \in run_ran' =>
              RowsOf(run_rows', i) =
                (run_spans'[i].start + 1)..(run_spans'[i].start + run_spans'[i].rows)
        BY <1>1, <3>1, <3>2
      <3>7. QED
        BY <3>3, <3>4, <3>5, <3>6, Zenon
    <2>3. QED
      BY <2>1, <2>2 DEF RunFailedAt
  <1>6. QED
    BY <1>2, <1>3, <1>5 DEF RunDone

\* Every step keeps the record's invariant.
LEMMA RunStep ==
  ASSUME RunInv, Run!Next
  PROVE  RunInv'
  <1>1. CASE Run!Boot
    <2>1. RunWorking /\ run_stop' = run_stop
      BY <1>1 DEF RunInv, Run!Boot
    <2>2. RunWorking'
      BY <1>1, <2>1, RunIdles DEF Run!Boot, RunWorking
    <2>3. QED
      BY <1>1, <2>2 DEF RunInv, Run!Boot
  <1>2. CASE Run!Refuse
    <2>1. RunWorking /\ Run!Pumping /\ run_pc = "pump"
      BY <1>2 DEF RunInv, Run!Refuse, Run!Pumping
    <2>2. CASE Run!It \in Run!Faf
      <3>1. /\ run_spans' = Run!Answer(TRUE) /\ run_prog' = run_prog /\ run_rows' = run_rows
            /\ run_exec' = run_exec /\ run_ran' = run_ran \cup {run_next}
            /\ run_stop' = run_stop /\ run_next' = run_next + 1 /\ run_pc' = run_pc
            /\ run_prog[run_next] \in Run!Faf
        BY <1>2, <2>2 DEF Run!Refuse, Run!RefuseAlone, Run!It
      <3>2. RunWorking'
        BY <2>1, <3>1, RunAnswers, TRUE \in BOOLEAN
      <3>3. QED
        BY <2>1, <3>1, <3>2 DEF RunInv
    <2>3. CASE Run!It \notin Run!Faf
      <3>1. /\ run_spans' = Run!Answer(TRUE) /\ run_prog' = run_prog /\ run_rows' = run_rows
            /\ run_stop' = "failed" /\ run_ran' = run_ran \cup {run_next} /\ run_pc' = "done"
            /\ run_prog[run_next] \notin Run!Faf
        BY <1>2, <2>3 DEF Run!Refuse, Run!EndRun, Run!It
      <3>2. RunDone'
        BY <2>1, <3>1, RunEndsRefused
      <3>3. QED
        BY <3>1, <3>2 DEF RunInv
    <2>4. QED
      BY <2>2, <2>3
  <1>3. ASSUME NEW kind, NEW scale0, Run!Control(kind, scale0)
        PROVE  RunInv'
    <2>1. RunWorking /\ Run!Pumping /\ run_pc = "pump"
      BY <1>3 DEF RunInv, Run!Control, Run!Pumping
    <2>2. /\ run_spans' = Run!Answer(FALSE) /\ run_prog' = run_prog /\ run_rows' = run_rows
          /\ run_exec' = run_exec /\ run_ran' = run_ran \cup {run_next}
          /\ run_stop' = run_stop /\ run_next' = run_next + 1
          /\ run_pc' = IF run_next < Len(run_prog) THEN "tick" ELSE "done"
      BY <1>3 DEF Run!Control
    <2>3. RunWorking'
      BY <2>1, <2>2, RunAnswers, FALSE \in BOOLEAN
    <2>4. /\ run_next \in Nat /\ Len(run_prog) \in Nat /\ run_next <= Len(run_prog)
          /\ run_exec.cmd = 0
      BY <2>1 DEF RunWorking, RunTyped, Run!Pumping
    <2>5. CASE run_next < Len(run_prog)
      BY <2>2, <2>3, <2>5 DEF RunInv
    <2>6. CASE ~(run_next < Len(run_prog))
      <3>1. run_next' = Len(run_prog') + 1 /\ run_exec'.cmd = 0 /\ run_pc' = "done"
        BY <2>2, <2>4, <2>6
      <3>2. QED
        BY <2>3, <3>1 DEF RunInv, RunDone
    <2>7. QED
      BY <2>5, <2>6
  <1>4. CASE Run!Controls
    BY <1>3, <1>4 DEF Run!Controls
  <1>5. CASE Run!ReplayStop
    <2>1. RunWorking /\ Run!Pumping /\ run_pc = "pump" /\ run_pc' = "pump"
      BY <1>5 DEF RunInv, Run!ReplayStop, Run!Pumping
    <2>2. /\ run_spans' = Run!Answer(FALSE) /\ run_prog' = run_prog /\ run_rows' = run_rows
          /\ run_exec' = run_exec /\ run_ran' = run_ran \cup {run_next}
          /\ run_stop' = run_stop /\ run_next' = run_next + 1
      BY <1>5 DEF Run!ReplayStop
    <2>3. RunWorking'
      BY <2>1, <2>2, RunAnswers, FALSE \in BOOLEAN
    <2>4. QED
      BY <2>1, <2>3 DEF RunInv
  <1>6. CASE Run!Held
    <2>1. RunWorking /\ run_stop' = run_stop /\ run_pc' = "tick"
      BY <1>6 DEF RunInv, Run!Held, Run!Pumping
    <2>2. RunWorking'
      BY <1>6, <2>1, RunIdles DEF Run!Held, RunWorking
    <2>3. QED
      BY <2>1, <2>2 DEF RunInv
  <1>7. CASE Run!StartToolStop
    <2>1. RunWorking /\ Run!Pumping /\ run_pc = "pump" /\ run_pc' = "pump"
      BY <1>7 DEF RunInv, Run!StartToolStop, Run!Pumping
    <2>2. /\ run_next \in Nat /\ Len(run_prog) \in Nat /\ run_next <= Len(run_prog)
      BY <2>1 DEF RunWorking, RunTyped, Run!Pumping
    <2>3. PICK n \in Nat \ {0} : n = 1
      OBVIOUS
    <2>4. run_next + n <= Len(run_prog) + 1 /\ (run_next + 1)..(run_next + n - 1) = {}
      BY <2>2, <2>3
    <2>5. run_exec' = [cmd |-> run_next, start |-> Len(run_rows), blended |-> {}]
      BY <1>7 DEF Run!StartToolStop, Run!None
    <2>6. /\ run_exec' = [cmd |-> run_next, start |-> Len(run_rows),
                          blended |-> (run_next + 1)..(run_next + n - 1)]
          /\ run_next' = run_next + n
      BY <1>7, <2>3, <2>4, <2>5 DEF Run!StartToolStop
    <2>7. /\ run_prog' = run_prog /\ run_rows' = run_rows /\ run_spans' = run_spans
          /\ run_ran' = run_ran /\ run_stop' = run_stop /\ run_prog[run_next] \notin Run!Faf
      BY <1>7 DEF Run!StartToolStop, Run!It, Run!Faf
    <2>8. RunWorking'
      BY <2>1, <2>4, <2>6, <2>7, RunStarts
    <2>9. QED
      BY <2>1, <2>8 DEF RunInv
  <1>8. CASE Run!Start
    <2>1. RunWorking /\ Run!Pumping /\ run_pc = "pump" /\ run_pc' = "pump"
      BY <1>8 DEF RunInv, Run!Start, Run!Pumping
    <2>2. /\ run_next \in Nat /\ Len(run_prog) \in Nat /\ run_next <= Len(run_prog)
      BY <2>1 DEF RunWorking, RunTyped, Run!Pumping
    <2>3. PICK n \in Run!Fold :
            /\ run_exec' = [cmd |-> run_next, start |-> Len(run_rows),
                            blended |-> (run_next + 1)..(run_next + n - 1)]
            /\ run_next' = run_next + n
      BY <1>8 DEF Run!Start
    <2>4. n \in 1..(Len(run_prog) - run_next + 1)
      BY DEF Run!Fold
    <2>5. n \in Nat \ {0} /\ run_next + n <= Len(run_prog) + 1
      BY <2>2, <2>4
    <2>6. /\ run_prog' = run_prog /\ run_rows' = run_rows /\ run_spans' = run_spans
          /\ run_ran' = run_ran /\ run_stop' = run_stop /\ run_prog[run_next] \notin Run!Faf
      BY <1>8 DEF Run!Start, Run!It, Run!Faf, Run!Queued
    <2>7. RunWorking'
      BY <2>1, <2>3, <2>5, <2>6, RunStarts
    <2>8. QED
      BY <2>1, <2>7 DEF RunInv
  <1>9. CASE Run!EndPump
    <2>1. RunWorking /\ run_stop' = run_stop /\ run_exec' = run_exec
          /\ run_next' = run_next /\ run_prog' = run_prog
      BY <1>9 DEF RunInv, Run!EndPump
    <2>2. RunWorking'
      BY <1>9, <2>1, RunIdles DEF Run!EndPump, RunWorking
    <2>3. CASE run_exec.cmd = 0
      <3>1. ~(run_next <= Len(run_prog)) /\ run_pc' = "done"
        BY <1>9, <2>3 DEF Run!EndPump, Run!Pumping
      <3>2. run_next' = Len(run_prog') + 1 /\ run_exec'.cmd = 0
        <4>1. run_next \in Nat /\ Len(run_prog) \in Nat /\ run_next <= Len(run_prog) + 1
          BY <2>1 DEF RunWorking, RunTyped
        <4>2. QED
          BY <2>1, <2>3, <3>1, <4>1
      <3>3. QED
        BY <2>2, <3>1, <3>2 DEF RunInv, RunDone
    <2>4. CASE run_exec.cmd # 0
      <3>1. run_pc' = "tick"
        BY <1>9, <2>4 DEF Run!EndPump
      <3>2. QED
        BY <2>2, <3>1 DEF RunInv
    <2>5. QED
      BY <2>3, <2>4
  <1>10. CASE Run!Tick
    <2>1. RunWorking /\ run_stop' = run_stop /\ run_pc' = "collect"
      BY <1>10 DEF RunInv, Run!Tick
    <2>2. /\ run_exec' = run_exec /\ run_next' = run_next /\ run_prog' = run_prog
          /\ run_spans' = run_spans /\ run_ran' = run_ran
          /\ run_rows' = run_rows \/ run_rows' = Append(run_rows, run_exec.cmd)
      BY <1>10 DEF Run!Tick
    <2>3. RunWorking'
      <3>1. CASE run_rows' = run_rows
        BY <2>1, <2>2, <3>1, RunIdles DEF RunWorking
      <3>2. CASE run_rows' = Append(run_rows, run_exec.cmd)
        BY <2>1, <2>2, <3>2, RunTakesRow
      <3>3. QED
        BY <2>2, <3>1, <3>2
    <2>4. QED
      BY <2>1, <2>3 DEF RunInv
  <1>11. ASSUME run_stop = "completed", Run!Round, RunTyped', RunExecutes', RunRecorded',
                run_prog' = run_prog
         PROVE  RunInv'
    <2>1. run_next' \in Nat /\ run_next' <= Len(run_prog) + 1 /\ Len(run_prog) \in Nat
      BY <1>11 DEF RunTyped
    <2>2. CASE run_exec'.cmd = 0 /\ run_next' > Len(run_prog)
      <3>1. run_pc' = "done" /\ run_stop' = "completed" /\ run_next' = Len(run_prog) + 1
        BY <1>11, <2>1, <2>2 DEF Run!Round
      <3>2. QED
        BY <1>11, <2>2, <3>1 DEF RunInv, RunDone, RunWorking
    <2>3. CASE ~(run_exec'.cmd = 0 /\ run_next' > Len(run_prog)) /\ run_ticks = RunBudget
      <3>1. /\ run_pc' = "done" /\ run_stop' = "budget"
            /\ run_exec'.cmd # 0 \/ run_next' <= Len(run_prog)
        BY <1>11, <2>1, <2>3 DEF Run!Round
      <3>2. QED
        BY <1>11, <3>1 DEF RunInv, RunDone
    <2>4. CASE ~(run_exec'.cmd = 0 /\ run_next' > Len(run_prog)) /\ run_ticks # RunBudget
      <3>1. run_pc' = "pump" /\ run_stop' = "completed"
        BY <1>11, <2>4 DEF Run!Round
      <3>2. QED
        BY <1>11, <3>1 DEF RunInv, RunWorking
    <2>5. QED
      BY <2>2, <2>3, <2>4
  <1>12. CASE Run!Working
    <2>1. RunTyped /\ RunExecutes /\ RunRecorded /\ run_stop = "completed"
      BY <1>12 DEF RunInv, RunWorking, Run!Working
    <2>2. RunTyped' /\ RunExecutes' /\ RunRecorded' /\ run_prog' = run_prog
      BY <1>12, <2>1, RunIdles DEF Run!Working
    <2>3. QED
      BY <1>11, <1>12, <2>1, <2>2 DEF Run!Working
  <1>13. CASE Run!Finishes
    <2>1. RunWorking /\ run_stop = "completed"
      BY <1>13 DEF RunInv, RunWorking, Run!Finishes
    <2>2. RunTyped' /\ RunExecutes' /\ RunRecorded' /\ run_prog' = run_prog
      BY <1>13, <2>1, RunSucceeds DEF Run!Finishes
    <2>3. QED
      BY <1>11, <1>13, <2>1, <2>2 DEF Run!Finishes
  <1>14. CASE Run!Fails
    <2>1. RunWorking /\ run_pc' = "done"
      BY <1>14 DEF RunInv, Run!Fails
    <2>2. RunDone'
      BY <1>14, <2>1, RunEndsFailed DEF Run!Fails
    <2>3. QED
      BY <2>1, <2>2 DEF RunInv
  <1>15. QED
    BY <1>1, <1>2, <1>4, <1>5, <1>6, <1>7, <1>8, <1>9, <1>10, <1>12, <1>13, <1>14
       DEF Run!Next

\* A record that ended tells what happened.
LEMMA RunTells ==
  ASSUME RunInv
  PROVE  Run!RecordTellsTheRun
  <1>1. CASE run_pc # "done"
    BY <1>1 DEF Run!RecordTellsTheRun
  <1>2. CASE run_pc = "done"
    <2>1. RunDone
      BY <1>2 DEF RunInv
    <2>2. CASE RunWorking /\ run_exec.cmd = 0 /\ run_next = Len(run_prog) + 1
      BY <2>2, RunCompletes DEF RunWorking
    <2>3. CASE /\ RunTyped /\ RunExecutes /\ RunRecorded /\ run_stop = "budget"
               /\ run_exec.cmd # 0 \/ run_next <= Len(run_prog)
      BY <2>3, RunExhausts
    <2>4. CASE /\ run_stop = "failed" /\ run_prog \in Seq(RunKinds) /\ run_rows \in Seq(Nat)
               /\ \E b \in RunLines : RunFailedAt(b)
      BY <2>4, RunFailsAt
    <2>5. QED
      BY <2>1, <2>2, <2>3, <2>4 DEF RunDone
  <1>3. QED
    BY <1>1, <1>2

\* The run begins with nothing answered and nothing on record.
LEMMA RunBegins ==
  ASSUME Run!Init
  PROVE  RunInv
  <1>1. PICK n \in 1..RunLength : run_prog \in [1..n -> RunKinds]
    BY DEF Run!Init, Run!Programs
  <1>2. n \in Nat /\ n >= 1
    BY <1>1, RunAssumption
  <1>3. run_prog \in Seq(RunKinds) /\ Len(run_prog) = n /\ RunLines = 1..n
    BY <1>1, <1>2 DEF RunLines
  <1>4. /\ run_next = 1 /\ run_exec = Run!None /\ run_rows = <<>> /\ run_ran = {}
        /\ run_spans = [i \in 1..n |-> [start |-> 0, rows |-> 0, error |-> FALSE]]
        /\ run_pc = "boot" /\ run_stop = "completed"
    BY <1>1 DEF Run!Init
  <1> DEFINE s == [start |-> 0, rows |-> 0, error |-> FALSE]
  <1>5. s \in RunSpans /\ s.start = 0 /\ s.rows = 0 /\ ~s.error
    BY DEF RunSpans
  <1>6. run_spans = [i \in 1..n |-> s]
    BY <1>4
  <1> HIDE DEF s
  <1>7. run_rows \in Seq(Nat) /\ Len(run_rows) = 0 /\ run_exec.cmd = 0
    BY <1>4 DEF Run!None
  <1>8. RunTyped
    <2>1. run_spans \in [RunLines -> RunSpans]
      BY <1>3, <1>5, <1>6
    <2>2. run_next \in Nat /\ 1 <= run_next /\ run_next <= Len(run_prog) + 1
      BY <1>2, <1>3, <1>4
    <2>3. QED
      BY <1>3, <1>7, <2>1, <2>2 DEF RunTyped
  <1>9. RunExecutes
    <2>1. run_ran = 1..(run_next - 1)
      BY <1>4
    <2>2. QED
      BY <1>4, <1>7, <2>1 DEF RunExecutes
  <1>10. RunRecorded
    <2>1. \A i : RowsOf(run_rows, i) = {}
      BY <1>7 DEF RowsOf
    <2>2. QED
      BY <1>3, <1>4, <1>5, <1>6, <2>1 DEF RunRecorded
  <1>11. QED
    BY <1>4, <1>8, <1>9, <1>10 DEF RunInv, RunWorking

(* The offline run's record tells what happened, for programs of any length
   and any kinds, any stride and any budget. *)
THEOREM RecordIsTrue == Run!Spec => []RecordTellsTheRun
  <1>1. Run!Init => RunInv
    BY RunBegins
  <1>2. RunInv /\ [Run!Next]_(Run!vars) => RunInv'
    <2>1. ASSUME RunInv, UNCHANGED Run!vars PROVE RunInv'
      <3>1. /\ run_exec' = run_exec /\ run_next' = run_next /\ run_prog' = run_prog
            /\ run_rows' = run_rows /\ run_spans' = run_spans /\ run_ran' = run_ran
            /\ run_pc' = run_pc /\ run_stop' = run_stop
        BY <2>1 DEF Run!vars
      <3>2. RunTyped /\ RunExecutes /\ RunRecorded => RunTyped' /\ RunExecutes' /\ RunRecorded'
        BY <3>1, RunIdles
      <3>3. RunWorking => RunWorking'
        BY <3>1, <3>2 DEF RunWorking
      <3>4. (\E b \in RunLines : RunFailedAt(b)) => (\E b \in RunLines : RunFailedAt(b))'
        BY <3>1 DEF RunFailedAt, RunLines, RowsOf
      <3>5. RunDone => RunDone'
        BY <3>1, <3>2, <3>3, <3>4 DEF RunDone
      <3>6. QED
        BY <2>1, <3>1, <3>3, <3>5 DEF RunInv
    <2>2. QED
      BY <2>1, RunStep
  <1>3. RunInv => RecordTellsTheRun
    BY RunTells DEF RecordTellsTheRun
  <1>4. QED
    BY <1>1, <1>2, <1>3, PTL DEF Run!Spec

-----------------------------------------------------------------------------
(* Preview. *)

ViewSpan == [kind : ViewKinds, start : Nat, rows : Nat, error : BOOLEAN]
ViewItem == [span : Nat, kind : ViewKinds \cup {"move"}]
ViewRec == [rows : Seq(Nat), since : 0..(ViewStride - 1)]
ViewSession ==
  [homed : BOOLEAN, estop : BOOLEAN, flashing : BOOLEAN, sim : BOOLEAN, paused : BOOLEAN,
   attached : BOOLEAN, fresh : BOOLEAN, standing : BOOLEAN, jog : BOOLEAN, jogSpan : Nat,
   held : Seq(ViewItem)]
ViewBatch == [on : BOOLEAN, rest : Seq(ViewItem), for : Nat, start : Nat, rows : Nat,
              error : BOOLEAN]

(* Record b is record a and then rows of line m. *)
ViewGrown(a, b, m) ==
  /\ a \in ViewRec /\ b \in ViewRec /\ Len(a.rows) <= Len(b.rows)
  /\ \A k \in 1..Len(a.rows) : b.rows[k] = a.rows[k]
  /\ \A k \in 1..Len(b.rows) : k > Len(a.rows) => b.rows[k] = m

(* A book of spans over a record: no row names a line not submitted, and the rows a span
   says are those that name it. *)
ViewBook(sp, r) ==
  /\ sp \in Seq(ViewSpan) /\ r \in ViewRec
  /\ \A k \in 1..Len(r.rows) : r.rows[k] <= Len(sp)
  /\ \A i \in 1..Len(sp) : sp[i].kind # "resume" =>
       RowsOf(r.rows, i) = (sp[i].start + 1)..(sp[i].start + sp[i].rows)

(* Commands still to be planned are in the order they came, each on the book, with no rows. *)
ViewPending(q, sp, r) ==
  /\ q \in Seq(ViewItem)
  /\ \A k \in 1..Len(q) :
       q[k].span \in 1..Len(sp) /\ RowsOf(r.rows, q[k].span) = {}
  /\ \A j, k \in 1..Len(q) : j < k => q[j].span < q[k].span

(* An open jog's rows are the last of the record, and nothing waits behind it. *)
ViewJog(t, sp, r) ==
  t.jog => /\ t.held = <<>>
           /\ t.jogSpan # 0 =>
                /\ t.jogSpan \in 1..Len(sp)
                /\ sp[t.jogSpan].start + sp[t.jogSpan].rows = Len(r.rows)

ViewWhole(t, sp, r, b) ==
  /\ ViewBook(sp, r) /\ t \in ViewSession /\ b \in ViewBatch
  /\ ViewPending(t.held, sp, r) /\ ViewJog(t, sp, r)
  /\ b.on => t.held = <<>> /\ ~t.jog /\ ViewPending(b.rest, sp, r)

ViewInv == ViewWhole(view_s, view_spans, view_rec, view_batch)

(* All but the head of q have no rows. *)
ViewBare(q, r) == \A k \in 2..Len(q) : RowsOf(r.rows, q[k].span) = {}

ViewHeadReady(sp, r, w, q, h, n, err) ==
  /\ ViewBook(sp, r) /\ ViewPending(q, sp, r) /\ n \in 1..Len(q) /\ h = q[1].span
  /\ ViewGrown(r, w, h) /\ err \in BOOLEAN

(* The book when the head of a batch is answered, with the n - 1 behind it folded in. *)
ViewHeadDone(sp, r, w, q, h, n, err) ==
  [i \in DOMAIN sp |->
     IF i = h THEN View!Close(sp, i, r, w, err)[i]
     ELSE IF \E k \in 2..n : q[k].span = i THEN View!Close(sp, i, w, w, FALSE)[i] ELSE sp[i]]

(* Session u is t, with its hold perhaps dropped and its jog as it was. *)
ViewSame(t, u) ==
  /\ t \in ViewSession /\ u \in ViewSession
  /\ u.jog = t.jog /\ u.jogSpan = t.jogSpan /\ (u.held = t.held \/ u.held = <<>>)

\* Quotient and remainder of natural numbers.
LEMMA ViewDivides ==
  ASSUME NEW a \in Nat, NEW b \in Nat \ {0}
  PROVE  a \div b \in Nat /\ a % b \in 0..(b - 1)
  OBVIOUS

\* A record that grew, by the rows that name a line.
LEMMA ViewGrowth ==
  ASSUME NEW a, NEW b, NEW m, ViewGrown(a, b, m)
  PROVE  /\ RowsOf(b.rows, m) = RowsOf(a.rows, m) \cup ((Len(a.rows) + 1)..Len(b.rows))
         /\ SameBut(b.rows, a.rows, m)
  <1> DEFINE v == a.rows  w == b.rows  n == Len(a.rows)  l == Len(b.rows)
  <1>1. /\ n \in Nat /\ l \in Nat /\ n <= l /\ n = Len(v) /\ l = Len(w)
        /\ \A k \in 1..n : w[k] = v[k]
        /\ \A k \in 1..l : k > n => w[k] = m
    BY DEF ViewGrown, ViewRec
  <1> HIDE DEF v, w, n, l
  <1>2. RowsOf(w, m) = RowsOf(v, m) \cup ((n + 1)..l)
    BY <1>1 DEF RowsOf
  <1>3. SameBut(w, v, m)
    <2>1. SUFFICES ASSUME NEW i, i # m PROVE RowsOf(w, i) = RowsOf(v, i)
      BY DEF SameBut
    <2>2. QED
      BY <1>1, <2>1 DEF RowsOf
  <1>4. QED
    BY <1>2, <1>3 DEF v, w, n, l

\* A record grows by nothing, and in two steps.
LEMMA ViewGrowthSteps ==
  /\ \A a \in ViewRec : \A m : ViewGrown(a, a, m)
  /\ \A a, b, c, m : ViewGrown(a, b, m) /\ ViewGrown(b, c, m) => ViewGrown(a, c, m)
  <1>1. ASSUME NEW a \in ViewRec, NEW m PROVE ViewGrown(a, a, m)
    BY DEF ViewGrown, ViewRec
  <1>2. ASSUME NEW a, NEW b, NEW c, NEW m, ViewGrown(a, b, m), ViewGrown(b, c, m)
        PROVE  ViewGrown(a, c, m)
    <2>1. Len(a.rows) \in Nat /\ Len(b.rows) \in Nat /\ Len(c.rows) \in Nat
      BY <1>2 DEF ViewGrown, ViewRec
    <2>2. QED
      BY <1>2, <2>1 DEF ViewGrown
  <1>3. QED
    BY <1>1, <1>2

\* Ticks are recorded.
LEMMA ViewRecords ==
  ASSUME NEW r \in ViewRec, NEW n \in Nat, NEW m \in Nat
  PROVE  ViewGrown(r, View!Record(r, n, m), m)
  <1> DEFINE k == (r.since + n) \div ViewStride
             e == (r.since + n) % ViewStride
             g == [i \in 1..k |-> m]
             w == r.rows \o g
  <1>1. r.rows \in Seq(Nat) /\ r.since \in Nat /\ r.since + n \in Nat
    BY ViewAssumption DEF ViewRec
  <1>2. k \in Nat /\ e \in 0..(ViewStride - 1)
    BY <1>1, ViewAssumption, ViewDivides
  <1>3. View!Record(r, n, m) = [rows |-> w, since |-> e]
    BY DEF View!Record
  <1> HIDE DEF k, e
  <1>4. g \in Seq(Nat) /\ Len(g) = k /\ \A i \in 1..k : g[i] = m
    BY <1>2
  <1> HIDE DEF g
  <1>5. /\ w \in Seq(Nat) /\ Len(w) = Len(r.rows) + k
        /\ \A i \in 1..Len(r.rows) : w[i] = r.rows[i]
        /\ \A i \in 1..Len(w) : i > Len(r.rows) => w[i] = m
    <2>0. PICK v : v = r.rows
      OBVIOUS
    <2>1. /\ v \in Seq(Nat) /\ g \in Seq(Nat) /\ Len(v) \in Nat /\ Len(g) = k /\ k \in Nat
          /\ w = v \o g
      BY <1>1, <1>2, <1>4, <2>0
    <2> HIDE DEF w
    <2>2. /\ w \in Seq(Nat) /\ Len(w) = Len(v) + Len(g)
          /\ \A i \in 1..(Len(v) + Len(g)) : w[i] = IF i <= Len(v) THEN v[i] ELSE g[i - Len(v)]
      BY <2>1, ConcatProperties, Zenon
    <2>3. \A i \in 1..Len(v) : w[i] = v[i]
      BY <2>1, <2>2
    <2>4. ASSUME NEW i \in 1..Len(w), i > Len(v) PROVE w[i] = m
      <3>1. i - Len(v) \in 1..k /\ ~(i <= Len(v)) /\ i \in 1..(Len(v) + Len(g))
        BY <2>1, <2>2, <2>4
      <3>2. QED
        BY <1>4, <2>2, <3>1
    <2>5. QED
      BY <2>0, <2>1, <2>2, <2>3, <2>4
  <1> HIDE DEF w
  <1> DEFINE b == [rows |-> w, since |-> e]
  <1>6. b \in ViewRec /\ b.rows = w
    BY <1>2, <1>5 DEF ViewRec
  <1> HIDE DEF b
  <1>7. Len(r.rows) \in Nat
    BY <1>1
  <1>8. ViewGrown(r, b, m)
    BY <1>2, <1>5, <1>6, <1>7 DEF ViewGrown
  <1>9. QED
    BY <1>3, <1>8 DEF b

\* A row is marked.
LEMMA ViewMarks ==
  ASSUME NEW r \in ViewRec, NEW m \in Nat
  PROVE  ViewGrown(r, View!Mark(r, m), m)
  <1> DEFINE w == Append(r.rows, m)  b == [rows |-> w, since |-> 0]
  <1>1. r.rows \in Seq(Nat) /\ Len(r.rows) \in Nat
    BY DEF ViewRec
  <1>2. /\ w \in Seq(Nat) /\ Len(w) = Len(r.rows) + 1 /\ w[Len(r.rows) + 1] = m
        /\ \A i \in 1..Len(r.rows) : w[i] = r.rows[i]
    BY <1>1
  <1> HIDE DEF w
  <1>3. b \in ViewRec /\ b.rows = w
    BY <1>2, ViewAssumption DEF ViewRec
  <1>4. View!Mark(r, m) = b
    BY DEF View!Mark, w
  <1> HIDE DEF b
  <1>5. ViewGrown(r, b, m)
    BY <1>1, <1>2, <1>3 DEF ViewGrown
  <1>6. QED
    BY <1>4, <1>5

\* A line is opened on the book.
LEMMA ViewOpens ==
  ASSUME NEW sp, NEW r, ViewBook(sp, r), NEW kind \in ViewKinds
  PROVE  /\ ViewBook(View!Open(sp, r, kind), r)
         /\ Len(View!Open(sp, r, kind)) = Len(sp) + 1
         /\ \A i \in 1..Len(sp) : View!Open(sp, r, kind)[i] = sp[i]
         /\ RowsOf(r.rows, Len(sp) + 1) = {}
  <1> DEFINE e == [kind |-> kind, start |-> Len(r.rows), rows |-> 0, error |-> FALSE]
             b == Append(sp, e)
  <1>0. sp \in Seq(ViewSpan) /\ r \in ViewRec /\ Len(r.rows) \in Nat /\ Len(sp) \in Nat
    BY DEF ViewBook, ViewRec
  <1>1. e \in ViewSpan /\ e.start = Len(r.rows) /\ e.rows = 0
    BY <1>0 DEF ViewSpan
  <1>2. View!Open(sp, r, kind) = b
    BY DEF View!Open
  <1> HIDE DEF e
  <1>3. /\ b \in Seq(ViewSpan) /\ Len(b) = Len(sp) + 1 /\ b[Len(sp) + 1] = e
        /\ \A i \in 1..Len(sp) : b[i] = sp[i]
    BY <1>0, <1>1
  <1> HIDE DEF b
  <1>4. RowsOf(r.rows, Len(sp) + 1) = {}
    <2>1. \A k \in 1..Len(r.rows) : r.rows[k] # Len(sp) + 1
      <3>1. SUFFICES ASSUME NEW k \in 1..Len(r.rows) PROVE r.rows[k] # Len(sp) + 1
        OBVIOUS
      <3>2. r.rows[k] \in Nat /\ r.rows[k] <= Len(sp)
        BY <1>0 DEF ViewBook, ViewRec
      <3>3. QED
        BY <1>0, <3>2
    <2>2. QED
      BY <2>1 DEF RowsOf
  <1>5. ASSUME NEW k \in 1..Len(r.rows) PROVE r.rows[k] <= Len(b)
    <2>1. r.rows[k] \in Nat /\ r.rows[k] <= Len(sp)
      BY <1>0 DEF ViewBook, ViewRec
    <2>2. QED
      BY <1>0, <1>3, <2>1
  <1>6. ASSUME NEW i \in 1..Len(b), b[i].kind # "resume"
        PROVE  RowsOf(r.rows, i) = (b[i].start + 1)..(b[i].start + b[i].rows)
    <2>1. CASE i = Len(sp) + 1
      <3>1. (Len(r.rows) + 1)..(Len(r.rows) + 0) = {}
        BY <1>0
      <3>2. QED
        BY <1>1, <1>3, <1>4, <2>1, <3>1
    <2>2. CASE i # Len(sp) + 1
      <3>1. i \in 1..Len(sp)
        BY <1>0, <1>3, <2>2
      <3>2. QED
        BY <1>3, <1>6, <3>1 DEF ViewBook
    <2>3. QED
      BY <2>1, <2>2
  <1>7. ViewBook(b, r)
    BY <1>0, <1>3, <1>5, <1>6 DEF ViewBook
  <1>8. QED
    BY <1>2, <1>3, <1>4, <1>7

\* A span is changed on the book, as the record grows by that line's rows.
LEMMA ViewChanges ==
  ASSUME NEW sp, NEW r, ViewBook(sp, r), NEW i \in 1..Len(sp), NEW w, ViewGrown(r, w, i),
         NEW e \in ViewSpan,
         e.kind # "resume" => RowsOf(w.rows, i) = (e.start + 1)..(e.start + e.rows)
  PROVE  /\ ViewBook([sp EXCEPT ![i] = e], w)
         /\ Len([sp EXCEPT ![i] = e]) = Len(sp)
         /\ [sp EXCEPT ![i] = e][i] = e
         /\ \A j \in 1..Len(sp) : j # i => [sp EXCEPT ![i] = e][j] = sp[j]
  <1>0. /\ sp \in Seq(ViewSpan) /\ r \in ViewRec /\ Len(sp) \in Nat /\ w \in ViewRec
        /\ Len(w.rows) \in Nat /\ Len(r.rows) \in Nat
    BY DEF ViewBook, ViewRec, ViewGrown
  <1> DEFINE b == [sp EXCEPT ![i] = e]
  <1>1. /\ b \in Seq(ViewSpan) /\ Len(b) = Len(sp) /\ b[i] = e
        /\ \A j \in 1..Len(sp) : j # i => b[j] = sp[j]
    BY <1>0
  <1> HIDE DEF b
  <1>2. ASSUME NEW k \in 1..Len(w.rows) PROVE w.rows[k] <= Len(b)
    <2>1. CASE k > Len(r.rows)
      <3>1. w.rows[k] = i
        BY <2>1 DEF ViewGrown
      <3>2. QED
        BY <1>0, <1>1, <3>1
    <2>2. CASE ~(k > Len(r.rows))
      <3>1. k \in 1..Len(r.rows)
        BY <1>0, <2>2
      <3>2. w.rows[k] = r.rows[k] /\ r.rows[k] <= Len(sp)
        BY <3>1 DEF ViewGrown, ViewBook
      <3>3. QED
        BY <1>1, <3>2
    <2>3. QED
      BY <2>1, <2>2
  <1>3. ASSUME NEW j \in 1..Len(b), b[j].kind # "resume"
        PROVE  RowsOf(w.rows, j) = (b[j].start + 1)..(b[j].start + b[j].rows)
    <2>1. CASE j = i
      BY <1>1, <1>3, <2>1
    <2>2. CASE j # i
      <3>1. SameBut(w.rows, r.rows, i)
        BY ViewGrowth
      <3>2. RowsOf(w.rows, j) = RowsOf(r.rows, j)
        BY <2>2, <3>1, Zenon DEF SameBut
      <3>3. j \in 1..Len(sp) /\ b[j] = sp[j]
        BY <1>1, <2>2
      <3>4. QED
        BY <1>3, <3>2, <3>3 DEF ViewBook
    <2>3. QED
      BY <2>1, <2>2
  <1>4. ViewBook(b, w)
    BY <1>0, <1>1, <1>2, <1>3 DEF ViewBook
  <1>5. QED
    BY <1>1, <1>4 DEF b

\* A line is answered with the rows it made.
LEMMA ViewCloses ==
  ASSUME NEW sp, NEW r, ViewBook(sp, r), NEW i \in 1..Len(sp), NEW w, ViewGrown(r, w, i),
         RowsOf(r.rows, i) = {}, NEW err \in BOOLEAN
  PROVE  /\ ViewBook(View!Close(sp, i, r, w, err), w)
         /\ Len(View!Close(sp, i, r, w, err)) = Len(sp)
         /\ \A j \in 1..Len(sp) : j # i => View!Close(sp, i, r, w, err)[j] = sp[j]
         /\ View!Close(sp, i, r, w, err)[i].start + View!Close(sp, i, r, w, err)[i].rows
              = Len(w.rows)
         /\ View!Close(sp, i, r, w, err)[i].kind = sp[i].kind
  <1>0. /\ sp \in Seq(ViewSpan) /\ sp[i] \in ViewSpan
        /\ Len(w.rows) \in Nat /\ Len(r.rows) \in Nat /\ Len(r.rows) <= Len(w.rows)
    BY DEF ViewBook, ViewRec, ViewGrown
  <1>p. PICK x, y, n, u : x = Len(r.rows) /\ y = Len(w.rows) /\ n = y - x /\ u = sp[i]
    OBVIOUS
  <1>1. x \in Nat /\ y \in Nat /\ n \in Nat /\ x + n = y /\ u \in ViewSpan
    BY <1>0, <1>p
  <1>q. PICK e : e = [u EXCEPT !.start = x, !.rows = n, !.error = err]
    OBVIOUS
  <1>2. e \in ViewSpan /\ e.start = x /\ e.rows = n /\ e.kind = u.kind
    BY <1>1, <1>q DEF ViewSpan
  <1>3. View!Close(sp, i, r, w, err) = [sp EXCEPT ![i] = e]
    BY <1>0, <1>p, <1>q DEF View!Close
  <1>4. RowsOf(w.rows, i) = (e.start + 1)..(e.start + e.rows)
    <2>1. RowsOf(w.rows, i) = RowsOf(r.rows, i) \cup ((x + 1)..y)
      BY <1>p, ViewGrowth
    <2>2. QED
      BY <1>1, <1>2, <2>1
  <1>5. /\ ViewBook([sp EXCEPT ![i] = e], w) /\ Len([sp EXCEPT ![i] = e]) = Len(sp)
        /\ [sp EXCEPT ![i] = e][i] = e
        /\ \A j \in 1..Len(sp) : j # i => [sp EXCEPT ![i] = e][j] = sp[j]
    BY <1>2, <1>4, ViewChanges
  <1>6. QED
    BY <1>p, <1>1, <1>2, <1>3, <1>5

\* A jog's ramp is credited to it.
LEMMA ViewExtends ==
  ASSUME NEW sp, NEW r, ViewBook(sp, r), NEW i \in Nat, NEW w, ViewGrown(r, w, i),
         i # 0 => i \in 1..Len(sp) /\ sp[i].start + sp[i].rows = Len(r.rows)
  PROVE  ViewBook(View!Extend(sp, i, r, w), w) /\ Len(View!Extend(sp, i, r, w)) = Len(sp)
  <1>0. /\ sp \in Seq(ViewSpan) /\ r \in ViewRec /\ w \in ViewRec /\ Len(sp) \in Nat
        /\ Len(w.rows) \in Nat /\ Len(r.rows) \in Nat /\ Len(r.rows) <= Len(w.rows)
    BY DEF ViewBook, ViewRec, ViewGrown
  <1>1. CASE i = 0
    <2>1. View!Extend(sp, i, r, w) = sp
      BY <1>1 DEF View!Extend
    <2>2. ASSUME NEW k \in 1..Len(w.rows) PROVE w.rows[k] <= Len(sp)
      <3>1. CASE k > Len(r.rows)
        <4>1. w.rows[k] = 0
          BY <1>1, <3>1 DEF ViewGrown
        <4>2. QED
          BY <1>0, <4>1
      <3>2. CASE ~(k > Len(r.rows))
        <4>1. k \in 1..Len(r.rows)
          BY <1>0, <3>2
        <4>2. QED
          BY <4>1 DEF ViewGrown, ViewBook
      <3>3. QED
        BY <3>1, <3>2
    <2>3. ASSUME NEW j \in 1..Len(sp), sp[j].kind # "resume"
          PROVE  RowsOf(w.rows, j) = (sp[j].start + 1)..(sp[j].start + sp[j].rows)
      <3>1. SameBut(w.rows, r.rows, i) /\ j # i
        BY <1>0, <1>1, ViewGrowth
      <3>2. RowsOf(w.rows, j) = RowsOf(r.rows, j)
        BY <3>1, Zenon DEF SameBut
      <3>3. QED
        BY <2>3, <3>2 DEF ViewBook
    <2>4. QED
      BY <1>0, <2>1, <2>2, <2>3 DEF ViewBook
  <1>2. CASE i # 0
    <2>p. PICK x, y, u : x = Len(r.rows) /\ y = Len(w.rows) /\ u = sp[i]
      OBVIOUS
    <2>1. /\ x \in Nat /\ y \in Nat /\ x <= y /\ u \in ViewSpan /\ u.start \in Nat
          /\ u.rows \in Nat /\ u.start + u.rows = x /\ i \in 1..Len(sp)
      <3>1. i \in 1..Len(sp) /\ sp[i].start + sp[i].rows = Len(r.rows)
        BY <1>2
      <3>2. u \in ViewSpan
        BY <1>0, <2>p, <3>1
      <3>3. u.start \in Nat /\ u.rows \in Nat
        BY <3>2 DEF ViewSpan
      <3>4. QED
        BY <1>0, <2>p, <3>1, <3>2, <3>3
    <2>q. PICK n : n = u.rows + y - x
      OBVIOUS
    <2>2. n \in Nat /\ u.start + n = y
      BY <2>1, <2>q
    <2>3. PICK e : e = [u EXCEPT !.rows = n]
      OBVIOUS
    <2>4. e \in ViewSpan /\ e.start = u.start /\ e.rows = n /\ e.kind = u.kind
      BY <2>1, <2>2, <2>3 DEF ViewSpan
    <2>5. View!Extend(sp, i, r, w) = [sp EXCEPT ![i] = e]
      BY <1>0, <1>2, <2>p, <2>1, <2>q, <2>3 DEF View!Extend
    <2>6. e.kind # "resume" => RowsOf(w.rows, i) = (e.start + 1)..(e.start + e.rows)
      <3>1. SUFFICES ASSUME e.kind # "resume"
                     PROVE  RowsOf(w.rows, i) = (u.start + 1)..(u.start + n)
        BY <2>4
      <3>2. RowsOf(w.rows, i) = RowsOf(r.rows, i) \cup ((x + 1)..y)
        BY <2>p, ViewGrowth
      <3>3. RowsOf(r.rows, i) = (u.start + 1)..x
        BY <2>p, <2>1, <2>4, <3>1 DEF ViewBook
      <3>4. QED
        BY <2>1, <2>2, <3>2, <3>3
    <2>7. ViewBook([sp EXCEPT ![i] = e], w) /\ Len([sp EXCEPT ![i] = e]) = Len(sp)
      BY <2>1, <2>4, <2>6, ViewChanges
    <2>8. QED
      BY <2>5, <2>7
  <1>3. QED
    BY <1>1, <1>2

\* A session with one of its marks changed.
LEMMA ViewMarked ==
  ASSUME NEW t \in ViewSession, NEW b \in BOOLEAN
  PROVE  /\ ViewSame(t, [t EXCEPT !.homed = b])    /\ ViewSame(t, [t EXCEPT !.estop = b])
         /\ ViewSame(t, [t EXCEPT !.flashing = b]) /\ ViewSame(t, [t EXCEPT !.sim = b])
         /\ ViewSame(t, [t EXCEPT !.paused = b])   /\ ViewSame(t, [t EXCEPT !.attached = b])
         /\ ViewSame(t, [t EXCEPT !.fresh = b])    /\ ViewSame(t, [t EXCEPT !.standing = b])
  <1>1. ViewSame(t, [t EXCEPT !.homed = b])
    BY DEF ViewSame, ViewSession
  <1>2. ViewSame(t, [t EXCEPT !.estop = b])
    BY DEF ViewSame, ViewSession
  <1>3. ViewSame(t, [t EXCEPT !.flashing = b])
    BY DEF ViewSame, ViewSession
  <1>4. ViewSame(t, [t EXCEPT !.sim = b])
    BY DEF ViewSame, ViewSession
  <1>5. ViewSame(t, [t EXCEPT !.paused = b])
    BY DEF ViewSame, ViewSession
  <1>6. ViewSame(t, [t EXCEPT !.attached = b])
    BY DEF ViewSame, ViewSession
  <1>7. ViewSame(t, [t EXCEPT !.fresh = b])
    BY DEF ViewSame, ViewSession
  <1>8. ViewSame(t, [t EXCEPT !.standing = b])
    BY DEF ViewSame, ViewSession
  <1>9. QED
    BY <1>1, <1>2, <1>3, <1>4, <1>5, <1>6, <1>7, <1>8

\* A session with its hold changed.
LEMMA ViewHolds ==
  ASSUME NEW t \in ViewSession, NEW q \in Seq(ViewItem), NEW u, u = [t EXCEPT !.held = q]
  PROVE  u \in ViewSession /\ u.held = q /\ u.jog = t.jog /\ u.jogSpan = t.jogSpan
  BY DEF ViewSession

\* A session is like itself, and likeness is passed on.
LEMMA ViewLikeness ==
  /\ \A t \in ViewSession : ViewSame(t, t)
  /\ \A t, u, w : ViewSame(t, u) /\ ViewSame(u, w) => ViewSame(t, w)
  BY DEF ViewSame

\* The session's own changes.
LEMMA ViewSteps ==
  ASSUME NEW t \in ViewSession
  PROVE  /\ ViewSame(t, View!Stale(t)) /\ ViewSame(t, View!Unpaused(t))
         /\ ViewSame(t, View!Answered(t)) /\ ViewSame(t, View!Dropped(t))
         /\ View!Dropped(t).held = <<>> /\ View!Unpaused(t).held = t.held
         /\ View!Answered(t).held = t.held
  <1>1. <<>> \in Seq(ViewItem) /\ FALSE \in BOOLEAN
    OBVIOUS
  <1>2. View!Dropped(t) \in ViewSession /\ View!Dropped(t).held = <<>>
        /\ View!Dropped(t).jog = t.jog /\ View!Dropped(t).jogSpan = t.jogSpan
    BY <1>1, ViewHolds DEF View!Dropped
  <1>3. ViewSame(t, View!Dropped(t))
    BY <1>2 DEF ViewSame
  <1>4. /\ ViewSame(t, View!Stale(t)) /\ ViewSame(t, View!Unpaused(t))
        /\ ViewSame(t, View!Answered(t))
    BY <1>1, ViewMarked DEF View!Stale, View!Unpaused, View!Answered
  <1>5. View!Unpaused(t).held = t.held
    BY DEF View!Unpaused, ViewSession
  <1>6. View!Answered(t).held = t.held
    BY DEF View!Answered, ViewSession
  <1>7. QED
    BY <1>2, <1>3, <1>4, <1>5, <1>6

\* What a system command does to the session.
LEMMA ViewSystem ==
  ASSUME NEW t \in ViewSession,
         NEW kind \in {"stop", "clear", "estop", "reset", "reset_state", "sim", "hardware",
                       "flash", "pause", "profile"}
  PROVE  ViewSame(t, View!SystemEffect(kind, t))
  <1>0. ViewSame(t, t) /\ TRUE \in BOOLEAN /\ FALSE \in BOOLEAN
    BY ViewLikeness
  <1>y. PICK yes \in BOOLEAN : yes = TRUE
    OBVIOUS
  <1>n. PICK no \in BOOLEAN : no = FALSE
    OBVIOUS
  <1>1. PICK d : d = View!Dropped(t)
    OBVIOUS
  <1>2. ViewSame(t, d) /\ d \in ViewSession
    BY <1>1, ViewSteps DEF ViewSame
  <1>3. PICK u : u = View!Unpaused(d)
    OBVIOUS
  <1>4. ViewSame(t, u) /\ u \in ViewSession
    <2>1. ViewSame(d, u)
      BY <1>2, <1>3, ViewSteps
    <2>2. QED
      BY <1>2, <2>1, ViewLikeness DEF ViewSame
  <1>5. PICK a : a = View!Stale(u)
    OBVIOUS
  <1>6. ViewSame(t, a) /\ a \in ViewSession
    <2>1. ViewSame(u, a)
      BY <1>4, <1>5, ViewSteps
    <2>2. QED
      BY <1>4, <2>1, ViewLikeness DEF ViewSame
  <1>7. PICK c : c = View!Stale(d)
    OBVIOUS
  <1>8. ViewSame(t, c) /\ c \in ViewSession
    <2>1. ViewSame(d, c)
      BY <1>2, <1>7, ViewSteps
    <2>2. QED
      BY <1>2, <2>1, ViewLikeness DEF ViewSame
  <1>9. PICK z : z = View!Stale(t)
    OBVIOUS
  <1>10. ViewSame(t, z) /\ z \in ViewSession
    BY <1>9, ViewSteps DEF ViewSame
  <1>11. \A x, y : ViewSame(t, x) /\ ViewSame(x, y) => ViewSame(t, y) /\ y \in ViewSession
    BY ViewLikeness DEF ViewSame
  <1>12. \A x \in ViewSession : \A b \in BOOLEAN :
           /\ ViewSame(x, [x EXCEPT !.homed = b])    /\ ViewSame(x, [x EXCEPT !.estop = b])
           /\ ViewSame(x, [x EXCEPT !.flashing = b]) /\ ViewSame(x, [x EXCEPT !.sim = b])
           /\ ViewSame(x, [x EXCEPT !.paused = b])   /\ ViewSame(x, [x EXCEPT !.attached = b])
           /\ ViewSame(x, [x EXCEPT !.standing = b])
    BY ViewMarked
  <1>13. CASE kind \in {"stop", "profile"}
    BY <1>0, <1>13 DEF View!SystemEffect
  <1>14. CASE kind = "clear"
    <2>1. PICK b \in BOOLEAN : b = (u.standing \/ t.held # <<>>)
      OBVIOUS
    <2>2. PICK x : x = [u EXCEPT !.standing = b]
      OBVIOUS
    <2>3. ViewSame(t, x)
      BY <1>4, <1>11, <1>12, <2>2
    <2>4. View!SystemEffect(kind, t) = x
      BY <1>1, <1>3, <1>14, <2>1, <2>2 DEF View!SystemEffect
    <2>5. QED
      BY <2>3, <2>4, Zenon
  <1>15. CASE kind = "estop"
    <2>1. PICK y : y = [a EXCEPT !.estop = yes]
      OBVIOUS
    <2>2. ViewSame(t, y) /\ y \in ViewSession
      BY <1>0, <1>6, <1>11, <1>12, <2>1
    <2>3. PICK x : x = [y EXCEPT !.standing = yes]
      OBVIOUS
    <2>4. ViewSame(t, x)
      BY <1>0, <1>11, <1>12, <2>2, <2>3
    <2>5. View!SystemEffect(kind, t) = x
      BY <1>y, <1>n, <1>1, <1>3, <1>5, <1>15, <2>1, <2>3 DEF View!SystemEffect
    <2>6. QED
      BY <2>4, <2>5, Zenon
  <1>16. CASE kind = "reset"
    <2>1. PICK y : y = [z EXCEPT !.estop = no]
      OBVIOUS
    <2>2. ViewSame(t, y) /\ y \in ViewSession
      BY <1>0, <1>10, <1>11, <1>12, <2>1
    <2>3. PICK x : x = [y EXCEPT !.standing = no]
      OBVIOUS
    <2>4. ViewSame(t, x)
      BY <1>0, <1>11, <1>12, <2>2, <2>3
    <2>5. View!SystemEffect(kind, t) = x
      BY <1>y, <1>n, <1>9, <1>16, <2>1, <2>3 DEF View!SystemEffect
    <2>6. QED
      BY <2>4, <2>5, Zenon
  <1>17. CASE kind = "reset_state"
    <2>1. PICK y : y = [a EXCEPT !.standing = no]
      OBVIOUS
    <2>2. ViewSame(t, y) /\ y \in ViewSession
      BY <1>0, <1>6, <1>11, <1>12, <2>1
    <2>3. PICK x : x = [y EXCEPT !.attached = no]
      OBVIOUS
    <2>4. ViewSame(t, x)
      BY <1>0, <1>11, <1>12, <2>2, <2>3
    <2>5. View!SystemEffect(kind, t) = x
      BY <1>y, <1>n, <1>1, <1>3, <1>5, <1>17, <2>1, <2>3 DEF View!SystemEffect
    <2>6. QED
      BY <2>4, <2>5, Zenon
  <1>18. CASE kind = "sim"
    <2>1. PICK y : y = [c EXCEPT !.sim = yes]
      OBVIOUS
    <2>2. ViewSame(t, y) /\ y \in ViewSession
      BY <1>0, <1>8, <1>11, <1>12, <2>1
    <2>3. PICK x : x = [y EXCEPT !.homed = yes]
      OBVIOUS
    <2>4. ViewSame(t, x)
      BY <1>0, <1>11, <1>12, <2>2, <2>3
    <2>5. View!SystemEffect(kind, t) = x
      BY <1>y, <1>n, <1>1, <1>7, <1>18, <2>1, <2>3 DEF View!SystemEffect
    <2>6. QED
      BY <2>4, <2>5, Zenon
  <1>19. CASE kind = "hardware"
    <2>1. PICK y : y = [c EXCEPT !.sim = no]
      OBVIOUS
    <2>2. ViewSame(t, y) /\ y \in ViewSession
      BY <1>0, <1>8, <1>11, <1>12, <2>1
    <2>3. PICK x : x = [y EXCEPT !.homed = no]
      OBVIOUS
    <2>4. ViewSame(t, x)
      BY <1>0, <1>11, <1>12, <2>2, <2>3
    <2>5. View!SystemEffect(kind, t) = x
      BY <1>y, <1>n, <1>1, <1>7, <1>19, <2>1, <2>3 DEF View!SystemEffect
    <2>6. QED
      BY <2>4, <2>5, Zenon
  <1>20. CASE kind = "flash"
    <2>1. PICK x : x = [d EXCEPT !.flashing = yes]
      OBVIOUS
    <2>2. ViewSame(t, x)
      BY <1>0, <1>2, <1>11, <1>12, <2>1
    <2>3. View!SystemEffect(kind, t) = x
      BY <1>y, <1>n, <1>1, <1>20, <2>1 DEF View!SystemEffect
    <2>4. QED
      BY <2>2, <2>3, Zenon
  <1>21. CASE kind = "pause"
    <2>1. PICK x : x = [t EXCEPT !.paused = yes]
      OBVIOUS
    <2>2. ViewSame(t, x)
      BY <1>0, <1>12, <2>1
    <2>3. View!SystemEffect(kind, t) = x
      BY <1>y, <1>n, <1>21, <2>1 DEF View!SystemEffect
    <2>4. QED
      BY <2>2, <2>3, Zenon
  <1>22. QED
    BY <1>13, <1>14, <1>15, <1>16, <1>17, <1>18, <1>19, <1>20, <1>21

\* What waits still waits, while neither the book shrinks nor a waiting line gets a row.
LEMMA ViewStillPending ==
  ASSUME NEW q, NEW sp, NEW r, NEW sp2, NEW r2, ViewPending(q, sp, r),
         Len(sp) \in Nat, Len(sp2) \in Nat, Len(sp) <= Len(sp2),
         \A i \in 1..Len(sp) : RowsOf(r2.rows, i) = RowsOf(r.rows, i)
  PROVE  ViewPending(q, sp2, r2)
  <1>1. ASSUME NEW k \in 1..Len(q)
        PROVE  q[k].span \in 1..Len(sp2) /\ RowsOf(r2.rows, q[k].span) = {}
    <2>1. q[k].span \in 1..Len(sp) /\ RowsOf(r.rows, q[k].span) = {}
      BY DEF ViewPending
    <2>2. q[k].span \in 1..Len(sp2)
      BY <2>1
    <2>3. QED
      BY <2>1, <2>2
  <1>2. QED
    BY <1>1 DEF ViewPending

\* Nothing waits.
LEMMA ViewNonePending ==
  ASSUME NEW sp, NEW r
  PROVE  ViewPending(<<>>, sp, r)
  <1>1. <<>> \in Seq(ViewItem) /\ Len(<<>>) = 0
    OBVIOUS
  <1>2. PICK q : q = <<>>
    OBVIOUS
  <1>3. q \in Seq(ViewItem) /\ 1..Len(q) = {}
    BY <1>1, <1>2
  <1>4. QED
    BY <1>2, <1>3 DEF ViewPending

\* A command joins those that wait, behind them all.
LEMMA ViewJoins ==
  ASSUME NEW q, NEW sp, NEW r, ViewPending(q, sp, r), Len(sp) \in Nat, NEW sp2,
         Len(sp2) = Len(sp) + 1, NEW e \in ViewItem, e.span = Len(sp) + 1,
         RowsOf(r.rows, Len(sp) + 1) = {}
  PROVE  ViewPending(Append(q, e), sp2, r)
  <1>1. q \in Seq(ViewItem) /\ Len(q) \in Nat
    BY DEF ViewPending
  <1>2. PICK w : w = Append(q, e)
    OBVIOUS
  <1>3. /\ w \in Seq(ViewItem) /\ Len(w) = Len(q) + 1 /\ w[Len(q) + 1] = e
        /\ \A k \in 1..Len(q) : w[k] = q[k]
    BY <1>1, <1>2
  <1>4. ASSUME NEW k \in 1..Len(w)
        PROVE  w[k].span \in 1..Len(sp2) /\ RowsOf(r.rows, w[k].span) = {}
    <2>1. CASE k = Len(q) + 1
      BY <1>3, <2>1
    <2>2. CASE k # Len(q) + 1
      <3>1. k \in 1..Len(q) /\ w[k] = q[k]
        BY <1>1, <1>3, <2>2
      <3>2. q[k].span \in 1..Len(sp) /\ RowsOf(r.rows, q[k].span) = {}
        BY <3>1 DEF ViewPending
      <3>3. q[k].span \in 1..Len(sp2)
        BY <3>2
      <3>4. QED
        BY <3>1, <3>2, <3>3
    <2>3. QED
      BY <2>1, <2>2
  <1>5. ASSUME NEW j \in 1..Len(w), NEW k \in 1..Len(w), j < k
        PROVE  w[j].span < w[k].span
    <2>1. j \in 1..Len(q) /\ w[j] = q[j]
      BY <1>1, <1>3, <1>5
    <2>2. q[j].span \in 1..Len(sp)
      BY <2>1 DEF ViewPending
    <2>3. CASE k = Len(q) + 1
      BY <1>3, <2>1, <2>2, <2>3
    <2>4. CASE k # Len(q) + 1
      <3>1. k \in 1..Len(q) /\ w[k] = q[k]
        BY <1>1, <1>3, <2>4
      <3>2. QED
        BY <1>5, <2>1, <3>1 DEF ViewPending
    <2>5. QED
      BY <2>3, <2>4
  <1>6. ViewPending(w, sp2, r)
    BY <1>3, <1>4, <1>5 DEF ViewPending
  <1>7. QED
    BY <1>2, <1>6

\* The open jog ends.
LEMMA ViewEndsJog ==
  ASSUME ViewInv
  PROVE  /\ ViewBook(View!EndJogSpans, View!EndJogRec)
         /\ Len(View!EndJogSpans) = Len(view_spans)
         /\ View!EndJog(view_s) \in ViewSession /\ ~View!EndJog(view_s).jog
         /\ View!EndJog(view_s).held = view_s.held
         /\ ViewPending(view_s.held, View!EndJogSpans, View!EndJogRec)
  <1>0. /\ ViewBook(view_spans, view_rec) /\ view_s \in ViewSession
        /\ ViewPending(view_s.held, view_spans, view_rec)
        /\ ViewJog(view_s, view_spans, view_rec)
    BY DEF ViewInv, ViewWhole
  <1>1. view_s.jog \in BOOLEAN /\ view_s.jogSpan \in Nat /\ view_rec \in ViewRec
    BY <1>0 DEF ViewSession, ViewBook
  <1>2. CASE view_s.jog
    <2>1. /\ view_s.held = <<>>
          /\ view_s.jogSpan # 0 =>
               /\ view_s.jogSpan \in 1..Len(view_spans)
               /\ view_spans[view_s.jogSpan].start + view_spans[view_s.jogSpan].rows
                    = Len(view_rec.rows)
      BY <1>0, <1>2 DEF ViewJog
    <2>2. PICK w, j : w = View!Record(view_rec, 1, view_s.jogSpan) /\ j = view_s.jogSpan
      OBVIOUS
    <2>3. /\ ViewGrown(view_rec, w, j) /\ j \in Nat
          /\ j # 0 => j \in 1..Len(view_spans)
                      /\ view_spans[j].start + view_spans[j].rows = Len(view_rec.rows)
      BY <1>1, <2>1, <2>2, ViewRecords
    <2>4. /\ ViewBook(View!Extend(view_spans, j, view_rec, w), w)
          /\ Len(View!Extend(view_spans, j, view_rec, w)) = Len(view_spans)
      BY <1>0, <2>3, ViewExtends
    <2>5. View!EndJogRec = w /\ View!EndJogSpans = View!Extend(view_spans, j, view_rec, w)
      BY <1>2, <2>2 DEF View!EndJogRec, View!EndJogSpans
    <2>6. PICK u : u = [view_s EXCEPT !.jog = FALSE, !.jogSpan = 0]
      OBVIOUS
    <2>7. u \in ViewSession /\ ~u.jog /\ u.held = view_s.held
      BY <1>0, <2>6 DEF ViewSession
    <2>8. View!EndJog(view_s) = u
      BY <1>2, <2>6 DEF View!EndJog
    <2>9. QED
      BY <2>1, <2>4, <2>5, <2>7, <2>8, ViewNonePending
  <1>3. CASE ~view_s.jog
    BY <1>0, <1>3 DEF View!EndJogRec, View!EndJogSpans, View!EndJog
  <1>4. QED
    BY <1>1, <1>2, <1>3

(* What an arriving command finds: the book with its own span open, the session it meets. *)
ViewMet(n, kind, sp, r, t) ==
  /\ n \in Nat /\ Len(sp) = n + 1 /\ ViewBook(sp, r) /\ RowsOf(r.rows, n + 1) = {}
  /\ t \in ViewSession /\ sp[n + 1].kind = kind
  /\ \E old : Len(old) = n /\ ViewPending(t.held, old, r)
  /\ t.jog => /\ t.held = <<>>
              /\ t.jogSpan # 0 =>
                   t.jogSpan \in 1..n /\ sp[t.jogSpan].start + sp[t.jogSpan].rows = Len(r.rows)

\* A command arrives.
LEMMA ViewArrives ==
  ASSUME ViewInv, NEW kind \in ViewKinds
  PROVE  /\ ViewMet(Len(view_spans), kind, View!Spans0(kind), View!Rec0(kind), View!S0(kind))
         /\ kind # "jog" => ~View!S0(kind).jog
         /\ View!Me = Len(view_spans) + 1
  <1>0. /\ ViewBook(view_spans, view_rec) /\ view_s \in ViewSession
        /\ ViewPending(view_s.held, view_spans, view_rec)
        /\ ViewJog(view_s, view_spans, view_rec)
    BY DEF ViewInv, ViewWhole
  <1>1. PICK n : n = Len(view_spans) /\ n \in Nat
    BY <1>0 DEF ViewBook
  <1>2. CASE kind = "jog"
    <2>1. PICK sp : sp = View!Open(view_spans, view_rec, kind)
      OBVIOUS
    <2>2. /\ ViewBook(sp, view_rec) /\ Len(sp) = n + 1
          /\ \A i \in 1..n : sp[i] = view_spans[i]
          /\ RowsOf(view_rec.rows, n + 1) = {} /\ sp[n + 1].kind = kind
      <3>1. /\ ViewBook(sp, view_rec) /\ Len(sp) = n + 1
            /\ \A i \in 1..n : sp[i] = view_spans[i]
            /\ RowsOf(view_rec.rows, n + 1) = {}
        BY <1>0, <1>1, <2>1, ViewOpens
      <3>2. sp[n + 1].kind = kind
        BY <1>0, <1>1, <2>1 DEF View!Open, ViewBook
      <3>3. QED
        BY <3>1, <3>2
    <2>3. view_s.jog =>
            /\ view_s.held = <<>>
            /\ view_s.jogSpan # 0 =>
                 /\ view_s.jogSpan \in 1..n
                 /\ sp[view_s.jogSpan].start + sp[view_s.jogSpan].rows = Len(view_rec.rows)
      BY <1>0, <1>1, <2>2 DEF ViewJog
    <2>4. ViewMet(n, kind, sp, view_rec, view_s)
      BY <1>0, <1>1, <2>2, <2>3 DEF ViewMet
    <2>5. View!Spans0(kind) = sp /\ View!Rec0(kind) = view_rec /\ View!S0(kind) = view_s
      BY <1>2, <2>1 DEF View!Spans0, View!Rec0, View!S0
    <2>6. QED
      BY <1>1, <1>2, <2>4, <2>5 DEF View!Me
  <1>3. CASE kind # "jog"
    <2>1. PICK old, r, t : old = View!EndJogSpans /\ r = View!EndJogRec /\ t = View!EndJog(view_s)
      OBVIOUS
    <2>2. /\ ViewBook(old, r) /\ Len(old) = n /\ t \in ViewSession /\ ~t.jog
          /\ ViewPending(t.held, old, r)
      BY <1>1, <2>1, ViewEndsJog
    <2>3. PICK sp : sp = View!Open(old, r, kind)
      OBVIOUS
    <2>4. /\ ViewBook(sp, r) /\ Len(sp) = n + 1 /\ RowsOf(r.rows, n + 1) = {}
      BY <2>2, <2>3, ViewOpens
    <2>5. sp[n + 1].kind = kind
      BY <1>1, <2>2, <2>3 DEF View!Open, ViewBook
    <2>6. ViewMet(n, kind, sp, r, t)
      BY <1>1, <2>2, <2>4, <2>5 DEF ViewMet
    <2>7. View!Spans0(kind) = sp /\ View!Rec0(kind) = r /\ View!S0(kind) = t
      BY <1>3, <2>1, <2>3 DEF View!Spans0, View!Rec0, View!S0
    <2>8. QED
      BY <1>1, <2>2, <2>6, <2>7 DEF View!Me
  <1>4. QED
    BY <1>2, <1>3

\* No batch is under way.
LEMMA ViewIdles ==
  View!Idle \in ViewBatch /\ ~View!Idle.on
  <1>0. <<>> \in Seq(ViewItem)
    OBVIOUS
  <1>1. PICK e \in Seq(ViewItem) : e = <<>>
    BY <1>0
  <1>2. PICK b : b = [on |-> FALSE, rest |-> e, for |-> 0, start |-> 0, rows |-> 0, error |-> FALSE]
    OBVIOUS
  <1>3. b \in ViewBatch /\ ~b.on
    BY <1>2 DEF ViewBatch
  <1>4. View!Idle = b
    BY <1>1, <1>2 DEF View!Idle
  <1>5. QED
    BY <1>3, <1>4

\* A command is answered with no rows, or left standing.
LEMMA ViewSettles ==
  ASSUME NEW n, NEW kind, NEW sp, NEW r, NEW t, ViewMet(n, kind, sp, r, t),
         NEW u, ViewSame(t, u), NEW b \in ViewBatch, ~b.on,
         NEW sp2, ViewBook(sp2, r), Len(sp2) = n + 1, \A j \in 1..n : sp2[j] = sp[j]
  PROVE  ViewWhole(u, sp2, r, b)
  <1>0. n \in Nat /\ t \in ViewSession /\ u \in ViewSession /\ u.jog = t.jog
        /\ u.jogSpan = t.jogSpan /\ (u.held = t.held \/ u.held = <<>>)
    BY DEF ViewMet, ViewSame
  <1>1. ViewPending(u.held, sp2, r)
    <2>1. CASE u.held = <<>>
      BY <2>1, ViewNonePending
    <2>2. CASE u.held = t.held
      <3>1. PICK old : Len(old) = n /\ ViewPending(t.held, old, r)
        BY DEF ViewMet
      <3>2. /\ Len(old) \in Nat /\ Len(sp2) \in Nat /\ Len(old) <= Len(sp2)
            /\ \A i \in 1..Len(old) : RowsOf(r.rows, i) = RowsOf(r.rows, i)
        BY <1>0, <3>1
      <3>3. ViewPending(t.held, sp2, r)
        BY <3>1, <3>2, ViewStillPending
      <3>4. QED
        BY <2>2, <3>3
    <2>3. QED
      BY <1>0, <2>1, <2>2
  <1>2. ViewJog(u, sp2, r)
    <2>1. SUFFICES ASSUME u.jog
                   PROVE  /\ u.held = <<>>
                          /\ u.jogSpan # 0 =>
                               /\ u.jogSpan \in 1..Len(sp2)
                               /\ sp2[u.jogSpan].start + sp2[u.jogSpan].rows = Len(r.rows)
      BY DEF ViewJog
    <2>2. /\ t.held = <<>>
          /\ t.jogSpan # 0 =>
               t.jogSpan \in 1..n /\ sp[t.jogSpan].start + sp[t.jogSpan].rows = Len(r.rows)
      BY <1>0, <2>1 DEF ViewMet
    <2>3. CASE u.jogSpan = 0
      BY <1>0, <2>2, <2>3
    <2>4. CASE u.jogSpan # 0
      <3>1. u.jogSpan \in 1..n /\ sp2[u.jogSpan] = sp[u.jogSpan]
        BY <1>0, <2>2, <2>4
      <3>2. u.jogSpan \in 1..Len(sp2)
        BY <1>0, <3>1
      <3>3. QED
        BY <1>0, <2>2, <2>4, <3>1, <3>2
    <2>5. QED
      BY <2>3, <2>4
  <1>3. QED
    BY <1>0, <1>1, <1>2 DEF ViewWhole

\* A command is refused.
LEMMA ViewRefuses ==
  ASSUME NEW n, NEW kind, NEW sp, NEW r, NEW t, ViewMet(n, kind, sp, r, t),
         NEW u, ViewSame(t, u), NEW b \in ViewBatch, ~b.on
  PROVE  ViewWhole(u, View!Close(sp, n + 1, r, r, TRUE), r, b)
  <1>1. /\ n \in Nat /\ Len(sp) = n + 1 /\ ViewBook(sp, r) /\ RowsOf(r.rows, n + 1) = {}
        /\ r \in ViewRec
    BY DEF ViewMet, ViewBook
  <1>2. PICK m, err : m = n + 1 /\ err = TRUE
    OBVIOUS
  <1>3. PICK sp2 : sp2 = View!Close(sp, m, r, r, err)
    OBVIOUS
  <1>4. ViewBook(sp2, r) /\ Len(sp2) = Len(sp) /\ \A j \in 1..Len(sp) : j # m => sp2[j] = sp[j]
    <2>1. /\ ViewBook(sp, r) /\ m \in 1..Len(sp) /\ ViewGrown(r, r, m) /\ RowsOf(r.rows, m) = {}
          /\ err \in BOOLEAN
      BY <1>1, <1>2, ViewGrowthSteps
    <2>2. QED
      BY <1>3, <2>1, ViewCloses
  <1>5. Len(sp2) = n + 1 /\ \A j \in 1..n : sp2[j] = sp[j]
    <2>1. \A j \in 1..n : j \in 1..Len(sp) /\ j # n + 1
      BY <1>1
    <2>2. QED
      BY <1>1, <1>2, <1>4, <2>1
  <1>6. ViewWhole(u, sp2, r, b)
    BY <1>4, <1>5, ViewSettles
  <1>7. QED
    BY <1>2, <1>3, <1>6

\* A command stands, with its span open.
LEMMA ViewStands ==
  ASSUME NEW n, NEW kind, NEW sp, NEW r, NEW t, ViewMet(n, kind, sp, r, t),
         NEW u, ViewSame(t, u), NEW b \in ViewBatch, ~b.on
  PROVE  ViewWhole(u, sp, r, b)
  <1>1. ViewBook(sp, r) /\ Len(sp) = n + 1 /\ \A j \in 1..n : sp[j] = sp[j]
    BY DEF ViewMet
  <1>2. QED
    BY <1>1, ViewSettles

\* A command's motion is recorded as it comes, with whatever waited dropped.
LEMMA ViewStreams ==
  ASSUME NEW n, NEW kind, NEW sp, NEW r, NEW t, ViewMet(n, kind, sp, r, t),
         NEW w, ViewGrown(r, w, n + 1), NEW u \in ViewSession, u.held = <<>>,
         u.jog => u.jogSpan = n + 1, NEW b \in ViewBatch, ~b.on
  PROVE  ViewWhole(u, View!Close(sp, n + 1, r, w, FALSE), w, b)
  <1>1. n \in Nat /\ Len(sp) = n + 1 /\ ViewBook(sp, r) /\ RowsOf(r.rows, n + 1) = {}
    BY DEF ViewMet
  <1>2. PICK m, err : m = n + 1 /\ err = FALSE
    OBVIOUS
  <1>3. PICK sp2 : sp2 = View!Close(sp, m, r, w, err)
    OBVIOUS
  <1>4. /\ ViewBook(sp2, w) /\ Len(sp2) = Len(sp) /\ sp2[m].start + sp2[m].rows = Len(w.rows)
        /\ m \in 1..Len(sp)
    <2>1. m \in 1..Len(sp)
      BY <1>1, <1>2
    <2>2. ViewGrown(r, w, m) /\ RowsOf(r.rows, m) = {}
      BY <1>1, <1>2
    <2>3. err \in BOOLEAN
      BY <1>2
    <2>4. QED
      BY <1>1, <1>3, <2>1, <2>2, <2>3, ViewCloses
  <1>5. ViewPending(u.held, sp2, w)
    BY ViewNonePending
  <1>6. ViewJog(u, sp2, w)
    BY <1>2, <1>4 DEF ViewJog
  <1>7. ViewWhole(u, sp2, w, b)
    BY <1>4, <1>5, <1>6 DEF ViewWhole
  <1>8. QED
    BY <1>2, <1>3, <1>7

\* A command joins the hold.
LEMMA ViewQueues ==
  ASSUME NEW n, NEW kind, NEW sp, NEW r, NEW t, ViewMet(n, kind, sp, r, t), ~t.jog,
         NEW e \in ViewItem, e.span = n + 1, NEW u \in ViewSession, u.held = Append(t.held, e),
         ~u.jog, NEW b \in ViewBatch, ~b.on
  PROVE  ViewWhole(u, sp, r, b)
  <1>1. n \in Nat /\ Len(sp) = n + 1 /\ ViewBook(sp, r) /\ RowsOf(r.rows, n + 1) = {}
    BY DEF ViewMet
  <1>2. PICK old : Len(old) = n /\ ViewPending(t.held, old, r)
    BY DEF ViewMet
  <1>3. /\ Len(old) \in Nat /\ Len(sp) = Len(old) + 1 /\ e.span = Len(old) + 1
        /\ RowsOf(r.rows, Len(old) + 1) = {}
    BY <1>1, <1>2
  <1>4. ViewPending(Append(t.held, e), sp, r)
    BY <1>2, <1>3, ViewJoins
  <1>5. QED
    BY <1>1, <1>4 DEF ViewWhole, ViewJog

\* What is held is taken up, if it may be.
LEMMA ViewTakesUp ==
  ASSUME NEW t, ViewWhole(t, view_spans', view_rec', View!Idle), NEW for \in Nat,
         View!RunHeld(t, for)
  PROVE  ViewInv'
  <1>0. /\ ViewBook(view_spans', view_rec') /\ t \in ViewSession
        /\ ViewPending(t.held, view_spans', view_rec') /\ ViewJog(t, view_spans', view_rec')
        /\ Len(view_rec'.rows) \in Nat
    BY DEF ViewWhole, ViewBook, ViewRec
  <1>1. CASE t.paused \/ t.held = <<>>
    BY <1>1 DEF View!RunHeld, ViewInv
  <1>2. CASE ~(t.paused \/ t.held = <<>>)
    <2>1. /\ view_s' = View!Dropped(t)
          /\ view_batch' = [View!Idle EXCEPT !.on = TRUE, !.rest = t.held, !.for = for,
                                             !.start = Len(view_rec'.rows)]
      BY <1>2 DEF View!RunHeld
    <2>2. PICK q, l : q = t.held /\ l = Len(view_rec'.rows)
      OBVIOUS
    <2>3. q \in Seq(ViewItem) /\ l \in Nat
      BY <1>0, <2>2 DEF ViewPending
    <2>4. PICK b : b = [View!Idle EXCEPT !.on = TRUE, !.rest = q, !.for = for, !.start = l]
      OBVIOUS
    <2>5. b \in ViewBatch /\ b.on /\ b.rest = q
      BY <2>3, <2>4, ViewIdles DEF ViewBatch
    <2>6. ~t.jog
      BY <1>0, <1>2 DEF ViewJog
    <2>7. PICK u : u = View!Dropped(t)
      OBVIOUS
    <2>8. u \in ViewSession /\ ~u.jog /\ u.held = <<>>
      BY <1>0, <2>6, <2>7, ViewSteps DEF ViewSame
    <2>9. ViewWhole(u, view_spans', view_rec', b)
      <3>1. ViewPending(u.held, view_spans', view_rec')
        BY <2>8, ViewNonePending
      <3>2. ViewPending(b.rest, view_spans', view_rec')
        BY <1>0, <2>2, <2>5
      <3>3. QED
        BY <1>0, <2>5, <2>8, <3>1, <3>2 DEF ViewWhole, ViewJog
    <2>10. QED
      BY <2>1, <2>2, <2>4, <2>7, <2>9 DEF ViewInv
  <1>3. QED
    BY <1>1, <1>2

\* The rest of what waits, behind the first n of it.
LEMMA ViewRest ==
  ASSUME NEW q, NEW sp, NEW r, ViewPending(q, sp, r), NEW n \in 1..Len(q), NEW sp2, NEW r2,
         Len(sp2) = Len(sp), ViewBare(q, r2)
  PROVE  ViewPending(SubSeq(q, n + 1, Len(q)), sp2, r2)
  <1>0. q \in Seq(ViewItem) /\ Len(q) \in Nat /\ n \in Nat /\ 1 <= n /\ n <= Len(q)
    BY DEF ViewPending
  <1>1. PICK w, a, l : w = SubSeq(q, a, l) /\ a = n + 1 /\ l = Len(q)
    OBVIOUS
  <1>2. \A i \in a..l : q[i] \in ViewItem
    BY <1>0, <1>1
  <1>3. a \in Int /\ l \in Int
    BY <1>0, <1>1
  <1>4. /\ w \in Seq(ViewItem) /\ Len(w) = IF a <= l THEN l - a + 1 ELSE 0
        /\ \A i \in 1..(l - a + 1) : w[i] = q[a + i - 1]
    BY <1>1, <1>2, <1>3, SubSeqProperties
  <1>5. Len(w) = l - n /\ l - a + 1 = l - n
    BY <1>0, <1>1, <1>4
  <1>6. ASSUME NEW k \in 1..Len(w)
        PROVE  w[k] = q[n + k] /\ n + k \in 2..Len(q) /\ n + k \in 1..Len(q)
    <2>1. k \in 1..(l - a + 1) /\ a + k - 1 = n + k
      BY <1>0, <1>1, <1>5
    <2>2. w[k] = q[n + k]
      BY <1>4, <2>1
    <2>3. QED
      BY <1>0, <1>1, <1>5, <2>2
  <1>7. ASSUME NEW k \in 1..Len(w)
        PROVE  w[k].span \in 1..Len(sp2) /\ RowsOf(r2.rows, w[k].span) = {}
    BY <1>6 DEF ViewPending, ViewBare
  <1>8. ASSUME NEW j \in 1..Len(w), NEW k \in 1..Len(w), j < k
        PROVE  w[j].span < w[k].span
    <2>1. n + j < n + k
      BY <1>0, <1>5, <1>8
    <2>2. QED
      BY <1>6, <2>1 DEF ViewPending
  <1>9. ViewPending(w, sp2, r2)
    BY <1>4, <1>7, <1>8 DEF ViewPending
  <1>10. QED
    BY <1>1, <1>9

\* A function on 1..n is a sequence.
LEMMA ViewSeq ==
  ASSUME NEW S, NEW n \in Nat, NEW f \in [1..n -> S]
  PROVE  f \in Seq(S) /\ Len(f) = n
  OBVIOUS

\* The head of a batch is answered, with the n - 1 behind it folded in.
LEMMA ViewAnswersHead ==
  ASSUME NEW sp, NEW r, NEW w, NEW q, NEW h, NEW n, NEW err,
         ViewHeadReady(sp, r, w, q, h, n, err)
  PROVE  /\ ViewBook(ViewHeadDone(sp, r, w, q, h, n, err), w)
         /\ Len(ViewHeadDone(sp, r, w, q, h, n, err)) = Len(sp) /\ ViewBare(q, w)
  <1> PICK sp2 : sp2 = ViewHeadDone(sp, r, w, q, h, n, err)
    OBVIOUS
  <1> USE DEF ViewHeadReady
  <1>0. /\ sp \in Seq(ViewSpan) /\ Len(sp) \in Nat /\ DOMAIN sp = 1..Len(sp) /\ q \in Seq(ViewItem)
        /\ Len(q) \in Nat /\ n <= Len(q) /\ 1 <= n /\ n \in Nat /\ 1 \in 1..Len(q)
        /\ w \in ViewRec /\ Len(w.rows) \in Nat
    BY DEF ViewBook, ViewPending, ViewGrown, ViewRec
  <1>1. h \in 1..Len(sp) /\ RowsOf(r.rows, h) = {}
    BY <1>0 DEF ViewPending
  <1>2. ASSUME NEW k \in 2..Len(q)
        PROVE  /\ q[k].span \in 1..Len(sp) /\ q[k].span # h /\ RowsOf(w.rows, q[k].span) = {}
    <2>1. k \in 1..Len(q) /\ 1 < k
      BY <1>0
    <2>2. q[k].span \in 1..Len(sp) /\ RowsOf(r.rows, q[k].span) = {} /\ h < q[k].span
      BY <1>0, <2>1 DEF ViewPending
    <2>3. q[k].span # h
      BY <1>1, <2>2
    <2>4. SameBut(w.rows, r.rows, h)
      BY ViewGrowth
    <2>5. RowsOf(w.rows, q[k].span) = RowsOf(r.rows, q[k].span)
      BY <2>3, <2>4, Zenon DEF SameBut
    <2>6. QED
      BY <2>2, <2>3, <2>5
  <1>3. PICK c : c = View!Close(sp, h, r, w, err)
    OBVIOUS
  <1>4. ViewBook(c, w) /\ Len(c) = Len(sp) /\ \A j \in 1..Len(sp) : j # h => c[j] = sp[j]
    BY <1>1, <1>3, ViewCloses
  <1>5. c \in Seq(ViewSpan) /\ DOMAIN c = 1..Len(sp)
    BY <1>0, <1>4 DEF ViewBook
  <1>6. ASSUME NEW i \in 1..Len(sp), RowsOf(w.rows, i) = {}
        PROVE  /\ View!Close(sp, i, w, w, FALSE)[i] \in ViewSpan
               /\ View!Close(sp, i, w, w, FALSE)[i].start = Len(w.rows)
               /\ View!Close(sp, i, w, w, FALSE)[i].rows = 0
    <2>1. PICK u, l : u = sp[i] /\ l = Len(w.rows)
      OBVIOUS
    <2>2. u \in ViewSpan /\ l \in Nat /\ l - l = 0
      BY <1>0, <2>1
    <2>3. PICK z, no : z = 0 /\ no = FALSE
      OBVIOUS
    <2>4. PICK e : e = [u EXCEPT !.start = l, !.rows = z, !.error = no]
      OBVIOUS
    <2>5. e \in ViewSpan /\ e.start = l /\ e.rows = 0
      BY <2>2, <2>3, <2>4 DEF ViewSpan
    <2>6. View!Close(sp, i, w, w, FALSE) = [sp EXCEPT ![i] = e]
      BY <1>0, <2>1, <2>2, <2>3, <2>4 DEF View!Close
    <2>7. [sp EXCEPT ![i] = e][i] = e
      BY <1>0
    <2>8. QED
      BY <2>1, <2>5, <2>6, <2>7
  <1>c. \A i \in 1..Len(sp) :
          /\ c[i] \in ViewSpan
          /\ c[i].kind # "resume" =>
               RowsOf(w.rows, i) = (c[i].start + 1)..(c[i].start + c[i].rows)
    <2>1. \A i \in 1..Len(sp) : c[i] \in ViewSpan
      BY <1>0, <1>4, <1>5
    <2>2. \A i \in 1..Len(sp) : c[i].kind # "resume" =>
               RowsOf(w.rows, i) = (c[i].start + 1)..(c[i].start + c[i].rows)
      BY <1>4 DEF ViewBook
    <2>3. QED
      BY <2>1, <2>2
  <1>7. ASSUME NEW i \in 1..Len(sp)
        PROVE  /\ sp2[i] \in ViewSpan
               /\ sp2[i].kind # "resume" =>
                    RowsOf(w.rows, i) = (sp2[i].start + 1)..(sp2[i].start + sp2[i].rows)
    <2>1. CASE i = h
      <3>1. sp2[i] = c[i]
        BY <1>0, <1>3, <2>1 DEF ViewHeadDone
      <3>2. QED
        BY <3>1, <1>c
    <2>2. CASE i # h /\ \E k \in 2..n : q[k].span = i
      <3>1. RowsOf(w.rows, i) = {}
        <4>1. PICK k \in 2..n : q[k].span = i
          BY <2>2
        <4>2. k \in 2..Len(q)
          BY <1>0
        <4>3. QED
          BY <1>2, <4>1, <4>2
      <3>2. PICK e : e = View!Close(sp, i, w, w, FALSE)[i]
        OBVIOUS
      <3>3. sp2[i] = e
        BY <1>0, <2>2, <3>2 DEF ViewHeadDone
      <3>4. e \in ViewSpan /\ e.start = Len(w.rows) /\ e.rows = 0
        BY <1>6, <3>1, <3>2
      <3>5. (Len(w.rows) + 1)..(Len(w.rows) + 0) = {}
        BY <1>0
      <3>6. QED
        BY <3>1, <3>3, <3>4, <3>5
    <2>3. CASE i # h /\ ~\E k \in 2..n : q[k].span = i
      <3>1. sp2[i] = sp[i] /\ c[i] = sp[i]
        BY <1>0, <1>4, <2>3 DEF ViewHeadDone
      <3>2. QED
        BY <3>1, <1>c
    <2>4. QED
      BY <2>1, <2>2, <2>3
  <1>8. sp2 \in Seq(ViewSpan) /\ Len(sp2) = Len(sp)
    <2>1. sp2 = [i \in 1..Len(sp) |-> sp2[i]]
      BY <1>0 DEF ViewHeadDone
    <2>2. \A i \in 1..Len(sp) : sp2[i] \in ViewSpan
      BY <1>7
    <2>3. sp2 \in [1..Len(sp) -> ViewSpan]
      BY <2>1, <2>2
    <2>4. QED
      BY <1>0, <2>3, ViewSeq
  <1>9. ViewBook(sp2, w)
    BY <1>0, <1>4, <1>7, <1>8 DEF ViewBook
  <1>10. QED
    BY <1>2, <1>8, <1>9 DEF ViewBare

\* The head of the batch under way is answered.
LEMMA ViewDone ==
  ASSUME ViewInv, view_batch.on, NEW n \in 1..Len(view_batch.rest), NEW to,
         ViewGrown(view_rec, to, View!Head1.span), NEW err \in BOOLEAN, NEW t,
         ViewSame(view_s, t), View!Done(to, err, n, t)
  PROVE  ViewInv'
  <1>0. /\ ViewBook(view_spans, view_rec) /\ view_s \in ViewSession /\ view_batch \in ViewBatch
        /\ view_s.held = <<>> /\ ~view_s.jog
        /\ ViewPending(view_batch.rest, view_spans, view_rec)
    BY DEF ViewInv, ViewWhole
  <1>1. PICK q, sp, r, h, bb : /\ q = view_batch.rest /\ sp = view_spans /\ r = view_rec
                               /\ h = q[1].span /\ bb = view_batch
    OBVIOUS
  <1>2. q \in Seq(ViewItem) /\ Len(q) \in Nat /\ n \in 1..Len(q) /\ View!Head1 = q[1]
    BY <1>0, <1>1 DEF ViewPending, View!Head1
  <1>3. ViewBook(sp, r) /\ ViewPending(q, sp, r) /\ ViewGrown(r, to, h)
    BY <1>0, <1>1, <1>2
  <1>4. PICK sp2 : sp2 = ViewHeadDone(sp, r, to, q, h, n, err)
    OBVIOUS
  <1>5. view_spans' = sp2 /\ view_rec' = to /\ view_s' = t
    BY <1>1, <1>2, <1>4 DEF View!Done, ViewHeadDone
  <1>6. ViewBook(sp2, to) /\ Len(sp2) = Len(sp) /\ ViewBare(q, to)
    <2>1. ViewHeadReady(sp, r, to, q, h, n, err)
      BY <1>1, <1>2, <1>3 DEF ViewHeadReady
    <2>2. ViewBook(ViewHeadDone(sp, r, to, q, h, n, err), to)
      BY <2>1, ViewAnswersHead
    <2>3. Len(ViewHeadDone(sp, r, to, q, h, n, err)) = Len(sp)
      BY <2>1, ViewAnswersHead
    <2>4. ViewBare(q, to)
      BY <2>1, ViewAnswersHead
    <2>5. QED
      BY <1>4, <2>2, <2>3, <2>4
  <1>7. PICK rest : rest = SubSeq(q, n + 1, Len(q))
    OBVIOUS
  <1>8. ViewPending(rest, sp2, to)
    BY <1>2, <1>3, <1>6, <1>7, ViewRest
  <1>9. PICK m, e : /\ e = (bb.error \/ err)
                    /\ m = IF bb.error THEN bb.rows ELSE bb.rows + Len(to.rows) - Len(r.rows)
    OBVIOUS
  <1>10. m \in Nat /\ e \in BOOLEAN /\ rest \in Seq(ViewItem) /\ bb \in ViewBatch
    <2>1. bb.rows \in Nat /\ bb.error \in BOOLEAN /\ bb \in ViewBatch
      BY <1>0, <1>1 DEF ViewBatch
    <2>2. Len(to.rows) \in Nat /\ Len(r.rows) \in Nat /\ Len(r.rows) <= Len(to.rows)
      BY <1>3 DEF ViewGrown, ViewRec
    <2>3. m \in Nat
      <3>1. CASE bb.error
        BY <1>9, <2>1, <3>1
      <3>2. CASE ~bb.error
        <4>1. m = bb.rows + Len(to.rows) - Len(r.rows)
          BY <1>9, <3>2
        <4>2. PICK x, y, z : x = bb.rows /\ y = Len(to.rows) /\ z = Len(r.rows)
          OBVIOUS
        <4>3. x \in Nat /\ y \in Nat /\ z \in Nat /\ z <= y /\ m = x + y - z
          BY <2>1, <2>2, <4>1, <4>2
        <4>4. QED
          BY <4>3
      <3>3. QED
        BY <3>1, <3>2
    <2>4. e \in BOOLEAN
      BY <1>9
    <2>5. QED
      BY <1>8, <2>1, <2>3, <2>4 DEF ViewPending
  <1>11. PICK b : b = [bb EXCEPT !.rest = rest, !.error = e, !.rows = m]
    OBVIOUS
  <1>12. b \in ViewBatch /\ b.rest = rest
    BY <1>10, <1>11 DEF ViewBatch
  <1>13. view_batch' = b
    BY <1>1, <1>7, <1>9, <1>11 DEF View!Done
  <1>14. t \in ViewSession /\ t.held = <<>> /\ ~t.jog
    BY <1>0 DEF ViewSame
  <1>15. ViewWhole(t, sp2, to, b)
    BY <1>6, <1>8, <1>12, <1>14, ViewNonePending DEF ViewWhole, ViewJog
  <1>16. QED
    BY <1>5, <1>13, <1>15 DEF ViewInv

\* A record that is kept as it is, with nothing under way.
LEMMA ViewKept ==
  ASSUME NEW t, NEW sp, NEW r, NEW b, ViewWhole(t, sp, r, b), NEW u, ViewSame(t, u),
         NEW c \in ViewBatch, ~c.on
  PROVE  ViewWhole(u, sp, r, c)
  <1>1. ViewPending(u.held, sp, r)
    BY ViewNonePending DEF ViewWhole, ViewSame
  <1>2. ViewJog(u, sp, r)
    BY DEF ViewWhole, ViewSame, ViewJog
  <1>3. QED
    BY <1>1, <1>2 DEF ViewWhole, ViewSame

\* A refusal of an arriving command.
LEMMA ViewRefuseIt ==
  ASSUME ViewInv, NEW kind \in ViewKinds, NEW t, ViewSame(View!S0(kind), t),
         View!RefuseIt(kind, t)
  PROVE  ViewInv'
  <1>1. PICK n, sp, r, m : n = Len(view_spans) /\ sp = View!Spans0(kind) /\ r = View!Rec0(kind)
                           /\ m = View!S0(kind)
    OBVIOUS
  <1>2. ViewMet(n, kind, sp, r, m) /\ View!Me = n + 1
    BY <1>1, ViewArrives
  <1>3. PICK b : b = View!Idle
    OBVIOUS
  <1>4. b \in ViewBatch /\ ~b.on /\ ViewSame(m, t)
    BY <1>1, <1>3, ViewIdles
  <1>5. ViewWhole(t, View!Close(sp, n + 1, r, r, TRUE), r, b)
    BY <1>2, <1>4, ViewRefuses
  <1>6. /\ view_spans' = View!Close(sp, n + 1, r, r, TRUE) /\ view_rec' = r /\ view_s' = t
        /\ view_batch' = b
    BY <1>1, <1>2, <1>3 DEF View!RefuseIt
  <1>7. QED
    BY <1>5, <1>6 DEF ViewInv

\* An arriving command that changes no rows.
LEMMA ViewStandIt ==
  ASSUME ViewInv, NEW kind \in ViewKinds, NEW t, ViewSame(View!S0(kind), t),
         View!StandIt(kind, t)
  PROVE  ViewInv'
  <1>1. PICK n, sp, r, m : n = Len(view_spans) /\ sp = View!Spans0(kind) /\ r = View!Rec0(kind)
                           /\ m = View!S0(kind)
    OBVIOUS
  <1>2. ViewMet(n, kind, sp, r, m)
    BY <1>1, ViewArrives
  <1>3. PICK b : b = View!Idle
    OBVIOUS
  <1>4. b \in ViewBatch /\ ~b.on /\ ViewSame(m, t)
    BY <1>1, <1>3, ViewIdles
  <1>5. ViewWhole(t, sp, r, b)
    BY <1>2, <1>4, ViewStands
  <1>6. view_spans' = sp /\ view_rec' = r /\ view_s' = t /\ view_batch' = b
    BY <1>1, <1>3 DEF View!StandIt
  <1>7. QED
    BY <1>5, <1>6 DEF ViewInv

\* A streamed motion.
LEMMA ViewStreamIt ==
  ASSUME ViewInv, NEW kind \in ViewKinds, NEW ticks \in Nat, NEW t \in ViewSession,
         t.jog => t.jogSpan = View!Me, View!Streamed(kind, ticks, t)
  PROVE  ViewInv'
  <1>1. PICK n, sp, r, m : n = Len(view_spans) /\ sp = View!Spans0(kind) /\ r = View!Rec0(kind)
                           /\ m = View!S0(kind)
    OBVIOUS
  <1>2. ViewMet(n, kind, sp, r, m) /\ View!Me = n + 1
    BY <1>1, ViewArrives
  <1>3. PICK b : b = View!Idle
    OBVIOUS
  <1>4. b \in ViewBatch /\ ~b.on
    BY <1>3, ViewIdles
  <1>5. PICK w, u, d : w = View!Record(r, ticks, n + 1) /\ d = View!Dropped(t)
                       /\ u = View!Answered(d)
    OBVIOUS
  <1>6. ViewGrown(r, w, n + 1)
    <2>1. r \in ViewRec /\ n + 1 \in Nat
      BY <1>2 DEF ViewMet, ViewBook
    <2>2. QED
      BY <1>5, <2>1, ViewRecords
  <1>7. u \in ViewSession /\ u.held = <<>> /\ (u.jog => u.jogSpan = n + 1)
    <2>1. d \in ViewSession /\ d.held = <<>> /\ d.jog = t.jog /\ d.jogSpan = t.jogSpan
      BY <1>5, ViewSteps DEF ViewSame
    <2>2. u \in ViewSession /\ u.held = <<>> /\ u.jog = d.jog /\ u.jogSpan = d.jogSpan
      BY <1>5, <2>1, ViewSteps DEF ViewSame
    <2>3. QED
      BY <1>2, <2>1, <2>2
  <1>8. ViewWhole(u, View!Close(sp, n + 1, r, w, FALSE), w, b)
    BY <1>2, <1>4, <1>6, <1>7, ViewStreams
  <1>9. /\ view_spans' = View!Close(sp, n + 1, r, w, FALSE) /\ view_rec' = w /\ view_s' = u
        /\ view_batch' = b
    BY <1>1, <1>2, <1>3, <1>5 DEF View!Streamed
  <1>10. QED
    BY <1>8, <1>9 DEF ViewInv

\* A command the wire's own validation refuses.
LEMMA ViewInvalid ==
  ASSUME ViewInv, View!SubmitInvalid
  PROVE  ViewInv'
  <1>1. PICK kind : kind = "bad"
    OBVIOUS
  <1>2. /\ kind \in ViewKinds /\ view_s' = view_s /\ view_rec' = view_rec
        /\ view_batch' = view_batch /\ ~view_batch.on
        /\ view_spans' = View!Close(View!Open(view_spans, view_rec, kind), View!Me,
                                    view_rec, view_rec, TRUE)
    BY <1>1 DEF View!SubmitInvalid, View!Arrives
  <1>3. PICK n, sp, r, m : /\ n = Len(view_spans) /\ sp = View!Open(view_spans, view_rec, kind)
                           /\ r = view_rec /\ m = view_s
    OBVIOUS
  <1>4. /\ ViewBook(view_spans, r) /\ m \in ViewSession /\ ViewPending(m.held, view_spans, r)
        /\ ViewJog(m, view_spans, r) /\ view_batch \in ViewBatch
    BY <1>3 DEF ViewInv, ViewWhole
  <1>5. /\ ViewBook(sp, r) /\ Len(sp) = n + 1 /\ \A i \in 1..n : sp[i] = view_spans[i]
        /\ RowsOf(r.rows, n + 1) = {} /\ n \in Nat
    <2>1. n \in Nat
      BY <1>3, <1>4 DEF ViewBook
    <2>2. QED
      BY <1>2, <1>3, <1>4, <2>1, ViewOpens
  <1>6. sp[n + 1].kind = kind
    BY <1>3, <1>4, <1>5 DEF View!Open, ViewBook
  <1>7. m.jog =>
          /\ m.held = <<>>
          /\ m.jogSpan # 0 =>
               m.jogSpan \in 1..n /\ sp[m.jogSpan].start + sp[m.jogSpan].rows = Len(r.rows)
    BY <1>3, <1>4, <1>5 DEF ViewJog
  <1>8. ViewMet(n, kind, sp, r, m)
    <2>1. \E old : Len(old) = n /\ ViewPending(m.held, old, r)
      BY <1>3, <1>4
    <2>2. QED
      BY <1>4, <1>5, <1>6, <1>7, <2>1 DEF ViewMet
  <1>9. PICK b : b = view_batch
    OBVIOUS
  <1>10. b \in ViewBatch /\ ~b.on /\ ViewSame(m, m)
    BY <1>2, <1>4, <1>9, ViewLikeness
  <1>11. ViewWhole(m, View!Close(sp, n + 1, r, r, TRUE), r, b)
    BY <1>8, <1>10, ViewRefuses
  <1>12. /\ view_spans' = View!Close(sp, n + 1, r, r, TRUE) /\ view_rec' = r /\ view_s' = m
         /\ view_batch' = b
    BY <1>2, <1>3, <1>9 DEF View!Me
  <1>13. QED
    BY <1>11, <1>12 DEF ViewInv

\* A command joins the hold, and may set it off.
LEMMA ViewQueued ==
  ASSUME ViewInv, NEW kind, View!SubmitQueued(kind)
  PROVE  ViewInv'
  <1>0. kind \in ViewKinds /\ kind # "jog"
    BY DEF View!SubmitQueued, View!Arrives, View!Queued, View!Moves
  <1>1. PICK n, sp, r, m : n = Len(view_spans) /\ sp = View!Spans0(kind) /\ r = View!Rec0(kind)
                           /\ m = View!S0(kind)
    OBVIOUS
  <1>2. ViewMet(n, kind, sp, r, m) /\ View!Me = n + 1 /\ ~m.jog
    BY <1>0, <1>1, ViewArrives
  <1>3. m \in ViewSession /\ m.held \in Seq(ViewItem) /\ n \in Nat
    BY <1>2 DEF ViewMet, ViewSession
  <1>4. CASE View!Refused(View!S0(kind), kind) \/ kind = "unfit"
    <2>1. View!RefuseIt(kind, m) /\ ViewSame(View!S0(kind), m)
      BY <1>1, <1>3, <1>4, ViewLikeness DEF View!SubmitQueued
    <2>2. QED
      BY <1>0, <2>1, ViewRefuseIt
  <1>5. CASE ~(View!Refused(View!S0(kind), kind) \/ kind = "unfit")
    <2>1. PICK a, e, q, t : /\ a = View!Answered(m) /\ e = [span |-> n + 1, kind |-> kind]
                            /\ q = Append(a.held, e) /\ t = [a EXCEPT !.held = q]
      OBVIOUS
    <2>2. a \in ViewSession /\ a.held = m.held /\ ~a.jog
      BY <1>2, <1>3, <2>1, ViewSteps DEF ViewSame
    <2>3. e \in ViewItem /\ e.span = n + 1
      BY <1>0, <1>3, <2>1 DEF ViewItem
    <2>4. q \in Seq(ViewItem) /\ q = Append(m.held, e)
      BY <1>3, <2>1, <2>2, <2>3
    <2>5. t \in ViewSession /\ t.held = Append(m.held, e) /\ ~t.jog
      <3>0. t = [a EXCEPT !.held = q] /\ a \in ViewSession /\ q \in Seq(ViewItem)
        BY <2>1, <2>2, <2>4
      <3>1. t \in ViewSession /\ t.held = q /\ t.jog = a.jog
        BY <3>0 DEF ViewSession
      <3>2. QED
        BY <2>2, <2>4, <3>1
    <2>6. PICK b : b = View!Idle
      OBVIOUS
    <2>7. b \in ViewBatch /\ ~b.on
      BY <2>6, ViewIdles
    <2>8. ViewWhole(t, sp, r, b)
      BY <1>2, <2>3, <2>5, <2>7, ViewQueues
    <2>9. /\ view_spans' = sp /\ view_rec' = r
          /\ (view_s' = t /\ view_batch' = b) \/ View!RunHeld(t, n + 1)
      BY <1>1, <1>2, <1>5, <2>1, <2>6 DEF View!SubmitQueued
    <2>10. CASE view_s' = t /\ view_batch' = b
      BY <2>8, <2>9, <2>10 DEF ViewInv
    <2>11. CASE View!RunHeld(t, n + 1)
      <3>1. ViewWhole(t, view_spans', view_rec', View!Idle) /\ n + 1 \in Nat
        BY <1>3, <2>6, <2>8, <2>9
      <3>2. QED
        BY <2>11, <3>1, ViewTakesUp
    <2>12. QED
      BY <2>9, <2>10, <2>11
  <1>6. QED
    BY <1>4, <1>5

\* A resume.
LEMMA ViewResumes ==
  ASSUME ViewInv, View!SubmitResume
  PROVE  ViewInv'
  <1>p. PICK kind : kind = "resume"
    OBVIOUS
  <1>0. kind \in ViewKinds
    BY <1>p DEF View!SubmitResume, View!Arrives
  <1>1. PICK n, sp, r, m : n = Len(view_spans) /\ sp = View!Spans0(kind) /\ r = View!Rec0(kind)
                           /\ m = View!S0(kind)
    OBVIOUS
  <1>2. ViewMet(n, kind, sp, r, m) /\ View!Me = n + 1
    BY <1>0, <1>1, ViewArrives
  <1>3. m \in ViewSession /\ n \in Nat
    BY <1>2 DEF ViewMet
  <1>4. PICK t, b : t = View!Unpaused(m) /\ b = View!Idle
    OBVIOUS
  <1>5. ViewSame(m, t) /\ b \in ViewBatch /\ ~b.on
    BY <1>3, <1>4, ViewSteps, ViewIdles
  <1>6. ViewWhole(t, sp, r, b)
    BY <1>2, <1>5, ViewStands
  <1>7. /\ view_spans' = sp /\ view_rec' = r
        /\ (view_s' = t /\ view_batch' = b) \/ View!RunHeld(t, n + 1)
    BY <1>p, <1>1, <1>2, <1>4 DEF View!SubmitResume
  <1>8. CASE view_s' = t /\ view_batch' = b
    BY <1>6, <1>7, <1>8 DEF ViewInv
  <1>9. CASE View!RunHeld(t, n + 1)
    <2>1. ViewWhole(t, view_spans', view_rec', View!Idle) /\ n + 1 \in Nat
      BY <1>3, <1>4, <1>6, <1>7
    <2>2. QED
      BY <1>9, <2>1, ViewTakesUp
  <1>10. QED
    BY <1>7, <1>8, <1>9

\* A joint jog.
LEMMA ViewJogs ==
  ASSUME ViewInv, View!SubmitJog
  PROVE  ViewInv'
  <1>p. PICK kind : kind = "jog"
    OBVIOUS
  <1>0. kind \in ViewKinds /\ View!S0(kind) = view_s /\ view_s \in ViewSession
    BY <1>p DEF View!SubmitJog, View!Arrives, View!S0, ViewInv, ViewWhole
  <1>1. View!Me = Len(view_spans) + 1 /\ Len(view_spans) \in Nat
    BY DEF View!Me, ViewInv, ViewWhole, ViewBook
  <1>2. PICK me, yes, no, d : /\ me = View!Me /\ yes = TRUE /\ no = FALSE
                              /\ d = View!Dropped(view_s)
    OBVIOUS
  <1>3. PICK t, u : /\ t = [view_s EXCEPT !.jog = yes, !.jogSpan = me]
                    /\ u = [view_s EXCEPT !.jog = no, !.jogSpan = me]
    OBVIOUS
  <1>4. me \in Nat
    BY <1>1, <1>2
  <1>5. t \in ViewSession /\ t.jogSpan = me /\ u \in ViewSession /\ ~u.jog
    BY <1>0, <1>2, <1>3, <1>4 DEF ViewSession
  <1>6. \/ View!RefuseIt(kind, view_s) \/ View!RefuseIt(kind, d)
        \/ View!Streamed(kind, 2, t) \/ View!Streamed(kind, 3, u)
    BY <1>p, <1>2, <1>3 DEF View!SubmitJog, View!Blocked
  <1>7. CASE View!RefuseIt(kind, view_s)
    <2>1. PICK s : s = view_s
      OBVIOUS
    <2>2. View!RefuseIt(kind, s) /\ ViewSame(View!S0(kind), s)
      BY <1>0, <1>7, <2>1, ViewLikeness
    <2>3. QED
      BY <1>0, <2>2, ViewRefuseIt
  <1>8. CASE View!RefuseIt(kind, d)
    <2>1. ViewSame(View!S0(kind), d)
      BY <1>0, <1>2, ViewSteps
    <2>2. QED
      BY <1>0, <1>8, <2>1, ViewRefuseIt
  <1>9. CASE View!Streamed(kind, 2, t)
    BY <1>0, <1>2, <1>5, <1>9, ViewStreamIt
  <1>10. CASE View!Streamed(kind, 3, u)
    BY <1>0, <1>2, <1>5, <1>10, ViewStreamIt
  <1>11. QED
    BY <1>6, <1>7, <1>8, <1>9, <1>10

\* A cartesian jog or servo.
LEMMA ViewCartesian ==
  ASSUME ViewInv, NEW kind \in ViewKinds, kind # "jog",
         \/ View!RefuseIt(kind, View!S0(kind)) \/ View!Blocked(kind, View!S0(kind))
         \/ View!Streamed(kind, 2, View!S0(kind))
  PROVE  ViewInv'
  <1>1. PICK m, d : m = View!S0(kind) /\ d = View!Dropped(m)
    OBVIOUS
  <1>2. m \in ViewSession /\ ~m.jog
    BY <1>1, ViewArrives DEF ViewMet
  <1>3. ViewSame(m, m) /\ ViewSame(m, d)
    BY <1>1, <1>2, ViewLikeness, ViewSteps
  <1>4. View!RefuseIt(kind, m) \/ View!RefuseIt(kind, d) \/ View!Streamed(kind, 2, m)
    BY <1>1 DEF View!Blocked
  <1>5. CASE View!RefuseIt(kind, m)
    <2>1. ViewSame(View!S0(kind), m)
      BY <1>1, <1>3
    <2>2. QED
      BY <1>5, <2>1, ViewRefuseIt
  <1>6. CASE View!RefuseIt(kind, d)
    <2>1. ViewSame(View!S0(kind), d)
      BY <1>1, <1>3
    <2>2. QED
      BY <1>6, <2>1, ViewRefuseIt
  <1>7. CASE View!Streamed(kind, 2, m)
    BY <1>2, <1>7, ViewStreamIt
  <1>8. QED
    BY <1>4, <1>5, <1>6, <1>7

\* A joint servo target, planned outside the hold.
LEMMA ViewServos ==
  ASSUME ViewInv, View!SubmitServo
  PROVE  ViewInv'
  <1>p. PICK kind : kind = "servo"
    OBVIOUS
  <1>0. kind \in ViewKinds /\ kind # "jog"
    BY <1>p DEF View!SubmitServo, View!Arrives
  <1>1. PICK n, sp, r, m : n = Len(view_spans) /\ sp = View!Spans0(kind) /\ r = View!Rec0(kind)
                           /\ m = View!S0(kind)
    OBVIOUS
  <1>2. ViewMet(n, kind, sp, r, m) /\ View!Me = n + 1 /\ ~m.jog
    BY <1>0, <1>1, ViewArrives
  <1>3. /\ m \in ViewSession /\ n \in Nat /\ Len(sp) = n + 1 /\ ViewBook(sp, r)
        /\ RowsOf(r.rows, n + 1) = {} /\ Len(r.rows) \in Nat
    BY <1>2 DEF ViewMet, ViewBook, ViewRec
  <1>4. CASE View!Refused(View!S0("servo"), "servo")
    <2>1. View!RefuseIt(kind, m) /\ ViewSame(View!S0(kind), m)
      BY <1>p, <1>1, <1>3, <1>4, ViewLikeness DEF View!SubmitServo
    <2>2. QED
      BY <1>0, <2>1, ViewRefuseIt
  <1>5. CASE ~View!Refused(View!S0("servo"), "servo")
    <2>1. PICK d, e, q, l, me : /\ d = View!Dropped(m) /\ e = [span |-> n + 1, kind |-> "move"]
                                /\ q = <<e>> /\ l = Len(r.rows) /\ me = n + 1
      OBVIOUS
    <2>2. d \in ViewSession /\ d.held = <<>> /\ ~d.jog
      BY <1>2, <1>3, <2>1, ViewSteps DEF ViewSame
    <2>3. e \in ViewItem /\ e.span = n + 1
      BY <1>3, <2>1 DEF ViewItem
    <2>4. q \in Seq(ViewItem) /\ Len(q) = 1 /\ q[1] = e
      BY <2>1, <2>3
    <2>5. ViewPending(q, sp, r)
      <3>1. n + 1 \in 1..Len(sp)
        BY <1>3
      <3>2. ASSUME NEW k \in 1..Len(q)
            PROVE  q[k].span \in 1..Len(sp) /\ RowsOf(r.rows, q[k].span) = {}
        <4>1. k = 1
          BY <2>4
        <4>2. QED
          BY <1>3, <2>3, <2>4, <3>1, <4>1
      <3>3. ASSUME NEW j \in 1..Len(q), NEW k \in 1..Len(q), j < k
            PROVE  q[j].span < q[k].span
        BY <2>4, <3>3
      <3>4. QED
        BY <2>4, <3>2, <3>3 DEF ViewPending
    <2>6. PICK b : b = [View!Idle EXCEPT !.on = TRUE, !.start = l, !.rest = q, !.for = me]
      OBVIOUS
    <2>7. b \in ViewBatch /\ b.rest = q
      <3>1. l \in Nat /\ me \in Nat
        BY <1>3, <2>1
      <3>2. QED
        BY <2>4, <2>6, <3>1, ViewIdles DEF ViewBatch
    <2>8. ViewWhole(d, sp, r, b)
      BY <1>3, <2>2, <2>5, <2>7, ViewNonePending DEF ViewWhole, ViewJog
    <2>9. view_spans' = sp /\ view_rec' = r /\ view_s' = d
      BY <1>p, <1>1, <1>5, <2>1 DEF View!SubmitServo
    <2>10. view_batch' = b
      BY <1>2, <1>5, <2>1, <2>6, <2>9 DEF View!SubmitServo
    <2>11. QED
      BY <2>8, <2>9, <2>10 DEF ViewInv
  <1>6. QED
    BY <1>4, <1>5

\* A teleport.
LEMMA ViewTeleports ==
  ASSUME ViewInv, View!SubmitTeleport
  PROVE  ViewInv'
  <1>p. PICK kind : kind = "teleport"
    OBVIOUS
  <1>0. kind \in ViewKinds /\ kind # "jog"
    BY <1>p DEF View!SubmitTeleport, View!Arrives
  <1>1. PICK n, sp, r, m : n = Len(view_spans) /\ sp = View!Spans0(kind) /\ r = View!Rec0(kind)
                           /\ m = View!S0(kind)
    OBVIOUS
  <1>2. ViewMet(n, kind, sp, r, m) /\ View!Me = n + 1 /\ ~m.jog
    BY <1>0, <1>1, ViewArrives
  <1>3. m \in ViewSession /\ n \in Nat /\ r \in ViewRec
    BY <1>2 DEF ViewMet, ViewBook
  <1>4. CASE View!Refused(View!S0("teleport"), "teleport")
    <2>1. View!RefuseIt(kind, m) /\ ViewSame(View!S0(kind), m)
      BY <1>p, <1>1, <1>3, <1>4, ViewLikeness DEF View!SubmitTeleport
    <2>2. QED
      BY <1>0, <2>1, ViewRefuseIt
  <1>5. CASE ~View!Refused(View!S0("teleport"), "teleport")
    <2>1. PICK d, yes, w, b : /\ d = View!Dropped(m) /\ yes = TRUE
                              /\ w = View!Mark(r, n + 1) /\ b = View!Idle
      OBVIOUS
    <2>2. PICK u : u = [d EXCEPT !.homed = yes]
      OBVIOUS
    <2>3. d \in ViewSession /\ d.held = <<>> /\ ~d.jog
      BY <1>2, <1>3, <2>1, ViewSteps DEF ViewSame
    <2>4. yes \in BOOLEAN
      BY <2>1
    <2>5. u \in ViewSession /\ u.held = <<>> /\ ~u.jog
      BY <2>2, <2>3, <2>4 DEF ViewSession
    <2>6. b \in ViewBatch /\ ~b.on
      BY <2>1, ViewIdles
    <2>7. ViewGrown(r, w, n + 1)
      <3>1. n + 1 \in Nat
        BY <1>3
      <3>2. QED
        BY <1>3, <2>1, <3>1, ViewMarks
    <2>8. ViewWhole(u, View!Close(sp, n + 1, r, w, FALSE), w, b)
      BY <1>2, <2>5, <2>6, <2>7, ViewStreams
    <2>9. view_rec' = w /\ view_batch' = b
      BY <1>p, <1>1, <1>2, <1>5, <2>1 DEF View!SubmitTeleport
    <2>10. view_spans' = View!Close(sp, n + 1, r, w, FALSE)
      BY <1>p, <1>1, <1>2, <1>5, <2>9 DEF View!SubmitTeleport
    <2>11. view_s' = u
      BY <1>p, <1>1, <1>5, <2>1, <2>2 DEF View!SubmitTeleport
    <2>12. QED
      BY <2>8, <2>9, <2>10, <2>11 DEF ViewInv
  <1>6. QED
    BY <1>4, <1>5

\* The system commands.
LEMMA ViewSystems ==
  ASSUME ViewInv, NEW kind, View!SubmitSystem(kind)
  PROVE  ViewInv'
  <1>0. /\ kind \in ViewKinds
        /\ kind \in {"stop", "clear", "estop", "reset", "reset_state", "sim", "hardware",
                     "flash", "pause", "profile"}
    BY DEF View!SubmitSystem, View!Arrives
  <1>1. PICK m, t : m = View!S0(kind) /\ t = View!SystemEffect(kind, m)
    OBVIOUS
  <1>2. m \in ViewSession
    BY <1>0, <1>1, ViewArrives DEF ViewMet
  <1>3. ViewSame(m, t) /\ ViewSame(m, m)
    BY <1>0, <1>1, <1>2, ViewSystem, ViewLikeness
  <1>4. ViewSame(View!S0(kind), t) /\ ViewSame(View!S0(kind), m)
    BY <1>1, <1>3
  <1>5. View!StandIt(kind, t) \/ View!RefuseIt(kind, m)
    BY <1>1 DEF View!SubmitSystem
  <1>6. CASE View!StandIt(kind, t)
    BY <1>0, <1>4, <1>6, ViewStandIt
  <1>7. CASE View!RefuseIt(kind, m)
    BY <1>0, <1>4, <1>7, ViewRefuseIt
  <1>8. QED
    BY <1>5, <1>6, <1>7

\* Flashing ends.
LEMMA ViewUnflashes ==
  ASSUME ViewInv, View!SubmitExitFlashing
  PROVE  ViewInv'
  <1>p. PICK kind, no : kind = "unflash" /\ no = FALSE
    OBVIOUS
  <1>0. kind \in ViewKinds /\ no \in BOOLEAN
    BY <1>p DEF View!SubmitExitFlashing, View!Arrives
  <1>1. PICK m, t : m = View!S0(kind) /\ t = [m EXCEPT !.flashing = no]
    OBVIOUS
  <1>2. m \in ViewSession
    BY <1>0, <1>1, ViewArrives DEF ViewMet
  <1>3. ViewSame(m, t) /\ ViewSame(m, m)
    BY <1>0, <1>1, <1>2, ViewMarked, ViewLikeness
  <1>4. ViewSame(View!S0(kind), t) /\ ViewSame(View!S0(kind), m)
    BY <1>1, <1>3
  <1>5. View!StandIt(kind, t) \/ View!RefuseIt(kind, m)
    BY <1>p, <1>1 DEF View!SubmitExitFlashing
  <1>6. CASE View!StandIt(kind, t)
    BY <1>0, <1>4, <1>6, ViewStandIt
  <1>7. CASE View!RefuseIt(kind, m)
    BY <1>0, <1>4, <1>7, ViewRefuseIt
  <1>8. QED
    BY <1>5, <1>6, <1>7

\* Attached parts.
LEMMA ViewShapes ==
  ASSUME ViewInv, View!SubmitShapes
  PROVE  ViewInv'
  <1>p. PICK kind, yes : kind = "shapes" /\ yes = TRUE
    OBVIOUS
  <1>0. kind \in ViewKinds /\ yes \in BOOLEAN
    BY <1>p DEF View!SubmitShapes, View!Arrives
  <1>1. PICK m, a, t : /\ m = View!S0(kind) /\ a = [m EXCEPT !.attached = yes]
                       /\ t = [a EXCEPT !.fresh = yes]
    OBVIOUS
  <1>2. m \in ViewSession
    BY <1>0, <1>1, ViewArrives DEF ViewMet
  <1>3. ViewSame(m, a) /\ ViewSame(m, m)
    BY <1>0, <1>1, <1>2, ViewMarked, ViewLikeness
  <1>4. ViewSame(a, t)
    BY <1>0, <1>1, <1>3, ViewMarked DEF ViewSame
  <1>5. ViewSame(View!S0(kind), t) /\ ViewSame(View!S0(kind), m)
    BY <1>1, <1>3, <1>4, ViewLikeness
  <1>6. View!StandIt(kind, t) \/ View!RefuseIt(kind, m)
    BY <1>p, <1>1 DEF View!SubmitShapes
  <1>7. CASE View!StandIt(kind, t)
    BY <1>0, <1>5, <1>7, ViewStandIt
  <1>8. CASE View!RefuseIt(kind, m)
    BY <1>0, <1>5, <1>8, ViewRefuseIt
  <1>9. QED
    BY <1>6, <1>7, <1>8

\* The batch under way has a head, and one command behind another.
LEMMA ViewHead ==
  ASSUME ViewInv, view_batch.on, view_batch.rest # <<>>
  PROVE  /\ 1 \in 1..Len(view_batch.rest) /\ View!Head1.span \in Nat
         /\ view_rec \in ViewRec /\ view_s \in ViewSession
         /\ ViewSame(view_s, view_s)
         /\ ViewGrown(view_rec, view_rec, View!Head1.span)
  <1>1. /\ view_batch.rest \in Seq(ViewItem) /\ view_rec \in ViewRec /\ view_s \in ViewSession
    BY DEF ViewInv, ViewWhole, ViewPending, ViewBook
  <1>2. View!Head1 \in ViewItem /\ 1 \in 1..Len(view_batch.rest)
    BY <1>1 DEF View!Head1
  <1>3. View!Head1.span \in Nat
    BY <1>2 DEF ViewItem
  <1>4. QED
    BY <1>1, <1>2, <1>3, ViewGrowthSteps, ViewLikeness

\* The planner refuses the head, and drops what is behind it.
LEMMA ViewPlannerRefuses ==
  ASSUME ViewInv, View!PlannerRefuses
  PROVE  ViewInv'
  <1>0. /\ view_batch.on /\ view_batch.rest # <<>> /\ view_s' = view_s /\ view_rec' = view_rec
        /\ view_batch' = [view_batch EXCEPT !.rest = <<>>, !.error = TRUE]
        /\ view_spans' = [i \in DOMAIN view_spans |->
                            IF i = View!Head1.span
                            THEN View!Close(view_spans, i, view_rec, view_rec, TRUE)[i]
                            ELSE view_spans[i]]
    BY DEF View!PlannerRefuses
  <1>1. /\ ViewBook(view_spans, view_rec) /\ view_s \in ViewSession /\ view_batch \in ViewBatch
        /\ view_s.held = <<>> /\ ~view_s.jog
        /\ ViewPending(view_batch.rest, view_spans, view_rec)
    BY <1>0 DEF ViewInv, ViewWhole
  <1>2. PICK q, sp, r, h, bb, m : /\ q = view_batch.rest /\ sp = view_spans /\ r = view_rec
                                  /\ h = q[1].span /\ bb = view_batch /\ m = view_s
    OBVIOUS
  <1>3. PICK n, yes, e : n = 1 /\ yes = TRUE /\ e = <<>>
    OBVIOUS
  <1>4. ViewHeadReady(sp, r, r, q, h, n, yes)
    <2>1. View!Head1 = q[1] /\ n \in 1..Len(q) /\ ViewGrown(r, r, h)
      <3>1. 1 \in 1..Len(q) /\ ViewGrown(r, r, View!Head1.span)
        BY <1>0, <1>2, ViewHead
      <3>2. View!Head1 = q[1]
        BY <1>2 DEF View!Head1
      <3>3. QED
        BY <1>2, <1>3, <3>1, <3>2
    <2>2. yes \in BOOLEAN
      BY <1>3
    <2>3. QED
      BY <1>1, <1>2, <2>1, <2>2 DEF ViewHeadReady
  <1>5. ViewBook(ViewHeadDone(sp, r, r, q, h, n, yes), r)
    BY <1>4, ViewAnswersHead
  <1>6. view_spans' = ViewHeadDone(sp, r, r, q, h, n, yes)
    <2>1. 2..n = {}
      BY <1>3
    <2>2. View!Head1 = q[1]
      BY <1>2 DEF View!Head1
    <2>3. QED
      BY <1>0, <1>2, <1>3, <2>1, <2>2 DEF ViewHeadDone
  <1>7. PICK b : b = [bb EXCEPT !.rest = e, !.error = yes]
    OBVIOUS
  <1>8. b \in ViewBatch /\ b.rest = e
    <2>1. e \in Seq(ViewItem) /\ yes \in BOOLEAN /\ bb \in ViewBatch
      BY <1>1, <1>2, <1>3
    <2>2. QED
      BY <1>7, <2>1 DEF ViewBatch
  <1>9. view_batch' = b
    BY <1>0, <1>2, <1>3, <1>7
  <1>10. PICK sp2 : sp2 = ViewHeadDone(sp, r, r, q, h, n, yes)
    OBVIOUS
  <1>11. ViewWhole(m, sp2, r, b)
    <2>1. ViewBook(sp2, r)
      BY <1>5, <1>10
    <2>2. ViewPending(e, sp2, r)
      BY <1>3, ViewNonePending
    <2>3. m \in ViewSession /\ m.held = <<>> /\ ~m.jog
      BY <1>1, <1>2
    <2>4. QED
      BY <1>3, <1>8, <2>1, <2>2, <2>3 DEF ViewWhole, ViewJog
  <1>12. QED
    BY <1>0, <1>2, <1>6, <1>9, <1>10, <1>11 DEF ViewInv

\* The heads that are answered.
LEMMA ViewPlans ==
  ASSUME ViewInv,
         \/ View!GateAtTurn \/ View!PlanMove \/ View!PlanHome \/ View!PlanHold \/ View!PlanTool
         \/ View!PlanSelect
  PROVE  ViewInv'
  <1>0. view_batch.on /\ view_batch.rest # <<>>
    BY DEF View!GateAtTurn, View!PlanMove, View!PlanHome, View!PlanHold, View!PlanTool,
           View!PlanSelect, View!Planning
  <1>1. PICK h, r, t, n : h = View!Head1.span /\ r = view_rec /\ t = view_s /\ n = 1
    OBVIOUS
  <1>2. /\ n \in 1..Len(view_batch.rest) /\ h \in Nat /\ r \in ViewRec /\ t \in ViewSession
        /\ ViewSame(view_s, t) /\ ViewGrown(view_rec, r, View!Head1.span)
    BY <1>0, <1>1, ViewHead
  <1>3. PICK yes, no : yes = TRUE /\ no = FALSE
    OBVIOUS
  <1>4. yes \in BOOLEAN /\ no \in BOOLEAN
    BY <1>3
  <1>5. \A k \in Nat : ViewGrown(view_rec, View!Record(r, k, h), View!Head1.span)
    BY <1>1, <1>2, ViewRecords
  <1>6. CASE View!GateAtTurn
    <2>1. View!Done(r, yes, n, t)
      BY <1>1, <1>3, <1>6 DEF View!GateAtTurn
    <2>2. QED
      BY <1>0, <1>2, <1>4, <2>1, ViewDone
  <1>7. CASE View!PlanMove
    <2>1. PICK m \in View!Chain : View!Done(View!Record(r, 2, h), no, m, t)
      BY <1>1, <1>3, <1>7 DEF View!PlanMove
    <2>2. m \in 1..Len(view_batch.rest)
      BY DEF View!Chain
    <2>3. PICK to : to = View!Record(r, 2, h)
      OBVIOUS
    <2>4. ViewGrown(view_rec, to, View!Head1.span) /\ View!Done(to, no, m, t)
      BY <1>5, <2>1, <2>3
    <2>5. QED
      BY <1>0, <1>2, <1>4, <2>2, <2>4, ViewDone
  <1>8. CASE View!PlanHome
    <2>1. PICK landed, u : /\ landed = (IF view_s.homed THEN r ELSE View!Mark(r, h))
                           /\ u = [t EXCEPT !.homed = yes]
      OBVIOUS
    <2>2. PICK to : to = View!Record(landed, 2, h)
      OBVIOUS
    <2>3. ViewGrown(r, landed, h)
      BY <1>1, <1>2, <2>1, ViewMarks
    <2>4. ViewGrown(landed, to, h)
      BY <1>2, <2>2, <2>3, ViewRecords DEF ViewGrown
    <2>5. ViewGrown(r, to, h)
      BY <2>3, <2>4, ViewGrowthSteps
    <2>6. ViewSame(t, u)
      BY <1>2, <1>4, <2>1, ViewMarked
    <2>7. View!Done(to, no, n, u)
      BY <1>1, <1>3, <1>8, <2>1, <2>2 DEF View!PlanHome
    <2>8. ViewGrown(view_rec, to, View!Head1.span) /\ ViewSame(view_s, u)
      BY <1>1, <2>5, <2>6
    <2>9. QED
      BY <1>0, <1>2, <1>4, <2>7, <2>8, ViewDone
  <1>9. CASE View!PlanHold \/ View!PlanTool
    <2>1. PICK to : to = View!Record(r, 1, h)
      OBVIOUS
    <2>2. View!Done(to, no, n, t)
      BY <1>1, <1>3, <1>9, <2>1 DEF View!PlanHold, View!PlanTool
    <2>3. ViewGrown(view_rec, to, View!Head1.span)
      BY <1>5, <2>1
    <2>4. QED
      BY <1>0, <1>2, <1>4, <2>2, <2>3, ViewDone
  <1>10. CASE View!PlanSelect
    <2>1. PICK u : u = View!Stale(t)
      OBVIOUS
    <2>2. View!Done(r, no, n, t) \/ View!Done(r, no, n, u)
      BY <1>1, <1>3, <1>10, <2>1 DEF View!PlanSelect
    <2>3. ViewSame(view_s, u)
      BY <1>1, <1>2, <2>1, ViewSteps
    <2>4. CASE View!Done(r, no, n, t)
      BY <1>0, <1>2, <1>4, <2>4, ViewDone
    <2>5. CASE View!Done(r, no, n, u)
      BY <1>0, <1>2, <1>4, <2>3, <2>5, ViewDone
    <2>6. QED
      BY <2>2, <2>4, <2>5
  <1>11. QED
    BY <1>6, <1>7, <1>8, <1>9, <1>10

\* The combined result goes back; only a resume's span is written.
LEMMA ViewReturns ==
  ASSUME ViewInv, View!ReturnBatch
  PROVE  ViewInv'
  <1>0. /\ view_batch.on /\ view_s' = view_s /\ view_rec' = view_rec /\ view_batch' = View!Idle
    BY DEF View!ReturnBatch
  <1>1. /\ ViewBook(view_spans, view_rec) /\ view_s \in ViewSession /\ view_batch \in ViewBatch
        /\ view_s.held = <<>> /\ ~view_s.jog
    BY <1>0 DEF ViewInv, ViewWhole
  <1>2. PICK sp, r, f, m, b : /\ sp = view_spans /\ r = view_rec /\ f = view_batch.for
                              /\ m = view_s /\ b = View!Idle
    OBVIOUS
  <1>3. PICK x, y, z : x = view_batch.start /\ y = view_batch.rows /\ z = view_batch.error
    OBVIOUS
  <1>4. x \in Nat /\ y \in Nat /\ z \in BOOLEAN
    BY <1>1, <1>3 DEF ViewBatch
  <1>5. PICK u : u = [sp[f] EXCEPT !.start = x, !.rows = y, !.error = z]
    OBVIOUS
  <1>6. sp \in Seq(ViewSpan) /\ r \in ViewRec /\ ViewBook(sp, r)
    BY <1>1, <1>2 DEF ViewBook
  <1>7. ViewBook(view_spans', r)
    <2>1. view_spans' = IF f # 0 /\ sp[f].kind = "resume" THEN [sp EXCEPT ![f] = u] ELSE sp
      BY <1>2, <1>3, <1>5 DEF View!ReturnBatch
    <2>2. CASE f \in 1..Len(sp) /\ sp[f].kind = "resume"
      <3>1. sp[f] \in ViewSpan
        BY <1>6, <2>2
      <3>2. u \in ViewSpan /\ u.kind = "resume"
        BY <1>4, <1>5, <2>2, <3>1 DEF ViewSpan
      <3>3. ViewGrown(r, r, f)
        BY <1>6, ViewGrowthSteps
      <3>4. ViewBook([sp EXCEPT ![f] = u], r)
        BY <1>6, <2>2, <3>2, <3>3, ViewChanges
      <3>5. view_spans' = sp \/ view_spans' = [sp EXCEPT ![f] = u]
        BY <2>1
      <3>6. QED
        BY <1>6, <3>4, <3>5
    <2>3. CASE ~(f \in 1..Len(sp) /\ sp[f].kind = "resume")
      <3>1. view_spans' = sp
        <4>1. CASE f \notin 1..Len(sp)
          <5>1. [sp EXCEPT ![f] = u] = sp
            BY <1>6, <4>1
          <5>2. QED
            BY <2>1, <5>1
        <4>2. CASE f \in 1..Len(sp)
          BY <2>1, <2>3, <4>2
        <4>3. QED
          BY <4>1, <4>2
      <3>2. QED
        BY <1>6, <3>1
    <2>4. QED
      BY <2>2, <2>3
  <1>8. PICK sp2 : sp2 = view_spans'
    OBVIOUS
  <1>9. ViewWhole(m, sp2, r, b)
    <2>1. ViewBook(sp2, r)
      BY <1>7, <1>8
    <2>2. b \in ViewBatch /\ ~b.on
      BY <1>2, ViewIdles
    <2>3. m \in ViewSession /\ m.held = <<>> /\ ~m.jog
      BY <1>1, <1>2
    <2>4. QED
      BY <2>1, <2>2, <2>3, ViewNonePending DEF ViewWhole, ViewJog
  <1>10. QED
    BY <1>0, <1>2, <1>8, <1>9 DEF ViewInv

\* The book of a program that begins.
LEMMA ViewFresh ==
  ASSUME NEW sp, NEW r, sp = <<>>, r = [rows |-> <<>>, since |-> ViewStride - 1]
  PROVE  ViewBook(sp, r) /\ Len(r.rows) = 0 /\ Len(sp) = 0
  <1>1. <<>> \in Seq(ViewSpan) /\ <<>> \in Seq(Nat) /\ Len(<<>>) = 0
    OBVIOUS
  <1>2. ViewStride - 1 \in 0..(ViewStride - 1)
    BY ViewAssumption
  <1>3. PICK e, x : e = <<>> /\ x = ViewStride - 1
    OBVIOUS
  <1>4. PICK a : a = [rows |-> e, since |-> x]
    OBVIOUS
  <1>5. a \in ViewRec /\ a.rows = e
    BY <1>1, <1>2, <1>3, <1>4 DEF ViewRec
  <1>6. 1..0 = {}
    OBVIOUS
  <1>7. ViewBook(e, a)
    BY <1>1, <1>3, <1>5, <1>6 DEF ViewBook
  <1>8. QED
    BY <1>1, <1>3, <1>4, <1>5, <1>7

\* The host's own calls.
LEMMA ViewHosts ==
  ASSUME ViewInv,
         View!Flush \/ View!SetHomed \/ View!PlaceRad \/ View!BeginProgram
  PROVE  ViewInv'
  <1>1. PICK m, sp, r, b : m = view_s /\ sp = view_spans /\ r = view_rec /\ b = view_batch
    OBVIOUS
  <1>2. ViewWhole(m, sp, r, b) /\ m \in ViewSession /\ b \in ViewBatch /\ ViewSame(m, m)
    BY <1>1, ViewLikeness DEF ViewInv, ViewWhole
  <1>3. CASE View!Flush
    <2>1. PICK i, z : i = View!Idle /\ z = 0
      OBVIOUS
    <2>2. i \in ViewBatch /\ ~i.on /\ z \in Nat
      BY <2>1, ViewIdles
    <2>3. ViewWhole(m, sp, r, i)
      BY <1>2, <2>2, ViewKept
    <2>4. view_spans' = sp /\ view_rec' = r /\ View!RunHeld(m, z)
      BY <1>1, <1>3, <2>1 DEF View!Flush
    <2>5. ViewWhole(m, view_spans', view_rec', View!Idle)
      BY <2>1, <2>3, <2>4
    <2>6. QED
      BY <2>2, <2>4, <2>5, ViewTakesUp
  <1>4. CASE View!SetHomed
    <2>1. PICK z : z = View!Stale(m)
      OBVIOUS
    <2>2. ViewSame(m, z)
      BY <1>2, <2>1, ViewSteps
    <2>3. PICK y : y = ~z.homed
      OBVIOUS
    <2>4. PICK u : u = [z EXCEPT !.homed = y]
      OBVIOUS
    <2>5. y \in BOOLEAN /\ z \in ViewSession
      BY <2>2, <2>3 DEF ViewSame
    <2>6. ViewSame(z, u)
      BY <2>4, <2>5, ViewMarked
    <2>7. ViewSame(m, u)
      BY <2>2, <2>6, ViewLikeness
    <2>8. /\ view_spans' = sp /\ view_rec' = r /\ view_batch' = b /\ ~b.on /\ view_s' = u
      BY <1>1, <1>4, <2>1, <2>3, <2>4 DEF View!SetHomed
    <2>9. ViewWhole(u, sp, r, b)
      BY <1>2, <2>7, <2>8, ViewKept
    <2>10. QED
      BY <2>8, <2>9 DEF ViewInv
  <1>5. CASE View!PlaceRad
    <2>1. PICK u, sp2, r2 : u = View!EndJog(view_s) /\ sp2 = View!EndJogSpans /\ r2 = View!EndJogRec
      OBVIOUS
    <2>2. view_s' = u /\ view_spans' = sp2 /\ view_rec' = r2 /\ view_batch' = b /\ ~b.on
      BY <1>1, <1>5, <2>1 DEF View!PlaceRad
    <2>3. ViewBook(sp2, r2) /\ u \in ViewSession /\ ~u.jog /\ ViewPending(u.held, sp2, r2)
      BY <2>1, ViewEndsJog
    <2>4. ViewWhole(u, sp2, r2, b)
      BY <1>2, <2>2, <2>3 DEF ViewWhole, ViewJog
    <2>5. QED
      BY <2>2, <2>4 DEF ViewInv
  <1>6. CASE View!BeginProgram
    <2>1. PICK z, sp2, r2 : z = 0 /\ sp2 = <<>> /\ r2 = [rows |-> <<>>, since |-> ViewStride - 1]
      OBVIOUS
    <2>2. PICK u : u = [m EXCEPT !.jogSpan = z]
      OBVIOUS
    <2>3. /\ view_s' = u /\ view_spans' = sp2 /\ view_rec' = r2 /\ view_batch' = b /\ ~b.on
          /\ m.held = <<>>
      BY <1>1, <1>6, <2>1, <2>2 DEF View!BeginProgram
    <2>4. u \in ViewSession /\ u.held = m.held /\ u.jogSpan = z
      <3>1. z \in Nat
        BY <2>1
      <3>2. QED
        BY <1>2, <2>2, <3>1 DEF ViewSession
    <2>5. ViewBook(sp2, r2)
      BY <2>1, ViewFresh
    <2>6. u.held = <<>> /\ u.jogSpan = 0
      BY <2>1, <2>3, <2>4
    <2>7. ViewWhole(u, sp2, r2, b)
      BY <1>2, <2>3, <2>4, <2>5, <2>6, ViewNonePending DEF ViewWhole, ViewJog
    <2>8. QED
      BY <2>3, <2>7 DEF ViewInv
  <1>7. QED
    BY <1>3, <1>4, <1>5, <1>6

\* Every step keeps the book.
LEMMA ViewStep ==
  ASSUME ViewInv, View!Next
  PROVE  ViewInv'
  <1>1. CASE View!SubmitJogL
    <2>1. PICK kind : kind = "jogl"
      OBVIOUS
    <2>2. kind \in ViewKinds /\ kind # "jog"
      BY <1>1, <2>1 DEF View!SubmitJogL, View!Arrives
    <2>3. \/ View!RefuseIt(kind, View!S0(kind)) \/ View!Blocked(kind, View!S0(kind))
          \/ View!Streamed(kind, 2, View!S0(kind))
      BY <1>1, <2>1 DEF View!SubmitJogL
    <2>4. QED
      BY <2>2, <2>3, ViewCartesian
  <1>2. CASE View!SubmitServoL
    <2>1. PICK kind : kind = "servol"
      OBVIOUS
    <2>2. kind \in ViewKinds /\ kind # "jog"
      BY <1>2, <2>1 DEF View!SubmitServoL, View!Arrives
    <2>3. \/ View!RefuseIt(kind, View!S0(kind)) \/ View!Blocked(kind, View!S0(kind))
          \/ View!Streamed(kind, 2, View!S0(kind))
      BY <1>2, <2>1 DEF View!SubmitServoL
    <2>4. QED
      BY <2>2, <2>3, ViewCartesian
  <1>3. ASSUME NEW k, View!SubmitQueued(k) \/ View!SubmitSystem(k)
        PROVE  ViewInv'
    BY <1>3, ViewQueued, ViewSystems
  <1>4. CASE View!GateAtTurn \/ View!PlanMove \/ View!PlanHome \/ View!PlanHold \/ View!PlanTool
             \/ View!PlanSelect
    BY <1>4, ViewPlans
  <1>5. CASE View!Flush \/ View!SetHomed \/ View!PlaceRad \/ View!BeginProgram
    BY <1>5, ViewHosts
  <1>6. QED
    BY <1>1, <1>2, <1>3, <1>4, <1>5, ViewInvalid, ViewJogs, ViewServos, ViewTeleports,
       ViewUnflashes, ViewResumes, ViewShapes, ViewPlannerRefuses, ViewReturns DEF View!Next

\* A session begins with nothing on record.
LEMMA ViewBegins ==
  ASSUME View!Init
  PROVE  ViewInv
  <1>1. PICK yes, no, z, e : yes = TRUE /\ no = FALSE /\ z = 0 /\ e = <<>>
    OBVIOUS
  <1>2. PICK m, sp, r, b : m = view_s /\ sp = view_spans /\ r = view_rec /\ b = view_batch
    OBVIOUS
  <1>3. m = [homed |-> yes, estop |-> no, flashing |-> no, sim |-> yes, paused |-> no,
             attached |-> no, fresh |-> yes, standing |-> no, jog |-> no, jogSpan |-> z,
             held |-> e]
    BY <1>1, <1>2 DEF View!Init
  <1>4. yes \in BOOLEAN /\ no \in BOOLEAN /\ z \in Nat /\ e \in Seq(ViewItem)
    <2>1. yes \in BOOLEAN /\ no \in BOOLEAN
      BY <1>1
    <2>2. z \in Nat
      BY <1>1
    <2>3. e \in Seq(ViewItem)
      BY <1>1
    <2>4. QED
      BY <2>1, <2>2, <2>3
  <1>5. m \in ViewSession /\ m.held = e /\ ~m.jog
    BY <1>1, <1>3, <1>4 DEF ViewSession
  <1>6. ViewBook(sp, r)
    BY <1>2, ViewFresh DEF View!Init
  <1>7. b \in ViewBatch /\ ~b.on
    BY <1>2, ViewIdles DEF View!Init
  <1>8. ViewPending(m.held, sp, r)
    BY <1>1, <1>5, ViewNonePending
  <1>9. ViewWhole(m, sp, r, b)
    BY <1>5, <1>6, <1>7, <1>8 DEF ViewWhole, ViewJog
  <1>10. QED
    BY <1>2, <1>9 DEF ViewInv

\* The book says what the record holds.
LEMMA ViewTells ==
  ASSUME ViewInv
  PROVE  View!RowsAreTheLines
  <1>1. ViewBook(view_spans, view_rec)
    BY DEF ViewInv, ViewWhole
  <1>2. /\ DOMAIN view_spans = 1..Len(view_spans)
        /\ DOMAIN view_rec.rows = 1..Len(view_rec.rows)
    BY <1>1 DEF ViewBook, ViewRec
  <1>3. SUFFICES ASSUME NEW i \in 1..Len(view_spans), view_spans[i].kind # "resume"
                 PROVE  {k \in DOMAIN view_rec.rows : view_rec.rows[k] = i} = View!Rows(i)
    BY <1>2 DEF View!RowsAreTheLines
  <1>4. RowsOf(view_rec.rows, i) =
          (view_spans[i].start + 1)..(view_spans[i].start + view_spans[i].rows)
    BY <1>1, <1>3 DEF ViewBook
  <1>5. QED
    BY <1>2, <1>4 DEF RowsOf, View!Rows

(* The preview's spans name the rows their own lines made, for programs of any
   length and kinds, any stride and any lookahead, as long as the host begins
   no program under a pause. *)
THEOREM BlocksAreTheLines == View!Spec => []RowsAreTheLines
  <1>1. View!Init => ViewInv
    BY ViewBegins
  <1>2. ViewInv /\ [View!Next]_(View!vars) => ViewInv'
    <2>1. ASSUME ViewInv, UNCHANGED View!vars PROVE ViewInv'
      <3>1. /\ view_s' = view_s /\ view_spans' = view_spans /\ view_rec' = view_rec
            /\ view_batch' = view_batch
        BY <2>1 DEF View!vars
      <3>2. QED
        BY <2>1, <3>1 DEF ViewInv
    <2>2. QED
      BY <2>1, ViewStep
  <1>3. ViewInv => RowsAreTheLines
    BY ViewTells DEF RowsAreTheLines
  <1>4. QED
    BY <1>1, <1>2, <1>3, PTL DEF View!Spec
=============================================================================
