----------------------------- MODULE StepProofs -----------------------------
(***************************************************************************)
(* The server and the planner keep step (PlannerInStep), for any number of *)
(* commands, tool stops and messages in flight.                            *)
(*                                                                         *)
(* What PlannerInStep says of one moment is not inductive: which answer is *)
(* still owed depends on the order of what is on the two channels.  The    *)
(* invariant Step therefore follows every command and every tool stop      *)
(* through them.  A command the server has not offered is unknown to the   *)
(* planner; the one it waits for is a Start no Cancel will hit, or is in   *)
(* the planner, or its answer is on the way (Motion).  The tool stops on   *)
(* the channels stand in the order of their indices, behind the one the    *)
(* planner watches, and a CancelTool stands behind each one the server has *)
(* dropped (Tools); a Cancel or a CancelTool separates what drives the     *)
(* jaws (Jaws, Hands).                                                     *)
(*                                                                         *)
(* A planner step moves a message from one channel to the other.  A server *)
(* turn works on its own copy of the core, and every method of it that     *)
(* sends or drops keeps the copy in step with the channel it will commit   *)
(* to (At).                                                                *)
(***************************************************************************)
EXTENDS LedgerProofs

-----------------------------------------------------------------------------
(* Server and planner in step.  A channel grows at its tail and shifts at  *)
(* its head; what the proof says of a channel is which request of a kind   *)
(* stands between two others.                                              *)

Grows(Q2, Q, x) ==
  /\ Len(Q) \in Nat /\ Len(Q2) = Len(Q) + 1
  /\ Q2[Len(Q) + 1] = x
  /\ \A k \in 1..Len(Q) : Q2[k] = Q[k]

Shifts(Q2, Q) ==
  /\ Len(Q) \in Nat /\ Len(Q) # 0 /\ Len(Q2) = Len(Q) - 1
  /\ \A k \in 1..Len(Q2) : Q2[k] = Q[k + 1]

\* A request `op` stands strictly between the places `a` and `b`.
Cut(R, op, a, b) == \E j \in 1..Len(R) : a < j /\ j < b /\ R[j].op = op

\* A request `op` stands behind place `k`.
After(R, op, k) == Cut(R, op, k, Len(R) + 1)

\* Append grows a channel.
LEMMA AppendGrows ==
  ASSUME NEW S, NEW Q \in Seq(S), NEW x \in S
  PROVE  Grows(Append(Q, x), Q, x) /\ Append(Q, x) \in Seq(S)
  BY AppendProperties, LenProperties DEF Grows

\* Tail shifts it.
LEMMA TailShifts ==
  ASSUME NEW S, NEW Q \in Seq(S), Q # <<>>
  PROVE  Shifts(Tail(Q), Q) /\ Tail(Q) \in Seq(S) /\ Head(Q) = Q[1] /\ Q[1] \in S
<1>1. Len(Q) \in Nat /\ Len(Q) # 0
  BY LenProperties, EmptySeq
<1>2. Tail(Q) \in Seq(S) /\ Len(Tail(Q)) = Len(Q) - 1 /\ Head(Q) = Q[1] /\ Head(Q) \in S
  BY HeadTailProperties
<1>3. \A k \in 1..(Len(Q) - 1) : Tail(Q)[k] = Q[k + 1]
  BY HeadTailProperties
<1>4. QED
  BY <1>1, <1>2, <1>3 DEF Shifts

\* What stands between two places when the channel grows.
LEMMA CutGrows ==
  ASSUME NEW R, NEW R2, NEW r, Grows(R2, R, r), NEW op
  PROVE  /\ \A a \in Nat, b \in Nat : b <= Len(R) + 1 => (Cut(R2, op, a, b) <=> Cut(R, op, a, b))
         /\ \A k \in Nat : r.op # op => (After(R2, op, k) <=> After(R, op, k))
         /\ \A k \in Nat : k <= Len(R) /\ r.op = op => After(R2, op, k)
<1> DEFINE n == Len(R)
<1>1. /\ n \in Nat /\ Len(R2) = n + 1 /\ R2[n + 1] = r
      /\ \A k \in 1..n : R2[k] = R[k]
  BY DEF Grows
<1>2. ASSUME NEW a \in Nat, NEW b \in Nat, b <= n + 1
      PROVE  Cut(R2, op, a, b) <=> Cut(R, op, a, b)
  <2>1. \A j \in 1..(n + 1) : j < b => j \in 1..n
    BY <1>1, <1>2
  <2>2. \A j \in 1..n : j \in 1..(n + 1)
    BY <1>1
  <2> HIDE DEF n
  <2>3. QED
    BY <1>1, <2>1, <2>2 DEF Cut, n
<1>3. ASSUME NEW k \in Nat, r.op # op PROVE After(R2, op, k) <=> After(R, op, k)
  <2>1. \A j \in 1..(n + 1) : j = n + 1 \/ (j \in 1..n /\ j < n + 1)
    BY <1>1
  <2>2. \A j \in 1..n : j \in 1..(n + 1) /\ j < n + 1 + 1
    BY <1>1
  <2> HIDE DEF n
  <2>3. QED
    BY <1>1, <1>3, <2>1, <2>2 DEF Cut, After, n
<1>4. ASSUME NEW k \in Nat, k <= n, r.op = op PROVE After(R2, op, k)
  <2>1. n + 1 \in 1..(n + 1) /\ k < n + 1 /\ n + 1 < n + 1 + 1
    BY <1>1, <1>4
  <2> HIDE DEF n
  <2>2. QED
    BY <1>1, <1>4, <2>1 DEF Cut, After, n
<1>5. QED
  BY <1>2, <1>3, <1>4

\* What stands between two places when it shifts.
LEMMA CutShifts ==
  ASSUME NEW R, NEW R2, Shifts(R2, R), NEW op
  PROVE  /\ \A a \in Nat, b \in Nat : Cut(R2, op, a, b) <=> Cut(R, op, a + 1, b + 1)
         /\ \A b \in Nat : R[1].op # op => (Cut(R2, op, 0, b) <=> Cut(R, op, 0, b + 1))
         /\ \A k \in Nat : After(R2, op, k) <=> After(R, op, k + 1)
         /\ R[1].op # op => (After(R2, op, 0) <=> After(R, op, 0))
<1> DEFINE n == Len(R)
<1>1. /\ n \in Nat /\ n # 0 /\ Len(R2) = n - 1
      /\ \A k \in 1..(n - 1) : R2[k] = R[k + 1]
  BY DEF Shifts
<1>2. ASSUME NEW a \in Nat, NEW b \in Nat
      PROVE  Cut(R2, op, a, b) <=> Cut(R, op, a + 1, b + 1)
  <2>1. ASSUME Cut(R2, op, a, b) PROVE Cut(R, op, a + 1, b + 1)
    <3>1. PICK j \in 1..(n - 1) : a < j /\ j < b /\ R2[j].op = op
      BY <1>1, <2>1 DEF Cut
    <3>2. j + 1 \in 1..n /\ a + 1 < j + 1 /\ j + 1 < b + 1 /\ R2[j] = R[j + 1]
      BY <1>1, <3>1
    <3>3. QED
      BY <3>1, <3>2 DEF Cut
  <2>2. ASSUME Cut(R, op, a + 1, b + 1) PROVE Cut(R2, op, a, b)
    <3>1. PICK i \in 1..n : a + 1 < i /\ i < b + 1 /\ R[i].op = op
      BY <2>2 DEF Cut
    <3>2. i - 1 \in 1..(n - 1) /\ a < i - 1 /\ i - 1 < b /\ (i - 1) + 1 = i
      BY <1>1, <3>1
    <3>3. R2[i - 1] = R[i]
      BY <1>1, <3>2
    <3>4. QED
      BY <1>1, <3>1, <3>2, <3>3 DEF Cut
  <2>3. QED
    BY <2>1, <2>2
<1>3. ASSUME NEW b \in Nat, R[1].op # op PROVE Cut(R, op, 1, b) <=> Cut(R, op, 0, b)
  <2>1. \A j \in 1..n : j = 1 \/ 1 < j
    BY <1>1
  <2>2. \A j \in 1..n : 0 < j
    BY <1>1
  <2> HIDE DEF n
  <2>3. QED
    BY <1>3, <2>1, <2>2 DEF Cut, n
<1>4. /\ Len(R2) + 1 \in Nat /\ n + 1 \in Nat /\ (Len(R2) + 1) + 1 = n + 1 /\ 0 \in Nat /\ 0 + 1 = 1
      /\ \A b \in Nat : b + 1 \in Nat
  BY <1>1
<1>5. \A b \in Nat : R[1].op # op => (Cut(R2, op, 0, b) <=> Cut(R, op, 0, b + 1))
  BY <1>2, <1>3, <1>4
<1>6. \A k \in Nat : After(R2, op, k) <=> After(R, op, k + 1)
  BY <1>2, <1>4 DEF After
<1>7. R[1].op # op => (After(R2, op, 0) <=> After(R, op, 0))
  BY <1>5, <1>4 DEF After
<1>8. QED
  BY <1>2, <1>5, <1>6, <1>7

-----------------------------------------------------------------------------
(* One command on its way: in the requests `R`, in the planner (`fl`, the  *)
(* command in flight, and `iv`, the one invalidated) or in the events `E`. *)

StartAnswers == {"Started", "Rejected"}

Replies == {"Started", "Rejected", "Outcome"}

\* The planner neither holds command `i` nor has said anything of it.
Unanswered(E, fl, iv, i) ==
  /\ \A k \in 1..Len(E) : E[k].op \in Replies => E[k].index # i
  /\ fl.index # i /\ iv # i

Unoffered(R, i) == \A k \in 1..Len(R) : R[k].op = "Start" => R[k].batch[1].index # i

Untouched(R, E, fl, iv, i) == Unoffered(R, i) /\ Unanswered(E, fl, iv, i)

NoStart(R) == \A k \in 1..Len(R) : R[k].op # "Start"

\* A Start sent now would find the planner free: whatever is in flight or on
\* its way has its Cancel behind it.
Free(R, fl) ==
  /\ fl = NoFlight \/ After(R, "Cancel", 0)
  /\ \A k \in 1..Len(R) : R[k].op = "Start" => After(R, "Cancel", k)

\* Every Start on its way will find it free.
Separate(R, fl) ==
  \A k \in 1..Len(R) : R[k].op = "Start" =>
    /\ fl = NoFlight \/ Cut(R, "Cancel", 0, k)
    /\ \A m \in 1..Len(R) : m < k /\ R[m].op = "Start" => Cut(R, "Cancel", m, k)

\* The Start of entry `e` is on its way and no Cancel will hit it.
Offered(e, R, E, fl, iv) ==
  /\ \E k \in 1..Len(R) :
       /\ R[k].op = "Start" /\ R[k].batch[1] = e
       /\ ~After(R, "Cancel", k)
       /\ \A j \in 1..Len(R) : j # k /\ R[j].op = "Start" => R[j].batch[1].index # e.index
  /\ Unanswered(E, fl, iv, e.index)

\* The planner runs command `i`, or its outcome is behind place `k`.
Backed(i, kind, k, R, E, fl, iv) ==
  /\ NoStart(R)
  /\ \/ /\ fl = [index |-> i, kind |-> kind]
        /\ ~After(R, "Cancel", 0) /\ iv # i
        /\ \A m \in 1..Len(E) : E[m].op = "Outcome" => E[m].index # i
     \/ /\ fl = NoFlight
        /\ \/ iv = i
           \/ \E m \in 1..Len(E) : k < m /\ E[m].op = "Outcome" /\ E[m].index = i

\* Entry `e` was started and the answer is on its way.
Began(e, R, E, fl, iv) ==
  \E k \in 1..Len(E) :
    /\ E[k].op = "Started" /\ E[k].index = e.index
    /\ \A j \in 1..Len(E) : j # k /\ E[j].op \in StartAnswers => E[j].index # e.index
    /\ Backed(e.index, e.kind, k, R, E, fl, iv)

\* Entry `e` was refused and the answer is on its way.
Refused(e, R, E, fl) ==
  /\ \E k \in 1..Len(E) : E[k].op = "Rejected" /\ E[k].index = e.index
  /\ \A j \in 1..Len(E) : E[j].op = "Started" => E[j].index # e.index
  /\ Unoffered(R, e.index)
  /\ Free(R, fl)

Asked(e, R, E, fl, iv) ==
  Offered(e, R, E, fl, iv) \/ Began(e, R, E, fl, iv) \/ Refused(e, R, E, fl)

\* What every step below must keep: nothing new about a command nobody asked
\* for, and what is owed stays owed.
Carries(R, E, fl, iv, R2, E2, fl2, iv2) ==
  /\ \A i \in Nat \ {0} : Untouched(R, E, fl, iv, i) => Untouched(R2, E2, fl2, iv2, i)
  /\ Separate(R, fl) => Separate(R2, fl2)
  /\ Free(R, fl) => Free(R2, fl2)
  /\ \A e \in Entry : Separate(R, fl) /\ Asked(e, R, E, fl, iv) => Asked(e, R2, E2, fl2, iv2)
  /\ \A i \in Nat \ {0} : \A kind : Backed(i, kind, 0, R, E, fl, iv) => Backed(i, kind, 0, R2, E2, fl2, iv2)

\* A request that is neither a Start nor a Cancel is sent.
LEMMA OtherSent ==
  ASSUME NEW R, NEW R2, NEW r, NEW E, NEW fl, NEW iv, Grows(R2, R, r),
         r.op \notin {"Start", "Cancel"}
  PROVE  Carries(R, E, fl, iv, R2, E, fl, iv)
<1> DEFINE n == Len(R)
<1>1. /\ n \in Nat /\ Len(R2) = n + 1 /\ R2[n + 1] = r
      /\ \A k \in 1..n : R2[k] = R[k]
  BY DEF Grows
<1>2. \A k \in 1..(n + 1) : k = n + 1 \/ k \in 1..n
  BY <1>1
<1>3. \A k \in 1..n : k \in 1..(n + 1) /\ k \in Nat /\ k <= n + 1
  BY <1>1
<1>4. /\ \A k \in 1..(n + 1) : R2[k].op \in {"Start", "Cancel"} => k \in 1..n /\ R2[k] = R[k]
      /\ \A k \in 1..n : R2[k] = R[k] /\ k \in 1..(n + 1) /\ k \in Nat
  BY <1>1, <1>2, <1>3
<1>5. /\ \A a \in Nat, k \in 1..n : Cut(R2, "Cancel", a, k) <=> Cut(R, "Cancel", a, k)
      /\ \A k \in Nat : After(R2, "Cancel", k) <=> After(R, "Cancel", k)
  BY <1>1, <1>3, CutGrows
<1> HIDE DEF n
<1>6. \A i : Unoffered(R, i) => Unoffered(R2, i)
  BY <1>1, <1>4 DEF Unoffered, n
<1>7. NoStart(R) => NoStart(R2)
  BY <1>1, <1>4 DEF NoStart, n
<1>8. Free(R, fl) => Free(R2, fl)
  BY <1>1, <1>4, <1>5 DEF Free, n
<1>9. Separate(R, fl) => Separate(R2, fl)
  BY <1>1, <1>4, <1>5 DEF Separate, n
<1>10. ASSUME NEW e, Offered(e, R, E, fl, iv) PROVE Offered(e, R2, E, fl, iv)
  BY <1>1, <1>4, <1>5, <1>10 DEF Offered, n
<1>11. \A i, kind, k : Backed(i, kind, k, R, E, fl, iv) => Backed(i, kind, k, R2, E, fl, iv)
  BY <1>5, <1>7 DEF Backed
<1>12. \A e : Began(e, R, E, fl, iv) => Began(e, R2, E, fl, iv)
  BY <1>11 DEF Began
<1>13. \A e : Refused(e, R, E, fl) => Refused(e, R2, E, fl)
  BY <1>6, <1>8 DEF Refused
<1>14. QED
  BY <1>6, <1>8, <1>9, <1>10, <1>11, <1>12, <1>13 DEF Carries, Asked, Untouched

\* A Cancel is sent: whatever was asked, a Start is free to follow.
LEMMA CancelSentFrees ==
  ASSUME NEW R, NEW R2, NEW r, NEW E, NEW fl, NEW iv, Grows(R2, R, r), r.op = "Cancel"
  PROVE  /\ \A i : Untouched(R, E, fl, iv, i) => Untouched(R2, E, fl, iv, i)
         /\ Separate(R, fl) => Separate(R2, fl)
         /\ Free(R2, fl)
<1> DEFINE n == Len(R)
<1>1. /\ n \in Nat /\ Len(R2) = n + 1 /\ R2[n + 1] = r
      /\ \A k \in 1..n : R2[k] = R[k]
  BY DEF Grows
<1>2. \A k \in 1..(n + 1) : k = n + 1 \/ k \in 1..n
  BY <1>1
<1>3. \A k \in 1..n : k \in 1..(n + 1) /\ k \in Nat /\ k <= n + 1 /\ k <= n
  BY <1>1
<1>4. /\ \A k \in 1..(n + 1) : R2[k].op = "Start" => k \in 1..n /\ R2[k] = R[k]
      /\ \A k \in 1..n : R2[k] = R[k] /\ k \in 1..(n + 1) /\ k \in Nat
  BY <1>1, <1>2, <1>3
<1>5. /\ \A a \in Nat, k \in 1..n : Cut(R2, "Cancel", a, k) <=> Cut(R, "Cancel", a, k)
      /\ \A k \in 1..n : After(R2, "Cancel", k)
      /\ After(R2, "Cancel", 0)
  <2>1. 0 \in Nat /\ 0 <= n
    BY <1>1
  <2>2. QED
    BY <1>1, <1>3, <2>1, CutGrows, ZenonT(40)
<1> HIDE DEF n
<1>6. \A i : Unoffered(R, i) => Unoffered(R2, i)
  BY <1>1, <1>4 DEF Unoffered, n
<1>7. Separate(R, fl) => Separate(R2, fl)
  BY <1>1, <1>4, <1>5 DEF Separate, n
<1>8. Free(R2, fl)
  BY <1>1, <1>4, <1>5 DEF Free
<1>9. QED
  BY <1>6, <1>7, <1>8 DEF Untouched

\* A Start is sent while the planner is free, for a command it has not heard of.
LEMMA StartSentAsks ==
  ASSUME NEW R, NEW R2, NEW r, NEW E, NEW fl, NEW iv, Grows(R2, R, r), r.op = "Start",
         Free(R, fl), Separate(R, fl), Untouched(R, E, fl, iv, r.batch[1].index)
  PROVE  /\ \A i : i # r.batch[1].index /\ Untouched(R, E, fl, iv, i) => Untouched(R2, E, fl, iv, i)
         /\ Separate(R2, fl)
         /\ Offered(r.batch[1], R2, E, fl, iv)
<1> DEFINE n == Len(R)
<1>1. /\ n \in Nat /\ Len(R2) = n + 1 /\ R2[n + 1] = r
      /\ \A k \in 1..n : R2[k] = R[k]
  BY DEF Grows
<1>2. \A k \in 1..(n + 1) : k = n + 1 \/ (k \in 1..n /\ k # n + 1)
  BY <1>1
<1>3. \A k \in 1..n : k \in 1..(n + 1) /\ k \in Nat /\ k <= n + 1 /\ k < n + 1
  BY <1>1
<1>4. /\ \A k \in 1..(n + 1) : k = n + 1 \/ (k \in 1..n /\ R2[k] = R[k])
      /\ \A k \in 1..n : R2[k] = R[k] /\ k \in 1..(n + 1) /\ k \in Nat
      /\ n + 1 \in 1..(n + 1) /\ n + 1 \in Nat /\ 0 \in Nat
  BY <1>1, <1>2, <1>3
<1>5. /\ \A a \in Nat, k \in 1..(n + 1) : Cut(R2, "Cancel", a, k) <=> Cut(R, "Cancel", a, k)
      /\ \A k \in Nat : After(R2, "Cancel", k) <=> After(R, "Cancel", k)
  <2>1. \A k \in 1..(n + 1) : k \in Nat /\ k <= n + 1
    BY <1>1
  <2>2. QED
    BY <1>1, <2>1, CutGrows
<1>6. ~After(R2, "Cancel", n + 1)
  BY <1>1, <1>4, <1>5 DEF After, Cut
<1>7. \A a \in Nat : After(R, "Cancel", a) <=> Cut(R, "Cancel", a, n + 1)
  BY DEF After
<1> HIDE DEF n
<1>8. \A i : i # r.batch[1].index /\ Unoffered(R, i) => Unoffered(R2, i)
  BY <1>1, <1>4 DEF Unoffered, n
<1>9. ASSUME NEW k \in 1..(n + 1), R2[k].op = "Start"
      PROVE  /\ fl = NoFlight \/ Cut(R2, "Cancel", 0, k)
             /\ \A m \in 1..(n + 1) : m < k /\ R2[m].op = "Start" => Cut(R2, "Cancel", m, k)
  <2>1. \A m \in 1..(n + 1) : m < k => m \in 1..n /\ R2[m] = R[m] /\ m \in Nat
    BY <1>1, <1>2, <1>3, <1>4
  <2>2. CASE k = n + 1
    BY <1>4, <1>5, <1>7, <2>1, <2>2 DEF Free, n
  <2>3. CASE k \in 1..n /\ R2[k] = R[k]
    BY <1>4, <1>5, <1>9, <2>1, <2>3 DEF Separate, n
  <2>4. QED
    BY <1>4, <2>2, <2>3
<1>10. Separate(R2, fl)
  BY <1>1, <1>9 DEF Separate
<1>11. \A j \in 1..(n + 1) : j # n + 1 /\ R2[j].op = "Start" => R2[j].batch[1].index # r.batch[1].index
  BY <1>4 DEF Untouched, Unoffered, n
<1>12. Offered(r.batch[1], R2, E, fl, iv)
  BY <1>1, <1>4, <1>6, <1>11 DEF Offered, Untouched
<1>13. QED
  BY <1>8, <1>10, <1>12 DEF Untouched

\* A request that is neither a Start nor a Cancel is taken.
LEMMA OtherTaken ==
  ASSUME NEW R, NEW R2, NEW E, NEW fl, NEW iv, Shifts(R2, R),
         R[1].op \notin {"Start", "Cancel"}
  PROVE  Carries(R, E, fl, iv, R2, E, fl, iv)
<1> DEFINE n == Len(R2)
<1>1. /\ n \in Nat /\ Len(R) = n + 1
      /\ \A k \in 1..n : R2[k] = R[k + 1] /\ k + 1 \in 1..(n + 1) /\ k \in Nat
  BY DEF Shifts
<1>2. \A k \in 1..(n + 1) : k = 1 \/ (k - 1 \in 1..n /\ (k - 1) + 1 = k)
  BY <1>1
<1>3. \A k \in 1..(n + 1) : R[k].op \in {"Start", "Cancel"} =>
        k - 1 \in 1..n /\ R2[k - 1] = R[k] /\ (k - 1) + 1 = k
  BY <1>1, <1>2
<1>4. /\ \A a \in 1..n, k \in 1..n : Cut(R2, "Cancel", a, k) <=> Cut(R, "Cancel", a + 1, k + 1)
      /\ \A k \in 1..n : Cut(R2, "Cancel", 0, k) <=> Cut(R, "Cancel", 0, k + 1)
      /\ \A k \in 1..n : After(R2, "Cancel", k) <=> After(R, "Cancel", k + 1)
      /\ After(R2, "Cancel", 0) <=> After(R, "Cancel", 0)
  BY <1>1, CutShifts
<1>5. \A a \in 1..n, k \in 1..n : a < k => a + 1 < k + 1
  BY <1>1
<1>6. \A a \in 1..n, k \in 1..n : a # k => a + 1 # k + 1
  BY <1>1
<1> HIDE DEF n
<1>7. \A i : Unoffered(R, i) => Unoffered(R2, i)
  BY <1>1 DEF Unoffered, n
<1>8. NoStart(R) => NoStart(R2)
  BY <1>1 DEF NoStart, n
<1>9. Free(R, fl) => Free(R2, fl)
  BY <1>1, <1>4 DEF Free, n
<1>10. Separate(R, fl) => Separate(R2, fl)
  BY <1>1, <1>4, <1>5 DEF Separate, n
<1>11. ASSUME NEW e, Offered(e, R, E, fl, iv) PROVE Offered(e, R2, E, fl, iv)
  <2>1. PICK k \in 1..(n + 1) :
          /\ R[k].op = "Start" /\ R[k].batch[1] = e
          /\ ~After(R, "Cancel", k)
          /\ \A j \in 1..(n + 1) : j # k /\ R[j].op = "Start" => R[j].batch[1].index # e.index
    BY <1>1, <1>11 DEF Offered
  <2>2. PICK h \in 1..n : h + 1 = k
    BY <1>3, <2>1
  <2>3. /\ R2[h].op = "Start" /\ R2[h].batch[1] = e
        /\ ~After(R2, "Cancel", h)
        /\ \A j \in 1..n : j # h /\ R2[j].op = "Start" => R2[j].batch[1].index # e.index
    BY <1>1, <1>4, <1>6, <2>1, <2>2
  <2>4. QED
    BY <1>11, <2>3 DEF Offered, n
<1>12. \A i, kind, k : Backed(i, kind, k, R, E, fl, iv) => Backed(i, kind, k, R2, E, fl, iv)
  BY <1>4, <1>8 DEF Backed
<1>13. \A e : Began(e, R, E, fl, iv) => Began(e, R2, E, fl, iv)
  BY <1>12 DEF Began
<1>14. \A e : Refused(e, R, E, fl) => Refused(e, R2, E, fl)
  BY <1>7, <1>9 DEF Refused
<1>15. QED
  BY <1>7, <1>9, <1>10, <1>11, <1>12, <1>13, <1>14 DEF Carries, Asked, Untouched

\* A Cancel is taken: nothing is in flight any more, and nothing that is owed was.
LEMMA CancelTaken ==
  ASSUME NEW R, NEW R2, NEW E, NEW fl, NEW iv, Shifts(R2, R), R[1].op = "Cancel"
  PROVE  Carries(R, E, fl, iv, R2, E, NoFlight, iv)
<1> DEFINE n == Len(R2)
<1>1. /\ n \in Nat /\ Len(R) = n + 1
      /\ \A k \in 1..n : R2[k] = R[k + 1] /\ k + 1 \in 1..(n + 1) /\ k \in Nat
  BY DEF Shifts
<1>2. \A k \in 1..(n + 1) : k = 1 \/ (k - 1 \in 1..n /\ (k - 1) + 1 = k)
  BY <1>1
<1>3. \A k \in 1..(n + 1) : R[k].op = "Start" =>
        k - 1 \in 1..n /\ R2[k - 1] = R[k] /\ (k - 1) + 1 = k
  BY <1>1, <1>2
<1>4. /\ \A a \in 1..n, k \in 1..n : Cut(R2, "Cancel", a, k) <=> Cut(R, "Cancel", a + 1, k + 1)
      /\ \A k \in 1..n : After(R2, "Cancel", k) <=> After(R, "Cancel", k + 1)
  BY <1>1, CutShifts
<1>5. \A a \in 1..n, k \in 1..n : /\ a < k => a + 1 < k + 1
                                  /\ a # k => a + 1 # k + 1
  BY <1>1
<1>6. After(R, "Cancel", 0)
  <2>1. 1 \in 1..Len(R) /\ 0 < 1 /\ 1 < Len(R) + 1
    BY <1>1
  <2>2. QED
    BY <2>1 DEF After, Cut
<1>7. NoFlight.index = 0
  BY DEF NoFlight
<1> HIDE DEF n
<1>8. \A i : Unoffered(R, i) => Unoffered(R2, i)
  BY <1>1 DEF Unoffered, n
<1>9. NoStart(R) => NoStart(R2)
  BY <1>1 DEF NoStart, n
<1>10. Free(R, fl) => Free(R2, NoFlight)
  BY <1>1, <1>4 DEF Free, n
<1>11. Separate(R, fl) => Separate(R2, NoFlight)
  BY <1>1, <1>4, <1>5 DEF Separate, n
<1>12. \A i \in Nat \ {0} : Unanswered(E, fl, iv, i) => Unanswered(E, NoFlight, iv, i)
  BY <1>7 DEF Unanswered
<1>13. ASSUME NEW e \in Entry, Offered(e, R, E, fl, iv) PROVE Offered(e, R2, E, NoFlight, iv)
  <2>1. PICK k \in 1..(n + 1) :
          /\ R[k].op = "Start" /\ R[k].batch[1] = e
          /\ ~After(R, "Cancel", k)
          /\ \A j \in 1..(n + 1) : j # k /\ R[j].op = "Start" => R[j].batch[1].index # e.index
    BY <1>1, <1>13 DEF Offered
  <2>2. PICK h \in 1..n : h + 1 = k
    BY <1>3, <2>1
  <2>3. /\ R2[h].op = "Start" /\ R2[h].batch[1] = e
        /\ ~After(R2, "Cancel", h)
        /\ \A j \in 1..n : j # h /\ R2[j].op = "Start" => R2[j].batch[1].index # e.index
    BY <1>1, <1>4, <1>5, <2>1, <2>2
  <2>4. e.index \in Nat \ {0}
    BY DEF Entry
  <2>5. QED
    BY <1>12, <1>13, <2>3, <2>4 DEF Offered, n
<1>14. \A i, kind, k : Backed(i, kind, k, R, E, fl, iv) => Backed(i, kind, k, R2, E, NoFlight, iv)
  BY <1>6, <1>9 DEF Backed
<1>15. \A e : Began(e, R, E, fl, iv) => Began(e, R2, E, NoFlight, iv)
  BY <1>14 DEF Began
<1>16. \A e : Refused(e, R, E, fl) => Refused(e, R2, E, NoFlight)
  BY <1>8, <1>10 DEF Refused
<1>17. QED
  BY <1>8, <1>10, <1>11, <1>12, <1>13, <1>14, <1>15, <1>16 DEF Carries, Asked, Untouched

\* What a Start at the head of the requests says of the planner and of the rest.
LEMMA StartTaken ==
  ASSUME NEW R, NEW R2, NEW fl, Shifts(R2, R), R[1].op = "Start", Separate(R, fl)
  PROVE  /\ fl = NoFlight
         /\ \A fl2 : Separate(R2, fl2)
         /\ After(R, "Cancel", 1) => \A fl2 : Free(R, fl) => Free(R2, fl2)
         /\ ~After(R, "Cancel", 1) => NoStart(R2) /\ ~After(R2, "Cancel", 0) /\ Free(R2, NoFlight)
         /\ \A i : Unoffered(R, i) => Unoffered(R2, i)
         /\ \A i : Unoffered(R, i) => i # R[1].batch[1].index
         /\ Free(R, fl) => After(R, "Cancel", 1)
<1> DEFINE n == Len(R2)
<1>1. /\ n \in Nat /\ Len(R) = n + 1
      /\ \A k \in 1..n : R2[k] = R[k + 1] /\ k + 1 \in 1..(n + 1) /\ k \in Nat /\ 1 < k + 1
      /\ 1 \in 1..(n + 1)
  BY DEF Shifts
<1>2. /\ \A a \in 1..n, k \in 1..n : Cut(R2, "Cancel", a, k) <=> Cut(R, "Cancel", a + 1, k + 1)
      /\ \A k \in 1..n : Cut(R2, "Cancel", 0, k) <=> Cut(R, "Cancel", 0 + 1, k + 1)
      /\ \A k \in 1..n : After(R2, "Cancel", k) <=> After(R, "Cancel", k + 1)
      /\ After(R2, "Cancel", 0) <=> After(R, "Cancel", 0 + 1)
  BY <1>1, CutShifts
<1>3. 0 + 1 = 1
  OBVIOUS
<1>4. \A a \in 1..n, k \in 1..n : a < k => a + 1 < k + 1
  BY <1>1
<1>5. ~Cut(R, "Cancel", 0, 1)
  BY <1>1 DEF Cut
<1>6. \A k \in 1..(n + 1) : Cut(R, "Cancel", 1, k) => After(R, "Cancel", 1)
  BY <1>1 DEF Cut, After
<1> HIDE DEF n
<1>7. fl = NoFlight
  BY <1>1, <1>5 DEF Separate
<1>8. \A k \in 1..n : R2[k].op = "Start" => Cut(R2, "Cancel", 0, k)
  BY <1>1, <1>2, <1>3 DEF Separate
<1>9. \A fl2 : Separate(R2, fl2)
  BY <1>1, <1>2, <1>4, <1>8 DEF Separate, n
<1>10. Free(R, fl) /\ After(R, "Cancel", 1) => \A fl2 : Free(R2, fl2)
  BY <1>1, <1>2, <1>3 DEF Free, n
<1>11. ~After(R, "Cancel", 1) => NoStart(R2) /\ ~After(R2, "Cancel", 0)
  BY <1>1, <1>2, <1>3, <1>6, <1>8 DEF NoStart, n
<1>12. NoStart(R2) => Free(R2, NoFlight)
  BY DEF Free, NoStart
<1>13. Free(R, fl) => After(R, "Cancel", 1)
  BY <1>1 DEF Free
<1>14. QED
  BY <1>1, <1>7, <1>9, <1>10, <1>11, <1>12, <1>13 DEF Unoffered, n

\* The planner accepts the Start at the head of the requests.
LEMMA StartAccepted ==
  ASSUME NEW R, NEW R2, NEW E, NEW E2, NEW fl, NEW iv, NEW x, NEW e0,
         Shifts(R2, R), R[1].op = "Start", R[1].batch[1] = e0, Separate(R, fl),
         Grows(E2, E, x), x.op = "Started", x.index = e0.index
  PROVE  Carries(R, E, fl, iv, R2, E2, [index |-> e0.index, kind |-> e0.kind], iv)
<1> DEFINE n  == Len(E)
           f2 == [index |-> e0.index, kind |-> e0.kind]
           m  == Len(R2)
<1>1. /\ n \in Nat /\ Len(E2) = n + 1 /\ E2[n + 1] = x
      /\ \A k \in 1..n : E2[k] = E[k] /\ k \in 1..(n + 1) /\ k # n + 1
      /\ \A k \in 1..(n + 1) : k = n + 1 \/ (k \in 1..n /\ E2[k] = E[k])
      /\ n + 1 \in 1..(n + 1)
  BY DEF Grows
<1>2. f2.index = e0.index
  OBVIOUS
<1>3. /\ fl = NoFlight
      /\ Separate(R2, f2)
      /\ Free(R, fl) => Free(R2, f2)
      /\ ~After(R, "Cancel", 1) => NoStart(R2) /\ ~After(R2, "Cancel", 0)
      /\ \A i : Unoffered(R, i) => Unoffered(R2, i)
      /\ \A i : Unoffered(R, i) => i # e0.index
  BY StartTaken
<1>4. /\ m \in Nat /\ Len(R) = m + 1
      /\ \A k \in 1..m : R2[k] = R[k + 1] /\ k + 1 \in 1..(m + 1) /\ k \in Nat /\ k + 1 # 1
      /\ \A k \in 1..(m + 1) : k = 1 \/ (k - 1 \in 1..m /\ (k - 1) + 1 = k)
      /\ 1 \in 1..(m + 1)
      /\ \A j, k \in 1..m : j # k => j + 1 # k + 1
  BY DEF Shifts
<1>5. \A k \in 1..m : After(R2, "Cancel", k) <=> After(R, "Cancel", k + 1)
  BY <1>4, CutShifts
<1> HIDE DEF n, f2, m
<1>6. \A i : i # e0.index /\ Unanswered(E, fl, iv, i) => Unanswered(E2, f2, iv, i)
  BY <1>1, <1>2 DEF Unanswered, n
<1>7. \A i \in Nat \ {0} : Untouched(R, E, fl, iv, i) => Untouched(R2, E2, f2, iv, i)
  BY <1>3, <1>6 DEF Untouched
<1>8. ASSUME NEW e \in Entry, Offered(e, R, E, fl, iv) PROVE Asked(e, R2, E2, f2, iv)
  <2>1. PICK k \in 1..(m + 1) :
          /\ R[k].op = "Start" /\ R[k].batch[1] = e
          /\ ~After(R, "Cancel", k)
          /\ \A j \in 1..(m + 1) : j # k /\ R[j].op = "Start" => R[j].batch[1].index # e.index
    BY <1>4, <1>8 DEF Offered, m
  <2>2. Unanswered(E, fl, iv, e.index)
    BY <1>8 DEF Offered
  <2>3. CASE k = 1
    <3>1. e = e0 /\ NoStart(R2) /\ ~After(R2, "Cancel", 0)
      BY <1>3, <2>1, <2>3
    <3>2. f2 = [index |-> e.index, kind |-> e.kind]
      BY <3>1 DEF f2
    <3>3. \A j \in 1..(n + 1) : j # n + 1 /\ E2[j].op \in StartAnswers => E2[j].index # e.index
      BY <1>1, <2>2 DEF Unanswered, StartAnswers, Replies, n
    <3>4. \A j \in 1..(n + 1) : E2[j].op = "Outcome" => E2[j].index # e.index
      BY <1>1, <2>2 DEF Unanswered, Replies, n
    <3>5. iv # e.index
      BY <2>2 DEF Unanswered
    <3>6. Backed(e.index, e.kind, n + 1, R2, E2, f2, iv)
      BY <1>1, <3>1, <3>2, <3>4, <3>5 DEF Backed
    <3>7. QED
      BY <1>1, <3>1, <3>3, <3>6 DEF Asked, Began
  <2>4. CASE k # 1
    <3>1. PICK h \in 1..m : h + 1 = k
      BY <1>4, <2>4
    <3>2. /\ R2[h].op = "Start" /\ R2[h].batch[1] = e
          /\ ~After(R2, "Cancel", h)
          /\ \A j \in 1..m : j # h /\ R2[j].op = "Start" => R2[j].batch[1].index # e.index
      BY <1>4, <1>5, <2>1, <3>1
    <3>3. e.index # e0.index
      BY <1>4, <2>1, <2>4
    <3>4. QED
      BY <1>6, <2>2, <3>2, <3>3 DEF Asked, Offered, m
  <2>5. QED
    BY <2>3, <2>4
<1>9. \A i, kind, k : ~Backed(i, kind, k, R, E, fl, iv)
  BY <1>4 DEF Backed, NoStart, m
<1>10. \A e : ~Began(e, R, E, fl, iv)
  BY <1>9 DEF Began
<1>11. ASSUME NEW e \in Entry, Refused(e, R, E, fl) PROVE Refused(e, R2, E2, f2)
  <2>1. e.index # e0.index
    BY <1>3, <1>11 DEF Refused
  <2>2. QED
    BY <1>1, <1>3, <1>11, <2>1 DEF Refused, n
<1>12. QED
  BY <1>3, <1>7, <1>8, <1>9, <1>10, <1>11 DEF Carries, Asked, f2

\* The planner rejects it.
LEMMA StartRejected ==
  ASSUME NEW R, NEW R2, NEW E, NEW E2, NEW fl, NEW iv, NEW x, NEW e0,
         Shifts(R2, R), R[1].op = "Start", R[1].batch[1] = e0, Separate(R, fl),
         Grows(E2, E, x), x.op = "Rejected", x.index = e0.index
  PROVE  Carries(R, E, fl, iv, R2, E2, fl, iv)
<1> DEFINE n  == Len(E)
           m  == Len(R2)
<1>1. /\ n \in Nat /\ Len(E2) = n + 1 /\ E2[n + 1] = x
      /\ \A k \in 1..n : E2[k] = E[k] /\ k \in 1..(n + 1) /\ k # n + 1
      /\ \A k \in 1..(n + 1) : k = n + 1 \/ (k \in 1..n /\ E2[k] = E[k])
      /\ n + 1 \in 1..(n + 1)
  BY DEF Grows
<1>2. /\ fl = NoFlight
      /\ Separate(R2, fl)
      /\ Free(R, fl) => Free(R2, fl)
      /\ ~After(R, "Cancel", 1) => NoStart(R2) /\ Free(R2, fl)
      /\ \A i : Unoffered(R, i) => Unoffered(R2, i)
      /\ \A i : Unoffered(R, i) => i # e0.index
  BY StartTaken
<1>3. /\ m \in Nat /\ Len(R) = m + 1
      /\ \A k \in 1..m : R2[k] = R[k + 1] /\ k + 1 \in 1..(m + 1) /\ k \in Nat /\ k + 1 # 1
      /\ \A k \in 1..(m + 1) : k = 1 \/ (k - 1 \in 1..m /\ (k - 1) + 1 = k)
      /\ 1 \in 1..(m + 1)
      /\ \A j, k \in 1..m : j # k => j + 1 # k + 1
  BY DEF Shifts
<1>4. \A k \in 1..m : After(R2, "Cancel", k) <=> After(R, "Cancel", k + 1)
  BY <1>3, CutShifts
<1> HIDE DEF n, m
<1>5. \A i : i # e0.index /\ Unanswered(E, fl, iv, i) => Unanswered(E2, fl, iv, i)
  BY <1>1 DEF Unanswered, n
<1>6. \A i \in Nat \ {0} : Untouched(R, E, fl, iv, i) => Untouched(R2, E2, fl, iv, i)
  BY <1>2, <1>5 DEF Untouched
<1>7. ASSUME NEW e \in Entry, Offered(e, R, E, fl, iv) PROVE Asked(e, R2, E2, fl, iv)
  <2>1. PICK k \in 1..(m + 1) :
          /\ R[k].op = "Start" /\ R[k].batch[1] = e
          /\ ~After(R, "Cancel", k)
          /\ \A j \in 1..(m + 1) : j # k /\ R[j].op = "Start" => R[j].batch[1].index # e.index
    BY <1>3, <1>7 DEF Offered, m
  <2>2. Unanswered(E, fl, iv, e.index)
    BY <1>7 DEF Offered
  <2>3. CASE k = 1
    <3>1. e = e0 /\ NoStart(R2) /\ Free(R2, fl)
      BY <1>2, <2>1, <2>3
    <3>2. \A j \in 1..(n + 1) : E2[j].op = "Started" => E2[j].index # e.index
      BY <1>1, <2>2 DEF Unanswered, Replies, n
    <3>3. Unoffered(R2, e.index)
      BY <3>1 DEF Unoffered, NoStart
    <3>4. QED
      BY <1>1, <3>1, <3>2, <3>3 DEF Asked, Refused
  <2>4. CASE k # 1
    <3>1. PICK h \in 1..m : h + 1 = k
      BY <1>3, <2>4
    <3>2. /\ R2[h].op = "Start" /\ R2[h].batch[1] = e
          /\ ~After(R2, "Cancel", h)
          /\ \A j \in 1..m : j # h /\ R2[j].op = "Start" => R2[j].batch[1].index # e.index
      BY <1>3, <1>4, <2>1, <3>1
    <3>3. e.index # e0.index
      BY <1>3, <2>1, <2>4
    <3>4. QED
      BY <1>5, <2>2, <3>2, <3>3 DEF Asked, Offered, m
  <2>5. QED
    BY <2>3, <2>4
<1>8. \A i, kind, k : ~Backed(i, kind, k, R, E, fl, iv)
  BY <1>3 DEF Backed, NoStart, m
<1>9. \A e : ~Began(e, R, E, fl, iv)
  BY <1>8 DEF Began
<1>10. ASSUME NEW e \in Entry, Refused(e, R, E, fl) PROVE Refused(e, R2, E2, fl)
  BY <1>1, <1>2, <1>10 DEF Refused, n
<1>11. QED
  BY <1>2, <1>6, <1>7, <1>8, <1>9, <1>10 DEF Carries, Asked

\* An event that says nothing of a queued command is raised.
LEMMA OtherRaised ==
  ASSUME NEW R, NEW E, NEW E2, NEW fl, NEW iv, NEW x, Grows(E2, E, x), x.op \notin Replies
  PROVE  Carries(R, E, fl, iv, R, E2, fl, iv)
<1> DEFINE n == Len(E)
<1>1. /\ n \in Nat /\ Len(E2) = n + 1 /\ E2[n + 1] = x
      /\ \A k \in 1..n : E2[k] = E[k] /\ k \in 1..(n + 1)
      /\ \A k \in 1..(n + 1) : k = n + 1 \/ (k \in 1..n /\ E2[k] = E[k])
  BY DEF Grows
<1>2. \A k \in 1..(n + 1) : E2[k].op \in Replies => k \in 1..n /\ E2[k] = E[k]
  BY <1>1
<1>3. \A k \in 1..(n + 1) : E2[k].op \in StartAnswers \/ E2[k].op \in {"Started", "Rejected", "Outcome"}
                              => E2[k].op \in Replies
  BY DEF StartAnswers, Replies
<1> HIDE DEF n
<1>4. \A i : Unanswered(E, fl, iv, i) => Unanswered(E2, fl, iv, i)
  BY <1>1, <1>2 DEF Unanswered, n
<1>5. \A i, kind, k : Backed(i, kind, k, R, E, fl, iv) => Backed(i, kind, k, R, E2, fl, iv)
  BY <1>1, <1>2, <1>3 DEF Backed, n
<1>6. \A e : Began(e, R, E, fl, iv) => Began(e, R, E2, fl, iv)
  BY <1>1, <1>2, <1>3, <1>5 DEF Began, n
<1>7. \A e : Refused(e, R, E, fl) => Refused(e, R, E2, fl)
  BY <1>1, <1>2, <1>3 DEF Refused, n
<1>8. QED
  BY <1>4, <1>5, <1>6, <1>7 DEF Carries, Asked, Untouched, Offered

\* The command in flight is invalidated.
LEMMA Invalidated ==
  ASSUME NEW R, NEW E, NEW fl, NEW iv, fl # NoFlight
  PROVE  Carries(R, E, fl, iv, R, E, NoFlight, fl.index)
<1>1. NoFlight.index = 0
  BY DEF NoFlight
<1>2. \A i \in Nat \ {0} : Unanswered(E, fl, iv, i) => Unanswered(E, NoFlight, fl.index, i)
  BY <1>1 DEF Unanswered
<1>3. Free(R, fl) => Free(R, NoFlight)
  BY DEF Free
<1>4. Separate(R, fl) => Separate(R, NoFlight)
  BY DEF Separate
<1>5. \A i, kind, k : Backed(i, kind, k, R, E, fl, iv) => Backed(i, kind, k, R, E, NoFlight, fl.index)
  BY DEF Backed
<1>6. \A e : Began(e, R, E, fl, iv) => Began(e, R, E, NoFlight, fl.index)
  BY <1>5 DEF Began
<1>7. \A e \in Entry : Offered(e, R, E, fl, iv) => Offered(e, R, E, NoFlight, fl.index)
  BY <1>2 DEF Offered, Entry
<1>8. \A e : Refused(e, R, E, fl) => Refused(e, R, E, NoFlight)
  BY <1>3 DEF Refused
<1>9. QED
  BY <1>2, <1>3, <1>4, <1>5, <1>6, <1>7, <1>8 DEF Carries, Asked, Untouched

\* poll reports the command that was invalidated, or else the one in flight.
LEMMA OutcomeRaised ==
  ASSUME NEW R, NEW E, NEW E2, NEW fl, NEW iv, NEW fl2, NEW iv2, NEW x,
         Grows(E2, E, x), x.op = "Outcome",
         \/ x.index = iv /\ iv2 = 0 /\ fl2 = fl
         \/ x.index = fl.index /\ fl # NoFlight /\ iv2 = iv /\ fl2 = NoFlight
  PROVE  Carries(R, E, fl, iv, R, E2, fl2, iv2)
<1> DEFINE n == Len(E)
<1>1. /\ n \in Nat /\ Len(E2) = n + 1 /\ E2[n + 1] = x
      /\ \A k \in 1..n : E2[k] = E[k] /\ k \in 1..(n + 1) /\ k < n + 1
      /\ \A k \in 1..(n + 1) : k = n + 1 \/ (k \in 1..n /\ E2[k] = E[k])
      /\ n + 1 \in 1..(n + 1) /\ 0 < n + 1
  BY DEF Grows
<1>2. NoFlight.index = 0
  BY DEF NoFlight
<1>3. \A k \in 1..(n + 1) : E2[k].op \in StartAnswers => k \in 1..n /\ E2[k] = E[k]
  BY <1>1 DEF StartAnswers
<1>4. \A k \in 1..(n + 1) : E2[k].op \in {"Started", "Rejected"} => k \in 1..n /\ E2[k] = E[k]
  BY <1>1
<1> HIDE DEF n
<1>5. \A i \in Nat \ {0} : Unanswered(E, fl, iv, i) => Unanswered(E2, fl2, iv2, i)
  BY <1>1, <1>2 DEF Unanswered, n
<1>6. Free(R, fl) => Free(R, fl2)
  BY DEF Free
<1>7. Separate(R, fl) => Separate(R, fl2)
  BY DEF Separate
<1>8. ASSUME NEW i \in Nat \ {0}, NEW kind, NEW k, k < n + 1, Backed(i, kind, k, R, E, fl, iv)
      PROVE  Backed(i, kind, k, R, E2, fl2, iv2)
  <2>1. NoStart(R)
    BY <1>8 DEF Backed
  <2>2. CASE /\ fl = [index |-> i, kind |-> kind]
             /\ ~After(R, "Cancel", 0) /\ iv # i
             /\ \A m \in 1..Len(E) : E[m].op = "Outcome" => E[m].index # i
    <3>1. CASE x.index = iv /\ iv2 = 0 /\ fl2 = fl
      BY <1>1, <2>1, <2>2, <3>1 DEF Backed, n
    <3>2. CASE x.index = fl.index /\ fl2 = NoFlight
      <4>1. fl.index = i
        BY <2>2
      <4>2. E2[n + 1].op = "Outcome" /\ E2[n + 1].index = i
        BY <1>1, <3>2, <4>1
      <4>3. QED
        BY <1>1, <1>8, <2>1, <3>2, <4>2 DEF Backed
    <3>3. QED
      BY <3>1, <3>2
  <2>3. CASE fl = NoFlight /\ iv = i
    <3>1. x.index = iv /\ fl2 = NoFlight
      BY <2>3
    <3>2. E2[n + 1].op = "Outcome" /\ E2[n + 1].index = i
      BY <1>1, <2>3, <3>1
    <3>3. QED
      BY <1>1, <1>8, <2>1, <3>1, <3>2 DEF Backed
  <2>4. CASE /\ fl = NoFlight
             /\ \E m \in 1..Len(E) : k < m /\ E[m].op = "Outcome" /\ E[m].index = i
    <3>1. PICK m \in 1..n : k < m /\ E[m].op = "Outcome" /\ E[m].index = i
      BY <2>4 DEF n
    <3>2. m \in 1..(n + 1) /\ E2[m] = E[m] /\ fl2 = NoFlight
      BY <1>1, <2>4, <3>1
    <3>3. QED
      BY <1>1, <2>1, <3>1, <3>2 DEF Backed
  <2>5. QED
    BY <1>8, <2>2, <2>3, <2>4 DEF Backed
<1>9. ASSUME NEW e \in Entry, Began(e, R, E, fl, iv) PROVE Began(e, R, E2, fl2, iv2)
  <2>1. PICK k \in 1..n :
          /\ E[k].op = "Started" /\ E[k].index = e.index
          /\ \A j \in 1..n : j # k /\ E[j].op \in StartAnswers => E[j].index # e.index
          /\ Backed(e.index, e.kind, k, R, E, fl, iv)
    BY <1>9 DEF Began, n
  <2>2. Backed(e.index, e.kind, k, R, E2, fl2, iv2)
    BY <1>1, <1>8, <2>1 DEF Entry
  <2>3. QED
    BY <1>1, <1>3, <2>1, <2>2 DEF Began
<1>10. \A e \in Entry : Offered(e, R, E, fl, iv) => Offered(e, R, E2, fl2, iv2)
  BY <1>5 DEF Offered, Entry
<1>11. \A e : Refused(e, R, E, fl) => Refused(e, R, E2, fl2)
  BY <1>1, <1>4, <1>6 DEF Refused, n
<1>12. QED
  BY <1>1, <1>5, <1>6, <1>7, <1>8, <1>9, <1>10, <1>11 DEF Carries, Asked, Untouched

Says(ev, op, i) == ev.op = op /\ ev.index = i

\* The server takes an event: what it says is what was owed.
LEMMA EventTaken ==
  ASSUME NEW R, NEW E, NEW E2, NEW fl, NEW iv, Shifts(E2, E)
  PROVE  /\ \A i : Untouched(R, E, fl, iv, i) => Untouched(R, E2, fl, iv, i)
         /\ \A e \in Entry : Says(E[1], "Started", e.index) /\ Asked(e, R, E, fl, iv) =>
              Backed(e.index, e.kind, 0, R, E2, fl, iv)
         /\ \A e \in Entry : Says(E[1], "Rejected", e.index) /\ Asked(e, R, E, fl, iv) =>
              Free(R, fl)
         /\ \A e \in Entry : /\ ~Says(E[1], "Started", e.index)
                             /\ ~Says(E[1], "Rejected", e.index)
                             /\ Asked(e, R, E, fl, iv)
                             => Asked(e, R, E2, fl, iv)
         /\ \A i, kind : Says(E[1], "Outcome", i) /\ Backed(i, kind, 0, R, E, fl, iv) => Free(R, fl)
         /\ \A i, kind : ~Says(E[1], "Outcome", i) /\ Backed(i, kind, 0, R, E, fl, iv) =>
              Backed(i, kind, 0, R, E2, fl, iv)
<1> DEFINE n == Len(E2)
<1>1. /\ n \in Nat /\ Len(E) = n + 1 /\ 1 \in 1..(n + 1)
      /\ \A k \in 1..n : E2[k] = E[k + 1] /\ k + 1 \in 1..(n + 1) /\ k + 1 # 1 /\ 0 < k
      /\ \A k \in 1..(n + 1) : k = 1 \/ (k - 1 \in 1..n /\ (k - 1) + 1 = k)
      /\ \A j, k \in 1..n : j # k => j + 1 # k + 1
      /\ \A j, k \in 1..n : j + 1 < k + 1 => j < k
      /\ \A k \in 1..n : 1 < k + 1
  BY DEF Shifts
<1>2. ~(1 < 1)
  OBVIOUS
<1> HIDE DEF n
<1>3. \A i : Unanswered(E, fl, iv, i) => Unanswered(E2, fl, iv, i)
  BY <1>1 DEF Unanswered, n
<1>4. ASSUME NEW i, NEW kind, NEW k \in 1..n, Backed(i, kind, k + 1, R, E, fl, iv)
      PROVE  Backed(i, kind, k, R, E2, fl, iv)
  <2>1. \A m \in 1..(n + 1) : k + 1 < m => \E h \in 1..n : k < h /\ h + 1 = m
    <3>1. ASSUME NEW m \in 1..(n + 1), k + 1 < m PROVE \E h \in 1..n : k < h /\ h + 1 = m
      <4>1. m - 1 \in 1..n /\ k < m - 1 /\ (m - 1) + 1 = m
        BY <1>1, <3>1
      <4>2. QED
        BY <4>1
    <3>2. QED
      BY <3>1
  <2>2. QED
    BY <1>1, <1>4, <2>1 DEF Backed, n
<1>5. ASSUME NEW i, NEW kind, Backed(i, kind, 1, R, E, fl, iv)
      PROVE  Backed(i, kind, 0, R, E2, fl, iv)
  <2>1. \A m \in 1..(n + 1) : 1 < m => \E h \in 1..n : 0 < h /\ h + 1 = m
    <3>1. ASSUME NEW m \in 1..(n + 1), 1 < m PROVE \E h \in 1..n : 0 < h /\ h + 1 = m
      BY <1>1, <3>1, m - 1 \in 1..n
    <3>2. QED
      BY <3>1
  <2>2. QED
    BY <1>1, <1>5, <2>1 DEF Backed, n
<1>6. ASSUME NEW i, NEW kind, ~Says(E[1], "Outcome", i), Backed(i, kind, 0, R, E, fl, iv)
      PROVE  Backed(i, kind, 1, R, E, fl, iv)
  <2>1. \A m \in 1..(n + 1) : m = 1 \/ 1 < m
    BY <1>1
  <2>2. QED
    BY <1>1, <1>6, <2>1 DEF Backed, Says, n
<1>7. ASSUME NEW i, NEW kind, Says(E[1], "Outcome", i), Backed(i, kind, 0, R, E, fl, iv)
      PROVE  Free(R, fl)
  <2>1. fl = NoFlight /\ NoStart(R)
    BY <1>1, <1>7 DEF Backed, Says, n
  <2>2. QED
    BY <2>1 DEF Free, NoStart
<1>8. ASSUME NEW e \in Entry, Offered(e, R, E, fl, iv)
      PROVE  /\ ~Says(E[1], "Started", e.index) /\ ~Says(E[1], "Rejected", e.index)
             /\ Offered(e, R, E2, fl, iv)
  BY <1>1, <1>3, <1>8 DEF Offered, Unanswered, Replies, Says, n
<1>9. ASSUME NEW e \in Entry, Began(e, R, E, fl, iv)
      PROVE  /\ ~Says(E[1], "Rejected", e.index)
             /\ Says(E[1], "Started", e.index) => Backed(e.index, e.kind, 0, R, E2, fl, iv)
             /\ ~Says(E[1], "Started", e.index) => Began(e, R, E2, fl, iv)
  <2>1. PICK k \in 1..(n + 1) :
          /\ E[k].op = "Started" /\ E[k].index = e.index
          /\ \A j \in 1..(n + 1) : j # k /\ E[j].op \in StartAnswers => E[j].index # e.index
          /\ Backed(e.index, e.kind, k, R, E, fl, iv)
    BY <1>1, <1>9 DEF Began
  <2>2. ~Says(E[1], "Rejected", e.index)
    BY <1>1, <2>1 DEF Says, StartAnswers
  <2>3. CASE k = 1
    BY <1>5, <2>1, <2>2, <2>3 DEF Says
  <2>4. CASE k # 1
    <3>1. PICK h \in 1..n : h + 1 = k
      BY <1>1, <2>4
    <3>2. ~Says(E[1], "Started", e.index)
      BY <1>1, <2>1, <2>4 DEF Says, StartAnswers
    <3>3. Backed(e.index, e.kind, h, R, E2, fl, iv)
      BY <1>4, <2>1, <3>1
    <3>4. /\ E2[h].op = "Started" /\ E2[h].index = e.index
          /\ \A j \in 1..n : j # h /\ E2[j].op \in StartAnswers => E2[j].index # e.index
      BY <1>1, <2>1, <3>1
    <3>5. QED
      BY <2>2, <3>2, <3>3, <3>4 DEF Began, n
  <2>5. QED
    BY <2>3, <2>4
<1>10. ASSUME NEW e \in Entry, Refused(e, R, E, fl)
       PROVE  /\ ~Says(E[1], "Started", e.index)
              /\ ~Says(E[1], "Rejected", e.index) => Refused(e, R, E2, fl)
              /\ Free(R, fl)
  <2>1. /\ \E k \in 1..(n + 1) : E[k].op = "Rejected" /\ E[k].index = e.index
        /\ \A j \in 1..(n + 1) : E[j].op = "Started" => E[j].index # e.index
        /\ Unoffered(R, e.index) /\ Free(R, fl)
    BY <1>1, <1>10 DEF Refused
  <2>2. PICK k \in 1..(n + 1) : E[k].op = "Rejected" /\ E[k].index = e.index
    BY <2>1
  <2>3. ASSUME ~Says(E[1], "Rejected", e.index)
        PROVE  \E h \in 1..n : E2[h].op = "Rejected" /\ E2[h].index = e.index
    <3>1. k # 1
      BY <2>2, <2>3 DEF Says
    <3>2. PICK h \in 1..n : h + 1 = k
      BY <1>1, <3>1
    <3>3. QED
      BY <1>1, <2>2, <3>2
  <2>4. QED
    BY <1>1, <2>1, <2>3 DEF Refused, Says, n
<1>11. QED
  BY <1>3, <1>5, <1>6, <1>7, <1>8, <1>9, <1>10 DEF Asked, Untouched

-----------------------------------------------------------------------------
(* The tool stops `st` on their way: `ts` is the one the planner watches.  *)

Orders(r, stop) == r.op = "StartTool" /\ r.tag = stop.tag /\ r.index = stop.index

Heard(ev, tag) == ev.op = "ToolStarted" /\ ev.tag = tag

\* The planner took this stop on.
Accepted(stop, E) ==
  \/ stop.tag = 0
  \/ \E e \in 1..Len(E) : Heard(E[e], stop.tag) /\ E[e].ok

\* The planner watches this stop, or its verdict is on its way, behind the
\* acceptance.
Attends(stop, E, ts) ==
  \/ ts = stop.index
  \/ \E e \in 1..Len(E) :
       /\ E[e].op = "ToolOutcome" /\ E[e].index = stop.index
       /\ \/ stop.tag = 0
          \/ \E d \in 1..Len(E) : d < e /\ Heard(E[d], stop.tag) /\ E[d].ok

\* Stops are numbered in the order they came in, and each has its own tag.
StopsOrdered(st, nx, nt) ==
  \A k \in 1..Len(st) :
    /\ st[k].index \in Nat \ {0} /\ st[k].index < nx
    /\ st[k].tag \in Nat /\ st[k].tag <= nt
    /\ \A j \in 1..Len(st) : j < k => /\ st[j].index < st[k].index
                                      /\ st[k].tag # 0 => st[j].tag # st[k].tag

\* So are the stops on their way, behind the one the planner watches.
OrdersOrdered(R, nx, nt, ts) ==
  \A k \in 1..Len(R) : R[k].op = "StartTool" =>
    /\ R[k].index \in Nat \ {0} /\ R[k].index < nx /\ ts < R[k].index
    /\ R[k].tag \in Nat \ {0} /\ R[k].tag <= nt
    /\ \A m \in 1..Len(R) : m < k /\ R[m].op = "StartTool" =>
         R[m].index < R[k].index /\ R[m].tag # R[k].tag

\* A stop on its way is one the server holds, or its CancelTool is behind it.
OrdersHeld(st, R) ==
  \A k \in 1..Len(R) : R[k].op = "StartTool" =>
    After(R, "CancelTool", k) \/ \E j \in 1..Len(st) : Orders(R[k], st[j])

\* Nothing was said yet of a stop on its way, nor of a later one.
OrdersNew(R, E) ==
  \A k \in 1..Len(R), e \in 1..Len(E) : R[k].op = "StartTool" =>
    /\ E[e].op = "ToolOutcome" => E[e].index < R[k].index
    /\ E[e].op = "ToolStarted" => E[e].tag # R[k].tag

\* Stops are answered once each, and settle in order.
AnswersOrdered(E, nx, nt, ts) ==
  \A e \in 1..Len(E) :
    /\ E[e].op = "ToolOutcome" =>
         E[e].index \in Nat /\ E[e].index < nx /\ (ts = 0 \/ E[e].index < ts)
    /\ E[e].op = "ToolStarted" =>
         /\ E[e].tag \in Nat \ {0} /\ E[e].tag <= nt
         /\ \A d \in 1..Len(E) : d # e /\ E[d].op = "ToolStarted" => E[d].tag # E[e].tag

\* What a CancelTool cancels the server holds no more.
CancelsOld(st, R) ==
  \A p \in 1..Len(R), k \in 1..Len(st) : R[p].op = "CancelTool" =>
    \E q \in 1..Len(R) : p < q /\ Orders(R[q], st[k])

StopsAnswered(st, R, E) ==
  \A k \in 1..Len(st) :
    \/ st[k].tag = 0
    \/ \E q \in 1..Len(R) : Orders(R[q], st[k])
    \/ \E e \in 1..Len(E) : Heard(E[e], st[k].tag)

\* The stop the planner watches is one the server holds, or it is cancelled.
WatchIsHeld(st, R, E, ts) ==
  ts # 0 => \/ After(R, "CancelTool", 0)
            \/ \E k \in 1..Len(st) : st[k].index = ts /\ Accepted(st[k], E)

\* A stop the planner took on is settled by itself or by a later one.
StopsSettle(st, E, ts) ==
  \A k \in 1..Len(st) : Accepted(st[k], E) =>
    \E j \in 1..Len(st) : k <= j /\ Attends(st[j], E, ts)

Tools(st, nx, nt, R, E, ts) ==
  /\ st \in Seq(ToolStops) /\ nx \in Nat /\ nt \in Nat /\ ts \in Nat /\ ts < nx
  /\ StopsOrdered(st, nx, nt) /\ OrdersOrdered(R, nx, nt, ts) /\ OrdersHeld(st, R)
  /\ OrdersNew(R, E) /\ AnswersOrdered(E, nx, nt, ts)
  /\ CancelsOld(st, R) /\ StopsAnswered(st, R, E)
  /\ WatchIsHeld(st, R, E, ts) /\ StopsSettle(st, E, ts)

\* Later indices and tags may be handed out.
LEMMA ToolsLater ==
  ASSUME NEW st, NEW nx, NEW nt, NEW R, NEW E, NEW ts, Tools(st, nx, nt, R, E, ts),
         NEW nx2 \in Nat, NEW nt2 \in Nat, nx <= nx2, nt <= nt2
  PROVE  Tools(st, nx2, nt2, R, E, ts)
<1>1. nx \in Nat /\ nt \in Nat /\ ts \in Nat /\ ts < nx
  BY DEF Tools
<1>2. \A a \in Nat : /\ a < nx => a < nx2
                     /\ a <= nt => a <= nt2
  BY <1>1
<1>3. StopsOrdered(st, nx2, nt2)
  BY <1>2 DEF Tools, StopsOrdered
<1>4. OrdersOrdered(R, nx2, nt2, ts)
  BY <1>2 DEF Tools, OrdersOrdered
<1>5. AnswersOrdered(E, nx2, nt2, ts)
  BY <1>2 DEF Tools, AnswersOrdered
<1>6. QED
  BY <1>1, <1>2, <1>3, <1>4, <1>5 DEF Tools

\* A request that is no tool stop's is sent.
LEMMA ToolsOtherSent ==
  ASSUME NEW st, NEW nx, NEW nt, NEW R, NEW R2, NEW r, NEW E, NEW ts,
         Tools(st, nx, nt, R, E, ts), Grows(R2, R, r), r.op \notin {"StartTool", "CancelTool"}
  PROVE  Tools(st, nx, nt, R2, E, ts)
<1> DEFINE n == Len(R)
<1>1. /\ n \in Nat /\ Len(R2) = n + 1 /\ R2[n + 1] = r
      /\ \A k \in 1..n : R2[k] = R[k] /\ k \in 1..(n + 1) /\ k \in Nat
      /\ \A k \in 1..(n + 1) : k = n + 1 \/ k \in 1..n
  BY DEF Grows
<1>2. \A k \in 1..(n + 1) : R2[k].op \in {"StartTool", "CancelTool"} => k \in 1..n /\ R2[k] = R[k]
  BY <1>1
<1>3. \A k \in Nat : After(R2, "CancelTool", k) <=> After(R, "CancelTool", k)
  BY CutGrows
<1> HIDE DEF n
<1>4. OrdersOrdered(R2, nx, nt, ts)
  <2>1. OrdersOrdered(R, nx, nt, ts)
    BY DEF Tools
  <2>2. QED
    BY <1>1, <1>2, <2>1 DEF OrdersOrdered, n
<1>5. OrdersHeld(st, R2)
  BY <1>1, <1>2, <1>3 DEF Tools, OrdersHeld, n
<1>6. OrdersNew(R2, E)
  BY <1>1, <1>2 DEF Tools, OrdersNew, n
<1>7. CancelsOld(st, R2)
  BY <1>1, <1>2 DEF Tools, CancelsOld, n
<1>8. StopsAnswered(st, R2, E)
  BY <1>1 DEF Tools, StopsAnswered, n
<1>9. WatchIsHeld(st, R2, E, ts)
  BY <1>3 DEF Tools, WatchIsHeld
<1>10. QED
  BY <1>4, <1>5, <1>6, <1>7, <1>8, <1>9 DEF Tools

\* CancelTool is sent, and the server holds no stop.
LEMMA ToolsCancelSent ==
  ASSUME NEW st, NEW nx, NEW nt, NEW R, NEW R2, NEW r, NEW E, NEW ts,
         Tools(st, nx, nt, R, E, ts), Grows(R2, R, r), r.op = "CancelTool"
  PROVE  Tools(<<>>, nx, nt, R2, E, ts)
<1> DEFINE n == Len(R)
<1>1. /\ n \in Nat /\ Len(R2) = n + 1 /\ R2[n + 1] = r
      /\ \A k \in 1..n : R2[k] = R[k] /\ k \in 1..(n + 1) /\ k \in Nat /\ k <= n
      /\ \A k \in 1..(n + 1) : k = n + 1 \/ k \in 1..n
  BY DEF Grows
<1>2. \A k \in 1..(n + 1) : R2[k].op = "StartTool" => k \in 1..n /\ R2[k] = R[k]
  BY <1>1
<1>3. /\ \A k \in 1..n : After(R2, "CancelTool", k)
      /\ After(R2, "CancelTool", 0)
  <2>1. 0 \in Nat /\ 0 <= n
    BY <1>1
  <2>2. QED
    BY <1>1, <2>1, CutGrows
<1>4. <<>> \in Seq(ToolStops) /\ 1..Len(<<>>) = {}
  BY EmptySeq
<1> HIDE DEF n
<1>5. OrdersOrdered(R2, nx, nt, ts)
  <2>1. OrdersOrdered(R, nx, nt, ts)
    BY DEF Tools
  <2>2. QED
    BY <1>1, <1>2, <2>1 DEF OrdersOrdered, n
<1>6. OrdersHeld(<<>>, R2)
  BY <1>1, <1>2, <1>3 DEF OrdersHeld
<1>7. OrdersNew(R2, E)
  BY <1>1, <1>2 DEF Tools, OrdersNew, n
<1>8. WatchIsHeld(<<>>, R2, E, ts)
  BY <1>3 DEF WatchIsHeld
<1>9. QED
  BY <1>4, <1>5, <1>6, <1>7, <1>8 DEF Tools, StopsOrdered, CancelsOld, StopsAnswered, StopsSettle

\* A tool stop is sent: its index and tag are new.
LEMMA ToolsStartSent ==
  ASSUME NEW st, NEW nx, NEW nt, NEW R, NEW R2, NEW r, NEW E, NEW ts,
         Tools(st, nx, nt, R, E, ts), Grows(R2, R, r), nx # 0,
         r = [op |-> "StartTool", tag |-> nt + 1, index |-> nx]
  PROVE  Tools(Append(st, [index |-> nx, tag |-> nt + 1]), nx + 1, nt + 1, R2, E, ts)
<1> DEFINE n  == Len(R)
           x  == [index |-> nx, tag |-> nt + 1]
           s2 == Append(st, x)
           l  == Len(st)
<1>1. /\ n \in Nat /\ Len(R2) = n + 1 /\ R2[n + 1] = r
      /\ \A k \in 1..n : R2[k] = R[k] /\ k \in 1..(n + 1) /\ k \in Nat /\ k < n + 1
      /\ \A k \in 1..(n + 1) : k = n + 1 \/ (k \in 1..n /\ R2[k] = R[k])
      /\ n + 1 \in 1..(n + 1)
      /\ \A k \in 1..n : ~(n + 1 < k)
      /\ ~(n + 1 < n + 1)
  BY DEF Grows
<1>2. nx \in Nat /\ nt \in Nat /\ ts \in Nat /\ ts < nx /\ st \in Seq(ToolStops)
  BY DEF Tools
<1>3. x \in ToolStops /\ x.index = nx /\ x.tag = nt + 1 /\ nt + 1 \in Nat \ {0}
  BY <1>2 DEF ToolStops
<1>4. /\ l \in Nat /\ Len(s2) = l + 1 /\ s2[l + 1] = x /\ s2 \in Seq(ToolStops)
      /\ \A k \in 1..l : s2[k] = st[k] /\ k \in 1..(l + 1) /\ k < l + 1
      /\ \A k \in 1..(l + 1) : k = l + 1 \/ (k \in 1..l /\ s2[k] = st[k])
      /\ l + 1 \in 1..(l + 1) /\ ~(l + 1 < l + 1)
      /\ \A k \in 1..l : ~(l + 1 < k)
  BY <1>2, <1>3, AppendGrows DEF Grows
<1>5. \A k \in Nat : After(R2, "CancelTool", k) <=> After(R, "CancelTool", k)
  BY CutGrows
<1>6. /\ r.op = "StartTool" /\ r.tag = nt + 1 /\ r.index = nx
      /\ Orders(r, x)
  BY DEF Orders
<1>7. /\ \A a \in Nat : a < nx => a < nx + 1
      /\ \A a \in Nat : a <= nt => a <= nt + 1 /\ a # nt + 1
      /\ nx < nx + 1 /\ nx + 1 \in Nat /\ ts < nx + 1 /\ nx \in Nat \ {0}
      /\ nt + 1 <= nt + 1
  BY <1>2
<1> HIDE DEF n, x, s2, l
<1>8. StopsOrdered(s2, nx + 1, nt + 1)
  <2>1. ASSUME NEW k \in 1..l
        PROVE  /\ st[k].index \in Nat \ {0} /\ st[k].index < nx
               /\ st[k].tag \in Nat /\ st[k].tag <= nt
               /\ \A j \in 1..l : j < k => /\ st[j].index < st[k].index
                                           /\ st[k].tag # 0 => st[j].tag # st[k].tag
    BY <2>1 DEF Tools, StopsOrdered, l
  <2>2. ASSUME NEW k \in 1..(l + 1)
        PROVE  /\ s2[k].index \in Nat \ {0} /\ s2[k].index < nx + 1
               /\ s2[k].tag \in Nat /\ s2[k].tag <= nt + 1
               /\ \A j \in 1..(l + 1) : j < k => /\ s2[j].index < s2[k].index
                                                 /\ s2[k].tag # 0 => s2[j].tag # s2[k].tag
    <3>1. CASE k = l + 1
      BY <1>3, <1>4, <1>7, <2>1, <3>1, SMTT(40)
    <3>2. CASE k \in 1..l /\ s2[k] = st[k]
      BY <1>4, <1>7, <2>1, <3>2
    <3>3. QED
      BY <1>4, <3>1, <3>2
  <2>3. QED
    BY <1>4, <2>2 DEF StopsOrdered
<1>9. OrdersOrdered(R2, nx + 1, nt + 1, ts)
  <2>1. ASSUME NEW k \in 1..n, R[k].op = "StartTool"
        PROVE  /\ R[k].index \in Nat \ {0} /\ R[k].index < nx /\ ts < R[k].index
               /\ R[k].tag \in Nat \ {0} /\ R[k].tag <= nt
               /\ \A m \in 1..n : m < k /\ R[m].op = "StartTool" =>
                    R[m].index < R[k].index /\ R[m].tag # R[k].tag
    BY <2>1 DEF Tools, OrdersOrdered, n
  <2>2. ASSUME NEW k \in 1..(n + 1), R2[k].op = "StartTool"
        PROVE  /\ R2[k].index \in Nat \ {0} /\ R2[k].index < nx + 1 /\ ts < R2[k].index
               /\ R2[k].tag \in Nat \ {0} /\ R2[k].tag <= nt + 1
               /\ \A m \in 1..(n + 1) : m < k /\ R2[m].op = "StartTool" =>
                    R2[m].index < R2[k].index /\ R2[m].tag # R2[k].tag
    <3>1. CASE k = n + 1
      <4>1. R2[k] = r /\ R2[k].index = nx /\ R2[k].tag = nt + 1
        BY <1>1, <1>6, <3>1
      <4>2. ASSUME NEW m \in 1..(n + 1), m < k, R2[m].op = "StartTool"
            PROVE  R2[m].index < nx /\ R2[m].tag # nt + 1
        <5>1. m \in 1..n /\ R2[m] = R[m]
          BY <1>1, <3>1, <4>2
        <5>2. R[m].index < nx /\ R[m].tag \in Nat /\ R[m].tag <= nt
          BY <2>1, <4>2, <5>1
        <5>3. QED
          BY <1>7, <5>1, <5>2
      <4>3. QED
        BY <1>2, <1>3, <1>7, <4>1, <4>2
    <3>2. CASE k \in 1..n /\ R2[k] = R[k]
      BY <1>1, <1>7, <2>1, <2>2, <3>2
    <3>3. QED
      BY <1>1, <3>1, <3>2
  <2>3. QED
    BY <1>1, <2>2 DEF OrdersOrdered
<1>10. OrdersHeld(s2, R2)
  BY <1>1, <1>4, <1>5, <1>6 DEF Tools, OrdersHeld, n, l
<1>11. OrdersNew(R2, E)
  <2>1. ASSUME NEW e \in 1..Len(E)
        PROVE  /\ E[e].op = "ToolOutcome" => E[e].index < nx
               /\ E[e].op = "ToolStarted" => E[e].tag # nt + 1
    BY <1>7 DEF Tools, AnswersOrdered
  <2>2. QED
    BY <1>1, <1>6, <2>1 DEF Tools, OrdersNew, n
<1>12. AnswersOrdered(E, nx + 1, nt + 1, ts)
  BY <1>7 DEF Tools, AnswersOrdered
<1>13. CancelsOld(s2, R2)
  <2>1. \A p \in 1..(n + 1) : R2[p].op = "CancelTool" => p \in 1..n /\ R2[p] = R[p] /\ p < n + 1
    BY <1>1, <1>6
  <2>2. ASSUME NEW p \in 1..n, NEW k \in 1..l, R[p].op = "CancelTool"
        PROVE  \E q \in 1..(n + 1) : p < q /\ Orders(R2[q], st[k])
    BY <1>1, <2>2 DEF Tools, CancelsOld, n, l
  <2>3. QED
    BY <1>1, <1>4, <1>6, <2>1, <2>2 DEF CancelsOld
<1>14. StopsAnswered(s2, R2, E)
  BY <1>1, <1>4, <1>6 DEF Tools, StopsAnswered, n, l
<1>15. WatchIsHeld(s2, R2, E, ts)
  BY <1>4, <1>5 DEF Tools, WatchIsHeld, l
<1>16. ~Accepted(x, E)
  <2>1. \A e \in 1..Len(E) : E[e].op = "ToolStarted" => E[e].tag # nt + 1
    BY <1>7 DEF Tools, AnswersOrdered
  <2>2. x.tag = nt + 1 /\ x.tag # 0
    BY <1>3
  <2>3. QED
    BY <2>1, <2>2 DEF Accepted, Heard
<1>17. StopsSettle(s2, E, ts)
  BY <1>4, <1>16 DEF Tools, StopsSettle, l
<1>18. QED
  BY <1>2, <1>3, <1>4, <1>7, <1>8, <1>9, <1>10, <1>11, <1>12, <1>13, <1>14, <1>15, <1>17
     DEF Tools, s2, x

\* A request that is no tool stop's is taken.
LEMMA ToolsOtherTaken ==
  ASSUME NEW st, NEW nx, NEW nt, NEW R, NEW R2, NEW E, NEW ts,
         Tools(st, nx, nt, R, E, ts), Shifts(R2, R), R[1].op \notin {"StartTool", "CancelTool"}
  PROVE  Tools(st, nx, nt, R2, E, ts)
<1> DEFINE n == Len(R2)
<1>1. /\ n \in Nat /\ Len(R) = n + 1
      /\ \A k \in 1..n : R2[k] = R[k + 1] /\ k + 1 \in 1..(n + 1) /\ k \in Nat
      /\ \A k \in 1..(n + 1) : k = 1 \/ (k - 1 \in 1..n /\ (k - 1) + 1 = k)
      /\ \A j, k \in 1..n : j < k <=> j + 1 < k + 1
  BY DEF Shifts
<1>2. \A k \in 1..(n + 1) : R[k].op \in {"StartTool", "CancelTool"} =>
        \E h \in 1..n : h + 1 = k /\ R2[h] = R[k]
  BY <1>1
<1>3. /\ \A k \in 1..n : After(R2, "CancelTool", k) <=> After(R, "CancelTool", k + 1)
      /\ After(R2, "CancelTool", 0) <=> After(R, "CancelTool", 0)
  BY <1>1, CutShifts
<1>4. \A stop : \A q \in 1..(n + 1) : Orders(R[q], stop) => \E h \in 1..n : h + 1 = q /\ Orders(R2[h], stop)
  BY <1>2 DEF Orders
<1> HIDE DEF n
<1>5. OrdersOrdered(R2, nx, nt, ts)
  <2>1. OrdersOrdered(R, nx, nt, ts)
    BY DEF Tools
  <2>2. QED
    BY <1>1, <2>1, SMTT(40) DEF OrdersOrdered, n
<1>6. OrdersHeld(st, R2)
  <2>1. OrdersHeld(st, R)
    BY DEF Tools
  <2>2. QED
    BY <1>1, <1>3, <2>1 DEF OrdersHeld, n
<1>7. OrdersNew(R2, E)
  <2>1. OrdersNew(R, E)
    BY DEF Tools
  <2>2. QED
    BY <1>1, <2>1 DEF OrdersNew, n
<1>8. CancelsOld(st, R2)
  <2>1. ASSUME NEW p \in 1..n, NEW k \in 1..Len(st), R2[p].op = "CancelTool"
        PROVE  \E h \in 1..n : p < h /\ Orders(R2[h], st[k])
    <3>1. PICK q \in 1..(n + 1) : p + 1 < q /\ Orders(R[q], st[k])
      BY <1>1, <2>1 DEF Tools, CancelsOld
    <3>2. QED
      BY <1>1, <1>4, <3>1
  <2>2. QED
    BY <2>1 DEF CancelsOld, n
<1>9. StopsAnswered(st, R2, E)
  BY <1>1, <1>4 DEF Tools, StopsAnswered, n
<1>10. WatchIsHeld(st, R2, E, ts)
  BY <1>3 DEF Tools, WatchIsHeld
<1>11. QED
  BY <1>5, <1>6, <1>7, <1>8, <1>9, <1>10 DEF Tools

\* No stop is taken on while a CancelTool is on its way.
LEMMA CancelledUnheard ==
  ASSUME NEW st, NEW nx, NEW nt, NEW R, NEW E, NEW ts, Tools(st, nx, nt, R, E, ts),
         NEW p \in 1..Len(R), R[p].op = "CancelTool", NEW k \in 1..Len(st)
  PROVE  ~Accepted(st[k], E)
<1>1. PICK q \in 1..Len(R) : Orders(R[q], st[k])
  BY DEF Tools, CancelsOld
<1>2. R[q].op = "StartTool" /\ R[q].tag = st[k].tag
  BY <1>1 DEF Orders
<1>3. st[k].tag # 0
  BY <1>2 DEF Tools, OrdersOrdered
<1>4. \A e \in 1..Len(E) : E[e].op = "ToolStarted" => E[e].tag # st[k].tag
  BY <1>2 DEF Tools, OrdersNew
<1>5. QED
  BY <1>3, <1>4 DEF Accepted, Heard

\* A CancelTool is taken: the planner watches nothing.
LEMMA ToolsCancelTaken ==
  ASSUME NEW st, NEW nx, NEW nt, NEW R, NEW R2, NEW E, NEW ts,
         Tools(st, nx, nt, R, E, ts), Shifts(R2, R), R[1].op = "CancelTool"
  PROVE  Tools(st, nx, nt, R2, E, 0)
<1> DEFINE n == Len(R2)
<1>1. /\ n \in Nat /\ Len(R) = n + 1 /\ 1 \in 1..(n + 1)
      /\ \A k \in 1..n : R2[k] = R[k + 1] /\ k + 1 \in 1..(n + 1) /\ k \in Nat
      /\ \A k \in 1..(n + 1) : k = 1 \/ (k - 1 \in 1..n /\ (k - 1) + 1 = k)
      /\ \A j, k \in 1..n : j < k <=> j + 1 < k + 1
  BY DEF Shifts
<1>2. \A stop : \A q \in 1..(n + 1) : Orders(R[q], stop) => \E h \in 1..n : h + 1 = q /\ Orders(R2[h], stop)
  BY <1>1 DEF Orders
<1>3. \A k \in 1..n : After(R2, "CancelTool", k) <=> After(R, "CancelTool", k + 1)
  BY <1>1, CutShifts
<1>4. \A k \in 1..Len(st) : ~Accepted(st[k], E)
  BY <1>1, CancelledUnheard
<1>5. nx \in Nat /\ ts \in Nat /\ ts < nx /\ 0 \in Nat /\ 0 < nx
  BY DEF Tools
<1>6. \A a \in Nat \ {0} : 0 < a
  OBVIOUS
<1> HIDE DEF n
<1>7. OrdersOrdered(R2, nx, nt, 0)
  <2>1. OrdersOrdered(R, nx, nt, ts)
    BY DEF Tools
  <2>2. QED
    BY <1>1, <1>6, <2>1 DEF OrdersOrdered, n
<1>8. OrdersHeld(st, R2)
  BY <1>1, <1>3 DEF Tools, OrdersHeld, n
<1>9. OrdersNew(R2, E)
  <2>1. OrdersNew(R, E)
    BY DEF Tools
  <2>2. QED
    BY <1>1, <2>1 DEF OrdersNew, n
<1>10. CancelsOld(st, R2)
  <2>1. ASSUME NEW p \in 1..n, NEW k \in 1..Len(st), R2[p].op = "CancelTool"
        PROVE  \E h \in 1..n : p < h /\ Orders(R2[h], st[k])
    <3>1. PICK q \in 1..(n + 1) : p + 1 < q /\ Orders(R[q], st[k])
      BY <1>1, <2>1 DEF Tools, CancelsOld
    <3>2. QED
      BY <1>1, <1>2, <3>1
  <2>2. QED
    BY <2>1 DEF CancelsOld, n
<1>11. StopsAnswered(st, R2, E)
  BY <1>1, <1>2 DEF Tools, StopsAnswered, n
<1>12. AnswersOrdered(E, nx, nt, 0)
  BY DEF Tools, AnswersOrdered
<1>13. WatchIsHeld(st, R2, E, 0) /\ StopsSettle(st, E, 0)
  BY <1>4 DEF WatchIsHeld, StopsSettle
<1>14. QED
  BY <1>5, <1>7, <1>8, <1>9, <1>10, <1>11, <1>12, <1>13 DEF Tools

\* An event that is no tool stop's is raised.
LEMMA ToolsOtherRaised ==
  ASSUME NEW st, NEW nx, NEW nt, NEW R, NEW E, NEW E2, NEW x, NEW ts,
         Tools(st, nx, nt, R, E, ts), Grows(E2, E, x), x.op \notin {"ToolStarted", "ToolOutcome"}
  PROVE  Tools(st, nx, nt, R, E2, ts)
<1> DEFINE n == Len(E)
<1>1. /\ n \in Nat /\ Len(E2) = n + 1 /\ E2[n + 1] = x
      /\ \A k \in 1..n : E2[k] = E[k] /\ k \in 1..(n + 1)
      /\ \A k \in 1..(n + 1) : k = n + 1 \/ k \in 1..n
  BY DEF Grows
<1>2. \A k \in 1..(n + 1) : E2[k].op \in {"ToolStarted", "ToolOutcome"} => k \in 1..n /\ E2[k] = E[k]
  BY <1>1
<1>3. \A k \in 1..(n + 1) : \A tag : Heard(E2[k], tag) => k \in 1..n /\ E2[k] = E[k]
  BY <1>2 DEF Heard
<1> HIDE DEF n
<1>4. OrdersNew(R, E2)
  BY <1>1, <1>2 DEF Tools, OrdersNew, n
<1>5. AnswersOrdered(E2, nx, nt, ts)
  BY <1>1, <1>2 DEF Tools, AnswersOrdered, n
<1>6. StopsAnswered(st, R, E2)
  BY <1>1 DEF Tools, StopsAnswered, n
<1>7. \A stop : Accepted(stop, E2) <=> Accepted(stop, E)
  BY <1>1, <1>3 DEF Accepted, n
<1>8. \A stop : Attends(stop, E, ts) => Attends(stop, E2, ts)
  BY <1>1 DEF Attends, n
<1>9. WatchIsHeld(st, R, E2, ts) /\ StopsSettle(st, E2, ts)
  BY <1>7, <1>8 DEF Tools, WatchIsHeld, StopsSettle
<1>10. QED
  BY <1>4, <1>5, <1>6, <1>9 DEF Tools

\* Two stops with one index are one stop.
LEMMA StopsDistinct ==
  ASSUME NEW st \in Seq(ToolStops), NEW nx, NEW nt, StopsOrdered(st, nx, nt),
         NEW j \in 1..Len(st), NEW k \in 1..Len(st)
  PROVE  /\ st[j].index = st[k].index => j = k
         /\ st[j].index < st[k].index => j < k
         /\ st[j].index \in Nat /\ st[k].index \in Nat
         /\ st[j].tag # 0 /\ st[j].tag = st[k].tag => j = k
<1>1. Len(st) \in Nat
  BY LenProperties
<1>2. st[j].index \in Nat /\ st[k].index \in Nat
  BY DEF StopsOrdered
<1>3. j < k \/ k < j \/ j = k
  BY <1>1
<1>4. /\ j < k => /\ st[j].index < st[k].index
                  /\ st[k].tag # 0 => st[j].tag # st[k].tag
      /\ k < j => /\ st[k].index < st[j].index
                  /\ st[j].tag # 0 => st[k].tag # st[j].tag
  BY DEF StopsOrdered
<1>5. QED
  BY <1>2, <1>3, <1>4

\* poll_tool reports the stop the planner watches.
LEMMA ToolsOutcomeRaised ==
  ASSUME NEW st, NEW nx, NEW nt, NEW R, NEW E, NEW E2, NEW x, NEW ts,
         Tools(st, nx, nt, R, E, ts), Grows(E2, E, x),
         x.op = "ToolOutcome", x.index = ts, ts # 0
  PROVE  Tools(st, nx, nt, R, E2, 0)
<1> DEFINE n == Len(E)
<1>1. /\ n \in Nat /\ Len(E2) = n + 1 /\ E2[n + 1] = x
      /\ \A k \in 1..n : E2[k] = E[k] /\ k \in 1..(n + 1) /\ k < n + 1
      /\ \A k \in 1..(n + 1) : k = n + 1 \/ k \in 1..n
      /\ n + 1 \in 1..(n + 1)
  BY DEF Grows
<1>2. \A k \in 1..(n + 1) : E2[k].op = "ToolStarted" => k \in 1..n /\ E2[k] = E[k]
  BY <1>1
<1>3. \A k \in 1..(n + 1) : \A tag : Heard(E2[k], tag) => k \in 1..n /\ E2[k] = E[k]
  BY <1>2 DEF Heard
<1>4. nx \in Nat /\ ts \in Nat /\ ts < nx /\ 0 \in Nat /\ 0 < nx /\ st \in Seq(ToolStops)
  BY DEF Tools
<1>5. \A a \in Nat \ {0} : 0 < a
  OBVIOUS
<1> HIDE DEF n
<1>6. OrdersOrdered(R, nx, nt, 0)
  BY <1>5 DEF Tools, OrdersOrdered
<1>7. OrdersNew(R, E2)
  BY <1>1, <1>2 DEF Tools, OrdersNew, OrdersOrdered, n
<1>8. AnswersOrdered(E2, nx, nt, 0)
  BY <1>1, <1>2, <1>4 DEF Tools, AnswersOrdered, n
<1>9. StopsAnswered(st, R, E2)
  BY <1>1 DEF Tools, StopsAnswered, n
<1>10. \A stop : Accepted(stop, E2) <=> Accepted(stop, E)
  BY <1>1, <1>3 DEF Accepted, n
<1>11. ASSUME NEW k \in 1..Len(st), Accepted(st[k], E2)
       PROVE  \E j \in 1..Len(st) : k <= j /\ Attends(st[j], E2, 0)
  <2>1. Accepted(st[k], E)
    BY <1>10, <1>11
  <2>2. PICK j \in 1..Len(st) : k <= j /\ Attends(st[j], E, ts)
    BY <2>1 DEF Tools, StopsSettle
  <2>3. CASE ts = st[j].index
    <3>1. ~After(R, "CancelTool", 0)
      BY <2>1, CancelledUnheard DEF After, Cut
    <3>2. PICK h \in 1..Len(st) : st[h].index = ts /\ Accepted(st[h], E)
      BY <3>1 DEF Tools, WatchIsHeld
    <3>3. h = j
      BY <1>4, <2>3, <3>2, StopsDistinct DEF Tools
    <3>4. st[j].tag = 0 \/ \E d \in 1..(n + 1) : d < n + 1 /\ Heard(E2[d], st[j].tag) /\ E2[d].ok
      BY <1>1, <3>2, <3>3 DEF Accepted, n
    <3>5. Attends(st[j], E2, 0)
      BY <1>1, <2>3, <3>4 DEF Attends
    <3>6. QED
      BY <2>2, <3>5
  <2>4. CASE ts # st[j].index
    <3>1. Attends(st[j], E2, 0)
      BY <1>1, <2>2, <2>4 DEF Attends, n
    <3>2. QED
      BY <2>2, <3>1
  <2>5. QED
    BY <2>3, <2>4
<1>12. WatchIsHeld(st, R, E2, 0) /\ StopsSettle(st, E2, 0)
  BY <1>11 DEF WatchIsHeld, StopsSettle
<1>13. QED
  BY <1>4, <1>6, <1>7, <1>8, <1>9, <1>12 DEF Tools

\* A tool stop is taken: the planner watches it, or refuses it and watches the
\* one it watched.
LEMMA ToolsStartTaken ==
  ASSUME NEW st, NEW nx, NEW nt, NEW R, NEW R2, NEW E, NEW E2, NEW x, NEW ts, NEW ts2,
         Tools(st, nx, nt, R, E, ts), Shifts(R2, R), R[1].op = "StartTool",
         Grows(E2, E, x), x.op = "ToolStarted", x.tag = R[1].tag,
         \/ x.ok = TRUE /\ ts2 = R[1].index
         \/ x.ok = FALSE /\ ts2 = ts
  PROVE  Tools(st, nx, nt, R2, E2, ts2)
<1> DEFINE n == Len(E)
           m == Len(R2)
           r == R[1]
<1>1. /\ n \in Nat /\ Len(E2) = n + 1 /\ E2[n + 1] = x
      /\ \A k \in 1..n : E2[k] = E[k] /\ k \in 1..(n + 1) /\ k # n + 1
      /\ \A k \in 1..(n + 1) : k = n + 1 \/ (k \in 1..n /\ E2[k] = E[k])
      /\ n + 1 \in 1..(n + 1)
  BY DEF Grows
<1>2. /\ m \in Nat /\ Len(R) = m + 1 /\ 1 \in 1..(m + 1)
      /\ \A k \in 1..m : R2[k] = R[k + 1] /\ k + 1 \in 1..(m + 1) /\ k \in Nat /\ 1 < k + 1
      /\ \A k \in 1..(m + 1) : k = 1 \/ (k - 1 \in 1..m /\ (k - 1) + 1 = k)
      /\ \A j, k \in 1..m : j < k <=> j + 1 < k + 1
  BY DEF Shifts
<1>3. /\ \A k \in 1..m : After(R2, "CancelTool", k) <=> After(R, "CancelTool", k + 1)
      /\ After(R2, "CancelTool", 0) <=> After(R, "CancelTool", 0)
      /\ After(R2, "CancelTool", 0) <=> After(R, "CancelTool", 0 + 1)
  BY <1>2, CutShifts
<1>4. nx \in Nat /\ nt \in Nat /\ ts \in Nat /\ ts < nx /\ st \in Seq(ToolStops)
  BY DEF Tools
<1>5. /\ r.index \in Nat \ {0} /\ r.index < nx /\ ts < r.index
      /\ r.tag \in Nat \ {0} /\ r.tag <= nt
  BY <1>2 DEF Tools, OrdersOrdered
<1>6. \A k \in 1..m : R2[k].op = "StartTool" =>
        /\ R2[k].index \in Nat \ {0} /\ R2[k].index < nx
        /\ R2[k].tag \in Nat \ {0} /\ R2[k].tag <= nt
        /\ r.index < R2[k].index /\ r.tag # R2[k].tag /\ ts < R2[k].index
  BY <1>2, SMTT(40) DEF Tools, OrdersOrdered
<1>7. ts2 \in Nat /\ ts2 < nx /\ (ts2 = ts \/ ts2 = r.index)
  BY <1>4, <1>5
<1>8. \A e \in 1..n : /\ E[e].op = "ToolOutcome" => E[e].index < r.index
                      /\ E[e].op = "ToolStarted" => E[e].tag # r.tag
  BY <1>2 DEF Tools, OrdersNew
<1> HIDE DEF n, m, r
<1>9. OrdersOrdered(R2, nx, nt, ts2)
  <2>1. OrdersOrdered(R, nx, nt, ts)
    BY DEF Tools
  <2>2. \A j \in 1..m, k \in 1..m : j < k /\ R2[j].op = "StartTool" /\ R2[k].op = "StartTool" =>
          R2[j].index < R2[k].index /\ R2[j].tag # R2[k].tag
    BY <1>2, <2>1, SMTT(40) DEF OrdersOrdered
  <2>3. QED
    BY <1>6, <1>7, <2>2 DEF OrdersOrdered, m
<1>10. OrdersHeld(st, R2)
  BY <1>2, <1>3, SMTT(40) DEF Tools, OrdersHeld, m
<1>11. OrdersNew(R2, E2)
  <2>1. \A k \in 1..m, e \in 1..n : R2[k].op = "StartTool" =>
          /\ E[e].op = "ToolOutcome" => E[e].index < R2[k].index
          /\ E[e].op = "ToolStarted" => E[e].tag # R2[k].tag
    BY <1>2 DEF Tools, OrdersNew, n
  <2>2. x.tag = r.tag
    BY DEF r
  <2>3. QED
    BY <1>1, <1>6, <2>1, <2>2 DEF OrdersNew, m
<1>12. AnswersOrdered(E2, nx, nt, ts2)
  <2>1. AnswersOrdered(E, nx, nt, ts) /\ x.tag = r.tag
    BY DEF Tools, r
  <2>2. ASSUME NEW e \in 1..n, E[e].op = "ToolOutcome"
        PROVE  E[e].index \in Nat /\ E[e].index < nx /\ (ts2 = 0 \/ E[e].index < ts2)
    BY <1>7, <1>8, <2>1, <2>2 DEF AnswersOrdered, n
  <2>3. ASSUME NEW e \in 1..(n + 1), E2[e].op = "ToolStarted"
        PROVE  /\ E2[e].tag \in Nat \ {0} /\ E2[e].tag <= nt
               /\ \A d \in 1..(n + 1) : d # e /\ E2[d].op = "ToolStarted" => E2[d].tag # E2[e].tag
    <3>1. CASE e = n + 1
      BY <1>1, <1>5, <1>8, <2>1, <3>1
    <3>2. CASE e \in 1..n /\ E2[e] = E[e]
      BY <1>1, <1>8, <2>1, <2>3, <3>2 DEF AnswersOrdered, n
    <3>3. QED
      BY <1>1, <3>1, <3>2
  <2>4. \A e \in 1..(n + 1) : E2[e].op = "ToolOutcome" => e \in 1..n /\ E2[e] = E[e]
    BY <1>1
  <2>5. QED
    BY <1>1, <2>2, <2>3, <2>4 DEF AnswersOrdered
<1>13. \A stop : \A q \in 1..(m + 1) : Orders(R[q], stop) =>
         q = 1 \/ \E h \in 1..m : h + 1 = q /\ Orders(R2[h], stop)
  BY <1>2
<1>14. CancelsOld(st, R2)
  <2>1. ASSUME NEW p \in 1..m, NEW k \in 1..Len(st), R2[p].op = "CancelTool"
        PROVE  \E h \in 1..m : p < h /\ Orders(R2[h], st[k])
    <3>1. PICK q \in 1..(m + 1) : p + 1 < q /\ Orders(R[q], st[k])
      BY <1>2, <2>1 DEF Tools, CancelsOld
    <3>2. q # 1
      BY <1>2, <3>1
    <3>3. QED
      BY <1>2, <1>13, <3>1, <3>2
  <2>2. QED
    BY <2>1 DEF CancelsOld, m
<1>15. StopsAnswered(st, R2, E2)
  <2>1. \A stop : Orders(R[1], stop) => Heard(x, stop.tag)
    BY DEF Orders, Heard
  <2>2. QED
    BY <1>1, <1>2, <1>13, <2>1 DEF Tools, StopsAnswered, n, m
<1>16. \A stop : Accepted(stop, E) => Accepted(stop, E2)
  BY <1>1 DEF Accepted, n
<1>17. \A stop : Accepted(stop, E2) => Accepted(stop, E) \/ (x.ok = TRUE /\ stop.tag = x.tag)
  BY <1>1 DEF Accepted, Heard, n
<1>18. CASE x.ok = FALSE /\ ts2 = ts
  <2>1. \A stop : Accepted(stop, E2) <=> Accepted(stop, E)
    BY <1>16, <1>17, <1>18
  <2>2. \A stop : Attends(stop, E, ts) => Attends(stop, E2, ts)
    BY <1>1 DEF Attends, n
  <2>3. WatchIsHeld(st, R2, E2, ts2)
    BY <1>3, <1>18, <2>1 DEF Tools, WatchIsHeld
  <2>4. StopsSettle(st, E2, ts2)
    BY <1>18, <2>1, <2>2 DEF Tools, StopsSettle
  <2>5. QED
    BY <1>4, <1>7, <1>9, <1>10, <1>11, <1>12, <1>14, <1>15, <2>3, <2>4 DEF Tools
<1>19. CASE x.ok = TRUE /\ ts2 = r.index
  <2>1. After(R, "CancelTool", 1) \/ \E j \in 1..Len(st) : Orders(r, st[j])
    BY <1>2 DEF Tools, OrdersHeld, r
  <2>2. CASE After(R, "CancelTool", 1)
    <3>1. PICK p \in 1..Len(R) : R[p].op = "CancelTool" /\ 1 < p
      BY <2>2 DEF After, Cut
    <3>2. PICK p2 \in 1..m : p2 + 1 = p
      BY <1>2, <3>1
    <3>3. After(R2, "CancelTool", 0)
      BY <1>3, <2>2
    <3>4. \A k \in 1..Len(st) : ~Accepted(st[k], E)
      BY <3>1, CancelledUnheard
    <3>5. ASSUME NEW k \in 1..Len(st) PROVE st[k].tag # r.tag
      <4>1. PICK q \in 1..Len(R) : p < q /\ Orders(R[q], st[k])
        BY <3>1 DEF Tools, CancelsOld
      <4>2. PICK h \in 1..m : h + 1 = q
        BY <1>2, <3>1, <4>1
      <4>3. R2[h].op = "StartTool" /\ R2[h].tag = st[k].tag
        BY <1>2, <4>1, <4>2 DEF Orders
      <4>4. QED
        BY <1>6, <4>3
    <3>6. \A k \in 1..Len(st) : ~Accepted(st[k], E2)
      BY <1>17, <3>4, <3>5 DEF r
    <3>7. WatchIsHeld(st, R2, E2, ts2) /\ StopsSettle(st, E2, ts2)
      BY <3>3, <3>6 DEF WatchIsHeld, StopsSettle
    <3>8. QED
      BY <1>4, <1>7, <1>9, <1>10, <1>11, <1>12, <1>14, <1>15, <3>7 DEF Tools
  <2>3. CASE \E j \in 1..Len(st) : Orders(r, st[j])
    <3>1. PICK j \in 1..Len(st) : r.index = st[j].index /\ r.tag = st[j].tag
      BY <2>3 DEF Orders
    <3>2. Accepted(st[j], E2) /\ Attends(st[j], E2, ts2)
      BY <1>1, <1>19, <3>1 DEF Accepted, Attends, Heard, r
    <3>3. WatchIsHeld(st, R2, E2, ts2)
      BY <1>19, <3>1, <3>2 DEF WatchIsHeld
    <3>4. ASSUME NEW k \in 1..Len(st), Accepted(st[k], E2) PROVE k <= j
      <4>0. StopsOrdered(st, nx, nt) /\ Len(st) \in Nat /\ j \in Nat /\ k \in Nat
        BY <1>4, LenProperties DEF Tools
      <4>1. CASE Accepted(st[k], E)
        <5>1. PICK i \in 1..Len(st) : k <= i /\ Attends(st[i], E, ts)
          BY <4>1 DEF Tools, StopsSettle
        <5>2. st[i].index < st[j].index
          BY <1>5, <1>8, <3>1, <5>1 DEF Attends, n
        <5>3. i < j
          BY <1>4, <4>0, <5>2, StopsDistinct
        <5>4. QED
          BY <4>0, <5>1, <5>3
      <4>2. CASE st[k].tag = x.tag
        <5>1. st[k].tag = st[j].tag /\ st[j].tag # 0
          BY <1>5, <3>1, <4>2 DEF r
        <5>2. k = j
          BY <1>4, <4>0, <5>1, StopsDistinct
        <5>3. QED
          BY <4>0, <5>2
      <4>3. QED
        BY <1>17, <3>4, <4>1, <4>2
    <3>5. StopsSettle(st, E2, ts2)
      BY <3>2, <3>4 DEF StopsSettle
    <3>6. QED
      BY <1>4, <1>7, <1>9, <1>10, <1>11, <1>12, <1>14, <1>15, <3>3, <3>5 DEF Tools
  <2>4. QED
    BY <2>1, <2>2, <2>3
<1>20. QED
  BY <1>18, <1>19 DEF r

\* The server takes an event that no stop it holds waits for.
LEMMA ToolsUnheeded ==
  ASSUME NEW st, NEW nx, NEW nt, NEW R, NEW E, NEW E2, NEW ts,
         Tools(st, nx, nt, R, E, ts), Shifts(E2, E),
         \A k \in 1..Len(st) :
           /\ ~Heard(E[1], st[k].tag)
           /\ ~(E[1].op = "ToolOutcome" /\ st[k].index = E[1].index /\ st[k].tag = 0)
  PROVE  Tools(st, nx, nt, R, E2, ts)
<1> DEFINE n == Len(E2)
<1>1. /\ n \in Nat /\ Len(E) = n + 1
      /\ \A k \in 1..n : E2[k] = E[k + 1] /\ k + 1 \in 1..(n + 1)
      /\ \A k \in 1..(n + 1) : k = 1 \/ (k - 1 \in 1..n /\ (k - 1) + 1 = k)
      /\ \A j, k \in 1..n : j < k <=> j + 1 < k + 1
      /\ \A j, k \in 1..n : j # k => j + 1 # k + 1
      /\ \A k \in 1..(n + 1) : ~(k < 1)
  BY DEF Shifts
<1>2. \A k \in 1..(n + 1) : k = 1 \/ \E h \in 1..n : h + 1 = k /\ E2[h] = E[k]
  BY <1>1
<1> HIDE DEF n
<1>3. OrdersNew(R, E2)
  <2>1. OrdersNew(R, E)
    BY DEF Tools
  <2>2. QED
    BY <1>1, <2>1 DEF OrdersNew, n
<1>4. AnswersOrdered(E2, nx, nt, ts)
  <2>1. AnswersOrdered(E, nx, nt, ts)
    BY DEF Tools
  <2>2. QED
    BY <1>1, <2>1, SMTT(40) DEF AnswersOrdered, n
<1>5. ASSUME NEW k \in 1..Len(st) PROVE Accepted(st[k], E2) <=> Accepted(st[k], E)
  BY <1>1, <1>2 DEF Accepted, n
<1>6. StopsAnswered(st, R, E2)
  BY <1>1, <1>2 DEF Tools, StopsAnswered, n
<1>7. ASSUME NEW k \in 1..Len(st), Attends(st[k], E, ts) PROVE Attends(st[k], E2, ts)
  <2>1. CASE ts = st[k].index
    BY <2>1 DEF Attends
  <2>2. ASSUME NEW e \in 1..(n + 1), E[e].op = "ToolOutcome", E[e].index = st[k].index,
               \/ st[k].tag = 0
               \/ \E d \in 1..(n + 1) : d < e /\ Heard(E[d], st[k].tag) /\ E[d].ok
        PROVE  Attends(st[k], E2, ts)
    <3>1. e # 1
      BY <1>1, <2>2
    <3>2. PICK h \in 1..n : h + 1 = e /\ E2[h] = E[e]
      BY <1>2, <3>1
    <3>3. CASE st[k].tag = 0
      BY <2>2, <3>2, <3>3 DEF Attends, n
    <3>4. CASE \E d \in 1..(n + 1) : d < e /\ Heard(E[d], st[k].tag) /\ E[d].ok
      <4>1. PICK d \in 1..(n + 1) : d < e /\ Heard(E[d], st[k].tag) /\ E[d].ok
        BY <3>4
      <4>2. PICK c \in 1..n : c + 1 = d /\ E2[c] = E[d]
        BY <1>2, <4>1
      <4>3. c < h
        BY <1>1, <3>2, <4>1, <4>2
      <4>4. QED
        BY <2>2, <3>2, <4>1, <4>2, <4>3 DEF Attends, n
    <3>5. QED
      BY <2>2, <3>3, <3>4
  <2>3. QED
    BY <1>1, <1>7, <2>1, <2>2 DEF Attends
<1>8. WatchIsHeld(st, R, E2, ts) /\ StopsSettle(st, E2, ts)
  BY <1>5, <1>7 DEF Tools, WatchIsHeld, StopsSettle
<1>9. QED
  BY <1>3, <1>4, <1>6, <1>8 DEF Tools

\* The server notes that stop `k` was taken on.
LEMMA ToolsNoted ==
  ASSUME NEW st, NEW nx, NEW nt, NEW R, NEW E, NEW ts, Tools(st, nx, nt, R, E, ts),
         NEW k \in 1..Len(st), NEW e \in 1..Len(E), Heard(E[e], st[k].tag), E[e].ok = TRUE
  PROVE  LET st2 == [st EXCEPT ![k].tag = 0] IN
         /\ Tools(st2, nx, nt, R, E, ts)
         /\ \A j \in 1..Len(st2) : ~Heard(E[e], st2[j].tag)
<1> DEFINE st2 == [st EXCEPT ![k].tag = 0]
           l   == Len(st)
<1>1. /\ st \in Seq(ToolStops) /\ nx \in Nat /\ nt \in Nat
      /\ st[k].tag \in Nat \ {0} /\ st[k].tag = E[e].tag /\ E[e].op = "ToolStarted"
  BY DEF Tools, Heard, AnswersOrdered
<1>2. /\ l \in Nat /\ st \in [1..l -> ToolStops]
  BY <1>1, LenProperties
<1>3. st[k] \in ToolStops
  BY <1>2
<1>4. /\ st2 \in [1..l -> ToolStops]
      /\ \A j \in 1..l : j # k => st2[j] = st[j]
      /\ st2[k].index = st[k].index /\ st2[k].tag = 0
  BY <1>2, <1>3 DEF ToolStops
<1>5. st2 \in Seq(ToolStops) /\ Len(st2) = l
  <2> HIDE DEF st2
  <2>1. QED
    BY <1>2, <1>4, SeqDef DEF l
<1>6. \A j \in 1..l : st2[j].index = st[j].index /\ (st2[j].tag = st[j].tag \/ st2[j].tag = 0)
  BY <1>4
<1>7. \A q \in 1..Len(R) : R[q].op = "StartTool" => R[q].tag # st[k].tag
  BY <1>1 DEF Tools, OrdersNew
<1> HIDE DEF st2, l
<1>8. \A q \in 1..Len(R), j \in 1..l : Orders(R[q], st[j]) => Orders(R[q], st2[j])
  BY <1>4, <1>7 DEF Orders
<1>9. StopsOrdered(st2, nx, nt)
  <2>1. StopsOrdered(st, nx, nt) /\ 0 \in Nat /\ 0 <= nt
    BY <1>1 DEF Tools
  <2>2. \A i \in 1..l, j \in 1..l : i < j =>
          /\ st2[i].index < st2[j].index
          /\ st2[j].tag # 0 => st2[i].tag # st2[j].tag
    BY <1>6, <2>1 DEF StopsOrdered, l
  <2>3. QED
    BY <1>5, <1>6, <2>1, <2>2 DEF StopsOrdered, l
<1>10. OrdersHeld(st2, R)
  BY <1>5, <1>8 DEF Tools, OrdersHeld, l
<1>11. CancelsOld(st2, R)
  BY <1>5, <1>8 DEF Tools, CancelsOld, l
<1>12. StopsAnswered(st2, R, E)
  <2>1. ASSUME NEW j \in 1..l
        PROVE  \/ st2[j].tag = 0
               \/ \E q \in 1..Len(R) : Orders(R[q], st2[j])
               \/ \E d \in 1..Len(E) : Heard(E[d], st2[j].tag)
    BY <1>6, <1>8 DEF Tools, StopsAnswered, l
  <2>2. QED
    BY <1>5, <2>1 DEF StopsAnswered
<1>13. \A j \in 1..l : Accepted(st2[j], E) <=> Accepted(st[j], E)
  BY <1>4 DEF Accepted
<1>14. \A j \in 1..l : Attends(st[j], E, ts) => Attends(st2[j], E, ts)
  BY <1>6 DEF Attends
<1>15. WatchIsHeld(st2, R, E, ts) /\ StopsSettle(st2, E, ts)
  BY <1>5, <1>6, <1>13, <1>14 DEF Tools, WatchIsHeld, StopsSettle, l
<1>16. \A j \in 1..l : ~Heard(E[e], st2[j].tag)
  <2>1. ASSUME NEW j \in 1..l, j # k PROVE st[j].tag # st[k].tag
    BY <1>1, <2>1, StopsDistinct DEF Tools, l
  <2>2. QED
    BY <1>1, <1>4, <2>1 DEF Heard
<1>17. QED
  BY <1>5, <1>9, <1>10, <1>11, <1>12, <1>15, <1>16 DEF Tools, st2

\* Stops leave the server's list, none of them one that is on its way, watched,
\* or needed to settle one that stays.
LEMMA ToolsDropped ==
  ASSUME NEW st, NEW nx, NEW nt, NEW R, NEW E, NEW ts, Tools(st, nx, nt, R, E, ts),
         NEW st2 \in Seq(ToolStops), NEW g \in [1..Len(st2) -> 1..Len(st)],
         \A j \in 1..Len(st2) : st2[j] = st[g[j]],
         \A i \in 1..Len(st2), j \in 1..Len(st2) : i < j => g[i] < g[j],
         \A i \in 1..Len(st2), j \in 1..Len(st2) : g[i] <= g[j] => i <= j,
         \A h \in 1..Len(st) :
           \/ \E j \in 1..Len(st2) : g[j] = h
           \/ /\ \A q \in 1..Len(R) : ~Orders(R[q], st[h])
              /\ ts # st[h].index
              /\ \A j \in 1..Len(st2) : g[j] <= h => ~Attends(st[h], E, ts)
  PROVE  Tools(st2, nx, nt, R, E, ts)
<1>1. \A j \in 1..Len(st2) : g[j] \in 1..Len(st)
  OBVIOUS
<1>2. StopsOrdered(st2, nx, nt)
  <2>1. StopsOrdered(st, nx, nt)
    BY DEF Tools
  <2>2. ASSUME NEW k \in 1..Len(st2)
        PROVE  /\ st2[k].index \in Nat \ {0} /\ st2[k].index < nx
               /\ st2[k].tag \in Nat /\ st2[k].tag <= nt
    BY <1>1, <2>1 DEF StopsOrdered
  <2>3. ASSUME NEW j \in 1..Len(st2), NEW k \in 1..Len(st2), j < k
        PROVE  /\ st2[j].index < st2[k].index
               /\ st2[k].tag # 0 => st2[j].tag # st2[k].tag
    <3>1. g[j] \in 1..Len(st) /\ g[k] \in 1..Len(st) /\ g[j] < g[k]
      BY <1>1, <2>3
    <3>2. /\ st[g[j]].index < st[g[k]].index
          /\ st[g[k]].tag # 0 => st[g[j]].tag # st[g[k]].tag
      BY <2>1, <3>1 DEF StopsOrdered
    <3>3. QED
      BY <3>2
  <2>4. QED
    BY <2>2, <2>3 DEF StopsOrdered
<1>3. OrdersHeld(st2, R)
  <2>1. OrdersHeld(st, R)
    BY DEF Tools
  <2>2. ASSUME NEW q \in 1..Len(R), R[q].op = "StartTool"
        PROVE  After(R, "CancelTool", q) \/ \E j \in 1..Len(st2) : Orders(R[q], st2[j])
    <3>1. CASE After(R, "CancelTool", q)
      BY <3>1
    <3>2. ASSUME NEW h \in 1..Len(st), Orders(R[q], st[h])
          PROVE  \E j \in 1..Len(st2) : Orders(R[q], st2[j])
      BY <3>2
    <3>3. QED
      BY <2>1, <2>2, <3>1, <3>2 DEF OrdersHeld
  <2>3. QED
    BY <2>2 DEF OrdersHeld
<1>4. CancelsOld(st2, R)
  BY <1>1 DEF Tools, CancelsOld
<1>5. StopsAnswered(st2, R, E)
  BY <1>1 DEF Tools, StopsAnswered
<1>6. WatchIsHeld(st2, R, E, ts)
  <2>1. ASSUME ts # 0, ~After(R, "CancelTool", 0)
        PROVE  \E j \in 1..Len(st2) : st2[j].index = ts /\ Accepted(st2[j], E)
    <3>1. PICK h \in 1..Len(st) : st[h].index = ts /\ Accepted(st[h], E)
      BY <2>1 DEF Tools, WatchIsHeld
    <3>2. PICK j \in 1..Len(st2) : g[j] = h
      BY <3>1
    <3>3. QED
      BY <3>1, <3>2
  <2>2. QED
    BY <2>1 DEF WatchIsHeld
<1>7. ASSUME NEW k \in 1..Len(st2), Accepted(st2[k], E)
      PROVE  \E j \in 1..Len(st2) : k <= j /\ Attends(st2[j], E, ts)
  <2>1. PICK h \in 1..Len(st) : g[k] <= h /\ Attends(st[h], E, ts)
    BY <1>1, <1>7 DEF Tools, StopsSettle
  <2>2. PICK j \in 1..Len(st2) : g[j] = h
    BY <2>1
  <2>3. QED
    BY <2>1, <2>2
<1>8. StopsSettle(st2, E, ts)
  BY <1>7 DEF StopsSettle
<1>9. QED
  BY <1>2, <1>3, <1>4, <1>5, <1>6, <1>8 DEF Tools

-----------------------------------------------------------------------------
(* The jaws: a queued tool action and a tool stop never drive them at once. *)

StartsJaws(r) == r.op = "Start" /\ r.batch[1].kind = "tool"

Jaws(R, fl, ts) ==
  /\ ts = 0 \/ fl.kind # "tool"
  /\ \A k \in 1..Len(R) : R[k].op = "StartTool" =>
       /\ fl.kind # "tool" \/ Cut(R, "Cancel", 0, k)
       /\ \A m \in 1..Len(R) : m < k /\ StartsJaws(R[m]) => Cut(R, "Cancel", m, k)
  /\ \A k \in 1..Len(R) : StartsJaws(R[k]) =>
       /\ ts = 0 \/ Cut(R, "CancelTool", 0, k)
       /\ \A m \in 1..Len(R) : m < k /\ R[m].op = "StartTool" => Cut(R, "CancelTool", m, k)

\* No tool stop is watched or on its way that its CancelTool does not follow.
NoStopAhead(R, ts) ==
  /\ ts = 0 \/ After(R, "CancelTool", 0)
  /\ \A k \in 1..Len(R) : R[k].op = "StartTool" => After(R, "CancelTool", k)

\* No tool action is in flight or on its way that its Cancel does not follow.
NoActionAhead(R, fl) ==
  /\ fl.kind # "tool" \/ After(R, "Cancel", 0)
  /\ \A k \in 1..Len(R) : StartsJaws(R[k]) => After(R, "Cancel", k)

\* A request is sent; one that drives the jaws finds them free.
LEMMA JawsSent ==
  ASSUME NEW R, NEW R2, NEW r, NEW fl, NEW ts, Jaws(R, fl, ts), Grows(R2, R, r),
         r.op = "StartTool" => NoActionAhead(R, fl),
         StartsJaws(r) => NoStopAhead(R, ts)
  PROVE  Jaws(R2, fl, ts)
<1> DEFINE n == Len(R)
<1>1. /\ n \in Nat /\ Len(R2) = n + 1 /\ R2[n + 1] = r /\ 0 \in Nat
      /\ \A k \in 1..n : R2[k] = R[k] /\ k \in 1..(n + 1) /\ k \in Nat /\ k <= n + 1
      /\ \A k \in 1..(n + 1) : k = n + 1 \/ (k \in 1..n /\ R2[k] = R[k])
      /\ \A k \in 1..(n + 1) : ~(n + 1 < k)
      /\ \A k \in 1..(n + 1) : k \in Nat /\ k <= n + 1
  BY DEF Grows
<1>2. \A op : \A a \in Nat, k \in 1..(n + 1) : Cut(R2, op, a, k) <=> Cut(R, op, a, k)
  <2>1. ASSUME NEW op PROVE \A a \in Nat, k \in 1..(n + 1) : Cut(R2, op, a, k) <=> Cut(R, op, a, k)
    BY <1>1, CutGrows
  <2>2. QED
    BY <2>1
<1>3. \A op : \A a \in Nat : After(R, op, a) <=> Cut(R, op, a, n + 1)
  BY DEF After
<1> HIDE DEF n
<1>4. ASSUME NEW k \in 1..(n + 1), R2[k].op = "StartTool"
      PROVE  /\ fl.kind # "tool" \/ Cut(R2, "Cancel", 0, k)
             /\ \A m \in 1..(n + 1) : m < k /\ StartsJaws(R2[m]) => Cut(R2, "Cancel", m, k)
  <2>1. CASE k = n + 1
    <3>1. NoActionAhead(R, fl)
      BY <1>1, <1>4, <2>1
    <3>2. \A m \in 1..(n + 1) : m < n + 1 => m \in 1..n /\ R2[m] = R[m] /\ m \in Nat
      BY <1>1
    <3>3. QED
      BY <1>1, <1>2, <1>3, <2>1, <3>1, <3>2 DEF NoActionAhead, n
  <2>2. CASE k \in 1..n /\ R2[k] = R[k]
    <3>1. \A m \in 1..(n + 1) : m < k => m \in 1..n /\ R2[m] = R[m] /\ m \in Nat
      BY <1>1, <2>2
    <3>2. QED
      BY <1>1, <1>2, <1>4, <2>2, <3>1 DEF Jaws, n
  <2>3. QED
    BY <1>1, <2>1, <2>2
<1>5. ASSUME NEW k \in 1..(n + 1), StartsJaws(R2[k])
      PROVE  /\ ts = 0 \/ Cut(R2, "CancelTool", 0, k)
             /\ \A m \in 1..(n + 1) : m < k /\ R2[m].op = "StartTool" => Cut(R2, "CancelTool", m, k)
  <2>1. CASE k = n + 1
    <3>1. NoStopAhead(R, ts)
      BY <1>1, <1>5, <2>1
    <3>2. \A m \in 1..(n + 1) : m < n + 1 => m \in 1..n /\ R2[m] = R[m] /\ m \in Nat
      BY <1>1
    <3>3. QED
      BY <1>1, <1>2, <1>3, <2>1, <3>1, <3>2 DEF NoStopAhead, n
  <2>2. CASE k \in 1..n /\ R2[k] = R[k]
    <3>1. \A m \in 1..(n + 1) : m < k => m \in 1..n /\ R2[m] = R[m] /\ m \in Nat
      BY <1>1, <2>2
    <3>2. QED
      BY <1>1, <1>2, <1>5, <2>2, <3>1 DEF Jaws, n
  <2>3. QED
    BY <1>1, <2>1, <2>2
<1>6. QED
  BY <1>1, <1>4, <1>5 DEF Jaws

\* A request is taken: `fl2` and `ts2` are what the planner holds afterwards.
LEMMA JawsTaken ==
  ASSUME NEW R, NEW R2, NEW fl, NEW ts, NEW fl2, NEW ts2, Jaws(R, fl, ts), Shifts(R2, R),
         \/ fl2.kind # "tool"
         \/ fl2 = fl /\ R[1].op # "Cancel"
         \/ StartsJaws(R[1]),
         \/ ts2 = 0
         \/ ts2 = ts /\ R[1].op # "CancelTool"
         \/ R[1].op = "StartTool"
  PROVE  Jaws(R2, fl2, ts2)
<1> DEFINE n == Len(R2)
<1>1. /\ n \in Nat /\ Len(R) = n + 1 /\ 1 \in 1..(n + 1)
      /\ \A k \in 1..n : R2[k] = R[k + 1] /\ k + 1 \in 1..(n + 1) /\ k \in Nat /\ 1 < k + 1
      /\ \A j, k \in 1..n : j < k => j + 1 < k + 1
  BY DEF Shifts
<1>2. \A op : /\ \A a \in 1..n, k \in 1..n : Cut(R2, op, a, k) <=> Cut(R, op, a + 1, k + 1)
              /\ \A k \in 1..n : Cut(R2, op, 0, k) <=> Cut(R, op, 1, k + 1)
              /\ \A k \in 1..n : R[1].op # op => (Cut(R2, op, 0, k) <=> Cut(R, op, 0, k + 1))
  <2>1. 0 + 1 = 1
    OBVIOUS
  <2>2. ASSUME NEW op
        PROVE  /\ \A a \in 1..n, k \in 1..n : Cut(R2, op, a, k) <=> Cut(R, op, a + 1, k + 1)
               /\ \A k \in 1..n : Cut(R2, op, 0, k) <=> Cut(R, op, 0 + 1, k + 1)
               /\ \A k \in 1..n : R[1].op # op => (Cut(R2, op, 0, k) <=> Cut(R, op, 0, k + 1))
    BY <1>1, CutShifts
  <2>3. QED
    BY <2>1, <2>2
<1>3. \A op : ~Cut(R, op, 0, 1)
  BY <1>1 DEF Cut
<1> HIDE DEF n
<1>4. /\ R[1].op = "StartTool" => fl.kind # "tool"
      /\ StartsJaws(R[1]) => ts = 0
  BY <1>1, <1>3 DEF Jaws
<1>5. StartsJaws(R[1]) => R[1].op = "Start"
  BY DEF StartsJaws
<1>6. ts2 = 0 \/ fl2.kind # "tool"
  BY <1>4, <1>5 DEF Jaws
<1>7. ASSUME NEW k \in 1..n, R2[k].op = "StartTool"
      PROVE  /\ fl2.kind # "tool" \/ Cut(R2, "Cancel", 0, k)
             /\ \A m \in 1..n : m < k /\ StartsJaws(R2[m]) => Cut(R2, "Cancel", m, k)
  <2>1. /\ fl.kind # "tool" \/ Cut(R, "Cancel", 0, k + 1)
        /\ \A m \in 1..(n + 1) : m < k + 1 /\ StartsJaws(R[m]) => Cut(R, "Cancel", m, k + 1)
    BY <1>1, <1>7 DEF Jaws
  <2>2. QED
    BY <1>1, <1>2, <1>5, <2>1
<1>8. ASSUME NEW k \in 1..n, StartsJaws(R2[k])
      PROVE  /\ ts2 = 0 \/ Cut(R2, "CancelTool", 0, k)
             /\ \A m \in 1..n : m < k /\ R2[m].op = "StartTool" => Cut(R2, "CancelTool", m, k)
  <2>1. /\ ts = 0 \/ Cut(R, "CancelTool", 0, k + 1)
        /\ \A m \in 1..(n + 1) : m < k + 1 /\ R[m].op = "StartTool" => Cut(R, "CancelTool", m, k + 1)
    BY <1>1, <1>8 DEF Jaws
  <2>2. QED
    BY <1>1, <1>2, <2>1
<1>9. QED
  BY <1>6, <1>7, <1>8 DEF Jaws, n

\* The planner lets go of a command or of a stop.
LEMMA JawsLetGo ==
  ASSUME NEW R, NEW fl, NEW ts, NEW fl2, NEW ts2, Jaws(R, fl, ts),
         fl2 = fl \/ fl2.kind # "tool", ts2 = ts \/ ts2 = 0
  PROVE  Jaws(R, fl2, ts2)
  BY DEF Jaws

\* With no stop held, none is ahead.
LEMMA NoStopHeld ==
  ASSUME NEW nx, NEW nt, NEW R, NEW E, NEW ts, Tools(<<>>, nx, nt, R, E, ts)
  PROVE  NoStopAhead(R, ts)
<1>1. 1..Len(<<>>) = {}
  BY EmptySeq
<1>2. QED
  BY <1>1 DEF Tools, NoStopAhead, OrdersHeld, WatchIsHeld

\* With the planner free for a Start, no tool action is ahead.
LEMMA FreeOfActions ==
  ASSUME NEW R, NEW fl, Free(R, fl)
  PROVE  NoActionAhead(R, fl)
<1>1. NoFlight.kind # "tool"
  BY DEF NoFlight
<1>2. QED
  BY <1>1 DEF Free, NoActionAhead, StartsJaws

\* While a command that is no tool action is asked for or runs, none is ahead.
LEMMA OthersAhead ==
  ASSUME NEW R, NEW E, NEW fl, NEW iv, Separate(R, fl), Len(R) \in Nat
  PROVE  /\ \A e : Asked(e, R, E, fl, iv) /\ e.kind # "tool" => NoActionAhead(R, fl)
         /\ \A i, kind : kind # "tool" /\ Backed(i, kind, 0, R, E, fl, iv) => NoActionAhead(R, fl)
<1>1. NoFlight.kind # "tool"
  BY DEF NoFlight
<1>2. ASSUME NEW i, NEW kind, NEW k, kind # "tool", Backed(i, kind, k, R, E, fl, iv)
      PROVE  NoActionAhead(R, fl)
  BY <1>1, <1>2 DEF Backed, NoStart, NoActionAhead, StartsJaws
<1>3. ASSUME NEW e, Offered(e, R, E, fl, iv), e.kind # "tool" PROVE NoActionAhead(R, fl)
  <2>1. PICK k \in 1..Len(R) : /\ R[k].op = "Start" /\ R[k].batch[1] = e
                               /\ ~After(R, "Cancel", k)
    BY <1>3 DEF Offered
  <2>2. fl = NoFlight \/ Cut(R, "Cancel", 0, k)
    BY <2>1 DEF Separate
  <2>3. \A a : Cut(R, "Cancel", a, k) => After(R, "Cancel", a)
    <3>1. \A j \in 1..Len(R) : j < Len(R) + 1
      OBVIOUS
    <3>2. QED
      BY <3>1 DEF Cut, After
  <2>4. ASSUME NEW m \in 1..Len(R), StartsJaws(R[m]) PROVE After(R, "Cancel", m)
    <3>1. m # k /\ R[m].op = "Start"
      BY <1>3, <2>1, <2>4 DEF StartsJaws
    <3>2. CASE m < k
      BY <2>1, <2>3, <3>1, <3>2 DEF Separate
    <3>3. CASE k < m
      <4>1. Cut(R, "Cancel", k, m)
        BY <2>1, <3>1, <3>3 DEF Separate
      <4>2. After(R, "Cancel", k)
        BY <4>1 DEF Cut, After
      <4>3. QED
        BY <2>1, <4>2
    <3>4. QED
      BY <3>1, <3>2, <3>3
  <2>5. QED
    BY <1>1, <2>2, <2>3, <2>4 DEF NoActionAhead
<1>4. QED
  BY <1>2, <1>3, FreeOfActions DEF Asked, Began, Refused

-----------------------------------------------------------------------------
(* The server's side of it. *)

\* The queue is in order, and the planner has not heard of what waits in it.
QueueNew(q, nx, marker, R, E, fl, iv) ==
  /\ \A k \in 1..Len(q) :
       /\ q[k].index < nx
       /\ \A j \in 1..Len(q) : j < k => q[j].index < q[k].index
       /\ (k = 1 /\ marker # 0) \/ Untouched(R, E, fl, iv, q[k].index)
  /\ \A i \in Nat : nx <= i => Untouched(R, E, fl, iv, i)

Motion(s, R, E, fl, iv) ==
  /\ QueueNew(s.pending, s.next_index, s.planning, R, E, fl, iv)
  /\ Separate(R, fl)
  /\ s.planning # 0 => Asked(s.pending[1], R, E, fl, iv)
  /\ s.executing # NoCmd =>
       /\ s.executing.index # 0
       /\ Backed(s.executing.index, s.executing.kind, 0, R, E, fl, iv)
  /\ s.planning = 0 /\ s.executing = NoCmd => Free(R, fl)

\* While a tool stop settles the server neither runs nor starts a tool action.
Hands(s) == s.tool_stops # <<>> => ~RunsTool(s) /\ ~StartsTool(s)

InStep(s, R, E, fl, iv, ts) ==
  /\ CoreOK(s) /\ R \in Seq(PlanRequest)
  /\ Motion(s, R, E, fl, iv)
  /\ Tools(s.tool_stops, s.next_index, s.next_tag, R, E, ts)
  /\ Jaws(R, fl, ts)
  /\ Hands(s)

\* What a step of the channels or the planner carries, the core may go on with.
LEMMA MotionCarried ==
  ASSUME NEW s, NEW R, NEW E, NEW fl, NEW iv, NEW R2, NEW E2, NEW fl2, NEW iv2,
         CoreOK(s), Motion(s, R, E, fl, iv), Separate(R, fl) => Carries(R, E, fl, iv, R2, E2, fl2, iv2)
  PROVE  Motion(s, R2, E2, fl2, iv2)
<1>1. Carries(R, E, fl, iv, R2, E2, fl2, iv2) /\ Separate(R, fl)
  BY DEF Motion
<1>2. /\ s.pending \in Seq(Entry) /\ s.next_index \in Nat \ {0}
      /\ s.executing.index \in Nat
      /\ s.planning # 0 => s.pending # <<>>
  BY DEF CoreOK, MarkerOK, PlanningHead
<1>3. /\ \A k \in 1..Len(s.pending) : s.pending[k] \in Entry /\ s.pending[k].index \in Nat \ {0}
      /\ s.pending # <<>> => 1 \in 1..Len(s.pending)
  <2>1. \A k \in 1..Len(s.pending) : s.pending[k] \in Entry
    BY <1>2, ElementOfSeq
  <2>2. s.pending # <<>> => 1 \in 1..Len(s.pending)
    BY <1>2, LenProperties, EmptySeq
  <2>3. QED
    BY <2>1, <2>2 DEF Entry
<1>4. \A i \in Nat : s.next_index <= i => i \in Nat \ {0}
  BY <1>2
<1>5. QueueNew(s.pending, s.next_index, s.planning, R2, E2, fl2, iv2)
  BY <1>1, <1>3, <1>4 DEF Motion, QueueNew, Carries
<1>6. s.planning # 0 => Asked(s.pending[1], R2, E2, fl2, iv2)
  BY <1>1, <1>2, <1>3 DEF Motion, Carries
<1>7. s.executing # NoCmd => Backed(s.executing.index, s.executing.kind, 0, R2, E2, fl2, iv2)
  BY <1>1, <1>2, SMTT(40) DEF Motion, Carries
<1>8. QED
  BY <1>1, <1>5, <1>6, <1>7 DEF Motion, Carries

\* The state of the whole: the core, both channels and the planner.
Step == InStep(core, requests, events, inflight, invalidated, tool_stop)

StepNext == InStep(core', requests', events', inflight', invalidated', tool_stop')

\* What a Start at the head of the requests carries.
LEMMA StartServed ==
  ASSUME Inv, Step, ServiceStart
  PROVE  StepNext
<1> DEFINE R == requests
           e0 == Head(requests).batch[1]
<1>1. /\ requests \in Seq(PlanRequest) /\ events \in Seq(PlanEvents) /\ requests # <<>>
      /\ Head(requests).op = "Start" /\ requests' = Tail(requests)
      /\ UNCHANGED <<core, tool_stop, invalidated>>
  BY DEF Inv, TypeOK, ServiceStart, Takes
<1>2. Shifts(Tail(R), R) /\ Tail(R) \in Seq(PlanRequest) /\ Head(R) = R[1] /\ R[1] \in PlanRequest
  BY <1>1, TailShifts
<1>3. R[1].op = "Start" /\ R[1].batch[1] = e0
  BY <1>1, <1>2
<1>4. R[1] \in [op : {"Start"}, batch : Seq(Entry) \ {<<>>}]
  BY <1>2, <1>3 DEF PlanRequest
<1>5. Head(requests).batch \in Seq(Entry) \ {<<>>}
  BY <1>2, <1>4
<1>6. e0 \in Entry
  BY <1>5, HeadTailProperties
<1>7. e0.index \in Nat \ {0} /\ e0.kind \in QueuedKinds
  BY <1>6 DEF Entry
<1> DEFINE f2 == [index |-> e0.index, kind |-> e0.kind]
<1>8. f2.kind = e0.kind
  OBVIOUS
<1>9. StartsJaws(R[1]) <=> e0.kind = "tool"
  BY <1>3 DEF StartsJaws
<1>10. Separate(R, inflight)
  BY DEF Step, InStep, Motion
<1>11. CASE /\ inflight' = f2
            /\ \E changed \in BOOLEAN :
                 events' = events \o Fitted(Head(requests).batch[1].kind, changed) \o
                   <<[op |-> "Started", index |-> e0.index, taken |-> Covered(Head(requests).batch)]>>
  <2> DEFINE x == [op |-> "Started", index |-> e0.index, taken |-> Covered(Head(requests).batch)]
             y == [op |-> "ToolFitted", changed |-> TRUE]
  <2>1. x \in PlanEvents /\ y \in PlanEvents
    BY <1>5, <1>7, CoveredRange DEF PlanEvents
  <2>2. PICK changed \in BOOLEAN : events' = events \o Fitted(e0.kind, changed) \o <<x>>
    BY <1>11, SMTT(40)
  <2>3. PICK M \in Seq(PlanEvents) : (M = events \/ M = Append(events, y)) /\ events' = Append(M, x)
    <3>1. Fitted(e0.kind, changed) = <<>> \/ Fitted(e0.kind, changed) = <<y>>
      BY DEF Fitted
    <3>2. /\ events \o <<>> = events /\ events \o <<y>> = Append(events, y)
          /\ Append(events, y) \in Seq(PlanEvents)
      BY <1>1, <2>1
    <3>3. \A M \in Seq(PlanEvents) : M \o <<x>> = Append(M, x)
      BY <2>1
    <3>4. QED
      BY <1>1, <2>2, <3>1, <3>2, <3>3
  <2>4. x.op = "Started" /\ x.index = e0.index /\ y.op = "ToolFitted"
    OBVIOUS
  <2> HIDE DEF x, y
  <2>5. Grows(Append(M, x), M, x)
    BY <2>1, AppendGrows
  <2>6. M = Append(events, y) => Grows(M, events, y)
    BY <1>1, <2>1, AppendGrows
  <2>7. Motion(core, R, M, inflight, invalidated)
    <3>1. M = Append(events, y) =>
            Carries(R, events, inflight, invalidated, R, M, inflight, invalidated)
      BY <2>4, <2>6, OtherRaised DEF Replies
    <3>2. QED
      BY <2>3, <3>1, MotionCarried DEF Step, InStep
  <2>8. Carries(R, M, inflight, invalidated, Tail(R), Append(M, x), f2, invalidated)
    BY <1>2, <1>3, <1>10, <2>4, <2>5, StartAccepted
  <2>9. Motion(core, Tail(R), Append(M, x), f2, invalidated)
    BY <2>7, <2>8, MotionCarried DEF Step, InStep
  <2>10. Tools(core.tool_stops, core.next_index, core.next_tag, R, M, tool_stop)
    BY <2>3, <2>4, <2>6, ToolsOtherRaised DEF Step, InStep
  <2>11. Tools(core.tool_stops, core.next_index, core.next_tag, R, Append(M, x), tool_stop)
    BY <2>4, <2>5, <2>10, ToolsOtherRaised
  <2>12. Tools(core.tool_stops, core.next_index, core.next_tag, Tail(R), Append(M, x), tool_stop)
    BY <1>2, <1>3, <2>11, ToolsOtherTaken
  <2>13. Jaws(Tail(R), f2, tool_stop)
    BY <1>2, <1>3, <1>8, <1>9, JawsTaken DEF Step, InStep
  <2>14. QED
    BY <1>1, <1>2, <1>11, <2>3, <2>9, <2>12, <2>13 DEF Step, StepNext, InStep
<1>12. CASE /\ UNCHANGED inflight
            /\ events' = Append(events, [op |-> "Rejected", index |-> e0.index])
  <2> DEFINE x == [op |-> "Rejected", index |-> e0.index]
  <2>1. x \in PlanEvents /\ x.op = "Rejected" /\ x.index = e0.index
    BY <1>7 DEF PlanEvents
  <2> HIDE DEF x
  <2>2. Grows(Append(events, x), events, x)
    BY <1>1, <2>1, AppendGrows
  <2>3. Carries(R, events, inflight, invalidated, Tail(R), Append(events, x), inflight, invalidated)
    BY <1>2, <1>3, <1>10, <2>1, <2>2, StartRejected
  <2>4. Motion(core, Tail(R), Append(events, x), inflight, invalidated)
    BY <2>3, MotionCarried DEF Step, InStep
  <2>5. Tools(core.tool_stops, core.next_index, core.next_tag, R, Append(events, x), tool_stop)
    BY <2>1, <2>2, ToolsOtherRaised DEF Step, InStep
  <2>6. Tools(core.tool_stops, core.next_index, core.next_tag, Tail(R), Append(events, x), tool_stop)
    BY <1>2, <1>3, <2>5, ToolsOtherTaken
  <2>7. Jaws(Tail(R), inflight, tool_stop)
    BY <1>2, <1>3, JawsTaken DEF Step, InStep
  <2>8. events' = Append(events, x)
    BY <1>12 DEF x
  <2>9. QED
    BY <1>1, <1>2, <1>12, <2>4, <2>6, <2>7, <2>8 DEF Step, StepNext, InStep
<1>13. QED
  BY <1>11, <1>12 DEF ServiceStart

\* A Cancel, a tool stop or its CancelTool at the head of the requests is served.
LEMMA CancelServed ==
  ASSUME Inv, Step, ServiceCancel
  PROVE  StepNext
<1>1. /\ requests \in Seq(PlanRequest) /\ requests # <<>> /\ Head(requests).op = "Cancel"
      /\ requests' = Tail(requests) /\ inflight' = NoFlight
      /\ UNCHANGED <<core, events, tool_stop, invalidated>>
  BY DEF Inv, TypeOK, ServiceCancel, Takes
<1>2. /\ Shifts(Tail(requests), requests) /\ Tail(requests) \in Seq(PlanRequest)
      /\ requests[1].op = "Cancel"
  BY <1>1, TailShifts
<1>3. Motion(core, Tail(requests), events, NoFlight, invalidated)
  <2>1. Carries(requests, events, inflight, invalidated, Tail(requests), events, NoFlight, invalidated)
    BY <1>2, CancelTaken
  <2>2. QED
    BY <2>1, MotionCarried DEF Step, InStep
<1>4. Tools(core.tool_stops, core.next_index, core.next_tag, Tail(requests), events, tool_stop)
  BY <1>2, ToolsOtherTaken DEF Step, InStep
<1>5. NoFlight.kind # "tool"
  BY DEF NoFlight
<1>6. Jaws(Tail(requests), NoFlight, tool_stop)
  BY <1>2, <1>5, JawsTaken DEF Step, InStep
<1>7. QED
  BY <1>1, <1>2, <1>3, <1>4, <1>6 DEF Step, StepNext, InStep

\* A tool stop is taken on, or refused and the one watched kept.
LEMMA StartToolServed ==
  ASSUME Inv, Step, ServiceStartTool
  PROVE  StepNext
<1>1. /\ requests \in Seq(PlanRequest) /\ events \in Seq(PlanEvents)
      /\ requests # <<>> /\ Head(requests).op = "StartTool"
      /\ requests' = Tail(requests)
      /\ UNCHANGED <<core, inflight, invalidated>>
  BY DEF Inv, TypeOK, ServiceStartTool, Takes
<1>2. /\ Shifts(Tail(requests), requests) /\ Tail(requests) \in Seq(PlanRequest)
      /\ requests[1].op = "StartTool" /\ Head(requests) = requests[1]
      /\ requests[1] \in PlanRequest
  BY <1>1, TailShifts
<1>3. requests[1].tag \in Nat
  BY <1>2 DEF PlanRequest
<1>4. PICK ok \in BOOLEAN :
        /\ tool_stop' = IF ok THEN requests[1].index ELSE tool_stop
        /\ events' = Append(events, [op |-> "ToolStarted", tag |-> requests[1].tag, ok |-> ok])
  BY <1>2 DEF ServiceStartTool
<1> DEFINE x == [op |-> "ToolStarted", tag |-> requests[1].tag, ok |-> ok]
<1>5. /\ x \in PlanEvents /\ x.op = "ToolStarted" /\ x.tag = requests[1].tag /\ x.ok = ok
      /\ x.op \notin Replies
  BY <1>3 DEF PlanEvents, Replies
<1>6. events' = Append(events, x)
  BY <1>4
<1> HIDE DEF x
<1>7. Grows(Append(events, x), events, x)
  BY <1>1, <1>5, AppendGrows
<1>8. Motion(core, Tail(requests), Append(events, x), inflight, invalidated)
  <2>1. Carries(requests, events, inflight, invalidated, Tail(requests), events, inflight, invalidated)
    BY <1>2, OtherTaken
  <2>2. Motion(core, Tail(requests), events, inflight, invalidated)
    BY <2>1, MotionCarried DEF Step, InStep
  <2>3. Carries(Tail(requests), events, inflight, invalidated,
                Tail(requests), Append(events, x), inflight, invalidated)
    BY <1>5, <1>7, OtherRaised
  <2>4. QED
    BY <2>2, <2>3, MotionCarried DEF Step, InStep
<1>9. \/ x.ok = TRUE /\ tool_stop' = requests[1].index
      \/ x.ok = FALSE /\ tool_stop' = tool_stop
  BY <1>4, <1>5
<1>10. Tools(core.tool_stops, core.next_index, core.next_tag, requests, events, tool_stop)
  BY DEF Step, InStep
<1>11. Tools(core.tool_stops, core.next_index, core.next_tag, Tail(requests), Append(events, x), tool_stop')
  BY <1>2, <1>5, <1>7, <1>9, <1>10, ToolsStartTaken
<1>12. Jaws(Tail(requests), inflight, tool_stop')
  BY <1>2, JawsTaken DEF Step, InStep
<1>13. QED
  BY <1>1, <1>2, <1>6, <1>8, <1>11, <1>12 DEF Step, StepNext, InStep

\* The watched tool stop is cancelled.
LEMMA CancelToolServed ==
  ASSUME Inv, Step, ServiceCancelTool
  PROVE  StepNext
<1>1. /\ requests \in Seq(PlanRequest) /\ requests # <<>> /\ Head(requests).op = "CancelTool"
      /\ requests' = Tail(requests) /\ tool_stop' = 0
      /\ UNCHANGED <<core, events, inflight, invalidated>>
  BY DEF Inv, TypeOK, ServiceCancelTool, Takes
<1>2. /\ Shifts(Tail(requests), requests) /\ Tail(requests) \in Seq(PlanRequest)
      /\ requests[1].op = "CancelTool"
  BY <1>1, TailShifts
<1>3. Motion(core, Tail(requests), events, inflight, invalidated)
  <2>1. Carries(requests, events, inflight, invalidated, Tail(requests), events, inflight, invalidated)
    BY <1>2, OtherTaken
  <2>2. QED
    BY <2>1, MotionCarried DEF Step, InStep
<1>4. Tools(core.tool_stops, core.next_index, core.next_tag, Tail(requests), events, 0)
  BY <1>2, ToolsCancelTaken DEF Step, InStep
<1>5. Jaws(Tail(requests), inflight, 0)
  BY <1>2, JawsTaken DEF Step, InStep
<1>6. QED
  BY <1>1, <1>2, <1>3, <1>4, <1>5 DEF Step, StepNext, InStep

\* New geometry is applied, and may outlaw the trajectory in flight.
LEMMA SetShapesServed ==
  ASSUME Inv, Step, ServiceSetShapes
  PROVE  StepNext
<1>1. /\ requests \in Seq(PlanRequest) /\ events \in Seq(PlanEvents)
      /\ requests # <<>> /\ Head(requests).op = "SetShapes"
      /\ requests' = Tail(requests)
      /\ UNCHANGED <<core, tool_stop>>
  BY DEF Inv, TypeOK, ServiceSetShapes, Takes
<1>2. /\ Shifts(Tail(requests), requests) /\ Tail(requests) \in Seq(PlanRequest)
      /\ requests[1].op = "SetShapes" /\ Head(requests) = requests[1]
      /\ requests[1] \in PlanRequest
  BY <1>1, TailShifts
<1>3. requests[1].tag \in Nat
  BY <1>2 DEF PlanRequest
<1>4. PICK ok \in BOOLEAN :
        /\ events' = Append(events, [op |-> "ShapesApplied", tag |-> requests[1].tag, ok |-> ok])
        /\ \/ UNCHANGED <<inflight, invalidated>>
           \/ /\ RunsExec(inflight.kind)
              /\ invalidated' = inflight.index
              /\ inflight' = NoFlight
  BY <1>2 DEF ServiceSetShapes
<1> DEFINE x == [op |-> "ShapesApplied", tag |-> requests[1].tag, ok |-> ok]
<1>5. /\ x \in PlanEvents /\ x.op = "ShapesApplied" /\ x.op \notin Replies
      /\ x.op \notin {"ToolStarted", "ToolOutcome"}
  BY <1>3 DEF PlanEvents, Replies
<1>6. events' = Append(events, x)
  BY <1>4
<1> HIDE DEF x
<1>7. Grows(Append(events, x), events, x)
  BY <1>1, <1>5, AppendGrows
<1>8. Motion(core, Tail(requests), Append(events, x), inflight, invalidated)
  <2>1. Carries(requests, events, inflight, invalidated, Tail(requests), events, inflight, invalidated)
    BY <1>2, OtherTaken
  <2>2. Motion(core, Tail(requests), events, inflight, invalidated)
    BY <2>1, MotionCarried DEF Step, InStep
  <2>3. Carries(Tail(requests), events, inflight, invalidated,
                Tail(requests), Append(events, x), inflight, invalidated)
    BY <1>5, <1>7, OtherRaised
  <2>4. QED
    BY <2>2, <2>3, MotionCarried DEF Step, InStep
<1>9. Motion(core, Tail(requests), Append(events, x), inflight', invalidated')
  <2>1. CASE UNCHANGED <<inflight, invalidated>>
    BY <1>8, <2>1
  <2>2. CASE RunsExec(inflight.kind) /\ invalidated' = inflight.index /\ inflight' = NoFlight
    <3>1. inflight # NoFlight
      BY <2>2 DEF RunsExec, NoFlight
    <3>2. Carries(Tail(requests), Append(events, x), inflight, invalidated,
                  Tail(requests), Append(events, x), NoFlight, inflight.index)
      BY <3>1, Invalidated
    <3>3. QED
      BY <1>8, <2>2, <3>2, MotionCarried DEF Step, InStep
  <2>3. QED
    BY <1>4, <2>1, <2>2
<1>10. Tools(core.tool_stops, core.next_index, core.next_tag, Tail(requests), events, tool_stop)
  BY <1>2, ToolsOtherTaken DEF Step, InStep
<1>11. Tools(core.tool_stops, core.next_index, core.next_tag, Tail(requests), Append(events, x), tool_stop)
  BY <1>5, <1>7, <1>10, ToolsOtherRaised
<1>12. inflight' = inflight \/ inflight'.kind # "tool"
  BY <1>4 DEF NoFlight
<1>13. Jaws(Tail(requests), inflight, tool_stop)
  BY <1>2, JawsTaken DEF Step, InStep
<1>14. Jaws(Tail(requests), inflight', tool_stop)
  BY <1>12, <1>13, JawsLetGo
<1>15. QED
  BY <1>1, <1>2, <1>6, <1>9, <1>11, <1>14 DEF Step, StepNext, InStep

\* poll reports an outcome, or the verdict on a tool stop, or another tool.
LEMMA Polled ==
  ASSUME Inv, Step, PollOutcome \/ PollTool \/ DriveToolChanged
  PROVE  StepNext
<1>1. /\ requests \in Seq(PlanRequest) /\ events \in Seq(PlanEvents)
      /\ inflight.index \in Nat /\ tool_stop \in Nat /\ invalidated \in Nat
  BY DEF Inv, TypeOK
<1>2. CASE PollOutcome
  <2>1. PICK x \in PlanEvents :
          /\ x.op = "Outcome" /\ events' = Append(events, x)
          /\ \/ x.index = invalidated /\ invalidated' = 0 /\ inflight' = inflight
             \/ /\ x.index = inflight.index /\ inflight # NoFlight
                /\ invalidated' = invalidated /\ inflight' = NoFlight
    <3>1. PICK ok \in BOOLEAN, changed \in BOOLEAN :
            \/ /\ events' = Append(events, [op |-> "Outcome", index |-> invalidated,
                                            ok |-> FALSE, changed |-> FALSE])
               /\ invalidated' = 0
               /\ UNCHANGED inflight
            \/ /\ inflight # NoFlight
               /\ events' = Append(events, [op |-> "Outcome", index |-> inflight.index,
                                            ok |-> ok, changed |-> changed])
               /\ inflight' = NoFlight
               /\ UNCHANGED invalidated
      BY <1>2 DEF PollOutcome
    <3>2. /\ [op |-> "Outcome", index |-> invalidated, ok |-> FALSE, changed |-> FALSE] \in PlanEvents
          /\ [op |-> "Outcome", index |-> inflight.index, ok |-> ok, changed |-> changed] \in PlanEvents
      BY <1>1 DEF PlanEvents
    <3>3. QED
      BY <3>1, <3>2
  <2>2. Grows(Append(events, x), events, x)
    BY <1>1, AppendGrows
  <2>3. Carries(requests, events, inflight, invalidated,
                requests, Append(events, x), inflight', invalidated')
    BY <2>1, <2>2, OutcomeRaised
  <2>4. Motion(core, requests, Append(events, x), inflight', invalidated')
    BY <2>3, MotionCarried DEF Step, InStep
  <2>5. Tools(core.tool_stops, core.next_index, core.next_tag, requests, Append(events, x), tool_stop)
    BY <2>1, <2>2, ToolsOtherRaised DEF Step, InStep
  <2>6. inflight' = inflight \/ inflight'.kind # "tool"
    BY <2>1 DEF NoFlight
  <2>7. Jaws(requests, inflight', tool_stop)
    BY <2>6, JawsLetGo DEF Step, InStep
  <2>8. UNCHANGED <<core, requests, tool_stop>>
    BY <1>2 DEF PollOutcome
  <2>9. QED
    BY <1>1, <2>1, <2>4, <2>5, <2>7, <2>8 DEF Step, StepNext, InStep
<1>3. CASE PollTool
  <2>1. PICK x \in PlanEvents :
          x.op = "ToolOutcome" /\ x.index = tool_stop /\ events' = Append(events, x)
    <3>1. PICK ok \in BOOLEAN :
            events' = Append(events, [op |-> "ToolOutcome", index |-> tool_stop, ok |-> ok])
      BY <1>3 DEF PollTool
    <3>2. [op |-> "ToolOutcome", index |-> tool_stop, ok |-> ok] \in PlanEvents
      BY <1>1 DEF PlanEvents
    <3>3. QED
      BY <3>1, <3>2
  <2>2. Grows(Append(events, x), events, x)
    BY <1>1, AppendGrows
  <2>3. Carries(requests, events, inflight, invalidated,
                requests, Append(events, x), inflight, invalidated)
    BY <2>1, <2>2, OtherRaised DEF Replies
  <2>4. Motion(core, requests, Append(events, x), inflight, invalidated)
    BY <2>3, MotionCarried DEF Step, InStep
  <2>5. /\ tool_stop # 0 /\ tool_stop' = 0
        /\ UNCHANGED <<core, requests, inflight, invalidated>>
    BY <1>3 DEF PollTool
  <2>6. Tools(core.tool_stops, core.next_index, core.next_tag, requests, Append(events, x), 0)
    BY <2>1, <2>2, <2>5, ToolsOutcomeRaised DEF Step, InStep
  <2>7. Jaws(requests, inflight, 0)
    BY JawsLetGo DEF Step, InStep
  <2>8. QED
    BY <1>1, <2>1, <2>4, <2>5, <2>6, <2>7 DEF Step, StepNext, InStep
<1>4. CASE DriveToolChanged
  <2> DEFINE x == [op |-> "ToolFitted", changed |-> TRUE]
  <2>1. x \in PlanEvents /\ x.op = "ToolFitted" /\ events' = Append(events, x)
    BY <1>4 DEF PlanEvents, DriveToolChanged
  <2>2. UNCHANGED <<core, requests, inflight, invalidated, tool_stop>>
    BY <1>4 DEF DriveToolChanged, planner
  <2> HIDE DEF x
  <2>3. Grows(Append(events, x), events, x)
    BY <1>1, <2>1, AppendGrows
  <2>4. Carries(requests, events, inflight, invalidated,
                requests, Append(events, x), inflight, invalidated)
    BY <2>1, <2>3, OtherRaised DEF Replies
  <2>5. Motion(core, requests, Append(events, x), inflight, invalidated)
    BY <2>4, MotionCarried DEF Step, InStep
  <2>6. Tools(core.tool_stops, core.next_index, core.next_tag, requests, Append(events, x), tool_stop)
    BY <2>1, <2>3, ToolsOtherRaised DEF Step, InStep
  <2>7. QED
    BY <1>1, <2>1, <2>2, <2>5, <2>6 DEF Step, StepNext, InStep
<1>5. QED
  BY <1>2, <1>3, <1>4

\* Every step of the planner keeps step.
LEMMA PlannerStep ==
  ASSUME Inv, Step, Planner
  PROVE  StepNext
  BY StartServed, CancelServed, StartToolServed, CancelToolServed, SetShapesServed, Polled
     DEF Planner

-----------------------------------------------------------------------------
(* What the methods of the core do to the motion it waits for. *)

\* `q2` is the queue `q` without its first `n` commands.
Suffix(q2, q, n) ==
  /\ n \in Nat /\ n <= Len(q) /\ Len(q2) = Len(q) - n
  /\ \A k \in 1..Len(q2) : q2[k] = q[k + n]

\* A queue, its tail and the empty one.
LEMMA Suffixes ==
  ASSUME NEW q \in Seq(Entry)
  PROVE  /\ Suffix(q, q, 0) /\ Suffix(<<>>, q, Len(q))
         /\ q # <<>> => Suffix(Tail(q), q, 1)
         /\ \A n \in 0..Len(q) : Suffix(SubSeq(q, n + 1, Len(q)), q, n)
                                  /\ SubSeq(q, n + 1, Len(q)) \in Seq(Entry)
<1>1. Len(q) \in Nat /\ Len(<<>>) = 0
  BY LenProperties, EmptySeq
<1>2. Suffix(q, q, 0) /\ Suffix(<<>>, q, Len(q))
  BY <1>1 DEF Suffix
<1>3. q # <<>> => Suffix(Tail(q), q, 1)
  <2>1. ASSUME q # <<>> PROVE Shifts(Tail(q), q)
    BY <2>1, TailShifts
  <2>2. QED
    BY <1>1, <2>1 DEF Shifts, Suffix
<1>4. ASSUME NEW n \in 0..Len(q)
      PROVE  /\ Suffix(SubSeq(q, n + 1, Len(q)), q, n)
             /\ SubSeq(q, n + 1, Len(q)) \in Seq(Entry)
  <2> DEFINE l == Len(q)
             m == n + 1
  <2>1. l \in Nat /\ n \in Nat /\ n <= l /\ m \in 1..(l + 1)
    BY <1>1
  <2>2. /\ SubSeq(q, m, l) \in Seq(Entry)
        /\ Len(SubSeq(q, m, l)) = IF m <= l THEN l - m + 1 ELSE 0
        /\ \A k \in 1..(l - m + 1) : SubSeq(q, m, l)[k] = q[m + k - 1]
    BY <2>1, SubSeqProperties
  <2>3. Len(SubSeq(q, m, l)) = l - n /\ l - m + 1 = l - n
    BY <2>1, <2>2
  <2>4. \A k \in 1..(l - n) : m + k - 1 = k + n
    BY <2>1
  <2>5. QED
    BY <2>1, <2>2, <2>3, <2>4 DEF Suffix
<1>5. QED
  BY <1>2, <1>3, <1>4

\* What is left of the queue is still new to the planner, its head too.
LEMMA SuffixNew ==
  ASSUME NEW q, NEW q2, NEW n, NEW nx, NEW marker, NEW R, NEW E, NEW fl, NEW iv,
         NEW R2, NEW E2, Suffix(q2, q, n), Len(q) \in Nat,
         QueueNew(q, nx, marker, R, E, fl, iv), n = 0 => marker = 0,
         \A i : Untouched(R, E, fl, iv, i) => Untouched(R2, E2, fl, iv, i)
  PROVE  QueueNew(q2, nx, 0, R2, E2, fl, iv)
<1> DEFINE l == Len(q)
           l2 == Len(q2)
<1>1. n \in Nat /\ l \in Nat /\ l2 = l - n /\ n <= l /\ l2 \in Nat
  BY DEF Suffix
<1>2. \A k \in 1..l2 : /\ k + n \in 1..l /\ (k + n = 1 => n = 0)
                       /\ \A j \in 1..l2 : j < k => j + n < k + n
  BY <1>1
<1>3. \A k \in 1..l2 : q2[k] = q[k + n]
  BY DEF Suffix
<1>4. ASSUME NEW k \in 1..l2
      PROVE  /\ q2[k].index < nx
             /\ \A j \in 1..l2 : j < k => q2[j].index < q2[k].index
             /\ Untouched(R2, E2, fl, iv, q2[k].index)
  <2>1. /\ q[k + n].index < nx
        /\ \A j \in 1..l : j < k + n => q[j].index < q[k + n].index
        /\ (k + n = 1 /\ marker # 0) \/ Untouched(R, E, fl, iv, q[k + n].index)
    BY <1>2 DEF QueueNew
  <2>2. \A j \in 1..l2 : j < k => q2[j].index < q2[k].index
    BY <1>2, <1>3, <2>1
  <2>3. QED
    BY <1>2, <1>3, <2>1, <2>2
<1>5. QED
  BY <1>4 DEF QueueNew

\* Nothing is asked of the planner any more, and it is free.
LEMMA MotionIdle ==
  ASSUME NEW s, NEW t, NEW n, NEW R, NEW E, NEW fl, NEW iv, NEW R2, NEW E2,
         CoreOK(s), Motion(s, R, E, fl, iv),
         t.planning = 0, t.executing = NoCmd, t.next_index = s.next_index,
         Suffix(t.pending, s.pending, n), n = 0 => s.planning = 0,
         \A i : Untouched(R, E, fl, iv, i) => Untouched(R2, E2, fl, iv, i),
         Separate(R2, fl), Free(R2, fl)
  PROVE  Motion(t, R2, E2, fl, iv)
<1>1. Len(s.pending) \in Nat
  BY LenProperties DEF CoreOK
<1>2. QueueNew(s.pending, s.next_index, s.planning, R, E, fl, iv)
  BY DEF Motion
<1>3. QueueNew(t.pending, s.next_index, 0, R2, E2, fl, iv)
  BY <1>1, <1>2, SuffixNew
<1>4. QED
  BY <1>3 DEF Motion

\* The head the planner started is executed.
LEMMA MotionStarted ==
  ASSUME NEW s, NEW t, NEW n, NEW R, NEW E, NEW fl, NEW iv, NEW E2,
         CoreOK(s), Motion(s, R, E, fl, iv), Shifts(E2, E),
         s.planning # 0, Says(E[1], "Started", s.planning),
         t.planning = 0, t.next_index = s.next_index,
         t.executing.index = s.pending[1].index, t.executing.kind = s.pending[1].kind,
         Suffix(t.pending, s.pending, n), n # 0
  PROVE  Motion(t, R, E2, fl, iv)
<1>1. Len(s.pending) \in Nat /\ s.pending # <<>> /\ s.pending[1].index = s.planning
  BY LenProperties DEF CoreOK, MarkerOK, PlanningHead
<1>2. s.pending[1] \in Entry
  <2>1. s.pending \in Seq(Entry)
    BY DEF CoreOK
  <2>2. QED
    BY <1>1, <2>1, HeadTailProperties
<1>3. QueueNew(s.pending, s.next_index, s.planning, R, E, fl, iv)
  BY DEF Motion
<1>4. \A i : Untouched(R, E, fl, iv, i) => Untouched(R, E2, fl, iv, i)
  BY EventTaken
<1>5. QueueNew(t.pending, s.next_index, 0, R, E2, fl, iv)
  BY <1>1, <1>3, <1>4, SuffixNew
<1>6. Asked(s.pending[1], R, E, fl, iv)
  BY DEF Motion
<1>7. Says(E[1], "Started", s.pending[1].index)
  BY <1>1
<1>8. Backed(s.pending[1].index, s.pending[1].kind, 0, R, E2, fl, iv)
  <2>1. \A e \in Entry : Says(E[1], "Started", e.index) /\ Asked(e, R, E, fl, iv) =>
          Backed(e.index, e.kind, 0, R, E2, fl, iv)
    BY EventTaken
  <2>2. QED
    BY <1>2, <1>6, <1>7, <2>1
<1>9. t.executing.index # 0 /\ t.executing # NoCmd
  BY <1>2 DEF Entry, NoCmd
<1>10. QED
  BY <1>5, <1>8, <1>9 DEF Motion

\* The server takes an event about nothing it waits for.
LEMMA MotionUnheeded ==
  ASSUME NEW s, NEW R, NEW E, NEW fl, NEW iv, NEW E2,
         CoreOK(s), Motion(s, R, E, fl, iv), Shifts(E2, E),
         s.planning # 0 => ~Says(E[1], "Started", s.planning) /\ ~Says(E[1], "Rejected", s.planning),
         s.executing # NoCmd => ~Says(E[1], "Outcome", s.executing.index)
  PROVE  Motion(s, R, E2, fl, iv)
<1>1. \A i : Untouched(R, E, fl, iv, i) => Untouched(R, E2, fl, iv, i)
  BY EventTaken
<1>2. QueueNew(s.pending, s.next_index, s.planning, R, E2, fl, iv)
  BY <1>1 DEF Motion, QueueNew
<1>3. s.planning # 0 => Asked(s.pending[1], R, E2, fl, iv)
  <2> SUFFICES ASSUME s.planning # 0 PROVE Asked(s.pending[1], R, E2, fl, iv)
    OBVIOUS
  <2>1. s.pending \in Seq(Entry) /\ s.pending # <<>> /\ s.pending[1].index = s.planning
    BY DEF CoreOK, MarkerOK, PlanningHead
  <2>2. s.pending[1] \in Entry
    BY <2>1, HeadTailProperties
  <2>3. Asked(s.pending[1], R, E, fl, iv)
    BY DEF Motion
  <2>4. /\ ~Says(E[1], "Started", s.pending[1].index)
        /\ ~Says(E[1], "Rejected", s.pending[1].index)
    BY <2>1
  <2>5. \A e \in Entry : /\ ~Says(E[1], "Started", e.index)
                          /\ ~Says(E[1], "Rejected", e.index)
                          /\ Asked(e, R, E, fl, iv)
                          => Asked(e, R, E2, fl, iv)
    BY EventTaken
  <2>6. QED
    BY <2>2, <2>3, <2>4, <2>5
<1>4. s.executing # NoCmd => Backed(s.executing.index, s.executing.kind, 0, R, E2, fl, iv)
  <2>1. \A i, kind : ~Says(E[1], "Outcome", i) /\ Backed(i, kind, 0, R, E, fl, iv) =>
          Backed(i, kind, 0, R, E2, fl, iv)
    BY EventTaken
  <2>2. QED
    BY <2>1 DEF Motion
<1>5. QED
  BY <1>2, <1>3, <1>4 DEF Motion

\* A command is accepted: its index is the next one, it may join the queue.
LEMMA MotionAccepted ==
  ASSUME NEW s, NEW t, NEW kind \in QueuedKinds, NEW R, NEW E, NEW fl, NEW iv,
         CoreOK(s), Motion(s, R, E, fl, iv),
         t.planning = s.planning, t.executing = s.executing,
         t.next_index = s.next_index + 1,
         \/ t.pending = s.pending
         \/ t.pending = Append(s.pending, [index |-> s.next_index, kind |-> kind])
  PROVE  Motion(t, R, E, fl, iv)
<1> DEFINE q == s.pending
           nx == s.next_index
           e == [index |-> nx, kind |-> kind]
<1>1. q \in Seq(Entry) /\ Len(q) \in Nat /\ nx \in Nat \ {0} /\ e \in Entry
  BY LenProperties DEF CoreOK, Entry
<1>2. \A k \in 1..Len(q) : q[k].index \in Nat
  <2>1. \A k \in 1..Len(q) : q[k] \in Entry
    BY <1>1, ElementOfSeq
  <2>2. QED
    BY <2>1 DEF Entry
<1>3. QueueNew(q, nx, s.planning, R, E, fl, iv)
  BY DEF Motion
<1>4. s.planning # 0 => q # <<>>
  BY DEF CoreOK, MarkerOK, PlanningHead
<1>5. QueueNew(t.pending, nx + 1, s.planning, R, E, fl, iv)
  <2>1. \A i \in Nat : nx + 1 <= i => nx <= i
    BY <1>1
  <2>2. CASE t.pending = q
    <3>1. \A k \in 1..Len(q) : q[k].index < nx + 1
      BY <1>1, <1>2, <1>3 DEF QueueNew
    <3>2. QED
      BY <1>3, <2>1, <2>2, <3>1 DEF QueueNew
  <2>3. CASE t.pending = Append(q, e)
    <3> DEFINE l == Len(q)
    <3>1. Grows(t.pending, q, e)
      BY <1>1, <2>3, AppendGrows
    <3>2. l \in Nat /\ Len(t.pending) = l + 1 /\ t.pending[l + 1] = e /\ e.index = nx
      BY <3>1 DEF Grows
    <3>3. \A k \in 1..l : t.pending[k] = q[k]
      BY <3>1 DEF Grows
    <3>4. Untouched(R, E, fl, iv, nx)
      BY <1>1, <1>3 DEF QueueNew
    <3>5. \A k \in 1..(l + 1) : k \in 1..l \/ k = l + 1
      BY <3>2
    <3>6. \A k \in 1..l : q[k].index < nx /\ q[k].index < nx + 1 /\ nx < nx + 1
      BY <1>1, <1>2, <1>3 DEF QueueNew
    <3>7. \A k \in 1..l : \A j \in 1..(l + 1) : j < k => j \in 1..l
      BY <3>2
    <3>8. \A j \in 1..(l + 1) : j < l + 1 => j \in 1..l
      BY <3>2
    <3>9. ASSUME NEW k \in 1..l
          PROVE  /\ t.pending[k].index < nx + 1
                 /\ \A j \in 1..(l + 1) : j < k => t.pending[j].index < t.pending[k].index
                 /\ (k = 1 /\ s.planning # 0) \/ Untouched(R, E, fl, iv, t.pending[k].index)
      BY <1>3, <3>3, <3>6, <3>7 DEF QueueNew
    <3>10. /\ t.pending[l + 1].index < nx + 1
           /\ \A j \in 1..(l + 1) : j < l + 1 => t.pending[j].index < t.pending[l + 1].index
           /\ Untouched(R, E, fl, iv, t.pending[l + 1].index)
      BY <1>1, <3>2, <3>3, <3>4, <3>6, <3>8
    <3>11. \A i \in Nat : nx + 1 <= i => Untouched(R, E, fl, iv, i)
      BY <1>3, <2>1 DEF QueueNew
    <3> HIDE DEF l, e
    <3>12. \A k \in 1..Len(t.pending) :
             /\ t.pending[k].index < nx + 1
             /\ \A j \in 1..Len(t.pending) : j < k => t.pending[j].index < t.pending[k].index
             /\ (k = 1 /\ s.planning # 0) \/ Untouched(R, E, fl, iv, t.pending[k].index)
      BY <3>2, <3>5, <3>9, <3>10
    <3>13. QED
      BY <3>11, <3>12 DEF QueueNew
  <2>4. QED
    BY <2>2, <2>3
<1>6. s.planning # 0 => t.pending[1] = q[1]
  BY <1>1, <1>4
<1>7. QED
  BY <1>5, <1>6 DEF Motion

-----------------------------------------------------------------------------
(* A server turn.  The handler works on its own copy of the core; what it  *)
(* has sent so far stands behind the requests already on the channel.      *)

At(s, E) ==
  /\ requests \in Seq(PlanRequest)
  /\ InStep(s, requests \o s.sent, E, inflight, invalidated, tool_stop)

\* The fields of the core the invariant is about.
Track == {"next_index", "next_tag", "pending", "executing", "planning", "tool_stops", "sent"}

\* `t` is `s` with at most the fields of `changed` assigned, of those tracked.
Varies(s, t, changed) == CoreOK(t) /\ \A f \in Track \ changed : t[f] = s[f]

\* What Varies leaves to look at.
LEMMA VariesFields ==
  ASSUME NEW s, NEW t, NEW changed
  PROVE  /\ Varies(s, t, changed) => CoreOK(t)
         /\ Varies(s, t, {}) => /\ t.next_index = s.next_index /\ t.next_tag = s.next_tag
                                /\ t.pending = s.pending /\ t.executing = s.executing
                                /\ t.planning = s.planning /\ t.tool_stops = s.tool_stops
                                /\ t.sent = s.sent
         /\ Varies(s, t, {"pending"}) =>
              /\ t.next_index = s.next_index /\ t.next_tag = s.next_tag
              /\ t.executing = s.executing /\ t.planning = s.planning
              /\ t.tool_stops = s.tool_stops /\ t.sent = s.sent
         /\ Varies(s, t, {"pending", "planning", "executing"}) =>
              /\ t.next_index = s.next_index /\ t.next_tag = s.next_tag
              /\ t.tool_stops = s.tool_stops /\ t.sent = s.sent
         /\ Varies(s, t, {"pending", "planning", "executing", "sent"}) =>
              /\ t.next_index = s.next_index /\ t.next_tag = s.next_tag
              /\ t.tool_stops = s.tool_stops
         /\ Varies(s, t, {"tool_stops"}) =>
              /\ t.next_index = s.next_index /\ t.next_tag = s.next_tag
              /\ t.pending = s.pending /\ t.executing = s.executing
              /\ t.planning = s.planning /\ t.sent = s.sent
  BY DEF Varies, Track

\* A request the handler sends grows the channel.
LEMMA SentGrows ==
  ASSUME NEW s, NEW t, NEW r \in PlanRequest, requests \in Seq(PlanRequest),
         s.sent \in Seq(PlanRequest), t.sent = Append(s.sent, r)
  PROVE  /\ Grows(requests \o t.sent, requests \o s.sent, r)
         /\ requests \o s.sent \in Seq(PlanRequest)
         /\ requests \o t.sent \in Seq(PlanRequest)
<1> DEFINE a == s.sent
           R == requests \o a
<1>1. R \in Seq(PlanRequest)
  BY ConcatProperties
<1>2. requests \o Append(a, r) = Append(R, r)
  BY Z3
<1> HIDE DEF R
<1>3. QED
  BY <1>1, <1>2, AppendGrows DEF R

\* While nothing is tracked changes, nothing is out of step.
LEMMA AtSame ==
  ASSUME NEW s, NEW t, NEW E, At(s, E), Varies(s, t, {})
  PROVE  At(t, E)
<1>1. /\ t.next_index = s.next_index /\ t.next_tag = s.next_tag
      /\ t.pending = s.pending /\ t.executing = s.executing
      /\ t.planning = s.planning /\ t.tool_stops = s.tool_stops
      /\ t.sent = s.sent /\ CoreOK(t)
  BY VariesFields
<1>2. Hands(t) <=> Hands(s)
  BY <1>1 DEF Hands, RunsTool, StartsTool, PlanningHead
<1>3. \A R : Motion(s, R, E, inflight, invalidated) => Motion(t, R, E, inflight, invalidated)
  BY <1>1 DEF Motion
<1>4. QED
  BY <1>1, <1>2, <1>3 DEF At, InStep

\* A core that asks for nothing drives no jaws.
LEMMA IdleHands ==
  ASSUME NEW t, t.planning = 0, t.executing = NoCmd
  PROVE  Hands(t)
  BY DEF Hands, RunsTool, StartsTool, PlanningHead, NoCmd

\* Motion is dropped and the planner told.
LEMMA AtHalted ==
  ASSUME NEW s, NEW t, NEW n, NEW E, At(s, E),
         Varies(s, t, {"pending", "planning", "executing", "sent"}),
         t.planning = 0, t.executing = NoCmd,
         Suffix(t.pending, s.pending, n), n = 0 => s.planning = 0,
         t.sent = Append(s.sent, [op |-> "Cancel"])
  PROVE  At(t, E)
<1> DEFINE r == [op |-> "Cancel"]
           R == requests \o s.sent
           R2 == requests \o t.sent
<1>1. /\ t.next_index = s.next_index /\ t.next_tag = s.next_tag
      /\ t.tool_stops = s.tool_stops /\ CoreOK(t)
  BY VariesFields
<1>2. CoreOK(s) /\ InStep(s, R, E, inflight, invalidated, tool_stop)
  BY DEF At, InStep
<1>3. requests \in Seq(PlanRequest) /\ s.sent \in Seq(PlanRequest) /\ r \in PlanRequest
  BY <1>2, PlainRequests DEF At, CoreOK
<1>4. r.op = "Cancel" /\ t.sent = Append(s.sent, r)
  OBVIOUS
<1> HIDE DEF r
<1>5. Grows(R2, R, r) /\ R2 \in Seq(PlanRequest)
  BY <1>3, <1>4, SentGrows
<1> HIDE DEF R, R2
<1>6. Motion(t, R2, E, inflight, invalidated)
  <2>1. Motion(s, R, E, inflight, invalidated) /\ Separate(R, inflight)
    BY <1>2 DEF InStep, Motion
  <2>2. /\ \A i : Untouched(R, E, inflight, invalidated, i) => Untouched(R2, E, inflight, invalidated, i)
        /\ Separate(R2, inflight) /\ Free(R2, inflight)
    BY <1>4, <1>5, <2>1, CancelSentFrees
  <2>3. QED
    BY <1>1, <1>2, <2>1, <2>2, MotionIdle
<1>7. Tools(s.tool_stops, s.next_index, s.next_tag, R2, E, tool_stop)
  BY <1>2, <1>4, <1>5, ToolsOtherSent DEF InStep
<1>8. Jaws(R2, inflight, tool_stop)
  BY <1>2, <1>4, <1>5, JawsSent DEF InStep, StartsJaws
<1>9. QED
  BY <1>1, <1>3, <1>5, <1>6, <1>7, <1>8, IdleHands DEF At, InStep, R2

\* Commands leave the queue of an idle core.
LEMMA AtShortened ==
  ASSUME NEW s, NEW t, NEW n, NEW E, At(s, E), Varies(s, t, {"pending"}),
         s.planning = 0, s.executing = NoCmd, Suffix(t.pending, s.pending, n)
  PROVE  At(t, E)
<1> DEFINE R == requests \o s.sent
<1>1. /\ t.next_index = s.next_index /\ t.next_tag = s.next_tag
      /\ t.executing = s.executing /\ t.planning = s.planning
      /\ t.tool_stops = s.tool_stops /\ t.sent = s.sent /\ CoreOK(t)
  BY VariesFields
<1>2. CoreOK(s) /\ InStep(s, R, E, inflight, invalidated, tool_stop)
  BY DEF At, InStep
<1>3. requests \o t.sent = R
  BY <1>1
<1> HIDE DEF R
<1>4. Motion(s, R, E, inflight, invalidated) /\ Separate(R, inflight) /\ Free(R, inflight)
  BY <1>2 DEF InStep, Motion
<1>5. Motion(t, R, E, inflight, invalidated)
  BY <1>1, <1>2, <1>4, MotionIdle
<1>6. QED
  BY <1>1, <1>2, <1>3, <1>5, IdleHands DEF At, InStep

\* The tool stops are dropped and the planner told.
LEMMA AtStopsDropped ==
  ASSUME NEW s, NEW E, At(s, E)
  PROVE  At(DropToolStops(s), E)
<1> DEFINE t == DropToolStops(s)
           r == [op |-> "CancelTool"]
           R == requests \o s.sent
           R2 == requests \o t.sent
<1>1. CoreOK(s) /\ InStep(s, R, E, inflight, invalidated, tool_stop)
  BY DEF At, InStep
<1>2. CASE s.tool_stops = <<>>
  BY <1>2 DEF DropToolStops
<1>3. CASE s.tool_stops # <<>>
  <2>1. CoreOK(t)
    BY <1>1, DropToolStopsCalms DEF Calms
  <2>2. /\ t.next_index = s.next_index /\ t.next_tag = s.next_tag
        /\ t.pending = s.pending /\ t.executing = s.executing
        /\ t.planning = s.planning /\ t.tool_stops = <<>>
        /\ t.sent = Append(s.sent, r)
    <3>1. DOMAIN s = Fields
      BY <1>1 DEF CoreOK
    <3>2. QED
      BY <1>3, <3>1 DEF DropToolStops, Send, Fields
  <2> HIDE DEF t
  <2>3. requests \in Seq(PlanRequest) /\ s.sent \in Seq(PlanRequest) /\ r \in PlanRequest
    BY <1>1, PlainRequests DEF At, CoreOK
  <2>4. r.op = "CancelTool"
    OBVIOUS
  <2> HIDE DEF r
  <2>5. Grows(R2, R, r) /\ R2 \in Seq(PlanRequest)
    BY <2>2, <2>3, SentGrows
  <2> HIDE DEF R, R2
  <2>6. Motion(s, R2, E, inflight, invalidated)
    <3>1. Carries(R, E, inflight, invalidated, R2, E, inflight, invalidated)
      BY <2>4, <2>5, OtherSent
    <3>2. QED
      BY <1>1, <3>1, MotionCarried DEF InStep
  <2>7. Motion(t, R2, E, inflight, invalidated)
    BY <2>2, <2>6 DEF Motion
  <2>8. Tools(<<>>, s.next_index, s.next_tag, R2, E, tool_stop)
    BY <1>1, <2>4, <2>5, ToolsCancelSent DEF InStep
  <2>9. Jaws(R2, inflight, tool_stop)
    BY <1>1, <2>4, <2>5, JawsSent DEF InStep, StartsJaws
  <2>10. Hands(t)
    BY <2>2 DEF Hands
  <2>11. QED
    BY <2>1, <2>2, <2>3, <2>5, <2>7, <2>8, <2>9, <2>10 DEF At, InStep, R2, t
<1>4. QED
  BY <1>2, <1>3

\* Geometry is sent on, under the next tag.
LEMMA AtDeferred ==
  ASSUME NEW s, NEW set \in ShapeStates, NEW E, At(s, E)
  PROVE  At(DeferProgramShapes(s, set), E)
<1> DEFINE t == DeferProgramShapes(s, set)
           r == [op |-> "SetShapes", tag |-> s.next_tag + 1]
           R == requests \o s.sent
           R2 == requests \o t.sent
<1>1. CoreOK(s) /\ InStep(s, R, E, inflight, invalidated, tool_stop)
  BY DEF At, InStep
<1>2. CoreOK(t)
  BY <1>1, DeferShapesCalms DEF Calms
<1>3. /\ t.next_index = s.next_index /\ t.next_tag = s.next_tag + 1
      /\ t.pending = s.pending /\ t.executing = s.executing
      /\ t.planning = s.planning /\ t.tool_stops = s.tool_stops
      /\ t.sent = Append(s.sent, r)
  <2>1. DOMAIN s = Fields
    BY <1>1 DEF CoreOK
  <2>2. QED
    BY <2>1 DEF DeferProgramShapes, Send, Fields
<1> HIDE DEF t
<1>4. s.next_tag \in Nat /\ s.next_index \in Nat
  BY <1>1 DEF CoreOK
<1>5. requests \in Seq(PlanRequest) /\ s.sent \in Seq(PlanRequest) /\ r \in PlanRequest
  BY <1>1, <1>4 DEF At, CoreOK, PlanRequest
<1>6. r.op = "SetShapes"
  OBVIOUS
<1> HIDE DEF r
<1>7. Grows(R2, R, r) /\ R2 \in Seq(PlanRequest)
  BY <1>3, <1>5, SentGrows
<1> HIDE DEF R, R2
<1>8. Motion(s, R2, E, inflight, invalidated)
  <2>1. Carries(R, E, inflight, invalidated, R2, E, inflight, invalidated)
    BY <1>6, <1>7, OtherSent
  <2>2. QED
    BY <1>1, <2>1, MotionCarried DEF InStep
<1>9. Motion(t, R2, E, inflight, invalidated)
  BY <1>3, <1>8 DEF Motion
<1>10. Tools(s.tool_stops, s.next_index, s.next_tag, R2, E, tool_stop)
  BY <1>1, <1>6, <1>7, ToolsOtherSent DEF InStep
<1>11. Tools(t.tool_stops, t.next_index, t.next_tag, R2, E, tool_stop)
  <2> DEFINE nx == s.next_index
             nt == s.next_tag
  <2>1. nx \in Nat /\ nt \in Nat /\ nt + 1 \in Nat /\ nx <= nx /\ nt <= nt + 1
    BY <1>4
  <2> HIDE DEF nx, nt
  <2>2. Tools(s.tool_stops, nx, nt + 1, R2, E, tool_stop)
    BY <1>10, <2>1, ToolsLater DEF nx, nt
  <2>3. QED
    BY <1>3, <2>2 DEF nx, nt
<1>12. Jaws(R2, inflight, tool_stop)
  BY <1>1, <1>6, <1>7, JawsSent DEF InStep, StartsJaws
<1>13. Hands(t)
  BY <1>1, <1>3 DEF InStep, Hands, RunsTool, StartsTool, PlanningHead
<1>14. QED
  BY <1>2, <1>3, <1>5, <1>7, <1>9, <1>11, <1>12, <1>13 DEF At, InStep, R2, t

\* A method that is known to keep the core well-formed varies what it writes.
LEMMA KeepsVaries ==
  ASSUME NEW s, NEW t, NEW c, NEW changed, CoreOK(t), Keeps(s, t, c), c \cap Track \subseteq changed
  PROVE  Varies(s, t, changed)
<1>1. Track \subseteq Fields
  BY DEF Track, Fields
<1>2. QED
  BY <1>1 DEF Keeps, Varies

\* Bookkeeping is not tracked.
LEMMA BooksVary ==
  ASSUME NEW s, NEW t, CoreOK(s), Keeps(s, t, Bookkeeping \cup {"active_stream", "blend_hold"}),
         t.blend_hold \in {"none", "armed", "expired"}
  PROVE  Varies(s, t, {})
<1>1. /\ t.next_index = s.next_index /\ t.next_tag = s.next_tag
      /\ t.pending = s.pending /\ t.executing = s.executing
      /\ t.planning = s.planning /\ t.tool_stops = s.tool_stops
      /\ t.sent = s.sent /\ t.shapes = s.shapes /\ t.pending_shapes = s.pending_shapes
      /\ DOMAIN t = Fields
  BY DEF Keeps, Fields, Bookkeeping
<1>2. CoreOK(t)
  BY <1>1 DEF CoreOK, MarkerOK, PlanningHead
<1>3. QED
  BY <1>1, <1>2 DEF Varies, Track

\* drop_active, once Cancel is sent.
LEMMA AtDropActive ==
  ASSUME NEW s, NEW E, At(s, E)
  PROVE  LET t == DropActive(Send(s, [op |-> "Cancel"])) IN
         At(t, E) /\ t.planning = 0 /\ t.executing = NoCmd
<1> DEFINE u == Send(s, [op |-> "Cancel"])
           t == DropActive(u)
<1>1. CoreOK(s)
  BY DEF At, InStep
<1>2. CoreOK(u) /\ Keeps(s, u, {"sent"}) /\ u.sent = Append(s.sent, [op |-> "Cancel"])
  <2>1. u.sent = Append(s.sent, [op |-> "Cancel"])
    BY <1>1 DEF Send, CoreOK, Fields
  <2>2. QED
    BY <1>1, <2>1, SendCalms, PlainRequests DEF Calms
<1> HIDE DEF u
<1>3. /\ CoreOK(t) /\ t.planning = 0 /\ t.executing = NoCmd
      /\ Keeps(u, t, {"planning", "pending", "action_state", "executing"})
  BY <1>2, DropActiveCalms DEF Calms
<1>4. t.pending = IF PlanningHead(u) THEN Tail(u.pending) ELSE u.pending
  BY <1>2 DEF DropActive, CoreOK, Fields
<1> HIDE DEF t
<1>5. u.planning = s.planning /\ u.pending = s.pending /\ u.executing = s.executing
  BY <1>2 DEF Keeps, Fields
<1>6. t.sent = Append(s.sent, [op |-> "Cancel"])
  BY <1>2, <1>3 DEF Keeps, Fields
<1>7. Varies(s, t, {"pending", "planning", "executing", "sent"})
  BY <1>2, <1>3 DEF Keeps, Fields, Varies, Track
<1>8. s.pending \in Seq(Entry) /\ MarkerOK(s)
  BY <1>1 DEF CoreOK
<1>9. CASE PlanningHead(s)
  <2>1. t.pending = Tail(s.pending) /\ s.pending # <<>>
    BY <1>4, <1>5, <1>9 DEF PlanningHead
  <2>2. Suffix(t.pending, s.pending, 1)
    BY <1>8, <2>1, Suffixes
  <2>3. 1 = 0 => s.planning = 0
    OBVIOUS
  <2>4. At(t, E)
    BY <1>3, <1>6, <1>7, <2>2, <2>3, AtHalted
  <2>5. QED
    BY <1>3, <2>4 DEF t, u
<1>10. CASE ~PlanningHead(s)
  <2>1. t.pending = s.pending /\ s.planning = 0
    BY <1>4, <1>5, <1>8, <1>10 DEF PlanningHead, MarkerOK
  <2>2. Suffix(t.pending, s.pending, 0)
    BY <1>8, <2>1, Suffixes
  <2>3. At(t, E)
    BY <1>3, <1>6, <1>7, <2>1, <2>2, AtHalted
  <2>4. QED
    BY <1>3, <2>3 DEF t, u
<1>11. QED
  BY <1>9, <1>10

\* drop_pending of an idle core.
LEMMA AtDropPending ==
  ASSUME NEW s, NEW E, At(s, E), s.planning = 0, s.executing = NoCmd
  PROVE  LET t == DropPending(s) IN
         At(t, E) /\ t.planning = 0 /\ t.executing = NoCmd
<1> DEFINE t == DropPending(s)
<1>1. CoreOK(s) /\ s.pending \in Seq(Entry)
  BY DEF At, InStep, CoreOK
<1>2. CoreOK(t) /\ t.pending = <<>> /\ Keeps(s, t, {"pending", "blend_hold"})
  BY <1>1, DropPendingCalms DEF Calms
<1> HIDE DEF t
<1>3. Varies(s, t, {"pending"}) /\ t.planning = 0 /\ t.executing = NoCmd
  BY <1>2 DEF Keeps, Fields, Varies, Track
<1>4. Suffix(t.pending, s.pending, Len(s.pending))
  BY <1>1, <1>2, Suffixes
<1>5. At(t, E)
  BY <1>3, <1>4, AtShortened
<1>6. QED
  BY <1>3, <1>5 DEF t

\* Reporting what was dropped changes nothing tracked.
LEMMA AtReported ==
  ASSUME NEW s, NEW l, NEW E, At(s, E)
  PROVE  At(CompleteCancelled(s, l), E)
<1>1. CoreOK(s)
  BY DEF At, InStep
<1>2. /\ Keeps(s, CompleteCancelled(s, l), {"completed_index", "finished", "completes"})
      /\ CoreOK(CompleteCancelled(s, l))
  BY <1>1, CompleteCancelledKeeps, CompleteCancelledCalms DEF Calms, CoreOK
<1>3. {"completed_index", "finished", "completes"} \cap Track \subseteq {}
  BY DEF Track
<1>4. Varies(s, CompleteCancelled(s, l), {})
  BY <1>2, <1>3, KeepsVaries
<1>5. QED
  BY <1>4, AtSame

\* The cancels.
LEMMA AtCancelled ==
  ASSUME NEW s, NEW E, At(s, E)
  PROVE  /\ At(CancelActiveMotion(s), E)
         /\ At(CancelAllMotion(s), E)
         /\ At(DropPlanned(s), E)
         /\ At(CancelPlanned(s), E)
<1> DEFINE a == DropActive(Send(s, [op |-> "Cancel"]))
           b == DropToolStops(a)
           c == [b EXCEPT !.active_stream = "none"]
<1>1. At(a, E) /\ a.planning = 0 /\ a.executing = NoCmd
  BY AtDropActive
<1>2. DropActiveMotion(s) = c /\ DropPlanned(s) = DropPending(a)
  BY DEF DropActiveMotion, DropPlanned
<1> HIDE DEF a
<1>3. At(b, E) /\ CoreOK(b) /\ b.planning = 0 /\ b.executing = NoCmd
  <2>1. At(b, E) /\ CoreOK(a)
    BY <1>1, AtStopsDropped DEF At, InStep
  <2>2. Keeps(a, b, {"tool_stops", "sent"})
    BY <2>1, DropToolStopsCalms
  <2>3. QED
    BY <1>1, <2>1, <2>2 DEF At, InStep, Keeps, Fields
<1> HIDE DEF b
<1>4. At(c, E) /\ c.planning = 0 /\ c.executing = NoCmd
  <2>1. Keeps(b, c, {"active_stream"}) /\ c.blend_hold = b.blend_hold
    BY <1>3 DEF CoreOK, Keeps, Fields
  <2>2. Keeps(b, c, Bookkeeping \cup {"active_stream", "blend_hold"})
    BY <2>1 DEF Keeps
  <2>3. Varies(b, c, {})
    BY <1>3, <2>1, <2>2, BooksVary DEF CoreOK
  <2>4. At(c, E)
    BY <1>3, <2>3, AtSame
  <2>5. QED
    BY <1>3, <2>1, <2>4 DEF Keeps, Fields
<1> HIDE DEF c
<1>5. At(CancelActiveMotion(s), E)
  BY <1>2, <1>4, AtReported DEF CancelActiveMotion
<1>6. At(DropPending(c), E) /\ At(DropPending(a), E)
  BY <1>1, <1>4, AtDropPending
<1>7. At(CancelAllMotion(s), E)
  BY <1>2, <1>6, AtReported DEF CancelAllMotion
<1>8. At(CancelPlanned(s), E)
  BY <1>2, <1>6, AtReported DEF CancelPlanned
<1>9. QED
  BY <1>2, <1>5, <1>6, <1>7, <1>8

\* A new attachment epoch, and the stop that follows it.
LEMMA AtInvalidated ==
  ASSUME NEW s, NEW E, At(s, E)
  PROVE  At(InvalidateAttachments(s), E) /\ At(StopInvalidAttachments(s), E)
<1>1. ASSUME NEW u, At(u, E) PROVE At(InvalidateAttachments(u), E)
  <2>1. CoreOK(u)
    BY <1>1 DEF At, InStep
  <2>2. /\ CoreOK(InvalidateAttachments(u))
        /\ Keeps(u, InvalidateAttachments(u), {"shapes", "pending_shapes", "attachment_stop_pending"})
    BY <2>1, InvalidateCalms DEF Calms
  <2>3. {"shapes", "pending_shapes", "attachment_stop_pending"} \cap Track \subseteq {}
    BY DEF Track
  <2>4. Varies(u, InvalidateAttachments(u), {})
    BY <2>2, <2>3, KeepsVaries
  <2>5. QED
    BY <1>1, <2>4, AtSame
<1> DEFINE t == IF s.shapes = "attached" /\ ~ReferencedAndLive(s.snap)
                THEN InvalidateAttachments(s) ELSE s
           v == [t EXCEPT !.attachment_stop_pending = FALSE]
           c == CancelAllMotion(v)
           d == [c EXCEPT !.standing_error = Unattributed("attachment")]
<1>2. At(t, E) /\ CoreOK(t)
  BY <1>1 DEF At, InStep
<1>3. StopInvalidAttachments(s) = IF t.attachment_stop_pending THEN d ELSE t
  BY DEF StopInvalidAttachments
<1> HIDE DEF t
<1>4. At(v, E)
  <2>1. Keeps(t, v, Bookkeeping \cup {"active_stream", "blend_hold"}) /\ v.blend_hold = t.blend_hold
    BY <1>2 DEF CoreOK, Keeps, Fields, Bookkeeping
  <2>2. Varies(t, v, {})
    BY <1>2, <2>1, BooksVary DEF CoreOK
  <2>3. QED
    BY <1>2, <2>2, AtSame
<1> HIDE DEF v
<1>5. At(c, E) /\ CoreOK(c)
  BY <1>4, AtCancelled DEF At, InStep
<1> HIDE DEF c
<1>6. At(d, E)
  <2>1. Keeps(c, d, Bookkeeping \cup {"active_stream", "blend_hold"}) /\ d.blend_hold = c.blend_hold
    BY <1>5 DEF CoreOK, Keeps, Fields, Bookkeeping
  <2>2. Varies(c, d, {})
    BY <1>5, <2>1, BooksVary DEF CoreOK
  <2>3. QED
    BY <1>5, <2>2, AtSame
<1>7. QED
  BY <1>1, <1>2, <1>3, <1>6

\* Writing what is not tracked.
LEMMA AtBooks ==
  ASSUME NEW s, NEW t, NEW E, At(s, E),
         Keeps(s, t, Bookkeeping \cup {"active_stream", "blend_hold", "estop_latched"}),
         t.blend_hold \in {"none", "armed", "expired"}
  PROVE  At(t, E) /\ CoreOK(t)
<1>1. CoreOK(s)
  BY DEF At, InStep
<1>2. /\ t.next_index = s.next_index /\ t.next_tag = s.next_tag
      /\ t.pending = s.pending /\ t.executing = s.executing
      /\ t.planning = s.planning /\ t.tool_stops = s.tool_stops
      /\ t.sent = s.sent /\ t.shapes = s.shapes /\ t.pending_shapes = s.pending_shapes
      /\ DOMAIN t = Fields
  BY DEF Keeps, Fields, Bookkeeping
<1>3. CoreOK(t)
  BY <1>1, <1>2 DEF CoreOK, MarkerOK, PlanningHead
<1>4. Varies(s, t, {})
  BY <1>2, <1>3, SMTT(40) DEF Varies, Track
<1>5. QED
  BY <1>3, <1>4, AtSame

\* The latches, the pause and the snapshot are not tracked.
LEMMA AtLatched ==
  ASSUME NEW s, NEW E, At(s, E)
  PROVE  /\ CoreOK(s)
         /\ At(ClearPause(s), E)
         /\ At(OnMotionAccepted(s), E)
         /\ \A busy : At(LatchRefusal(s, busy), E)
         /\ \A sn : At(RefreshSnapshot(s, sn), E)
         /\ \A on : At(OnPause(s, on), E)
         /\ \A x : At([s EXCEPT !.active_stream = x], E)
         /\ \A x : At([s EXCEPT !.standing_error = x], E)
         /\ \A x : At([s EXCEPT !.teleport_homed = x], E)
         /\ \A x, y : At([s EXCEPT !.standing_error = x, !.action_state = y], E)
         /\ \A x, y : At([s EXCEPT !.estop_latched = x, !.standing_error = y], E)
         /\ \A x, y, z : At([s EXCEPT !.estop_latched = x, !.standing_error = y,
                                      !.action_state = z], E)
<1>1. CoreOK(s)
  BY DEF At, InStep
<1>2. DOMAIN s = Fields /\ s.blend_hold \in {"none", "armed", "expired"}
  BY <1>1 DEF CoreOK
<1> DEFINE free == Bookkeeping \cup {"active_stream", "blend_hold", "estop_latched"}
           Fit(t) == Keeps(s, t, free) /\ t.blend_hold \in {"none", "armed", "expired"}
<1>3. ASSUME NEW t, Fit(t) PROVE At(t, E)
  BY <1>3, AtBooks
<1>4. Fit(s) /\ Fit(ClearPause(s)) /\ Fit(OnMotionAccepted(s))
  BY <1>2 DEF Keeps, Fields, Bookkeeping, ClearPause, OnMotionAccepted
<1>5. ASSUME NEW busy PROVE Fit(LatchRefusal(s, busy))
  <2>1. Fit([s EXCEPT !.standing_error = Unattributed("refused")])
    BY <1>2 DEF Keeps, Fields, Bookkeeping
  <2>2. QED
    BY <1>4, <2>1 DEF LatchRefusal
<1>6. ASSUME NEW sn PROVE Fit(RefreshSnapshot(s, sn)) /\ Fit(OnPause(s, sn))
  BY <1>2 DEF Keeps, Fields, Bookkeeping, RefreshSnapshot, OnPause
<1>7. ASSUME NEW x PROVE /\ Fit([s EXCEPT !.active_stream = x])
                         /\ Fit([s EXCEPT !.standing_error = x])
                         /\ Fit([s EXCEPT !.teleport_homed = x])
  BY <1>2 DEF Keeps, Fields, Bookkeeping
<1>8. ASSUME NEW x, NEW y PROVE /\ Fit([s EXCEPT !.standing_error = x, !.action_state = y])
                                /\ Fit([s EXCEPT !.estop_latched = x, !.standing_error = y])
  BY <1>2 DEF Keeps, Fields, Bookkeeping
<1>9. ASSUME NEW x, NEW y, NEW z
      PROVE Fit([s EXCEPT !.estop_latched = x, !.standing_error = y, !.action_state = z])
  BY <1>2 DEF Keeps, Fields, Bookkeeping
<1> HIDE DEF Fit
<1>10. QED
  BY <1>1, <1>3, <1>4, <1>5, <1>6, <1>7, <1>8, <1>9

\* What every handler does first.
LEMMA AtArrived ==
  ASSUME NEW s, NEW sn, NEW E, At(s, E)
  PROVE  At(Arrive(s, sn), E)
  BY AtLatched, AtInvalidated DEF Arrive

\* What offer_head writes: the marker, and a Start that begins with the head.
LEMMA OfferHeadSends ==
  ASSUME NEW s, CoreOK(s), s.pending # <<>>
  PROVE  LET t == OfferHead(s) IN
         /\ t.next_index = s.next_index /\ t.next_tag = s.next_tag
         /\ t.pending = s.pending /\ t.executing = s.executing
         /\ t.planning = s.pending[1].index /\ t.tool_stops = s.tool_stops
         /\ \E r \in PlanRequest :
              r.op = "Start" /\ r.batch[1] = s.pending[1] /\ t.sent = Append(s.sent, r)
<1> DEFINE n == Lesser(Len(s.pending), Greater(BlendLookahead, 1))
           batch == SubSeq(s.pending, 1, n)
           r == [op |-> "Start", batch |-> batch]
           u == [s EXCEPT !.blend_hold = "none", !.planning = batch[1].index]
<1>1. n \in 1..Len(s.pending)
  <2>1. Len(s.pending) \in Nat \ {0}
    BY EmptySeq DEF CoreOK
  <2>2. QED
    BY <2>1, CapacityAssumption DEF Lesser, Greater
<1> HIDE DEF n
<1>2. batch \in Seq(Entry) /\ Len(batch) = n /\ batch[1] = s.pending[1]
  <2>1. /\ s.pending \in Seq(Entry) /\ Len(s.pending) \in Nat
        /\ 1 \in 1..(Len(s.pending) + 1) /\ n \in (1 - 1)..Len(s.pending)
        /\ \A i \in 1..n : s.pending[i] \in Entry
    BY <1>1, ElementOfSeq, LenProperties DEF CoreOK
  <2>2. /\ batch \in Seq(Entry)
        /\ Len(batch) = IF 1 <= n THEN n - 1 + 1 ELSE 0
        /\ \A i \in 1..(n - 1 + 1) : batch[i] = s.pending[1 + i - 1]
    BY <1>1, <2>1, SubSeqProperties
  <2>3. QED
    BY <1>1, <2>2
<1> HIDE DEF batch
<1>3. batch # <<>>
  BY <1>1, <1>2
<1>4. r \in PlanRequest /\ r.op = "Start" /\ r.batch[1] = s.pending[1]
  BY <1>2, <1>3 DEF PlanRequest
<1>5. /\ u.next_index = s.next_index /\ u.next_tag = s.next_tag
      /\ u.pending = s.pending /\ u.executing = s.executing
      /\ u.planning = s.pending[1].index /\ u.tool_stops = s.tool_stops
      /\ u.sent = s.sent /\ DOMAIN u = Fields
  BY <1>2 DEF CoreOK, Fields
<1>6. OfferHead(s) = Send(u, r)
  BY DEF OfferHead, batch, n
<1> HIDE DEF u, r
<1>7. /\ Send(u, r).sent = Append(s.sent, r)
      /\ \A f \in Fields \ {"sent"} : Send(u, r)[f] = u[f]
  BY <1>5 DEF Send, Fields
<1>8. QED
  BY <1>4, <1>5, <1>6, <1>7 DEF Fields

\* The head of the queue is offered to a planner that is free.
LEMMA AtOffered ==
  ASSUME NEW s, NEW E, At(s, E), s.pending # <<>>, s.planning = 0, s.executing = NoCmd,
         ~HeadMustWait(s)
  PROVE  At(OfferHead(s), E)
<1> DEFINE t == OfferHead(s)
           q == s.pending
           nx == s.next_index
           R == requests \o s.sent
           R2 == requests \o t.sent
<1>1. CoreOK(s) /\ InStep(s, R, E, inflight, invalidated, tool_stop)
  BY DEF At, InStep
<1>2. /\ t.next_index = nx /\ t.next_tag = s.next_tag
      /\ t.pending = q /\ t.executing = NoCmd
      /\ t.planning = q[1].index /\ t.tool_stops = s.tool_stops
  BY <1>1, OfferHeadSends
<1>3. PICK r \in PlanRequest : r.op = "Start" /\ r.batch[1] = q[1] /\ t.sent = Append(s.sent, r)
  BY <1>1, OfferHeadSends
<1>4. CoreOK(t)
  BY <1>1, OfferHeadCalms DEF Calms
<1> HIDE DEF t
<1>5. requests \in Seq(PlanRequest) /\ s.sent \in Seq(PlanRequest) /\ q \in Seq(Entry)
      /\ nx \in Nat \ {0}
  BY <1>1 DEF At, CoreOK
<1>6. Grows(R2, R, r) /\ R2 \in Seq(PlanRequest)
  BY <1>3, <1>5, SentGrows
<1> HIDE DEF R, R2
<1>7. q[1] \in Entry /\ 1 \in 1..Len(q) /\ \A k \in 1..Len(q) : q[k].index \in Nat \ {0}
  <2>1. Len(q) \in Nat /\ Len(q) # 0
    BY <1>5, LenProperties, EmptySeq
  <2>2. \A k \in 1..Len(q) : q[k] \in Entry
    BY <1>5, ElementOfSeq
  <2>3. 1 \in 1..Len(q)
    BY <2>1
  <2>4. QED
    BY <2>2, <2>3 DEF Entry
<1>8. /\ QueueNew(q, nx, 0, R, E, inflight, invalidated)
      /\ Separate(R, inflight) /\ Free(R, inflight)
  BY <1>1 DEF InStep, Motion
<1>9. Untouched(R, E, inflight, invalidated, r.batch[1].index)
  BY <1>3, <1>7, <1>8 DEF QueueNew
<1>10. /\ \A i : i # q[1].index /\ Untouched(R, E, inflight, invalidated, i) =>
                   Untouched(R2, E, inflight, invalidated, i)
       /\ Separate(R2, inflight)
       /\ Offered(q[1], R2, E, inflight, invalidated)
  BY <1>3, <1>6, <1>8, <1>9, StartSentAsks
<1>11. QueueNew(q, nx, t.planning, R2, E, inflight, invalidated)
  <2>1. t.planning # 0
    BY <1>2, <1>7
  <2>2. ASSUME NEW k \in 1..Len(q), k # 1
        PROVE  Untouched(R2, E, inflight, invalidated, q[k].index)
    <3>1. k \in Nat /\ 1 < k
      BY <2>2
    <3>2. q[1].index < q[k].index
      BY <1>7, <1>8, <3>1 DEF QueueNew
    <3>3. q[k].index # q[1].index
      BY <1>7, <3>2
    <3>4. Untouched(R, E, inflight, invalidated, q[k].index)
      BY <1>8, <2>2 DEF QueueNew
    <3>5. QED
      BY <1>10, <3>3, <3>4
  <2>3. ASSUME NEW i \in Nat, nx <= i
        PROVE  Untouched(R2, E, inflight, invalidated, i)
    <3>1. q[1].index < nx
      BY <1>7, <1>8 DEF QueueNew
    <3>2. i # q[1].index
      BY <1>5, <1>7, <2>3, <3>1
    <3>3. Untouched(R, E, inflight, invalidated, i)
      BY <1>8, <2>3 DEF QueueNew
    <3>4. QED
      BY <1>10, <3>2, <3>3
  <2>4. QED
    BY <1>8, <2>1, <2>2, <2>3 DEF QueueNew
<1>12. Motion(t, R2, E, inflight, invalidated)
  <2>1. t.planning # 0
    BY <1>2, <1>7
  <2>2. QED
    BY <1>2, <1>10, <1>11, <2>1 DEF Motion, Asked
<1>13. Tools(s.tool_stops, s.next_index, s.next_tag, R2, E, tool_stop)
  BY <1>1, <1>3, <1>6, ToolsOtherSent DEF InStep
<1>14. q[1].kind = "tool" => s.tool_stops = <<>>
  BY DEF HeadMustWait
<1>15. Jaws(R2, inflight, tool_stop)
  <2>1. StartsJaws(r) => NoStopAhead(R, tool_stop)
    <3>1. StartsJaws(r) => Tools(<<>>, s.next_index, s.next_tag, R, E, tool_stop)
      BY <1>1, <1>3, <1>14 DEF StartsJaws, InStep
    <3>2. QED
      BY <3>1, NoStopHeld
  <2>2. QED
    BY <1>1, <1>3, <1>6, <2>1, JawsSent DEF InStep
<1>16. Hands(t)
  BY <1>2, <1>14 DEF Hands, RunsTool, StartsTool, PlanningHead, NoCmd
<1>17. QED
  BY <1>2, <1>4, <1>5, <1>6, <1>12, <1>13, <1>15, <1>16 DEF At, InStep, R2, t

\* pump.
LEMMA AtPumped ==
  ASSUME NEW s0, NEW E, At(s0, E)
  PROVE  At(Pump(s0), E)
<1> DEFINE s == StopInvalidAttachments(s0)
           a == [s EXCEPT !.blend_hold = "none"]
           b == [s EXCEPT !.blend_hold = "armed"]
<1>1. At(s, E) /\ CoreOK(s)
  BY AtInvalidated DEF At, InStep
<1>2. \/ Pump(s0) \in {s, a, b}
      \/ /\ Pump(s0) = OfferHead(s) /\ s.pending # <<>> /\ s.planning = 0
         /\ s.executing = NoCmd /\ ~HeadMustWait(s)
  BY DEF Pump
<1> HIDE DEF s
<1>3. /\ Keeps(s, a, {"blend_hold"}) /\ a.blend_hold = "none"
      /\ Keeps(s, b, {"blend_hold"}) /\ b.blend_hold = "armed"
  BY <1>1 DEF CoreOK, Keeps, Fields
<1> HIDE DEF a, b
<1>4. At(a, E) /\ At(b, E)
  <2>1. /\ Keeps(s, a, Bookkeeping \cup {"active_stream", "blend_hold", "estop_latched"})
        /\ Keeps(s, b, Bookkeeping \cup {"active_stream", "blend_hold", "estop_latched"})
    BY <1>3 DEF Keeps
  <2>2. QED
    BY <1>1, <1>3, <2>1, AtBooks
<1>5. QED
  BY <1>1, <1>2, <1>4, AtOffered

-----------------------------------------------------------------------------
(* The planner's answers, each taken off the events as it is handled. *)

\* The event is about nothing the core waits for.
Unheeded(s, ev) ==
  /\ s.planning # 0 => ~Says(ev, "Started", s.planning) /\ ~Says(ev, "Rejected", s.planning)
  /\ s.executing # NoCmd => ~Says(ev, "Outcome", s.executing.index)
  /\ \A k \in 1..Len(s.tool_stops) :
       /\ ~Heard(ev, s.tool_stops[k].tag)
       /\ ~(ev.op = "ToolOutcome" /\ s.tool_stops[k].index = ev.index /\ s.tool_stops[k].tag = 0)

\* An event that tells the core nothing it waits for may be taken.
LEMMA AtUnheeded ==
  ASSUME NEW s, NEW E, NEW E2, At(s, E), Shifts(E2, E), Unheeded(s, E[1])
  PROVE  At(s, E2)
<1> DEFINE R == requests \o s.sent
<1>1. CoreOK(s) /\ InStep(s, R, E, inflight, invalidated, tool_stop)
  BY DEF At, InStep
<1> HIDE DEF R
<1>2. Motion(s, R, E2, inflight, invalidated)
  BY <1>1, MotionUnheeded DEF InStep, Unheeded
<1>3. Tools(s.tool_stops, s.next_index, s.next_tag, R, E2, tool_stop)
  BY <1>1, ToolsUnheeded DEF InStep, Unheeded
<1>4. QED
  BY <1>1, <1>2, <1>3 DEF At, InStep, R

\* The answer ends what the core waited for: nothing is asked any more.
LEMMA AtEnded ==
  ASSUME NEW s, NEW t, NEW n, NEW E, NEW E2, At(s, E), Shifts(E2, E),
         Varies(s, t, {"pending", "planning", "executing"}),
         t.planning = 0, t.executing = NoCmd,
         Suffix(t.pending, s.pending, n), n = 0 => s.planning = 0,
         \/ s.planning # 0 /\ Says(E[1], "Rejected", s.planning)
         \/ s.executing # NoCmd /\ Says(E[1], "Outcome", s.executing.index)
  PROVE  At(t, E2)
<1> DEFINE R == requests \o s.sent
<1>1. CoreOK(s) /\ InStep(s, R, E, inflight, invalidated, tool_stop)
  BY DEF At, InStep
<1>2. /\ t.next_index = s.next_index /\ t.next_tag = s.next_tag
      /\ t.tool_stops = s.tool_stops /\ t.sent = s.sent /\ CoreOK(t)
  BY VariesFields
<1> HIDE DEF R
<1>3. Motion(s, R, E, inflight, invalidated) /\ Separate(R, inflight)
  BY <1>1 DEF InStep, Motion
<1>4. Free(R, inflight)
  <2>1. CASE s.planning # 0 /\ Says(E[1], "Rejected", s.planning)
    <3>1. s.pending \in Seq(Entry) /\ s.pending # <<>> /\ s.pending[1].index = s.planning
      BY <1>1, <2>1 DEF CoreOK, MarkerOK, PlanningHead
    <3>2. s.pending[1] \in Entry
      BY <3>1, HeadTailProperties
    <3>3. Asked(s.pending[1], R, E, inflight, invalidated)
      BY <1>3, <2>1 DEF Motion
    <3>4. \A e \in Entry : Says(E[1], "Rejected", e.index) /\ Asked(e, R, E, inflight, invalidated) =>
            Free(R, inflight)
      BY EventTaken
    <3>5. Says(E[1], "Rejected", s.pending[1].index)
      BY <2>1, <3>1
    <3>6. QED
      BY <3>2, <3>3, <3>4, <3>5
  <2>2. CASE s.executing # NoCmd /\ Says(E[1], "Outcome", s.executing.index)
    <3>1. \A i, kind : Says(E[1], "Outcome", i) /\ Backed(i, kind, 0, R, E, inflight, invalidated) =>
            Free(R, inflight)
      BY EventTaken
    <3>2. QED
      BY <1>3, <2>2, <3>1 DEF Motion
  <2>3. QED
    BY <2>1, <2>2
<1>5. \A i : Untouched(R, E, inflight, invalidated, i) => Untouched(R, E2, inflight, invalidated, i)
  BY EventTaken
<1>6. Motion(t, R, E2, inflight, invalidated)
  BY <1>1, <1>2, <1>3, <1>4, <1>5, MotionIdle
<1>7. E[1].op \in {"Rejected", "Outcome"}
  BY DEF Says
<1>8. Tools(s.tool_stops, s.next_index, s.next_tag, R, E2, tool_stop)
  <2>1. \A k \in 1..Len(s.tool_stops) :
          /\ ~Heard(E[1], s.tool_stops[k].tag)
          /\ ~(E[1].op = "ToolOutcome" /\ s.tool_stops[k].index = E[1].index /\ s.tool_stops[k].tag = 0)
    BY <1>7 DEF Heard
  <2>2. QED
    BY <1>1, <2>1, ToolsUnheeded DEF InStep
<1>9. QED
  BY <1>1, <1>2, <1>6, <1>8, IdleHands DEF At, InStep, R

\* on_plan_started.
LEMMA AtPlanStarted ==
  ASSUME NEW s, NEW index \in Nat \ {0}, NEW taken \in Nat, NEW E, NEW E2, At(s, E),
         Shifts(E2, E), Says(E[1], "Started", index)
  PROVE  At(OnPlanStarted(s, index, taken), E2)
<1> DEFINE R == requests \o s.sent
           t == OnPlanStarted(s, index, taken)
<1>1. CoreOK(s) /\ InStep(s, R, E, inflight, invalidated, tool_stop)
  BY DEF At, InStep
<1>2. CASE s.planning # index
  <2>1. E[1].op = "Started" /\ E[1].index = index
    BY DEF Says
  <2>2. Unheeded(s, E[1])
    BY <1>2, <2>1 DEF Unheeded, Says, Heard
  <2>3. QED
    BY <1>2, <2>2, AtUnheeded DEF OnPlanStarted
<1>3. CASE s.planning = index
  <2> DEFINE n == Lesser(Greater(taken, 1), Len(s.pending))
             ex == [index |-> s.pending[1].index, kind |-> s.pending[1].kind,
                    blended |-> Indices(SubSeq(s.pending, 2, n))]
             p == SubSeq(s.pending, n + 1, Len(s.pending))
             u == [s EXCEPT !.planning = 0, !.pending = p,
                            !.action_state = "executing", !.executing = ex]
  <2>1. /\ s.planning # 0 /\ s.pending \in Seq(Entry) /\ s.pending # <<>>
        /\ s.pending[1].index = s.planning /\ s.executing = NoCmd /\ DOMAIN s = Fields
    BY <1>1, <1>3 DEF CoreOK, MarkerOK, PlanningHead
  <2>2. t = u
    BY <1>3, <2>1 DEF OnPlanStarted
  <2>3. n \in 0..Len(s.pending) /\ n # 0
    <3>1. Len(s.pending) \in Nat /\ Len(s.pending) # 0
      BY <2>1, EmptySeq, LenProperties
    <3>2. QED
      BY <3>1 DEF Lesser, Greater
  <2> HIDE DEF n
  <2>4. Suffix(p, s.pending, n)
    BY <2>1, <2>3, Suffixes
  <2>5. CoreOK(t)
    BY <1>1, PlanStartedHolds DEF Holds
  <2>6. ex.index = s.pending[1].index /\ ex.kind = s.pending[1].kind
    OBVIOUS
  <2> HIDE DEF ex, p
  <2>7. /\ u.planning = 0 /\ u.pending = p /\ u.executing = ex
        /\ u.next_index = s.next_index /\ u.next_tag = s.next_tag
        /\ u.tool_stops = s.tool_stops /\ u.sent = s.sent
    BY <2>1 DEF Fields
  <2> HIDE DEF u, t, R
  <2>8. Motion(u, R, E2, inflight, invalidated)
    <3>1. Motion(s, R, E, inflight, invalidated)
      BY <1>1 DEF InStep
    <3>2. Says(E[1], "Started", s.planning)
      BY <1>3
    <3>3. u.executing.index = s.pending[1].index /\ u.executing.kind = s.pending[1].kind
      BY <2>6, <2>7
    <3>4. Suffix(u.pending, s.pending, n)
      BY <2>4, <2>7
    <3>5. QED
      BY <1>1, <2>1, <2>3, <2>7, <3>1, <3>2, <3>3, <3>4, MotionStarted
  <2>9. Tools(s.tool_stops, s.next_index, s.next_tag, R, E2, tool_stop)
    <3>1. \A k \in 1..Len(s.tool_stops) :
            /\ ~Heard(E[1], s.tool_stops[k].tag)
            /\ ~(E[1].op = "ToolOutcome" /\ s.tool_stops[k].index = E[1].index /\ s.tool_stops[k].tag = 0)
      BY DEF Heard, Says
    <3>2. QED
      BY <1>1, <3>1, ToolsUnheeded DEF InStep
  <2>10. Hands(u)
    <3>1. s.tool_stops # <<>> => ~StartsTool(s)
      BY <1>1 DEF InStep, Hands
    <3>2. ~RunsTool(s)
      BY <2>1 DEF RunsTool, NoCmd
    <3>3. s.tool_stops # <<>> => s.pending[1].kind # "tool"
      BY <2>1, <3>1, <3>2 DEF StartsTool, PlanningHead
    <3>4. QED
      BY <2>6, <2>7, <3>3 DEF Hands, RunsTool, StartsTool, PlanningHead
  <2>11. requests \in Seq(PlanRequest) /\ R \in Seq(PlanRequest) /\ Jaws(R, inflight, tool_stop)
    BY <1>1 DEF At, InStep
  <2>12. At(u, E2)
    BY <2>2, <2>5, <2>7, <2>8, <2>9, <2>10, <2>11 DEF At, InStep, R
  <2>13. QED
    BY <2>2, <2>12 DEF t
<1>4. QED
  BY <1>2, <1>3

\* What fail_command writes.
LEMMA FailKeeps ==
  ASSUME NEW s, NEW index, NEW blended, DOMAIN s = Fields
  PROVE  LET t == FailCommand(s, index, blended) IN
         /\ t.pending = <<>>
         /\ Keeps(s, t, {"completed_index", "finished", "completes", "standing_error",
                         "action_state", "pending", "blend_hold"})
<1> DEFINE a == AdvanceCompleted(s, {index})
           b == [a EXCEPT !.standing_error = [code |-> "failed", index |-> index],
                          !.action_state = "error"]
           d == DropPending(b)
           e == PushComplete(d, <<index>>, "failed")
           f == CompleteCancelled(e, blended \o Indices(s.pending))
<1>1. Keeps(s, a, {"completed_index", "finished"})
  BY DEF Keeps, AdvanceCompleted, Fields
<1> HIDE DEF a
<1>2. Keeps(a, b, {"standing_error", "action_state"})
  BY <1>1 DEF Keeps, Fields
<1> HIDE DEF b
<1>3. Keeps(b, d, {"pending", "blend_hold"}) /\ d.pending = <<>>
  BY <1>2 DEF DropPending, Keeps, Fields
<1> HIDE DEF d
<1>4. Keeps(d, e, {"completes"})
  BY <1>3 DEF Keeps, PushComplete, Fields
<1> HIDE DEF e
<1>5. Keeps(e, f, {"completed_index", "finished", "completes"})
  BY <1>4, CompleteCancelledKeeps DEF Keeps
<1>6. FailCommand(s, index, blended) = f
  BY DEF FailCommand, a, b, d, e, f
<1> HIDE DEF f
<1>7. QED
  BY <1>1, <1>2, <1>3, <1>4, <1>5, <1>6 DEF Keeps, Fields

\* on_plan_rejected.
LEMMA AtPlanRejected ==
  ASSUME NEW s, NEW index \in Nat \ {0}, NEW E, NEW E2, At(s, E),
         Shifts(E2, E), Says(E[1], "Rejected", index)
  PROVE  At(OnPlanRejected(s, index), E2)
<1> DEFINE t == OnPlanRejected(s, index)
<1>1. CoreOK(s)
  BY DEF At, InStep
<1>2. CASE s.planning # index
  <2>1. E[1].op = "Rejected" /\ E[1].index = index
    BY DEF Says
  <2>2. Unheeded(s, E[1])
    BY <1>2, <2>1 DEF Unheeded, Says, Heard
  <2>3. QED
    BY <1>2, <2>2, AtUnheeded DEF OnPlanRejected
<1>3. CASE s.planning = index
  <2> DEFINE u == [s EXCEPT !.planning = 0, !.pending = Tail(@)]
  <2>1. /\ s.planning # 0 /\ s.pending \in Seq(Entry) /\ s.pending # <<>>
        /\ s.executing = NoCmd /\ DOMAIN s = Fields
    BY <1>1, <1>3 DEF CoreOK, MarkerOK, PlanningHead
  <2>2. t = FailCommand(u, s.pending[1].index, <<>>)
    BY <1>3, <2>1 DEF OnPlanRejected
  <2>3. Keeps(s, u, {"planning", "pending"}) /\ u.planning = 0
    BY <2>1 DEF Keeps, Fields
  <2>4. CoreOK(t)
    BY <1>1, PlanRejectedCalms DEF Calms
  <2> HIDE DEF u, t
  <2>5. /\ t.pending = <<>>
        /\ Keeps(u, t, {"completed_index", "finished", "completes", "standing_error",
                        "action_state", "pending", "blend_hold"})
    BY <2>2, <2>3, FailKeeps DEF Keeps
  <2>6. /\ Varies(s, t, {"pending", "planning", "executing"})
        /\ t.planning = 0 /\ t.executing = NoCmd
    BY <2>1, <2>3, <2>4, <2>5 DEF Keeps, Fields, Varies, Track
  <2>7. Suffix(t.pending, s.pending, Len(s.pending))
    BY <2>1, <2>5, Suffixes
  <2>8. Len(s.pending) # 0
    BY <2>1, EmptySeq
  <2>9. s.planning # 0 /\ Says(E[1], "Rejected", s.planning)
    BY <1>3, <2>1
  <2>10. At(t, E2)
    BY <2>6, <2>7, <2>8, <2>9, AtEnded
  <2>11. QED
    BY <2>10 DEF t
<1>4. QED
  BY <1>2, <1>3

\* on_outcome.
LEMMA AtOutcome ==
  ASSUME NEW s, NEW index, NEW ok \in BOOLEAN, NEW changed \in BOOLEAN, NEW E, NEW E2,
         At(s, E), Shifts(E2, E), Says(E[1], "Outcome", index)
  PROVE  At(OnOutcome(s, index, ok, changed), E2)
<1> DEFINE o == OnOutcome(s, index, ok, changed)
           ex == s.executing
           t == [s EXCEPT !.executing = NoCmd]
<1>1. CoreOK(s)
  BY DEF At, InStep
<1>2. CASE s.executing = NoCmd \/ s.executing.index # index
  <2>1. E[1].op = "Outcome" /\ E[1].index = index
    BY DEF Says
  <2>2. Unheeded(s, E[1])
    BY <1>2, <2>1 DEF Unheeded, Says, Heard
  <2>3. QED
    BY <1>2, <2>2, AtUnheeded DEF OnOutcome
<1>3. CASE ~(s.executing = NoCmd \/ s.executing.index # index)
  <2>1. /\ s.planning = 0 /\ s.pending \in Seq(Entry) /\ DOMAIN s = Fields
    BY <1>1, <1>3 DEF CoreOK, MarkerOK
  <2>2. CoreOK(o)
    BY <1>1, OutcomeCalms DEF Calms
  <2>3. Keeps(s, t, {"executing"}) /\ t.executing = NoCmd
    BY <2>1 DEF Keeps, Fields
  <2> HIDE DEF t
  <2>4. s.executing # NoCmd /\ Says(E[1], "Outcome", s.executing.index)
    BY <1>3
  <2>5. CASE ~ok
    <3>1. o = FailCommand(t, ex.index, ex.blended)
      BY <1>3, <2>5 DEF OnOutcome, t
    <3> HIDE DEF o
    <3>2. /\ o.pending = <<>>
          /\ Keeps(t, o, {"completed_index", "finished", "completes", "standing_error",
                          "action_state", "pending", "blend_hold"})
      BY <2>3, <3>1, FailKeeps DEF Keeps
    <3>3. /\ Varies(s, o, {"pending", "planning", "executing"})
          /\ o.planning = 0 /\ o.executing = NoCmd
      BY <2>1, <2>2, <2>3, <3>2 DEF Keeps, Fields, Varies, Track
    <3>4. Suffix(o.pending, s.pending, Len(s.pending))
      BY <2>1, <3>2, Suffixes
    <3>5. At(o, E2)
      BY <2>1, <2>4, <3>3, <3>4, AtEnded
    <3>6. QED
      BY <3>5 DEF o
  <2>6. CASE ok
    <3> DEFINE a == AdvanceCompleted(t, {ex.index} \cup Elems(ex.blended))
               b == [a EXCEPT !.action_state = "idle"]
               u == AdoptToolSelection(b, ex.kind = "select" /\ changed)
               v == PushComplete(u, <<ex.index>> \o ex.blended, "ok")
    <3>1. o = v
      BY <1>3, <2>6 DEF OnOutcome, t
    <3>2. Keeps(t, a, {"completed_index", "finished"})
      BY <2>3 DEF Keeps, AdvanceCompleted, Fields
    <3> HIDE DEF a
    <3>3. Keeps(a, b, {"action_state"})
      BY <3>2 DEF Keeps, Fields
    <3> HIDE DEF b
    <3>4. Keeps(b, u, {"shapes", "pending_shapes", "attachment_stop_pending"})
      BY <3>3 DEF Keeps, Fields, AdoptToolSelection, InvalidateAttachments
    <3> HIDE DEF u
    <3>5. Keeps(u, v, {"completes"})
      BY <3>4 DEF Keeps, Fields, PushComplete
    <3> HIDE DEF o, v
    <3>6. /\ Varies(s, o, {"pending", "planning", "executing"})
          /\ o.planning = 0 /\ o.executing = NoCmd /\ o.pending = s.pending
      BY <2>1, <2>2, <2>3, <3>1, <3>2, <3>3, <3>4, <3>5 DEF Keeps, Fields, Varies, Track
    <3>7. Suffix(o.pending, s.pending, 0)
      BY <2>1, <3>6, Suffixes
    <3>8. At(o, E2)
      BY <2>1, <2>4, <3>6, <3>7, AtEnded
    <3>9. QED
      BY <3>8 DEF o
  <2>7. QED
    BY <2>5, <2>6
<1>4. QED
  BY <1>2, <1>3

\* The tool stops the core holds change, and nothing else tracked.
LEMMA AtStops ==
  ASSUME NEW s, NEW t, NEW E, At(s, E), Varies(s, t, {"tool_stops"}), s.tool_stops # <<>>,
         Tools(t.tool_stops, s.next_index, s.next_tag, requests \o s.sent, E, tool_stop)
  PROVE  At(t, E)
<1>1. /\ t.next_index = s.next_index /\ t.next_tag = s.next_tag
      /\ t.pending = s.pending /\ t.executing = s.executing
      /\ t.planning = s.planning /\ t.sent = s.sent /\ CoreOK(t)
  BY VariesFields
<1>2. \A R : Motion(s, R, E, inflight, invalidated) => Motion(t, R, E, inflight, invalidated)
  BY <1>1 DEF Motion
<1>3. Hands(s)
  BY DEF At, InStep
<1>4. Hands(t)
  BY <1>1, <1>3 DEF Hands, RunsTool, StartsTool, PlanningHead
<1>5. QED
  BY <1>1, <1>2, <1>4 DEF At, InStep

\* An event about a tool stop or about the geometry answers no motion.
LEMMA MotionAside ==
  ASSUME NEW s, NEW ev, ev.op \notin Replies,
         \A k \in 1..Len(s.tool_stops) :
           /\ ~Heard(ev, s.tool_stops[k].tag)
           /\ ~(ev.op = "ToolOutcome" /\ s.tool_stops[k].index = ev.index /\ s.tool_stops[k].tag = 0)
  PROVE  Unheeded(s, ev)
  BY DEF Unheeded, Says, Replies

\* What finish_tool_stops writes is not tracked.
LEMMA AtFinished ==
  ASSUME NEW s, NEW stops, NEW ok \in BOOLEAN, NEW E, At(s, E)
  PROVE  At(FinishToolStops(s, stops, ok), E)
<1> DEFINE l == Indices(stops)
           a == AdvanceCompleted(s, Elems(l))
           b == PushComplete(a, l, IF ok THEN "ok" ELSE "failed")
           d == [b EXCEPT !.standing_error =
                              [code |-> "failed", index |-> stops[Len(stops)].index],
                          !.action_state = "error"]
           f == FinishToolStops(s, stops, ok)
<1>1. CoreOK(s) /\ DOMAIN s = Fields /\ s.blend_hold \in {"none", "armed", "expired"}
  BY DEF At, InStep, CoreOK
<1>2. f = IF ok THEN b ELSE d
  BY DEF FinishToolStops
<1>3. Keeps(s, a, {"completed_index", "finished"})
  BY <1>1 DEF Keeps, AdvanceCompleted, Fields
<1> HIDE DEF a
<1>4. Keeps(a, b, {"completes"})
  BY <1>3 DEF Keeps, PushComplete, Fields
<1> HIDE DEF b
<1>5. Keeps(b, d, {"standing_error", "action_state"})
  BY <1>4 DEF Keeps, Fields
<1> HIDE DEF d, f
<1>6. /\ Keeps(s, f, Bookkeeping \cup {"active_stream", "blend_hold", "estop_latched"})
      /\ f.blend_hold = s.blend_hold
  BY <1>2, <1>3, <1>4, <1>5 DEF Keeps, Fields, Bookkeeping
<1>7. At(f, E)
  BY <1>1, <1>6, AtBooks
<1>8. QED
  BY <1>7 DEF f

\* A stop the planner refused leaves the list.
LEMMA ToolsRefused ==
  ASSUME NEW st, NEW nx, NEW nt, NEW R, NEW E, NEW ts, Tools(st, nx, nt, R, E, ts),
         NEW k \in 1..Len(st), 1 \in 1..Len(E), Heard(E[1], st[k].tag), E[1].ok = FALSE
  PROVE  LET st2 == SubSeq(st, 1, k - 1) \o SubSeq(st, k + 1, Len(st)) IN
         /\ Tools(st2, nx, nt, R, E, ts)
         /\ \A j \in 1..Len(st2) : ~Heard(E[1], st2[j].tag)
<1> DEFINE n == Len(st)
           a == SubSeq(st, 1, k - 1)
           b == SubSeq(st, k + 1, Len(st))
           st2 == a \o b
           m == n - 1
           g == [j \in 1..m |-> IF j < k THEN j ELSE j + 1]
<1>1. st \in Seq(ToolStops) /\ n \in Nat /\ k \in Nat /\ 1 <= k /\ k <= n
  BY LenProperties DEF Tools
<1>2. k - 1 \in 0..n /\ k \in 0..n /\ (k - 1) + 1 = k /\ m \in Nat
  BY <1>1
<1>3. a \in Seq(ToolStops) /\ Len(a) = k - 1 /\ \A i \in 1..(k - 1) : a[i] = st[i]
  BY <1>1, <1>2, HeldSplit
<1>4. b \in Seq(ToolStops) /\ Len(b) = n - k /\ \A i \in 1..(n - k) : b[i] = st[k + i]
  BY <1>1, <1>2, HeldSplit
<1> HIDE DEF a, b
<1>5. st2 \in Seq(ToolStops) /\ Len(st2) = m /\ \A j \in 1..m : st2[j] = st[g[j]]
  <2>1. /\ st2 \in Seq(ToolStops) /\ Len(st2) = Len(a) + Len(b)
        /\ \A j \in 1..(Len(a) + Len(b)) : st2[j] = IF j <= Len(a) THEN a[j] ELSE b[j - Len(a)]
    BY <1>3, <1>4, ConcatProperties
  <2> HIDE DEF st2, n
  <2>2. Len(a) + Len(b) = m
    BY <1>1, <1>3, <1>4
  <2>3. ASSUME NEW j \in 1..m PROVE st2[j] = st[g[j]]
    <3>1. CASE j < k
      <4>1. j <= k - 1 /\ j \in 1..(k - 1)
        BY <1>1, <2>3, <3>1
      <4>2. st2[j] = a[j] /\ a[j] = st[j]
        BY <1>3, <2>1, <2>2, <4>1
      <4>3. QED
        BY <3>1, <4>2
    <3>2. CASE ~(j < k)
      <4>1. ~(j <= k - 1) /\ j - (k - 1) \in 1..(n - k) /\ k + (j - (k - 1)) = j + 1
        BY <1>1, <2>3, <3>2
      <4>2. st2[j] = b[j - (k - 1)] /\ b[j - (k - 1)] = st[k + (j - (k - 1))]
        BY <1>3, <1>4, <2>1, <2>2, <4>1
      <4>3. QED
        BY <3>2, <4>1, <4>2
    <3>3. QED
      BY <3>1, <3>2
  <2>4. QED
    BY <2>1, <2>2, <2>3
<1> HIDE DEF st2
<1>6. /\ g \in [1..m -> 1..n]
      /\ \A i \in 1..m, j \in 1..m : i < j => g[i] < g[j]
      /\ \A i \in 1..m, j \in 1..m : g[i] <= g[j] => i <= j
      /\ \A j \in 1..m : g[j] # k
      /\ \A h \in 1..n : h # k => \E j \in 1..m : g[j] = h
  <2> HIDE DEF n
  <2>1. ASSUME NEW h \in 1..n, h # k PROVE \E j \in 1..m : g[j] = h
    <3>1. CASE h < k
      <4>1. h \in 1..m /\ g[h] = h
        BY <1>1, <2>1, <3>1
      <4>2. QED
        BY <4>1
    <3>2. CASE ~(h < k)
      <4>1. h - 1 \in 1..m /\ ~(h - 1 < k) /\ (h - 1) + 1 = h
        BY <1>1, <2>1, <3>2
      <4>2. g[h - 1] = h
        BY <4>1
      <4>3. QED
        BY <4>1, <4>2
    <3>3. QED
      BY <3>1, <3>2
  <2>2. \A j \in 1..m : g[j] \in 1..n /\ g[j] # k
    BY <1>1
  <2>3. g \in [1..m -> 1..n]
    BY <2>2
  <2>4. /\ \A i \in 1..m, j \in 1..m : i < j => g[i] < g[j]
        /\ \A i \in 1..m, j \in 1..m : g[i] <= g[j] => i <= j
    BY <1>1, <1>2
  <2>5. QED
    BY <2>1, <2>2, <2>3, <2>4
<1> HIDE DEF g, m
<1>7. /\ StopsOrdered(st, nx, nt) /\ OrdersNew(R, E) /\ AnswersOrdered(E, nx, nt, ts)
      /\ CancelsOld(st, R) /\ WatchIsHeld(st, R, E, ts)
  BY DEF Tools
<1>8. E[1].op = "ToolStarted" /\ E[1].tag = st[k].tag
  BY DEF Heard
<1>9. st[k].tag # 0
  BY <1>7, <1>8 DEF AnswersOrdered
<1>10. \A q \in 1..Len(R) : ~Orders(R[q], st[k])
  BY <1>7, <1>8 DEF OrdersNew, Orders
<1>11. \A e \in 1..Len(E) : Heard(E[e], st[k].tag) => e = 1
  BY <1>7, <1>8 DEF AnswersOrdered, Heard
<1>12. ~Accepted(st[k], E)
  BY <1>9, <1>11 DEF Accepted
<1>13. st[k].index \in Nat \ {0}
  BY <1>7 DEF StopsOrdered
<1>14. ts # st[k].index
  <2> SUFFICES ASSUME ts = st[k].index PROVE FALSE
    OBVIOUS
  <2>1. ts # 0
    BY <1>13
  <2>2. CASE After(R, "CancelTool", 0)
    <3>1. PICK p \in 1..Len(R) : R[p].op = "CancelTool"
      BY <2>2 DEF After, Cut
    <3>2. QED
      BY <1>7, <1>10, <3>1 DEF CancelsOld
  <2>3. CASE \E j \in 1..Len(st) : st[j].index = ts /\ Accepted(st[j], E)
    <3>1. PICK j \in 1..Len(st) : st[j].index = st[k].index /\ Accepted(st[j], E)
      BY <2>3
    <3>2. j = k
      BY <1>1, <1>7, <3>1, StopsDistinct
    <3>3. QED
      BY <1>12, <3>1, <3>2
  <2>4. QED
    BY <1>7, <2>1, <2>2, <2>3 DEF WatchIsHeld
<1>15. ~Attends(st[k], E, ts)
  BY <1>9, <1>11, <1>14 DEF Attends
<1>16. Tools(st2, nx, nt, R, E, ts)
  <2>1. \A h \in 1..Len(st) :
           \/ \E j \in 1..Len(st2) : g[j] = h
           \/ /\ \A q \in 1..Len(R) : ~Orders(R[q], st[h])
              /\ ts # st[h].index
              /\ \A j \in 1..Len(st2) : g[j] <= h => ~Attends(st[h], E, ts)
    BY <1>5, <1>6, <1>10, <1>14, <1>15
  <2>2. /\ g \in [1..Len(st2) -> 1..Len(st)] /\ \A j \in 1..Len(st2) : st2[j] = st[g[j]]
        /\ \A i \in 1..Len(st2), j \in 1..Len(st2) : i < j => g[i] < g[j]
        /\ \A i \in 1..Len(st2), j \in 1..Len(st2) : g[i] <= g[j] => i <= j
    BY <1>5, <1>6
  <2>3. QED
    BY <1>5, <2>1, <2>2, ToolsDropped
<1>17. ASSUME NEW j \in 1..Len(st2) PROVE ~Heard(E[1], st2[j].tag)
  <2>1. g[j] \in 1..Len(st) /\ g[j] # k /\ st2[j] = st[g[j]]
    BY <1>5, <1>6
  <2>2. st[k].tag = st[g[j]].tag => k = g[j]
    BY <1>1, <1>7, <1>9, <2>1, StopsDistinct
  <2>3. QED
    BY <1>8, <2>1, <2>2 DEF Heard
<1>18. QED
  BY <1>16, <1>17 DEF st2, a, b

\* A stop that settled leaves the list, with the earlier ones it took over.
LEMMA ToolsSettled ==
  ASSUME NEW st, NEW nx, NEW nt, NEW R, NEW E, NEW ts, Tools(st, nx, nt, R, E, ts),
         NEW k \in 1..Len(st), 1 \in 1..Len(E), E[1].op = "ToolOutcome", E[1].index = st[k].index
  PROVE  LET st2 == SubSeq(st, k + 1, Len(st)) IN
         /\ Tools(st2, nx, nt, R, E, ts)
         /\ \A j \in 1..Len(st2) : st2[j].index # E[1].index
<1> DEFINE n == Len(st)
           st2 == SubSeq(st, k + 1, Len(st))
           m == n - k
           g == [j \in 1..m |-> k + j]
<1>1. st \in Seq(ToolStops) /\ n \in Nat /\ k \in Nat /\ 1 <= k /\ k <= n
  BY LenProperties DEF Tools
<1>2. k \in 0..n /\ m \in Nat
  BY <1>1
<1>3. st2 \in Seq(ToolStops) /\ Len(st2) = m /\ \A j \in 1..m : st2[j] = st[k + j]
  BY <1>1, <1>2, HeldSplit
<1> HIDE DEF st2
<1>4. /\ g \in [1..m -> 1..n]
      /\ \A i \in 1..m, j \in 1..m : i < j => g[i] < g[j]
      /\ \A i \in 1..m, j \in 1..m : g[i] <= g[j] => i <= j
      /\ \A j \in 1..m : g[j] = k + j
      /\ \A h \in 1..n : h <= k \/ \E j \in 1..m : g[j] = h
      /\ \A h \in 1..n, j \in 1..m : h <= k => ~(g[j] <= h)
      /\ \A j \in 1..m : k < g[j]
  <2> HIDE DEF n
  <2>1. ASSUME NEW h \in 1..n, ~(h <= k) PROVE \E j \in 1..m : g[j] = h
    <3>1. h - k \in 1..m /\ k + (h - k) = h
      BY <1>1, <2>1
    <3>2. g[h - k] = h
      BY <3>1
    <3>3. QED
      BY <3>1, <3>2
  <2>2. \A j \in 1..m : g[j] = k + j /\ k + j \in 1..n /\ k < k + j
    BY <1>1
  <2>3. g \in [1..m -> 1..n]
    BY <2>2
  <2>4. /\ \A i \in 1..m, j \in 1..m : i < j => g[i] < g[j]
        /\ \A i \in 1..m, j \in 1..m : g[i] <= g[j] => i <= j
        /\ \A h \in 1..n, j \in 1..m : h <= k => ~(g[j] <= h)
    BY <1>1, <1>2, <2>2
  <2>5. QED
    BY <2>1, <2>2, <2>3, <2>4
<1> HIDE DEF g, m
<1>5. StopsOrdered(st, nx, nt) /\ OrdersNew(R, E) /\ AnswersOrdered(E, nx, nt, ts)
      /\ OrdersOrdered(R, nx, nt, ts) /\ ts \in Nat
  BY DEF Tools
<1>6. \A h \in 1..n : st[h].index \in Nat \ {0}
  BY <1>5 DEF StopsOrdered
<1>7. \A h \in 1..n : /\ h <= k => st[h].index <= st[k].index
                      /\ k < h => st[k].index < st[h].index
  <2>1. ASSUME NEW h \in 1..n, h <= k PROVE st[h].index <= st[k].index
    <3>1. h = k \/ h < k
      BY <1>1, <2>1
    <3>2. h < k => st[h].index < st[k].index
      BY <1>5 DEF StopsOrdered
    <3>3. QED
      BY <1>6, <3>1, <3>2
  <2>2. ASSUME NEW h \in 1..n, k < h PROVE st[k].index < st[h].index
    BY <1>5, <2>2 DEF StopsOrdered
  <2>3. QED
    BY <2>1, <2>2
<1>8. ASSUME NEW h \in 1..n, h <= k, NEW q \in 1..Len(R) PROVE ~Orders(R[q], st[h])
  <2> SUFFICES ASSUME Orders(R[q], st[h]) PROVE FALSE
    OBVIOUS
  <2>1. R[q].op = "StartTool" /\ R[q].index = st[h].index
    BY DEF Orders
  <2>2. st[k].index < R[q].index
    BY <1>5, <2>1 DEF OrdersNew
  <2>3. QED
    BY <1>6, <1>7, <1>8, <2>1, <2>2
<1>9. ASSUME NEW h \in 1..n, h <= k PROVE ts # st[h].index
  <2>1. ts = 0 \/ st[k].index < ts
    BY <1>5 DEF AnswersOrdered
  <2>2. QED
    BY <1>5, <1>6, <1>7, <1>9, <2>1
<1>10. Tools(st2, nx, nt, R, E, ts)
  <2>1. ASSUME NEW h \in 1..Len(st)
        PROVE  \/ \E j \in 1..Len(st2) : g[j] = h
               \/ /\ \A q \in 1..Len(R) : ~Orders(R[q], st[h])
                  /\ ts # st[h].index
                  /\ \A j \in 1..Len(st2) : g[j] <= h => ~Attends(st[h], E, ts)
    <3>1. CASE h <= k
      BY <1>3, <1>4, <1>8, <1>9, <3>1
    <3>2. CASE ~(h <= k)
      BY <1>3, <1>4, <3>2
    <3>3. QED
      BY <3>1, <3>2
  <2>2. /\ g \in [1..Len(st2) -> 1..Len(st)] /\ \A j \in 1..Len(st2) : st2[j] = st[g[j]]
        /\ \A i \in 1..Len(st2), j \in 1..Len(st2) : i < j => g[i] < g[j]
        /\ \A i \in 1..Len(st2), j \in 1..Len(st2) : g[i] <= g[j] => i <= j
    BY <1>3, <1>4
  <2>3. QED
    BY <1>3, <2>1, <2>2, ToolsDropped
<1>11. ASSUME NEW j \in 1..Len(st2) PROVE st2[j].index # E[1].index
  <2>1. g[j] \in 1..n /\ k < g[j] /\ st2[j] = st[g[j]]
    BY <1>3, <1>4
  <2>2. st[k].index < st2[j].index /\ st[k].index \in Nat /\ st2[j].index \in Nat
    BY <1>6, <1>7, <2>1
  <2>3. QED
    BY <2>2
<1>12. QED
  BY <1>10, <1>11 DEF st2

\* on_tool_started.
LEMMA AtToolStarted ==
  ASSUME NEW s, NEW tag \in Nat, NEW ok \in BOOLEAN, NEW E, NEW E2, At(s, E), Shifts(E2, E),
         E[1].op = "ToolStarted", E[1].tag = tag, E[1].ok = ok
  PROVE  At(OnToolStarted(s, tag, ok), E2)
<1> DEFINE st == s.tool_stops
           R == requests \o s.sent
           at == {k \in 1..Len(st) : st[k].tag = tag}
           k == CHOOSE k \in at : \A j \in at : k <= j
           t == [s EXCEPT !.tool_stops[k].tag = 0]
           out == <<st[k]>>
           u == [s EXCEPT !.tool_stops = SubSeq(@, 1, k - 1) \o SubSeq(@, k + 1, Len(@))]
<1>1. /\ CoreOK(s) /\ DOMAIN s = Fields
      /\ Tools(st, s.next_index, s.next_tag, R, E, tool_stop)
  BY DEF At, InStep, CoreOK
<1>2. st \in Seq(ToolStops) /\ Len(st) \in Nat
  BY <1>1, LenProperties DEF Tools
<1>3. OnToolStarted(s, tag, ok) =
        IF at = {} THEN s ELSE IF ok THEN t ELSE Pump(FinishToolStops(u, out, FALSE))
  BY DEF OnToolStarted
<1>4. 1 \in 1..Len(E)
  BY DEF Shifts
<1>5. E[1].op \notin Replies
  BY DEF Replies
<1>6. \A x : Heard(E[1], x) <=> x = tag
  BY DEF Heard
<1>7. CASE at = {}
  <2>1. Unheeded(s, E[1])
    BY <1>5, <1>6, <1>7, MotionAside
  <2>2. QED
    BY <1>3, <1>7, <2>1, AtUnheeded
<1>8. at # {} => k \in 1..Len(st) /\ st[k].tag = tag
  <2>1. at \subseteq 1..Len(st) /\ \A x \in at : st[x].tag = tag
    OBVIOUS
  <2> HIDE DEF at
  <2>2. at # {} => k \in at
    BY <1>2, <2>1, LeastPlace
  <2>3. QED
    BY <2>1, <2>2
<1>9. CASE at # {} /\ ok
  <2>1. k \in 1..Len(st) /\ Heard(E[1], st[k].tag)
    BY <1>6, <1>8, <1>9
  <2> HIDE DEF at, k
  <2> DEFINE st2 == [st EXCEPT ![k].tag = 0]
  <2>2. /\ DOMAIN t = Fields /\ t.tool_stops = st2
        /\ \A f \in Fields \ {"tool_stops"} : t[f] = s[f]
    BY <1>1 DEF Fields
  <2>3. CoreOK(t)
    <3>1. CoreOK(OnToolStarted(s, tag, ok))
      BY <1>1, ToolStartedCalms DEF Calms
    <3>2. QED
      BY <1>3, <1>9, <3>1
  <2>4. /\ Tools(st2, s.next_index, s.next_tag, R, E, tool_stop)
        /\ \A j \in 1..Len(st2) : ~Heard(E[1], st2[j].tag)
    BY <1>1, <1>4, <1>9, <2>1, ToolsNoted
  <2> HIDE DEF t, st2
  <2>5. Varies(s, t, {"tool_stops"})
    BY <2>2, <2>3 DEF Varies, Track, Fields
  <2>6. s.tool_stops # <<>>
    BY <2>1, EmptySeq
  <2>7. At(t, E)
    BY <2>2, <2>4, <2>5, <2>6, AtStops
  <2>8. Unheeded(t, E[1])
    BY <1>5, <2>2, <2>4, MotionAside
  <2>9. At(t, E2)
    BY <2>7, <2>8, AtUnheeded
  <2>10. QED
    BY <1>3, <1>9, <2>9
<1>10. CASE at # {} /\ ~ok
  <2>1. k \in 1..Len(st) /\ Heard(E[1], st[k].tag)
    BY <1>6, <1>8, <1>10
  <2> HIDE DEF at, k
  <2> DEFINE st2 == SubSeq(st, 1, k - 1) \o SubSeq(st, k + 1, Len(st))
  <2>2. /\ DOMAIN u = Fields /\ u.tool_stops = st2
        /\ \A f \in Fields \ {"tool_stops"} : u[f] = s[f]
    BY <1>1 DEF Fields
  <2>3. /\ Tools(st2, s.next_index, s.next_tag, R, E, tool_stop)
        /\ \A j \in 1..Len(st2) : ~Heard(E[1], st2[j].tag)
    BY <1>1, <1>4, <1>10, <2>1, ToolsRefused
  <2> HIDE DEF u, st2
  <2>4. s.tool_stops # <<>>
    BY <2>1, EmptySeq
  <2>5. CoreOK(u)
    <3>1. Keeps(s, u, {"tool_stops"})
      BY <2>2 DEF Keeps
    <3>2. QED
      BY <1>1, <2>4, <3>1, ToolStopsCalm DEF Calms
  <2>6. Varies(s, u, {"tool_stops"})
    BY <2>2, <2>5 DEF Varies, Track, Fields
  <2>7. At(u, E)
    BY <2>2, <2>3, <2>4, <2>6, AtStops
  <2>8. Unheeded(u, E[1])
    BY <1>5, <2>2, <2>3, MotionAside
  <2>9. At(u, E2)
    BY <2>7, <2>8, AtUnheeded
  <2>10. At(Pump(FinishToolStops(u, out, FALSE)), E2)
    BY <2>9, AtFinished, AtPumped
  <2>11. QED
    BY <1>3, <1>10, <2>10
<1>11. QED
  BY <1>7, <1>9, <1>10

\* on_tool_outcome.
LEMMA AtToolOutcome ==
  ASSUME NEW s, NEW index \in Nat, NEW ok \in BOOLEAN, NEW E, NEW E2, At(s, E), Shifts(E2, E),
         E[1].op = "ToolOutcome", E[1].index = index
  PROVE  At(OnToolOutcome(s, index, ok), E2)
<1> DEFINE st == s.tool_stops
           R == requests \o s.sent
           at == {k \in 1..Len(st) : st[k].index = index /\ st[k].tag = 0}
           k == CHOOSE k \in at : \A j \in at : k <= j
           out == SubSeq(st, 1, k)
           u == [s EXCEPT !.tool_stops = SubSeq(@, k + 1, Len(@))]
<1>1. /\ CoreOK(s) /\ DOMAIN s = Fields
      /\ Tools(st, s.next_index, s.next_tag, R, E, tool_stop)
  BY DEF At, InStep, CoreOK
<1>2. st \in Seq(ToolStops) /\ Len(st) \in Nat
  BY <1>1, LenProperties DEF Tools
<1>3. OnToolOutcome(s, index, ok) = IF at = {} THEN s ELSE Pump(FinishToolStops(u, out, ok))
  BY DEF OnToolOutcome
<1>4. 1 \in 1..Len(E)
  BY DEF Shifts
<1>5. E[1].op \notin Replies /\ \A x : ~Heard(E[1], x)
  BY DEF Replies, Heard
<1>6. CASE at = {}
  <2>1. Unheeded(s, E[1])
    BY <1>5, <1>6, MotionAside
  <2>2. QED
    BY <1>3, <1>6, <2>1, AtUnheeded
<1>7. CASE at # {}
  <2>1. k \in 1..Len(st) /\ st[k].index = index
    <3>1. at \subseteq 1..Len(st) /\ \A x \in at : st[x].index = index
      OBVIOUS
    <3> HIDE DEF at
    <3>2. k \in at
      BY <1>2, <1>7, <3>1, LeastPlace
    <3>3. QED
      BY <3>1, <3>2
  <2> HIDE DEF at, k
  <2> DEFINE st2 == SubSeq(st, k + 1, Len(st))
  <2>2. /\ DOMAIN u = Fields /\ u.tool_stops = st2
        /\ \A f \in Fields \ {"tool_stops"} : u[f] = s[f]
    BY <1>1 DEF Fields
  <2>3. /\ Tools(st2, s.next_index, s.next_tag, R, E, tool_stop)
        /\ \A j \in 1..Len(st2) : st2[j].index # E[1].index
    <3>1. E[1].index = st[k].index
      BY <2>1
    <3> HIDE DEF st, R
    <3>2. /\ Tools(st, s.next_index, s.next_tag, R, E, tool_stop)
          /\ k \in 1..Len(st) /\ 1 \in 1..Len(E)
          /\ E[1].op = "ToolOutcome" /\ E[1].index = st[k].index
      BY <1>1, <1>4, <2>1, <3>1
    <3>3. QED
      BY <3>2, ToolsSettled, Zenon
  <2> HIDE DEF u, st2, out
  <2>4. s.tool_stops # <<>>
    BY <2>1, EmptySeq
  <2>5. CoreOK(u)
    <3>1. Keeps(s, u, {"tool_stops"})
      BY <2>2 DEF Keeps
    <3>2. QED
      BY <1>1, <2>4, <3>1, ToolStopsCalm DEF Calms
  <2>6. Varies(s, u, {"tool_stops"})
    BY <2>2, <2>5 DEF Varies, Track, Fields
  <2>7. At(u, E)
    BY <2>2, <2>3, <2>4, <2>6, AtStops
  <2>8. Unheeded(u, E[1])
    BY <1>5, <2>2, <2>3, MotionAside
  <2>9. At(u, E2)
    BY <2>7, <2>8, AtUnheeded
  <2>10. At(Pump(FinishToolStops(u, out, ok)), E2)
    BY <2>9, AtFinished, AtPumped
  <2>11. QED
    BY <1>3, <1>7, <2>10
<1>8. QED
  BY <1>6, <1>7

\* on_shapes_applied and adopt_tool_selection touch nothing tracked.
LEMMA AtGeometry ==
  ASSUME NEW s, NEW tag, NEW ok \in BOOLEAN, NEW changed \in BOOLEAN, NEW E, At(s, E)
  PROVE  At(OnShapesApplied(s, tag, ok), E) /\ At(AdoptToolSelection(s, changed), E)
<1> DEFINE p == {q \in s.pending_shapes : q.tag = tag}
           x == IF ok THEN (CHOOSE q \in p : TRUE).set ELSE s.shapes
           t == [s EXCEPT !.pending_shapes = @ \ p, !.shapes = x]
           o == OnShapesApplied(s, tag, ok)
<1>1. CoreOK(s) /\ DOMAIN s = Fields
  BY DEF At, InStep, CoreOK
<1>2. o = s \/ o = t
  BY DEF OnShapesApplied
<1>3. CoreOK(o)
  BY <1>1, ShapesAppliedCalms DEF Calms
<1> HIDE DEF p, x, o
<1>4. Keeps(s, s, {"pending_shapes", "shapes"}) /\ Keeps(s, t, {"pending_shapes", "shapes"})
  BY <1>1 DEF Keeps, Fields
<1> HIDE DEF t
<1>5. Keeps(s, o, {"pending_shapes", "shapes"})
  BY <1>2, <1>4
<1>6. {"pending_shapes", "shapes"} \cap Track \subseteq {}
  BY DEF Track
<1>7. Varies(s, o, {})
  BY <1>3, <1>5, <1>6, KeepsVaries
<1>8. At(o, E)
  BY <1>7, AtSame
<1>9. At(AdoptToolSelection(s, changed), E)
  BY AtInvalidated DEF AdoptToolSelection
<1>10. QED
  BY <1>8, <1>9 DEF o

\* A turn on the planner's event.
LEMMA AtPlanEvent ==
  ASSUME NEW s, NEW ev \in PlanEvents, NEW E, NEW E2, At(s, E), Shifts(E2, E), E[1] = ev
  PROVE  At(OnPlanEvent(s, ev), E2)
<1>1. CASE ev \in [op : {"Started"}, index : Nat \ {0}, taken : Nat]
  <2>1. ev.op = "Started" /\ ev.taken \in Nat /\ ev.index \in Nat \ {0}
    BY <1>1
  <2>2. OnPlanEvent(s, ev) = OnPlanStarted(s, ev.index, ev.taken)
    BY <2>1 DEF OnPlanEvent
  <2>3. Says(E[1], "Started", ev.index)
    BY <2>1 DEF Says
  <2>4. QED
    BY <2>1, <2>2, <2>3, AtPlanStarted
<1>2. CASE ev \in [op : {"Rejected"}, index : Nat \ {0}]
  <2>1. ev.op = "Rejected" /\ ev.index \in Nat \ {0}
    BY <1>2
  <2>2. OnPlanEvent(s, ev) = OnPlanRejected(s, ev.index)
    BY <2>1 DEF OnPlanEvent
  <2>3. Says(E[1], "Rejected", ev.index)
    BY <2>1 DEF Says
  <2>4. QED
    BY <2>1, <2>2, <2>3, AtPlanRejected
<1>3. CASE ev \in [op : {"Outcome"}, index : Nat, ok : BOOLEAN, changed : BOOLEAN]
  <2> DEFINE o == OnOutcome(s, ev.index, ev.ok, ev.changed)
  <2>1. ev.op = "Outcome" /\ ev.ok \in BOOLEAN /\ ev.changed \in BOOLEAN
    BY <1>3
  <2>2. OnPlanEvent(s, ev) = Pump(o)
    BY <2>1 DEF OnPlanEvent
  <2>3. Says(E[1], "Outcome", ev.index)
    BY <2>1 DEF Says
  <2>4. At(o, E2)
    BY <2>1, <2>3, AtOutcome
  <2>5. QED
    BY <2>2, <2>4, AtPumped
<1>4. CASE ev \in [op : {"ToolOutcome"}, index : Nat, ok : BOOLEAN]
  <2>1. ev.op = "ToolOutcome" /\ ev.ok \in BOOLEAN /\ ev.index \in Nat
    BY <1>4
  <2>2. OnPlanEvent(s, ev) = OnToolOutcome(s, ev.index, ev.ok)
    BY <2>1 DEF OnPlanEvent
  <2>3. QED
    BY <2>1, <2>2, AtToolOutcome
<1>5. CASE ev \in [op : {"ToolStarted", "ShapesApplied"}, tag : Nat, ok : BOOLEAN]
  <2>1. ev.op \in {"ToolStarted", "ShapesApplied"} /\ ev.ok \in BOOLEAN /\ ev.tag \in Nat
    BY <1>5
  <2>2. CASE ev.op = "ToolStarted"
    <3>1. OnPlanEvent(s, ev) = OnToolStarted(s, ev.tag, ev.ok)
      BY <2>2 DEF OnPlanEvent
    <3>2. QED
      BY <2>1, <2>2, <3>1, AtToolStarted
  <2>3. CASE ev.op = "ShapesApplied"
    <3>1. OnPlanEvent(s, ev) = OnShapesApplied(s, ev.tag, ev.ok)
      BY <2>3 DEF OnPlanEvent
    <3>2. Unheeded(s, E[1])
      BY <2>3 DEF Unheeded, Says, Heard
    <3>3. At(s, E2)
      BY <3>2, AtUnheeded
    <3>4. QED
      BY <2>1, <3>1, <3>3, AtGeometry
  <2>4. QED
    BY <2>1, <2>2, <2>3
<1>6. CASE ev \in [op : {"ToolFitted"}, changed : BOOLEAN]
  <2>1. ev.op = "ToolFitted" /\ ev.changed \in BOOLEAN
    BY <1>6
  <2>2. OnPlanEvent(s, ev) = AdoptToolSelection(s, ev.changed)
    BY <2>1 DEF OnPlanEvent
  <2>3. Unheeded(s, E[1])
    BY <2>1 DEF Unheeded, Says, Heard
  <2>4. At(s, E2)
    BY <2>3, AtUnheeded
  <2>5. QED
    BY <2>1, <2>2, <2>4, AtGeometry
<1>7. QED
  BY <1>1, <1>2, <1>3, <1>4, <1>5, <1>6 DEF PlanEvents

-----------------------------------------------------------------------------
(* The clients' datagrams. *)

\* With no tool action asked for or running, none is ahead.
LEMMA NoActionAsked ==
  ASSUME NEW s, NEW R, NEW E, NEW fl, NEW iv, CoreOK(s), R \in Seq(PlanRequest),
         Motion(s, R, E, fl, iv), ~RunsTool(s), ~StartsTool(s)
  PROVE  NoActionAhead(R, fl)
<1>1. Len(R) \in Nat /\ Separate(R, fl)
  BY LenProperties DEF Motion
<1>2. CASE s.planning # 0
  <2>1. Asked(s.pending[1], R, E, fl, iv)
    BY <1>2 DEF Motion
  <2>2. s.pending[1].kind # "tool"
    BY <1>2 DEF CoreOK, MarkerOK, StartsTool
  <2>3. QED
    BY <1>1, <2>1, <2>2, OthersAhead
<1>3. CASE s.executing # NoCmd
  <2>1. Backed(s.executing.index, s.executing.kind, 0, R, E, fl, iv)
    BY <1>3 DEF Motion
  <2>2. s.executing.kind # "tool"
    BY DEF RunsTool
  <2>3. QED
    BY <1>1, <2>1, <2>2, OthersAhead
<1>4. CASE s.planning = 0 /\ s.executing = NoCmd
  <2>1. Free(R, fl)
    BY <1>4 DEF Motion
  <2>2. QED
    BY <2>1, FreeOfActions
<1>5. QED
  BY <1>2, <1>3, <1>4

\* What a tool stop cancels first: the tool action the queue runs or starts.
\* `nx` is the index the stop was given.
LEMMA AtToolActionDropped ==
  ASSUME NEW s, NEW nx, NEW E, At(s, E),
         Tools(s.tool_stops, nx, s.next_tag, requests \o s.sent, E, tool_stop)
  PROVE  LET t == DropActiveToolAction(s) IN
         /\ At(t, E) /\ ~RunsTool(t) /\ ~StartsTool(t)
         /\ t.next_index = s.next_index
         /\ Tools(t.tool_stops, nx, t.next_tag, requests \o t.sent, E, tool_stop)
<1> DEFINE r == [op |-> "Cancel"]
           a == [s EXCEPT !.executing = NoCmd, !.action_state = "idle"]
           b == [s EXCEPT !.planning = 0, !.pending = Tail(@)]
           t == DropActiveToolAction(s)
<1>1. CoreOK(s) /\ DOMAIN s = Fields /\ s.pending \in Seq(Entry) /\ MarkerOK(s)
      /\ requests \in Seq(PlanRequest) /\ s.sent \in Seq(PlanRequest) /\ r \in PlanRequest
  BY PlainRequests DEF At, InStep, CoreOK
<1>2. CoreOK(t)
  BY <1>1, DropToolActionCalms DEF Calms
<1>3. CASE ~RunsTool(s) /\ ~StartsTool(s)
  <2>1. t = s
    BY <1>3 DEF DropActiveToolAction
  <2>2. QED
    BY <1>3, <2>1
<1>4. ASSUME RunsTool(s) \/ StartsTool(s)
      PROVE  \E n : /\ t.planning = 0 /\ t.executing = NoCmd /\ t.sent = Append(s.sent, r)
                    /\ Varies(s, t, {"pending", "planning", "executing", "sent"})
                    /\ Suffix(t.pending, s.pending, n) /\ (n = 0 => s.planning = 0)
  <2>1. CASE RunsTool(s)
    <3>1. s.executing # NoCmd
      BY <2>1 DEF RunsTool, NoCmd
    <3>2. s.planning = 0
      BY <1>1, <3>1 DEF MarkerOK
    <3>3. t = Send(a, r)
      BY <2>1 DEF DropActiveToolAction
    <3>4. /\ DOMAIN a = Fields /\ a.executing = NoCmd
          /\ \A f \in Fields \ {"executing", "action_state"} : a[f] = s[f]
      BY <1>1 DEF Fields
    <3> HIDE DEF a, r, t
    <3>5. /\ t.sent = Append(a.sent, r)
          /\ \A f \in Fields \ {"sent"} : t[f] = a[f]
      BY <3>3, <3>4 DEF Send, Fields
    <3>6. /\ t.planning = 0 /\ t.executing = NoCmd /\ t.sent = Append(s.sent, r)
          /\ t.pending = s.pending
      BY <3>2, <3>4, <3>5 DEF Fields
    <3>7. Varies(s, t, {"pending", "planning", "executing", "sent"})
      BY <1>2, <3>4, <3>5 DEF Varies, Track, Fields, t
    <3>8. Suffix(t.pending, s.pending, 0)
      BY <1>1, <3>6, Suffixes
    <3>9. QED
      BY <3>2, <3>6, <3>7, <3>8
  <2>2. CASE StartsTool(s) /\ ~RunsTool(s)
    <3>1. s.planning # 0 /\ s.pending # <<>>
      BY <2>2 DEF StartsTool, PlanningHead
    <3>2. s.executing = NoCmd
      BY <1>1, <3>1 DEF MarkerOK
    <3>3. t = Send(b, r)
      BY <2>2 DEF DropActiveToolAction
    <3>4. /\ DOMAIN b = Fields /\ b.planning = 0 /\ b.pending = Tail(s.pending)
          /\ \A f \in Fields \ {"planning", "pending"} : b[f] = s[f]
      BY <1>1 DEF Fields
    <3> HIDE DEF b, r, t
    <3>5. /\ t.sent = Append(b.sent, r)
          /\ \A f \in Fields \ {"sent"} : t[f] = b[f]
      BY <3>3, <3>4 DEF Send, Fields
    <3>6. /\ t.planning = 0 /\ t.executing = NoCmd /\ t.sent = Append(s.sent, r)
          /\ t.pending = Tail(s.pending)
      BY <3>2, <3>4, <3>5 DEF Fields
    <3>7. Varies(s, t, {"pending", "planning", "executing", "sent"})
      BY <1>2, <3>4, <3>5 DEF Varies, Track, Fields, t
    <3>8. Suffix(t.pending, s.pending, 1) /\ (1 = 0 => s.planning = 0)
      BY <1>1, <3>1, <3>6, Suffixes
    <3>9. QED
      BY <3>6, <3>7, <3>8
  <2>3. QED
    BY <1>4, <2>1, <2>2
<1>5. CASE RunsTool(s) \/ StartsTool(s)
  <2> HIDE DEF t
  <2>1. PICK n : /\ t.planning = 0 /\ t.executing = NoCmd /\ t.sent = Append(s.sent, r)
                 /\ Varies(s, t, {"pending", "planning", "executing", "sent"})
                 /\ Suffix(t.pending, s.pending, n) /\ (n = 0 => s.planning = 0)
    BY <1>4, <1>5
  <2>2. At(t, E)
    BY <2>1, AtHalted
  <2>3. /\ t.next_index = s.next_index /\ t.next_tag = s.next_tag
        /\ t.tool_stops = s.tool_stops
    BY <2>1, VariesFields
  <2>4. ~RunsTool(t) /\ ~StartsTool(t)
    BY <2>1 DEF RunsTool, StartsTool, PlanningHead, NoCmd
  <2>5. r.op = "Cancel"
    OBVIOUS
  <2> HIDE DEF r
  <2>6. Grows(requests \o t.sent, requests \o s.sent, r)
    BY <1>1, <2>1, SentGrows
  <2>7. Tools(s.tool_stops, nx, s.next_tag, requests \o t.sent, E, tool_stop)
    BY <2>5, <2>6, ToolsOtherSent
  <2>8. QED
    BY <2>2, <2>3, <2>4, <2>7 DEF t
<1>6. QED
  BY <1>3, <1>5

\* start_tool_stop, for a stop that was given the index before the next.
LEMMA AtToolStop ==
  ASSUME NEW s, NEW index \in Nat \ {0}, NEW E, At(s, E), s.next_index = index + 1,
         Tools(s.tool_stops, index, s.next_tag, requests \o s.sent, E, tool_stop)
  PROVE  At(StartToolStop(s, index), E)
<1> DEFINE a == DropActiveToolAction(s)
           c == CompleteCancelled(a, DroppedActiveToolAction(s))
           tag == c.next_tag + 1
           e == [index |-> index, tag |-> tag]
           u == [c EXCEPT !.next_tag = tag, !.tool_stops = Append(@, e)]
           r == [op |-> "StartTool", tag |-> tag, index |-> index]
           t == StartToolStop(s, index)
           R == requests \o c.sent
           R2 == requests \o t.sent
<1>1. CoreOK(s)
  BY DEF At, InStep
<1>2. CoreOK(t)
  BY <1>1, StartToolStopOK
<1>3. /\ At(a, E) /\ ~RunsTool(a) /\ ~StartsTool(a) /\ a.next_index = index + 1
      /\ Tools(a.tool_stops, index, a.next_tag, requests \o a.sent, E, tool_stop)
  BY AtToolActionDropped
<1>4. t = Send(u, r)
  BY DEF StartToolStop
<1> HIDE DEF a
<1>5. At(c, E) /\ CoreOK(a)
  BY <1>3, AtReported DEF At, InStep
<1>6. \A f \in Fields \ {"completed_index", "finished", "completes"} : c[f] = a[f]
  BY <1>5, CompleteCancelledKeeps DEF Keeps, CoreOK
<1>7. /\ ~RunsTool(c) /\ ~StartsTool(c) /\ c.next_index = index + 1
      /\ Tools(c.tool_stops, index, c.next_tag, R, E, tool_stop)
  BY <1>3, <1>6 DEF Fields, RunsTool, StartsTool, PlanningHead
<1> HIDE DEF c
<1>8. /\ CoreOK(c) /\ DOMAIN c = Fields /\ c.next_tag \in Nat
      /\ requests \in Seq(PlanRequest) /\ c.sent \in Seq(PlanRequest)
  BY <1>5 DEF At, InStep, CoreOK
<1>9. tag \in Nat /\ r \in PlanRequest /\ r.op = "StartTool"
  BY <1>8 DEF PlanRequest
<1> DEFINE st2 == Append(c.tool_stops, e)
<1>10. /\ DOMAIN u = Fields /\ u.next_tag = tag /\ u.tool_stops = st2
       /\ \A f \in Fields \ {"next_tag", "tool_stops"} : u[f] = c[f]
  <2> HIDE DEF e, tag
  <2>1. QED
    BY <1>8 DEF Fields
<1>11. r = [op |-> "StartTool", tag |-> c.next_tag + 1, index |-> index]
       /\ st2 = Append(c.tool_stops, [index |-> index, tag |-> c.next_tag + 1])
       /\ tag = c.next_tag + 1
  OBVIOUS
<1> HIDE DEF u, r, t, st2, tag, e
<1>12. /\ t.sent = Append(u.sent, r)
       /\ \A f \in Fields \ {"sent"} : t[f] = u[f]
  BY <1>4, <1>10 DEF Send, Fields
<1>13. /\ t.sent = Append(c.sent, r) /\ t.next_tag = tag /\ t.tool_stops = st2
       /\ t.next_index = c.next_index /\ t.pending = c.pending
       /\ t.executing = c.executing /\ t.planning = c.planning
  BY <1>10, <1>12 DEF Fields
<1>14. Grows(R2, R, r) /\ R \in Seq(PlanRequest) /\ R2 \in Seq(PlanRequest)
  BY <1>8, <1>9, <1>13, SentGrows
<1>15. InStep(c, R, E, inflight, invalidated, tool_stop)
  BY <1>5 DEF At
<1> HIDE DEF R, R2
<1>16. Motion(c, R2, E, inflight, invalidated)
  <2>1. Carries(R, E, inflight, invalidated, R2, E, inflight, invalidated)
    BY <1>9, <1>14, OtherSent
  <2>2. QED
    BY <1>15, <2>1, MotionCarried DEF InStep
<1>17. Motion(t, R2, E, inflight, invalidated)
  BY <1>13, <1>16 DEF Motion
<1>18. Tools(st2, index + 1, c.next_tag + 1, R2, E, tool_stop)
  BY <1>7, <1>11, <1>14, ToolsStartSent
<1>19. Jaws(R2, inflight, tool_stop)
  <2>1. Motion(c, R, E, inflight, invalidated) /\ Jaws(R, inflight, tool_stop)
    BY <1>15 DEF InStep
  <2>2. NoActionAhead(R, inflight)
    BY <1>7, <1>8, <1>14, <2>1, NoActionAsked
  <2>3. QED
    BY <1>9, <1>14, <2>1, <2>2, JawsSent DEF StartsJaws
<1>20. Hands(t)
  BY <1>7, <1>13 DEF Hands, RunsTool, StartsTool, PlanningHead
<1>21. QED
  BY <1>2, <1>7, <1>8, <1>11, <1>13, <1>14, <1>17, <1>18, <1>19, <1>20 DEF At, InStep, R2, t

\* A command is accepted: its index is taken, everything else is as it was.
LEMMA AtAccepted ==
  ASSUME NEW s, NEW key, NEW E, At(s, E)
  PROVE  LET a == Accept(s, key) IN
         /\ At(a, E) /\ a.next_index = s.next_index + 1 /\ a.pending = s.pending
         /\ Tools(a.tool_stops, s.next_index, a.next_tag, requests \o a.sent, E, tool_stop)
<1> DEFINE a == Accept(s, key)
           d == DedupInsert(s.dedup, key, s.next_index)
           u == [s EXCEPT !.next_index = @ + 1, !.dedup = d]
           R == requests \o s.sent
<1>1. CoreOK(s) /\ InStep(s, R, E, inflight, invalidated, tool_stop)
  BY DEF At, InStep
<1>2. CoreOK(a) /\ a.pending = s.pending
  BY <1>1, AcceptCalms DEF Calms
<1>3. a = OnMotionAccepted(u) /\ DOMAIN s = Fields
  BY <1>1 DEF Accept, CoreOK
<1> HIDE DEF d
<1>4. /\ a.next_index = s.next_index + 1 /\ a.next_tag = s.next_tag
      /\ a.executing = s.executing /\ a.planning = s.planning
      /\ a.tool_stops = s.tool_stops /\ a.sent = s.sent
  <2> HIDE DEF a
  <2>1. QED
    BY <1>3 DEF OnMotionAccepted, Fields
<1> HIDE DEF a, u
<1>5. requests \o a.sent = R
  BY <1>4
<1>6. s.next_index \in Nat /\ s.next_tag \in Nat
  BY <1>1 DEF CoreOK
<1> HIDE DEF R
<1>7. Motion(s, R, E, inflight, invalidated) /\ Tools(s.tool_stops, s.next_index, s.next_tag, R, E, tool_stop)
  BY <1>1 DEF InStep
<1>8. "move" \in QueuedKinds
  BY DEF QueuedKinds
<1>9. Motion(a, R, E, inflight, invalidated)
  BY <1>1, <1>2, <1>4, <1>7, <1>8, MotionAccepted
<1>10. s.next_index + 1 \in Nat /\ s.next_index <= s.next_index + 1 /\ s.next_tag <= s.next_tag
  BY <1>6
<1>11. Tools(s.tool_stops, s.next_index + 1, s.next_tag, R, E, tool_stop)
  BY <1>6, <1>7, <1>10, ToolsLater
<1>12. Hands(a)
  BY <1>1, <1>2, <1>4 DEF InStep, Hands, RunsTool, StartsTool, PlanningHead
<1>13. At(a, E)
  BY <1>1, <1>2, <1>4, <1>5, <1>9, <1>11, <1>12 DEF At, InStep
<1>14. QED
  BY <1>2, <1>4, <1>5, <1>7, <1>13 DEF a

\* on_queued.
LEMMA AtQueued ==
  ASSUME NEW s, NEW key, NEW kind \in QueuedKinds \cup {"stop"}, NEW E, At(s, E)
  PROVE  At(OnQueued(s, key, kind), E)
<1> DEFINE a == Accept(s, key)
           x == s.next_index
           e == [index |-> x, kind |-> kind]
           b == [a EXCEPT !.active_stream = "none", !.pending = Append(@, e)]
           R == requests \o s.sent
<1>1. CoreOK(s) /\ x \in Nat \ {0} /\ s.pending \in Seq(Entry)
  BY DEF At, InStep, CoreOK
<1>2. /\ At(a, E) /\ a.next_index = x + 1 /\ a.pending = s.pending
      /\ Tools(a.tool_stops, x, a.next_tag, requests \o a.sent, E, tool_stop)
  BY AtAccepted
<1>3. CASE OnQueued(s, key, kind) = s
  BY <1>3
<1>4. CASE OnQueued(s, key, kind) # s /\ kind = "stop"
  <2>1. OnQueued(s, key, kind) = StartToolStop(a, x)
    BY <1>4 DEF OnQueued
  <2> HIDE DEF a, x
  <2>2. QED
    BY <1>1, <1>2, <2>1, AtToolStop
<1>5. CASE OnQueued(s, key, kind) # s /\ kind # "stop"
  <2>1. OnQueued(s, key, kind) = Pump(b) /\ ~(Len(s.pending) >= QueueCapacity)
    BY <1>5 DEF OnQueued
  <2>2. CoreOK(a) /\ DOMAIN a = Fields /\ InStep(a, requests \o a.sent, E, inflight, invalidated, tool_stop)
    BY <1>2 DEF At, InStep, CoreOK
  <2>3. a.planning = s.planning /\ a.executing = s.executing /\ a.sent = s.sent
    <3>1. DOMAIN s = Fields
      BY <1>1 DEF CoreOK
    <3>2. QED
      BY <3>1 DEF Accept, OnMotionAccepted, Fields
  <2> HIDE DEF a
  <2>4. /\ DOMAIN b = Fields /\ b.pending = Append(s.pending, e)
        /\ \A f \in Fields \ {"active_stream", "pending"} : b[f] = a[f]
    BY <1>2, <2>2 DEF Fields
  <2>5. e \in Entry /\ e = [index |-> s.next_index, kind |-> kind] /\ kind \in QueuedKinds
    BY <1>1, <1>5 DEF Entry
  <2> HIDE DEF b, e
  <2>6. /\ b.next_index = a.next_index /\ b.next_tag = a.next_tag
        /\ b.executing = a.executing /\ b.planning = a.planning
        /\ b.blend_hold = a.blend_hold
        /\ b.shapes = a.shapes /\ b.pending_shapes = a.pending_shapes
        /\ b.sent = a.sent /\ b.tool_stops = a.tool_stops
    BY <2>4 DEF Fields
  <2>7. /\ b.pending \in Seq(Entry) /\ Len(b.pending) = Len(s.pending) + 1
        /\ s.pending # <<>> => b.pending[1] = s.pending[1]
    BY <1>1, <2>4, <2>5, AppendProperties
  <2>8. Len(b.pending) <= QueueCapacity /\ b.pending # <<>>
    <3>1. Len(s.pending) \in Nat
      BY <1>1, LenProperties
    <3>2. QED
      BY <2>1, <2>7, <3>1, CapacityAssumption
  <2>9. s.planning # 0 => s.pending # <<>>
    BY <1>1 DEF CoreOK, MarkerOK, PlanningHead
  <2>10. MarkerOK(b)
    BY <1>1, <2>3, <2>6, <2>7, <2>8, <2>9 DEF CoreOK, MarkerOK, PlanningHead
  <2>11. CoreOK(b)
    BY <2>2, <2>4, <2>6, <2>7, <2>8, <2>10 DEF CoreOK
  <2>12. requests \o b.sent = requests \o a.sent /\ requests \o a.sent = R
    BY <2>3, <2>6
  <2> HIDE DEF R
  <2>13. Motion(s, R, E, inflight, invalidated)
    BY DEF At, InStep, R
  <2>14. Motion(b, R, E, inflight, invalidated)
    <3>1. /\ b.planning = s.planning /\ b.executing = s.executing
          /\ b.next_index = s.next_index + 1
          /\ b.pending = Append(s.pending, [index |-> s.next_index, kind |-> kind])
      BY <1>2, <2>3, <2>4, <2>5, <2>6
    <3>2. QED
      BY <1>1, <2>5, <2>13, <3>1, MotionAccepted
  <2>15. Hands(b)
    <3>1. StartsTool(b) => StartsTool(a)
      BY <1>1, <1>2, <2>3, <2>6, <2>7, <2>8, <2>9 DEF StartsTool, RunsTool, PlanningHead, CoreOK, MarkerOK
    <3>2. QED
      BY <2>2, <2>6, <3>1 DEF InStep, Hands, RunsTool
  <2>16. At(b, E)
    BY <1>2, <2>2, <2>6, <2>11, <2>12, <2>14, <2>15 DEF At, InStep
  <2>17. QED
    BY <2>1, <2>16, AtPumped
<1>6. QED
  BY <1>3, <1>4, <1>5

\* on_faf.
LEMMA AtFaf ==
  ASSUME NEW s, NEW stream, NEW ok \in BOOLEAN, NEW standoff \in BOOLEAN, NEW E, At(s, E)
  PROVE  At(OnFaf(s, stream, ok, standoff), E)
<1>1. CASE GateRefuses(s, stream)
  BY <1>1, AtLatched DEF OnFaf
<1>2. CASE ~GateRefuses(s, stream) /\ s.active_stream = stream
  <2> DEFINE y == IF standoff THEN s.active_stream ELSE "none"
             t == [s EXCEPT !.active_stream = y]
  <2>1. \/ OnFaf(s, stream, ok, standoff) = OnMotionAccepted(s)
        \/ \E busy : OnFaf(s, stream, ok, standoff) = LatchRefusal(t, busy)
    BY <1>2 DEF OnFaf
  <2> HIDE DEF y
  <2>2. At(t, E)
    BY AtLatched
  <2> HIDE DEF t
  <2>3. At(OnMotionAccepted(s), E) /\ \A busy : At(LatchRefusal(t, busy), E)
    BY <2>2, AtLatched
  <2>4. QED
    BY <2>1, <2>3, Zenon
<1>3. CASE ~GateRefuses(s, stream) /\ s.active_stream # stream
  <2> DEFINE n == [s EXCEPT !.active_stream = "none"]
             d == DropPlanned(n)
             y == IF ok \/ standoff THEN stream ELSE "none"
             w == [d EXCEPT !.active_stream = y]
             t == CompleteCancelled(w, DroppedPlanned(s))
  <2>1. \/ OnFaf(s, stream, ok, standoff) = OnMotionAccepted(t)
        \/ \E busy : OnFaf(s, stream, ok, standoff) = LatchRefusal(t, busy)
    BY <1>3 DEF OnFaf
  <2> HIDE DEF y
  <2>2. At(n, E)
    BY AtLatched
  <2> HIDE DEF n
  <2>3. At(d, E)
    BY <2>2, AtCancelled
  <2> HIDE DEF d
  <2>4. At(w, E)
    BY <2>3, AtLatched
  <2> HIDE DEF w
  <2>5. At(t, E)
    BY <2>4, AtReported
  <2> HIDE DEF t
  <2>6. At(OnMotionAccepted(t), E) /\ \A busy : At(LatchRefusal(t, busy), E)
    BY <2>5, AtLatched
  <2>7. QED
    BY <2>1, <2>6, Zenon
<1>4. QED
  BY <1>1, <1>2, <1>3

\* The system commands.
LEMMA AtSystem ==
  ASSUME NEW s, NEW E, At(s, E)
  PROVE  /\ At(OnEstop(s), E)
         /\ \A clear_queue \in BOOLEAN : At(OnStop(s, clear_queue), E)
         /\ \A on : At(OnPause(s, on), E)
         /\ At(OnTeleport(s), E)
         /\ At(OnReset(s), E)
         /\ At(OnResetState(s), E)
         /\ At(OnBusSwap(s), E)
         /\ \A set \in ShapeStates : At(OnSetShapes(s, set), E)
<1>1. ASSUME NEW a, At(a, E)
      PROVE  /\ At(ClearPause(a), E) /\ At(OnMotionAccepted(a), E)
             /\ At(InvalidateAttachments(a), E)
             /\ At(CancelActiveMotion(a), E) /\ At(CancelAllMotion(a), E)
             /\ At(CancelPlanned(a), E)
  BY <1>1, AtLatched, AtInvalidated, AtCancelled
<1>2. At(OnEstop(s), E)
  <2> DEFINE u == [s EXCEPT !.estop_latched = TRUE, !.standing_error = Unattributed("estop")]
  <2>1. OnEstop(s) = ClearPause(CancelAllMotion(u))
    BY DEF OnEstop
  <2>2. At(u, E)
    BY AtLatched
  <2> HIDE DEF u
  <2>3. QED
    BY <1>1, <2>1, <2>2
<1>3. ASSUME NEW clear_queue \in BOOLEAN PROVE At(OnStop(s, clear_queue), E)
  <2> DEFINE t == ClearPause(CancelAllMotion(s))
             u == [t EXCEPT !.standing_error = Unattributed("cancelled")]
  <2>1. At(t, E)
    BY <1>1
  <2>2. \/ OnStop(s, clear_queue) = CancelActiveMotion(s)
        \/ OnStop(s, clear_queue) = t
        \/ OnStop(s, clear_queue) = u
    BY DEF OnStop
  <2> HIDE DEF t
  <2>3. At(u, E)
    BY <2>1, AtLatched
  <2> HIDE DEF u
  <2>4. QED
    BY <1>1, <2>1, <2>2, <2>3
<1>4. \A on : At(OnPause(s, on), E)
  BY AtLatched
<1>5. At(OnTeleport(s), E)
  <2> DEFINE n == [s EXCEPT !.active_stream = "none"]
             c == CancelPlanned(n)
             d == [c EXCEPT !.teleport_homed = TRUE]
  <2>1. OnTeleport(s) = s \/ OnTeleport(s) = OnMotionAccepted(d)
    BY DEF OnTeleport
  <2>2. At(n, E)
    BY AtLatched
  <2> HIDE DEF n
  <2>3. At(c, E)
    BY <1>1, <2>2
  <2> HIDE DEF c
  <2>4. At(d, E)
    BY <2>3, AtLatched
  <2> HIDE DEF d
  <2>5. QED
    BY <1>1, <2>1, <2>4
<1>6. At(OnReset(s), E)
  <2>1. At(InvalidateAttachments(s), E)
    BY <1>1
  <2>2. QED
    BY <2>1, AtLatched DEF OnReset
<1>7. At(OnResetState(s), E)
  <2> DEFINE c == CancelAllMotion(InvalidateAttachments(s))
             d == [c EXCEPT !.standing_error = NoError, !.action_state = "idle"]
  <2>1. At(c, E)
    BY <1>1
  <2>2. OnResetState(s) = DeferProgramShapes(ClearPause(d), "plain")
    BY DEF OnResetState
  <2> HIDE DEF c
  <2>3. At(d, E)
    BY <2>1, AtLatched
  <2> HIDE DEF d
  <2>4. At(ClearPause(d), E) /\ "plain" \in ShapeStates
    BY <1>1, <2>3 DEF ShapeStates
  <2>5. QED
    BY <2>2, <2>4, AtDeferred
<1>8. At(OnBusSwap(s), E)
  BY <1>1 DEF OnBusSwap
<1>9. ASSUME NEW set \in ShapeStates PROVE At(OnSetShapes(s, set), E)
  BY AtDeferred DEF OnSetShapes
<1>10. QED
  BY <1>2, <1>3, <1>4, <1>5, <1>6, <1>7, <1>8, <1>9

-----------------------------------------------------------------------------
(* The state machine in step. *)

\* Between two turns the handler's copy is the core itself.
LEMMA AtRest ==
  ASSUME Inv, Step
  PROVE  At(core, events)
<1>1. core.sent = <<>> /\ requests \in Seq(PlanRequest)
  BY DEF Inv, TypeOK
<1>2. requests \o core.sent = requests
  BY <1>1, EmptySeq, ConcatEmptySeq
<1>3. QED
  BY <1>1, <1>2 DEF At, Step

\* The handler's copy, committed.
LEMMA CommitStep ==
  ASSUME NEW t, At(t, events'), Commit(t)
  PROVE  StepNext
<1> DEFINE c == [t EXCEPT !.sent = <<>>]
           R == requests \o t.sent
<1>1. /\ core' = c /\ requests' = R
      /\ inflight' = inflight /\ tool_stop' = tool_stop /\ invalidated' = invalidated
  BY DEF Commit, planner
<1>2. CoreOK(t) /\ DOMAIN t = Fields
  BY DEF At, InStep, CoreOK
<1>3. /\ DOMAIN c = Fields /\ c.sent = <<>>
      /\ \A f \in Fields \ {"sent"} : c[f] = t[f]
  BY <1>2 DEF Fields
<1> HIDE DEF c
<1>4. /\ c.next_index = t.next_index /\ c.next_tag = t.next_tag
      /\ c.pending = t.pending /\ c.executing = t.executing
      /\ c.planning = t.planning /\ c.tool_stops = t.tool_stops
      /\ c.blend_hold = t.blend_hold
      /\ c.shapes = t.shapes /\ c.pending_shapes = t.pending_shapes
  BY <1>3 DEF Fields
<1>5. <<>> \in Seq(PlanRequest)
  BY EmptySeq
<1>6. CoreOK(c)
  BY <1>2, <1>3, <1>4, <1>5 DEF CoreOK, MarkerOK, PlanningHead
<1>7. Hands(t) => Hands(c)
  BY <1>4 DEF Hands, RunsTool, StartsTool, PlanningHead
<1> HIDE DEF R
<1>8. InStep(t, R, events', inflight, invalidated, tool_stop)
  BY DEF At, R
<1>9. Motion(c, R, events', inflight, invalidated)
  BY <1>4, <1>8 DEF InStep, Motion
<1>10. InStep(c, R, events', inflight, invalidated, tool_stop)
  BY <1>4, <1>6, <1>7, <1>8, <1>9 DEF InStep
<1>11. QED
  BY <1>1, <1>10 DEF StepNext

\* Every server turn keeps step.
LEMMA ServerStep ==
  ASSUME Inv, Step, NEW sn \in Snaps, Client(sn) \/ Poll(sn) \/ PlanEvent(sn)
  PROVE  StepNext
<1> DEFINE a == Arrive(core, sn)
           ev == Head(events)
<1>1. At(a, events) /\ events \in Seq(PlanEvents)
  BY AtRest, AtArrived DEF Inv, TypeOK
<1> HIDE DEF a
<1>2. CASE Client(sn) \/ Poll(sn)
  <2>1. events' = events
    BY <1>2 DEF Client, Poll, Queued, Streamed, Estop, Stop, Pause, Teleport, Reset,
                ResetState, BusSwap, SetShapes
  <2>2. ASSUME NEW t, At(t, events), Commit(t) PROVE StepNext
    BY <2>1, <2>2, CommitStep
  <2>3. CASE Queued(sn)
    <3>1. PICK key \in Keys, kind \in Kinds : Commit(OnQueued(a, key, kind))
      BY <2>3 DEF Queued, a
    <3>2. At(OnQueued(a, key, kind), events)
      BY <1>1, InstanceAssumption, AtQueued
    <3>3. QED
      BY <2>2, <3>1, <3>2
  <2>4. CASE Streamed(sn)
    <3>1. PICK stream \in Streams, ok \in BOOLEAN, standoff \in BOOLEAN :
             Commit(OnFaf(a, stream, ok, standoff))
      BY <2>4 DEF Streamed, a
    <3>2. At(OnFaf(a, stream, ok, standoff), events)
      BY <1>1, AtFaf
    <3>3. QED
      BY <2>2, <3>1, <3>2
  <2>5. CASE Estop(sn) \/ Stop(sn) \/ Pause(sn) \/ Teleport(sn) \/ Reset(sn)
               \/ ResetState(sn) \/ BusSwap(sn) \/ SetShapes(sn)
    <3>1. \/ Commit(OnEstop(a))
          \/ \E clear_queue \in BOOLEAN : Commit(OnStop(a, clear_queue))
          \/ \E on \in BOOLEAN : Commit(OnPause(a, on))
          \/ Commit(OnTeleport(a))
          \/ Commit(OnReset(a))
          \/ Commit(OnResetState(a))
          \/ Commit(OnBusSwap(a))
          \/ \E set \in ShapeSets : Commit(OnSetShapes(a, set))
      BY <2>5 DEF Estop, Stop, Pause, Teleport, Reset, ResetState, BusSwap, SetShapes, a
    <3>2. ShapeSets \subseteq ShapeStates
      BY InstanceAssumption DEF ShapeStates
    <3>3. QED
      BY <1>1, <2>2, <3>1, <3>2, AtSystem
  <2>6. CASE Poll(sn)
    <3>1. Commit(Pump(a))
      BY <2>6 DEF Poll, a
    <3>2. QED
      BY <1>1, <2>2, <3>1, AtPumped
  <2>7. QED
    BY <1>2, <2>3, <2>4, <2>5, <2>6 DEF Client
<1>3. CASE PlanEvent(sn)
  <2>1. events # <<>> /\ events' = Tail(events) /\ Commit(OnPlanEvent(a, ev))
    BY <1>3 DEF PlanEvent, a
  <2>2. Shifts(events', events) /\ ev = events[1] /\ ev \in PlanEvents
    BY <1>1, <2>1, TailShifts
  <2> HIDE DEF ev
  <2>3. At(OnPlanEvent(a, ev), events')
    BY <1>1, <2>2, AtPlanEvent
  <2>4. QED
    BY <2>1, <2>3, CommitStep
<1>4. QED
  BY <1>2, <1>3

\* Both sides start idle, with nothing on either channel.
LEMMA InitStep ==
  ASSUME Init, Inv
  PROVE  Step
<1>1. PICK sn \in Snaps : core = InitCore(sn)
  BY DEF Init
<1>2. /\ core.next_index = 1 /\ core.next_tag = 0 /\ core.pending = <<>>
      /\ core.tool_stops = <<>> /\ core.executing = NoCmd /\ core.planning = 0
  BY <1>1 DEF InitCore
<1>3. /\ requests = <<>> /\ events = <<>> /\ inflight = NoFlight
      /\ tool_stop = 0 /\ invalidated = 0
  BY DEF Init
<1>4. Len(<<>>) = 0 /\ 1..0 = {} /\ \A S : <<>> \in Seq(S)
  BY EmptySeq
<1>5. \A i \in Nat : 1 <= i => Untouched(<<>>, <<>>, NoFlight, 0, i)
  BY <1>4 DEF Untouched, Unoffered, Unanswered, NoFlight
<1>6. Motion(core, <<>>, <<>>, NoFlight, 0)
  BY <1>2, <1>4, <1>5 DEF Motion, QueueNew, Separate, Free
<1>7. Tools(<<>>, 1, 0, <<>>, <<>>, 0)
  BY <1>4 DEF Tools, StopsOrdered, OrdersOrdered, OrdersHeld, OrdersNew, AnswersOrdered,
              CancelsOld, StopsAnswered, WatchIsHeld, StopsSettle
<1>8. Jaws(<<>>, NoFlight, 0)
  BY <1>4 DEF Jaws, NoFlight
<1>9. QED
  BY <1>2, <1>3, <1>4, <1>6, <1>7, <1>8 DEF Step, InStep, Hands, Inv, TypeOK

\* Every step keeps step.
LEMMA NextStep == Inv /\ Step /\ [Next]_vars => Step'
<1> SUFFICES ASSUME Inv, Step, [Next]_vars PROVE StepNext
  BY DEF Step, StepNext
<1>1. ASSUME NEW sn \in Snaps, Client(sn) \/ Poll(sn) \/ PlanEvent(sn)
      PROVE  StepNext
  BY <1>1, ServerStep
<1>2. CASE HoldExpires
  <2>1. At(core, events) /\ CoreOK(core) /\ DOMAIN core = Fields /\ core.sent = <<>>
    BY AtRest DEF Inv, TypeOK, CoreOK
  <2> DEFINE t == [core EXCEPT !.blend_hold = "expired"]
  <2>2. /\ Keeps(core, t, {"blend_hold"}) /\ t.blend_hold = "expired" /\ t.sent = <<>>
        /\ core' = t
    BY <1>2, <2>1 DEF HoldExpires, Keeps, Fields
  <2> HIDE DEF t
  <2>3. Keeps(core, t, Bookkeeping \cup {"active_stream", "blend_hold", "estop_latched"})
    BY <2>2 DEF Keeps
  <2>4. At(t, events)
    BY <2>1, <2>2, <2>3, AtBooks
  <2>5. /\ requests' = requests /\ events' = events /\ inflight' = inflight
        /\ tool_stop' = tool_stop /\ invalidated' = invalidated
    BY <1>2 DEF HoldExpires, planner
  <2>6. requests \o t.sent = requests
    BY <2>2, ConcatEmptySeq DEF Inv, TypeOK
  <2>7. QED
    BY <2>2, <2>4, <2>5, <2>6 DEF At, StepNext
<1>3. CASE Planner
  BY <1>3, PlannerStep
<1>4. CASE UNCHANGED vars
  BY <1>4 DEF vars, Step, StepNext
<1>5. QED
  BY <1>1, <1>2, <1>3, <1>4 DEF Next

\* What stands in a Cut or behind a place the properties name as InRequests.
LEMMA NoneAfter ==
  ASSUME requests \in Seq(PlanRequest), NEW op
  PROVE  InRequests(op, "", 0) <=> After(requests, op, 0)
<1>1. Len(requests) \in Nat
  BY LenProperties
<1>2. \A k \in 1..Len(requests) : 0 < k /\ k < Len(requests) + 1
  BY <1>1
<1>3. QED
  BY <1>2 DEF InRequests, After, Cut

\* Everyone in step is what PlannerInStep asks for.
LEMMA InStepSuffices ==
  ASSUME Inv, Step
  PROVE  PlannerInStep
<1>1. /\ CoreOK(core) /\ requests \in Seq(PlanRequest)
      /\ events \in Seq(PlanEvents)
      /\ Motion(core, requests, events, inflight, invalidated)
      /\ Tools(core.tool_stops, core.next_index, core.next_tag, requests, events, tool_stop)
      /\ Jaws(requests, inflight, tool_stop) /\ Hands(core)
  BY DEF Inv, TypeOK, Step, InStep
<1>2. ~InRequests("Cancel", "", 0) <=> ~After(requests, "Cancel", 0)
  BY <1>1, NoneAfter
<1>3. ~InRequests("CancelTool", "", 0) <=> ~After(requests, "CancelTool", 0)
  BY <1>1, NoneAfter
<1>4. AnswersOwed
  <2>1. ASSUME core.planning # 0
        PROVE  \/ \E k \in 1..Len(requests) :
                    /\ requests[k].op = "Start"
                    /\ requests[k].batch[1].index = core.planning
               \/ InEvents("Started", "index", core.planning)
               \/ InEvents("Rejected", "index", core.planning)
    <3>1. core.planning = core.pending[1].index
      BY <1>1, <2>1 DEF CoreOK, MarkerOK, PlanningHead
    <3>2. Asked(core.pending[1], requests, events, inflight, invalidated)
      BY <1>1, <2>1 DEF Motion
    <3>3. QED
      BY <3>1, <3>2 DEF Asked, Offered, Began, Refused, InEvents
  <2>2. ASSUME core.executing # NoCmd
        PROVE  \/ inflight.index = core.executing.index /\ ~InRequests("Cancel", "", 0)
               \/ invalidated = core.executing.index
               \/ InEvents("Outcome", "index", core.executing.index)
    <3>1. Backed(core.executing.index, core.executing.kind, 0, requests, events, inflight, invalidated)
      BY <1>1, <2>2 DEF Motion
    <3>2. CASE inflight = [index |-> core.executing.index, kind |-> core.executing.kind]
                 /\ ~After(requests, "Cancel", 0)
      BY <1>2, <3>2
    <3>3. CASE invalidated = core.executing.index
      BY <3>3
    <3>4. CASE \E m \in 1..Len(events) :
                 events[m].op = "Outcome" /\ events[m].index = core.executing.index
      BY <3>4 DEF InEvents
    <3>5. QED
      BY <3>1, <3>2, <3>3, <3>4, Zenon DEF Backed
  <2>3. QED
    BY <2>1, <2>2 DEF AnswersOwed
<1>5. StartFindsPlannerIdle
  <2> SUFFICES ASSUME requests # <<>>, Head(requests).op = "Start" PROVE inflight = NoFlight
    BY DEF StartFindsPlannerIdle, Takes
  <2>1. Head(requests) = requests[1] /\ 1 \in 1..Len(requests)
    <3>1. Len(requests) \in Nat /\ Len(requests) # 0
      BY <1>1, LenProperties, EmptySeq
    <3>2. QED
      BY <1>1, <3>1, HeadTailProperties
  <2>2. inflight = NoFlight \/ Cut(requests, "Cancel", 0, 1)
    BY <1>1, <2>1 DEF Motion, Separate
  <2>3. ~Cut(requests, "Cancel", 0, 1)
    <3>1. \A j \in 1..Len(requests) : ~(0 < j /\ j < 1)
      OBVIOUS
    <3>2. QED
      BY <3>1 DEF Cut
  <2>4. QED
    BY <2>2, <2>3
<1>6. ToolStopsBacked
  <2> DEFINE st == core.tool_stops
  <2>1. /\ st \in Seq(ToolStops)
        /\ CancelsOld(st, requests) /\ StopsAnswered(st, requests, events)
        /\ StopsSettle(st, events, tool_stop) /\ StopsOrdered(st, core.next_index, core.next_tag)
    BY <1>1 DEF Tools
  <2>2. Len(st) \in Nat
    BY <2>1, LenProperties
  <2>3. ASSUME NEW k \in 1..Len(st), st[k].tag # 0
        PROVE  InRequests("StartTool", "tag", st[k].tag) \/ InEvents("ToolStarted", "tag", st[k].tag)
    <3>1. \/ \E q \in 1..Len(requests) : Orders(requests[q], st[k])
          \/ \E e \in 1..Len(events) : Heard(events[e], st[k].tag)
      BY <2>1, <2>3 DEF StopsAnswered
    <3> HIDE DEF st
    <3>2. QED
      BY <3>1 DEF Orders, Heard, InRequests, InEvents
  <2>4. ASSUME NEW k \in 1..Len(st), st[k].tag = 0
        PROVE  \E j \in k..Len(st) :
                 \/ tool_stop = st[j].index /\ ~InRequests("CancelTool", "", 0)
                 \/ InEvents("ToolOutcome", "index", st[j].index)
    <3>1. PICK j \in 1..Len(st) : k <= j /\ Attends(st[j], events, tool_stop)
      BY <2>1, <2>4 DEF StopsSettle, Accepted
    <3>2. j \in k..Len(st)
      BY <2>2, <3>1
    <3>3. After(requests, "CancelTool", 0) =>
            \E q \in 1..Len(requests) : Orders(requests[q], st[k])
      BY <2>1 DEF After, Cut, CancelsOld
    <3> HIDE DEF st
    <3>4. \A q \in 1..Len(requests) : ~Orders(requests[q], st[k])
      BY <1>1, <2>4 DEF Tools, OrdersOrdered, Orders
    <3>5. QED
      BY <1>3, <3>1, <3>2, <3>3, <3>4 DEF Attends, InEvents
  <2>5. QED
    BY <2>3, <2>4 DEF ToolStopsBacked
<1>7. JawsHaveOneOwner
  BY <1>1 DEF JawsHaveOneOwner, Hands, Jaws
<1>8. QED
  BY <1>4, <1>5, <1>6, <1>7 DEF PlannerInStep

\* The server and the planner never fall out of step, whatever is cancelled,
\* rejected, stopped or invalidated while an answer is on its way: the server
\* waits only for answers that are owed, no Start overwrites a running motion,
\* every tool stop it holds is watched and will be reported, and the jaws are
\* driven from one side at a time.
THEOREM ServerAndPlannerInStep == Spec => []PlannerInStep
<1> DEFINE B == Step
<1>1. Init => Inv /\ B
  BY InitInv, InitStep
<1>2. (Inv /\ B) /\ [Next]_vars => (Inv /\ B)'
  BY NextInv, NextStep
<1>3. Inv /\ B => PlannerInStep
  BY InStepSuffices
<1> HIDE DEF B
<1>4. QED
  BY <1>1, <1>2, <1>3, PTL DEF Spec
=============================================================================
