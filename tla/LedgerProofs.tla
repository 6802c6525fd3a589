----------------------------- MODULE LedgerProofs -----------------------------
(***************************************************************************)
(* Every accepted command has exactly one fate, and the completion mark    *)
(* tells it, for every instance of module CommandPlane.                    *)
(***************************************************************************)
EXTENDS CommandPlaneProofs, FiniteSetTheorems

-----------------------------------------------------------------------------
(* Sequences and what they hold. *)

\* The indices of a list of commands.
Held(q) == {q[k].index : k \in 1..Len(q)}

\* A list has at most as many members as places.
LEMMA ElemsCount ==
  ASSUME NEW S, NEW q \in Seq(S)
  PROVE  /\ IsFiniteSet(Elems(q)) /\ Cardinality(Elems(q)) \in Nat
         /\ Cardinality(Elems(q)) <= Len(q)
         /\ Len(q) \in Nat
<1>1. q \in [1..Len(q) -> S] /\ Len(q) \in Nat
  BY LenProperties
<1>2. q \in [1..Len(q) -> Elems(q)]
  BY <1>1 DEF Elems
<1>3. q \in Surjection(1..Len(q), Elems(q))
  BY <1>2 DEF Surjection, Elems
<1>4. IsFiniteSet(1..Len(q)) /\ Cardinality(1..Len(q)) = Len(q)
  <2> DEFINE n == Len(q)
  <2>1. n \in Nat /\ 1 \in Int /\ n \in Int
    BY <1>1
  <2> HIDE DEF n
  <2>2. /\ IsFiniteSet(1..n)
        /\ Cardinality(1..n) = IF 1 > n THEN 0 ELSE n - 1 + 1
    BY <2>1, FS_Interval
  <2>3. QED
    BY <2>1, <2>2 DEF n
<1>5. QED
  BY <1>1, <1>3, <1>4, FS_Surjection, FS_CardinalityType

\* The indices of a list are a list of the same length.
LEMMA IndicesList ==
  ASSUME NEW S, NEW q \in Seq(S), \A e \in S : e.index \in Nat
  PROVE  /\ Indices(q) \in Seq(Nat) /\ Len(Indices(q)) = Len(q)
         /\ Elems(Indices(q)) = Held(q)
<1>1. q \in [1..Len(q) -> S] /\ Len(q) \in Nat
  BY LenProperties
<1>2. \A k \in 1..Len(q) : q[k].index \in Nat
  BY <1>1
<1>3. Indices(q) \in Seq(Nat) /\ Len(Indices(q)) = Len(q)
  BY <1>1, <1>2, IsASeq DEF Indices
<1>4. QED
  BY <1>1, <1>3 DEF Indices, Elems, Held

\* A concatenation holds what its parts hold.
LEMMA ElemsConcat ==
  ASSUME NEW S, NEW p \in Seq(S), NEW q \in Seq(S)
  PROVE  /\ p \o q \in Seq(S) /\ Len(p \o q) = Len(p) + Len(q)
         /\ Elems(p \o q) = Elems(p) \cup Elems(q)
<1>1. /\ p \o q \in Seq(S) /\ Len(p \o q) = Len(p) + Len(q)
      /\ Len(p) \in Nat /\ Len(q) \in Nat
      /\ \A i \in 1..Len(p) + Len(q) :
           (p \o q)[i] = IF i <= Len(p) THEN p[i] ELSE q[i - Len(p)]
  BY ConcatProperties, LenProperties
<1>2. Elems(p \o q) \subseteq Elems(p) \cup Elems(q)
  BY <1>1 DEF Elems
<1>3. Elems(p) \subseteq Elems(p \o q)
  <2>1. ASSUME NEW k \in 1..Len(p) PROVE p[k] \in Elems(p \o q)
    BY <1>1, k \in 1..Len(p \o q) DEF Elems
  <2>2. QED
    BY <2>1 DEF Elems
<1>4. Elems(q) \subseteq Elems(p \o q)
  <2>1. ASSUME NEW k \in 1..Len(q) PROVE q[k] \in Elems(p \o q)
    <3>1. k + Len(p) \in 1..Len(p \o q) /\ (p \o q)[k + Len(p)] = q[k]
      BY <1>1
    <3>2. QED
      BY <3>1 DEF Elems
  <2>2. QED
    BY <2>1 DEF Elems
<1>5. QED
  BY <1>1, <1>2, <1>3, <1>4

\* A list split at a place holds what its halves hold.
LEMMA HeldSplit ==
  ASSUME NEW S, NEW q \in Seq(S), NEW n \in 0..Len(q)
  PROVE  LET a == SubSeq(q, 1, n)
             b == SubSeq(q, n + 1, Len(q)) IN
         /\ a \in Seq(S) /\ Len(a) = n
         /\ b \in Seq(S) /\ Len(b) = Len(q) - n
         /\ \A i \in 1..n : a[i] = q[i]
         /\ \A i \in 1..(Len(q) - n) : b[i] = q[n + i]
         /\ Held(q) = Held(a) \cup Held(b)
<1> DEFINE a == SubSeq(q, 1, n)
           b == SubSeq(q, n + 1, Len(q))
<1>1. q \in [1..Len(q) -> S] /\ Len(q) \in Nat
  BY LenProperties
<1>2. /\ a \in Seq(S) /\ Len(a) = n
      /\ \A i \in 1..n : a[i] = q[i]
  <2>1. \A i \in 1..n : q[i] \in S
    BY <1>1
  <2>2. QED
    BY <1>1, <2>1, SubSeqProperties
<1>3. /\ b \in Seq(S) /\ Len(b) = Len(q) - n
      /\ \A i \in 1..(Len(q) - n) : b[i] = q[n + i]
  <2> DEFINE lo == n + 1
             hi == Len(q)
  <2>1. lo \in Int /\ hi \in Int /\ \A i \in lo..hi : q[i] \in S
    BY <1>1
  <2>2. lo = n + 1 /\ hi = Len(q) /\ b = SubSeq(q, lo, hi)
    OBVIOUS
  <2> HIDE DEF lo, hi, b
  <2>3. /\ SubSeq(q, lo, hi) \in Seq(S)
        /\ Len(SubSeq(q, lo, hi)) = IF lo <= hi THEN hi - lo + 1 ELSE 0
        /\ \A i \in 1..(hi - lo + 1) : SubSeq(q, lo, hi)[i] = q[lo + i - 1]
    BY <2>1, SubSeqProperties
  <2>4. \A i \in 1..(hi - n) : i \in 1..(hi - lo + 1) /\ lo + i - 1 = n + i
    BY <1>1, <2>1, <2>2
  <2>5. b \in Seq(S) /\ Len(b) = Len(q) - n
    <3>1. b \in Seq(S) /\ Len(b) = IF lo <= hi THEN hi - lo + 1 ELSE 0
      BY <2>2, <2>3
    <3>2. lo = n + 1 /\ hi = Len(q)
      BY <2>2
    <3>3. Len(q) \in Nat /\ n \in Nat /\ n <= Len(q)
      BY <1>1
    <3>4. lo <= hi => hi - lo + 1 = Len(q) - n
      BY <3>2, <3>3
    <3>5. ~(lo <= hi) => 0 = Len(q) - n
      BY <3>2, <3>3
    <3>6. QED
      BY <3>1, <3>4, <3>5
  <2>6. \A i \in 1..(hi - n) : b[i] = q[n + i]
    BY <2>2, <2>3, <2>4
  <2>7. QED
    BY <2>2, <2>5, <2>6
<1> HIDE DEF a, b
<1>4. Held(q) \subseteq Held(a) \cup Held(b)
  <2>1. ASSUME NEW k \in 1..Len(q) PROVE q[k].index \in Held(a) \cup Held(b)
    <3>1. CASE k <= n
      BY <1>1, <1>2, <3>1 DEF Held
    <3>2. CASE k > n
      <4>1. k - n \in 1..Len(b) /\ b[k - n] = q[k]
        BY <1>1, <1>3, <3>2
      <4>2. QED
        BY <4>1 DEF Held
    <3>3. QED
      BY <1>1, <3>1, <3>2
  <2>2. QED
    BY <2>1 DEF Held
<1>5. Held(a) \subseteq Held(q)
  BY <1>1, <1>2 DEF Held
<1>6. Held(b) \subseteq Held(q)
  <2>1. ASSUME NEW k \in 1..Len(b) PROVE b[k].index \in Held(q)
    <3>1. n + k \in 1..Len(q) /\ b[k] = q[n + k]
      BY <1>1, <1>3
    <3>2. QED
      BY <3>1 DEF Held
  <2>2. QED
    BY <2>1 DEF Held
<1>7. QED
  BY <1>2, <1>3, <1>4, <1>5, <1>6 DEF a, b

\* A list without its head holds everything but the head.
LEMMA HeldTail ==
  ASSUME NEW S, NEW q \in Seq(S), q # <<>>
  PROVE  /\ Tail(q) \in Seq(S) /\ Len(Tail(q)) = Len(q) - 1
         /\ Len(q) \in Nat \ {0}
         /\ Held(q) = {q[1].index} \cup Held(Tail(q))
<1>1. /\ Tail(q) \in Seq(S) /\ Len(Tail(q)) = Len(q) - 1
      /\ \A i \in 1..Len(Tail(q)) : Tail(q)[i] = q[i + 1]
  BY HeadTailProperties
<1>2. Len(q) \in Nat \ {0}
  BY EmptySeq, LenProperties
<1>3. Held(q) \subseteq {q[1].index} \cup Held(Tail(q))
  <2>1. ASSUME NEW k \in 1..Len(q), k # 1 PROVE q[k].index \in Held(Tail(q))
    <3>1. k - 1 \in 1..Len(Tail(q)) /\ Tail(q)[k - 1] = q[k]
      BY <1>1, <1>2, <2>1
    <3>2. QED
      BY <3>1 DEF Held
  <2>2. QED
    BY <2>1 DEF Held
<1>4. Held(Tail(q)) \subseteq Held(q)
  <2>1. ASSUME NEW k \in 1..Len(Tail(q)) PROVE Tail(q)[k].index \in Held(q)
    <3>1. k + 1 \in 1..Len(q) /\ Tail(q)[k] = q[k + 1]
      BY <1>1, <1>2
    <3>2. QED
      BY <3>1 DEF Held
  <2>2. QED
    BY <2>1 DEF Held
<1>5. q[1].index \in Held(q)
  BY <1>2 DEF Held
<1>6. QED
  BY <1>1, <1>2, <1>3, <1>4, <1>5

\* A list with one more command holds that command more.
LEMMA HeldAppend ==
  ASSUME NEW S, NEW q \in Seq(S), NEW e \in S
  PROVE  /\ Append(q, e) \in Seq(S) /\ Len(Append(q, e)) = Len(q) + 1
         /\ Len(q) \in Nat
         /\ Held(Append(q, e)) = Held(q) \cup {e.index}
<1> DEFINE r == Append(q, e)
<1>1. /\ r \in Seq(S) /\ Len(r) = Len(q) + 1 /\ Len(q) \in Nat
      /\ \A i \in 1..Len(q) : r[i] = q[i]
      /\ r[Len(q) + 1] = e
  BY AppendProperties, LenProperties
<1> HIDE DEF r
<1>2. Held(r) \subseteq Held(q) \cup {e.index}
  BY <1>1 DEF Held
<1>3. Held(q) \subseteq Held(r)
  BY <1>1 DEF Held
<1>4. e.index \in Held(r)
  <2>1. Len(q) + 1 \in 1..Len(r)
    BY <1>1
  <2>2. QED
    BY <1>1, <2>1 DEF Held
<1>5. QED
  BY <1>1, <1>2, <1>3, <1>4 DEF r

(* Three finite sets with a, b and c places, n together, that cover n numbers. *)
Packed(A, B, C, a, b, c, n) ==
  /\ a \in Nat /\ b \in Nat /\ c \in Nat /\ n \in Nat
  /\ IsFiniteSet(A) /\ IsFiniteSet(B) /\ IsFiniteSet(C)
  /\ Cardinality(A) <= a /\ Cardinality(B) <= b /\ Cardinality(C) <= c
  /\ A \cup B \cup C = 1..n /\ a + b + c = n

\* Sets so packed do not meet, and fill their places.
LEMMA Pigeons ==
  ASSUME NEW A, NEW B, NEW C, NEW a, NEW b, NEW c, NEW n, Packed(A, B, C, a, b, c, n)
  PROVE  /\ A \cap B = {} /\ A \cap C = {} /\ B \cap C = {}
         /\ Cardinality(A) = a /\ Cardinality(B) = b /\ Cardinality(C) = c
<1> USE DEF Packed
<1> DEFINE U == A \cup B
<1>1. /\ IsFiniteSet(U) /\ Cardinality(U) = Cardinality(A) + Cardinality(B) - Cardinality(A \cap B)
  BY FS_Union
<1>2. IsFiniteSet(A \cap B)
  BY FS_Intersection
<1>3. /\ Cardinality(A) \in Nat /\ Cardinality(B) \in Nat /\ Cardinality(C) \in Nat
      /\ Cardinality(U) \in Nat /\ Cardinality(A \cap B) \in Nat
  BY <1>1, <1>2, FS_CardinalityType
<1>4. IsFiniteSet(U \cap C)
  BY <1>1, FS_Intersection
<1>5. Cardinality(U \cap C) \in Nat
  BY <1>4, FS_CardinalityType
<1>6. Cardinality(U \cup C) = Cardinality(U) + Cardinality(C) - Cardinality(U \cap C)
  BY <1>1, FS_Union
<1>7. Cardinality(1..n) = n
  <2>1. 1 \in Int /\ n \in Int
    OBVIOUS
  <2>2. Cardinality(1..n) = IF 1 > n THEN 0 ELSE n - 1 + 1
    BY <2>1, FS_Interval
  <2>3. QED
    BY <2>2
<1>8. U \cup C = 1..n
  OBVIOUS
<1> HIDE DEF U
<1>9. Cardinality(U) + Cardinality(C) - Cardinality(U \cap C) = n
  BY <1>6, <1>7, <1>8
<1>10. /\ Cardinality(A \cap B) = 0 /\ Cardinality(U \cap C) = 0
       /\ Cardinality(A) = a /\ Cardinality(B) = b /\ Cardinality(C) = c
  BY <1>1, <1>3, <1>5, <1>9
<1>11. A \cap B = {} /\ U \cap C = {}
  BY <1>2, <1>4, <1>10, FS_EmptySet
<1>12. QED
  BY <1>10, <1>11 DEF U

-----------------------------------------------------------------------------
(* The completion mark. *)

\* `mark` stands on the longest unbroken run of the members of `pushed`, and
\* `above` is what was pushed above it.
Marks(pushed, mark, above) ==
  /\ mark \in Int /\ mark >= -1
  /\ \A i \in 1..mark : i \in pushed
  /\ above = {i \in pushed : i > mark}
  /\ Greater(mark, 0) + 1 \notin pushed

\* advance_completed moves the mark over what is done.
LEMMA AdvanceMarks ==
  ASSUME NEW s, NEW pushed, NEW done, NEW mark, NEW above,
         s.next_index \in Nat \ {0},
         s.completed_index = mark, s.finished = above,
         DOMAIN s = Fields,
         pushed \subseteq 1..(s.next_index - 1),
         done \subseteq 1..(s.next_index - 1),
         pushed \cap done = {},
         Marks(pushed, mark, above)
  PROVE  Marks(pushed \cup done, AdvanceCompleted(s, done).completed_index,
               AdvanceCompleted(s, done).finished)
<1> DEFINE N    == s.next_index
           all  == above \cup done
           from == IF mark < 0 THEN 1 ELSE mark + 1
           isGap(g) == g \notin all /\ \A j \in from..(g - 1) : j \in all
           gap  == CHOOSE g \in from..N : isGap(g)
           t    == AdvanceCompleted(s, done)
<1>1. mark \in Int /\ mark >= -1 /\ N \in Nat \ {0}
  BY DEF Marks
<1>2. mark < N
  <2>1. CASE mark >= 1
    <3>1. mark \in pushed
      BY <1>1, <2>1 DEF Marks
    <3>2. QED
      BY <1>1, <3>1
  <2>2. QED
    BY <1>1, <2>1
<1>3. from \in Nat \ {0} /\ from <= N /\ from = Greater(mark, 0) + 1
  BY <1>1, <1>2 DEF Greater
<1>4. N \notin all
  BY <1>1 DEF Marks
<1>5. \E g \in from..N : isGap(g)
  <2> DEFINE T == {g \in from..N : g \notin all}
  <2>1. T \subseteq Nat /\ N \in T
    BY <1>1, <1>3, <1>4
  <2> HIDE DEF T
  <2>2. PICK g \in T : \A k \in T : g <= k
    BY <2>1, LeastNat
  <2> USE DEF T
  <2> HIDE DEF all, from
  <2>3. g \in from..N /\ g \notin all
    BY <2>2
  <2>4. ASSUME NEW j \in from..(g - 1) PROVE j \in all
    <3>1. j \in from..N /\ j < g
      BY <1>1, <1>3, <2>3
    <3>2. CASE j \notin all
      <4>1. j \in T
        BY <3>1, <3>2
      <4>2. g <= j
        BY <2>2, <4>1
      <4>3. QED
        BY <1>1, <1>3, <2>3, <3>1, <4>2
    <3>3. QED
      BY <3>2
  <2>5. QED
    BY <2>3, <2>4
<1>6. gap \in from..N /\ isGap(gap)
  <2> HIDE DEF isGap
  <2>1. QED
    BY <1>5
<1>7. /\ t.completed_index = IF gap = from THEN mark ELSE gap - 1
      /\ t.finished = all \ (from..(gap - 1))
  BY DEF AdvanceCompleted, Fields
<1>8. /\ gap \in Nat \ {0} /\ from <= gap
      /\ gap \notin above /\ gap \notin done
      /\ \A j \in from..(gap - 1) : j \in above \cup done
  BY <1>1, <1>3, <1>6
<1>9. /\ from = IF mark < 0 THEN 1 ELSE mark + 1
      /\ all = above \cup done
  OBVIOUS
<1> HIDE DEF gap, from, all, N, t
<1> DEFINE m == t.completed_index
           P == pushed \cup done
<1>10. m \in Int /\ m >= -1 /\ Greater(m, 0) + 1 = gap /\ (m >= 1 => m = gap - 1)
       /\ (m < gap)
  BY <1>1, <1>3, <1>7, <1>8, <1>9 DEF Greater
<1>11. gap \notin P
  BY <1>1, <1>3, <1>8, <1>9 DEF Marks
<1>12. \A i \in 1..m : i \in P
  BY <1>1, <1>8, <1>9, <1>10 DEF Marks
<1>13. t.finished = {i \in P : i > m}
  <2>1. \A i \in P : i \in Nat \ {0}
    BY <1>1 DEF N
  <2>2. ASSUME NEW i \in P PROVE i \in t.finished <=> i > m
    <3>1. i \in t.finished <=> (i \in above \/ i \in done) /\ i \notin from..(gap - 1)
      BY <1>7, <1>9
    <3>2. i \in above <=> i \in pushed /\ i > mark
      BY DEF Marks
    <3>3. i \in done => i > mark
      <4>1. i \in done => i \notin 1..mark
        BY DEF Marks
      <4>2. QED
        BY <1>1, <2>1, <4>1
    <3>4. i # gap
      BY <1>11
    <3>5. QED
      BY <1>1, <1>3, <1>8, <1>9, <1>10, <2>1, <3>1, <3>2, <3>3, <3>4, <1>7
  <2>3. \A i \in t.finished : i \in P
    BY <1>7, <1>9 DEF Marks
  <2>4. QED
    BY <2>2, <2>3
<1>14. QED
  BY <1>10, <1>11, <1>12, <1>13 DEF Marks, t

-----------------------------------------------------------------------------
(* The books. *)

ToolStops == [index : Nat, tag : Nat]

Pushes == [index : Nat, result : {"ok", "failed", "cancelled"}]

\* The executing command and the blended tail it answers for.
ExecList(s) ==
  IF s.executing = NoCmd THEN <<>> ELSE <<s.executing.index>> \o s.executing.blended

Places(s) == Len(s.pending) + Len(s.tool_stops) + Len(ExecList(s))

Engine(s) == Held(s.pending) \cup Held(s.tool_stops) \cup Elems(ExecList(s))

LedgerTypes(s) ==
  /\ DOMAIN s = Fields
  /\ s.next_index \in Nat \ {0}
  /\ s.pending \in Seq(Entry)
  /\ s.executing.index \in Nat /\ s.executing.blended \in Seq(Nat)
  /\ s.tool_stops \in Seq(ToolStops)
  /\ s.completes \in Seq(Pushes)

\* The books balance with the `n` commands of `hand` taken from the engine and
\* not answered yet: engine, pushes and hand have a place for each accepted
\* index, and hold them all.
Books(s, n, hand) ==
  /\ LedgerTypes(s)
  /\ n \in Nat /\ IsFiniteSet(hand) /\ Cardinality(hand) <= n
  /\ Places(s) + Len(s.completes) + n = s.next_index - 1
  /\ Engine(s) \cup Held(s.completes) \cup hand = 1..(s.next_index - 1)
  /\ Marks(Held(s.completes), s.completed_index, s.finished)

\* The fields the books are about.
Ledger ==
  {"next_index", "pending", "executing", "tool_stops", "completes",
   "completed_index", "finished"}

\* `t` has the ledger of `s`.
SameLedger(s, t) == Keeps(s, t, Fields \ Ledger)

Balanced(s) == Books(s, 0, {})

\* What SameLedger says field by field.
LEMMA LedgerFields ==
  ASSUME NEW s, NEW t, SameLedger(s, t)
  PROVE  /\ DOMAIN t = Fields
         /\ t.next_index = s.next_index
         /\ t.pending = s.pending /\ t.executing = s.executing
         /\ t.tool_stops = s.tool_stops /\ t.completes = s.completes
         /\ t.completed_index = s.completed_index /\ t.finished = s.finished
  BY DEF SameLedger, Keeps, Ledger, Fields

\* A step that leaves the ledger alone leaves the books as they are.
LEMMA SameBooks ==
  ASSUME NEW s, NEW t, NEW n, NEW hand, Books(s, n, hand), SameLedger(s, t)
  PROVE  Books(t, n, hand)
  BY LedgerFields DEF Books, LedgerTypes, Places, Engine, ExecList

\* The lists of the books are lists.
LEMMA BookLists ==
  ASSUME NEW s, LedgerTypes(s)
  PROVE  /\ s.next_index \in Nat \ {0}
         /\ ExecList(s) \in Seq(Nat)
         /\ s.pending \in Seq(Entry)
         /\ Len(s.pending) \in Nat /\ Len(s.tool_stops) \in Nat
         /\ Len(ExecList(s)) \in Nat /\ Len(s.completes) \in Nat
         /\ s.executing # NoCmd =>
              /\ Len(ExecList(s)) = 1 + Len(s.executing.blended)
              /\ Elems(ExecList(s)) = {s.executing.index} \cup Elems(s.executing.blended)
         /\ s.executing = NoCmd => Len(ExecList(s)) = 0 /\ Elems(ExecList(s)) = {}
         /\ \A e \in Entry : e.index \in Nat
         /\ \A e \in ToolStops : e.index \in Nat
         /\ \A e \in Pushes : e.index \in Nat
<1>1. /\ s.executing.index \in Nat /\ s.executing.blended \in Seq(Nat)
      /\ s.tool_stops \in Seq(ToolStops) /\ s.completes \in Seq(Pushes)
      /\ s.pending \in Seq(Entry)
      /\ s.next_index \in Nat \ {0}
  BY DEF LedgerTypes
<1> DEFINE x == s.executing.index
           b == s.executing.blended
<1>2. x \in Nat /\ b \in Seq(Nat)
  BY <1>1
<1> HIDE DEF x, b
<1>3. <<x>> \in Seq(Nat) /\ Len(<<x>>) = 1 /\ Elems(<<x>>) = {x}
  BY <1>2 DEF Elems
<1>4. /\ <<x>> \o b \in Seq(Nat) /\ Len(<<x>> \o b) = 1 + Len(b)
      /\ Elems(<<x>> \o b) = {x} \cup Elems(b)
  <2> DEFINE y == <<x>>
  <2>1. y \in Seq(Nat) /\ b \in Seq(Nat)
    BY <1>2, <1>3
  <2> HIDE DEF y
  <2>2. y \o b \in Seq(Nat) /\ Len(y \o b) = Len(y) + Len(b) /\ Elems(y \o b) = Elems(y) \cup Elems(b)
    BY <2>1, ElemsConcat
  <2>3. QED
    BY <1>3, <2>2 DEF y
<1>5. <<>> \in Seq(Nat) /\ Len(<<>>) = 0 /\ Elems(<<>>) = {}
  BY EmptySeq DEF Elems
<1>6. ExecList(s) = IF s.executing = NoCmd THEN <<>> ELSE <<x>> \o b
  BY DEF ExecList, x, b
<1>7. ExecList(s) \in Seq(Nat)
  BY <1>4, <1>5, <1>6
<1>8. /\ Len(s.pending) \in Nat /\ Len(s.tool_stops) \in Nat
      /\ Len(ExecList(s)) \in Nat /\ Len(s.completes) \in Nat
  BY <1>1, <1>7, LenProperties
<1>9. /\ \A e \in Entry : e.index \in Nat
      /\ \A e \in ToolStops : e.index \in Nat
      /\ \A e \in Pushes : e.index \in Nat
  BY DEF Entry, ToolStops, Pushes
<1>10. QED
  BY <1>1, <1>4, <1>5, <1>6, <1>7, <1>8, <1>9 DEF x, b

\* Balanced books hold every index once.
LEMMA BooksDisjoint ==
  ASSUME NEW s, NEW n, NEW hand, Books(s, n, hand)
  PROVE  /\ Engine(s) \cap Held(s.completes) = {}
         /\ Engine(s) \cap hand = {}
         /\ Held(s.completes) \cap hand = {}
         /\ Cardinality(Engine(s)) = Places(s)
         /\ Cardinality(Held(s.completes)) = Len(s.completes)
<1> DEFINE A == Held(s.pending)
           B == Held(s.tool_stops)
           C == Elems(ExecList(s))
           P == Held(s.completes)
<1>1. LedgerTypes(s)
  BY DEF Books
<1>2. /\ ExecList(s) \in Seq(Nat) /\ s.pending \in Seq(Entry)
      /\ s.tool_stops \in Seq(ToolStops) /\ s.completes \in Seq(Pushes)
      /\ \A e \in Entry : e.index \in Nat
      /\ \A e \in ToolStops : e.index \in Nat
      /\ \A e \in Pushes : e.index \in Nat
      /\ Len(s.pending) \in Nat /\ Len(s.tool_stops) \in Nat
      /\ Len(ExecList(s)) \in Nat /\ Len(s.completes) \in Nat
      /\ s.next_index \in Nat \ {0}
  BY <1>1, BookLists DEF LedgerTypes
<1> DEFINE p == Len(s.pending)
           q == Len(s.tool_stops)
           x == Len(ExecList(s))
<1>0. p \in Nat /\ q \in Nat /\ x \in Nat /\ Places(s) = p + q + x
  BY <1>2 DEF Places
<1>3. IsFiniteSet(A) /\ Cardinality(A) \in Nat /\ Cardinality(A) <= p
  BY <1>2, IndicesList, ElemsCount
<1>4. IsFiniteSet(B) /\ Cardinality(B) \in Nat /\ Cardinality(B) <= q
  BY <1>2, IndicesList, ElemsCount
<1>5. IsFiniteSet(P) /\ Cardinality(P) \in Nat /\ Cardinality(P) <= Len(s.completes)
  BY <1>2, IndicesList, ElemsCount
<1>6. IsFiniteSet(C) /\ Cardinality(C) \in Nat /\ Cardinality(C) <= x
  BY <1>2, ElemsCount
<1> HIDE DEF A, B, C, P, p, q, x
<1>7. /\ IsFiniteSet(A \cup B) /\ Cardinality(A \cup B) \in Nat
      /\ Cardinality(A \cup B) <= p + q
  <2>1. IsFiniteSet(A \cap B) /\ Cardinality(A \cap B) \in Nat
    BY <1>3, FS_Intersection, FS_CardinalityType
  <2>2. /\ IsFiniteSet(A \cup B)
        /\ Cardinality(A \cup B) = Cardinality(A) + Cardinality(B) - Cardinality(A \cap B)
    BY <1>3, <1>4, FS_Union
  <2>3. Cardinality(A \cup B) \in Nat
    BY <2>2, FS_CardinalityType
  <2> DEFINE a == Cardinality(A)
             b == Cardinality(B)
             m == Cardinality(A \cap B)
             u == Cardinality(A \cup B)
  <2>4. a \in Nat /\ b \in Nat /\ m \in Nat /\ u = a + b - m /\ a <= p /\ b <= q
    BY <1>3, <1>4, <2>1, <2>2
  <2> HIDE DEF a, b, m, u
  <2>5. u <= p + q
    BY <1>0, <2>4
  <2>6. QED
    BY <2>2, <2>3, <2>5 DEF u
<1>8. /\ IsFiniteSet((A \cup B) \cup C)
      /\ Cardinality((A \cup B) \cup C) <= Places(s)
  <2>1. IsFiniteSet((A \cup B) \cap C) /\ Cardinality((A \cup B) \cap C) \in Nat
    BY <1>7, FS_Intersection, FS_CardinalityType
  <2>2. /\ IsFiniteSet((A \cup B) \cup C)
        /\ Cardinality((A \cup B) \cup C) =
             Cardinality(A \cup B) + Cardinality(C) - Cardinality((A \cup B) \cap C)
    BY <1>6, <1>7, FS_Union
  <2>3. QED
    BY <1>0, <1>6, <1>7, <2>1, <2>2
<1>9. Engine(s) = (A \cup B) \cup C
  BY DEF Engine, A, B, C
<1>10. Places(s) \in Nat
  BY <1>0
<1> DEFINE E == Engine(s)
           N == s.next_index - 1
           e == Places(s)
           c == Len(s.completes)
<1>11. /\ e \in Nat /\ c \in Nat /\ n \in Nat /\ N \in Nat
       /\ IsFiniteSet(E) /\ IsFiniteSet(P) /\ IsFiniteSet(hand)
       /\ Cardinality(E) <= e /\ Cardinality(P) <= c /\ Cardinality(hand) <= n
       /\ E \cup P \cup hand = 1..N /\ e + c + n = N
  BY <1>2, <1>5, <1>8, <1>9, <1>10 DEF Books, P
<1> HIDE DEF E, N, e, c, P
<1>a. Packed(E, P, hand, e, c, n, N)
  BY <1>11 DEF Packed
<1>12. /\ E \cap P = {} /\ E \cap hand = {} /\ P \cap hand = {}
       /\ Cardinality(E) = e /\ Cardinality(P) = c
  BY <1>a, Pigeons
<1>13. QED
  BY <1>12 DEF E, P, e, c

-----------------------------------------------------------------------------
(* Taking commands out of the engine, and answering them. *)

\* `t` is `s` with the commands of `l` taken out of the engine.
Yields(s, t, l) ==
  /\ LedgerTypes(t) /\ l \in Seq(Nat)
  /\ t.next_index = s.next_index /\ t.completes = s.completes
  /\ t.completed_index = s.completed_index /\ t.finished = s.finished
  /\ Places(s) = Places(t) + Len(l)
  /\ Engine(s) = Engine(t) \cup Elems(l)

\* The number of places is a number.
LEMMA PlacesType ==
  ASSUME NEW s, LedgerTypes(s)
  PROVE  Places(s) \in Nat
<1> DEFINE a == Len(s.pending)
           b == Len(s.tool_stops)
           c == Len(ExecList(s))
<1>1. a \in Nat /\ b \in Nat /\ c \in Nat
  BY BookLists
<1>2. Places(s) = a + b + c
  BY DEF Places
<1> HIDE DEF a, b, c
<1>3. QED
  BY <1>1, <1>2

\* Leaving the ledger alone takes nothing out.
LEMMA SameYields ==
  ASSUME NEW s, NEW t, LedgerTypes(s), SameLedger(s, t)
  PROVE  Yields(s, t, <<>>)
<1>1. LedgerTypes(t) /\ Places(t) = Places(s) /\ Engine(t) = Engine(s)
  BY LedgerFields DEF LedgerTypes, Places, Engine, ExecList
<1>2. <<>> \in Seq(Nat) /\ Len(<<>>) = 0 /\ Elems(<<>>) = {}
  BY EmptySeq DEF Elems
<1>3. Places(s) \in Nat
  BY PlacesType
<1>4. QED
  BY <1>1, <1>2, <1>3, LedgerFields DEF Yields

\* Taking out twice takes out both.
LEMMA YieldsTrans ==
  ASSUME NEW s, NEW t, NEW u, NEW l, NEW m, Yields(s, t, l), Yields(t, u, m)
  PROVE  Yields(s, u, l \o m)
<1>1. /\ l \o m \in Seq(Nat) /\ Len(l \o m) = Len(l) + Len(m)
      /\ Elems(l \o m) = Elems(l) \cup Elems(m)
  BY ElemsConcat DEF Yields
<1>2. Len(l) \in Nat /\ Len(m) \in Nat /\ Places(u) \in Nat /\ Places(t) \in Nat
  BY PlacesType, LenProperties DEF Yields
<1>3. Places(s) = Places(t) + Len(l) /\ Places(t) = Places(u) + Len(m)
  BY DEF Yields
<1>4. Places(s) = Places(u) + Len(l \o m)
  BY <1>1, <1>2, <1>3
<1>5. Engine(s) = Engine(u) \cup Elems(l \o m)
  BY <1>1 DEF Yields
<1>6. QED
  BY <1>1, <1>4, <1>5 DEF Yields

\* Before and after it the ledger may be left alone.
LEMMA YieldsSame ==
  ASSUME NEW s, NEW t, NEW u, NEW v, NEW l,
         SameLedger(s, t), Yields(t, u, l), SameLedger(u, v)
  PROVE  Yields(s, v, l)
<1>1. Places(t) = Places(s) /\ Engine(t) = Engine(s)
  BY LedgerFields DEF Places, Engine, ExecList
<1>2. LedgerTypes(v) /\ Places(v) = Places(u) /\ Engine(v) = Engine(u)
  BY LedgerFields DEF Yields, LedgerTypes, Places, Engine, ExecList
<1>3. QED
  BY <1>1, <1>2, LedgerFields DEF Yields

\* What is taken out of the engine is in the hand.
LEMMA YieldsBooks ==
  ASSUME NEW s, NEW t, NEW l, NEW n, NEW hand, Books(s, n, hand), Yields(s, t, l)
  PROVE  Books(t, n + Len(l), hand \cup Elems(l))
<1>1. /\ IsFiniteSet(Elems(l)) /\ Cardinality(Elems(l)) \in Nat
      /\ Cardinality(Elems(l)) <= Len(l) /\ Len(l) \in Nat
  BY ElemsCount DEF Yields
<1>2. n \in Nat /\ IsFiniteSet(hand) /\ Cardinality(hand) <= n
  BY DEF Books
<1>3. /\ IsFiniteSet(hand \cup Elems(l))
      /\ Cardinality(hand \cup Elems(l)) =
           Cardinality(hand) + Cardinality(Elems(l)) - Cardinality(hand \cap Elems(l))
  BY <1>1, <1>2, FS_Union
<1>4. Cardinality(hand) \in Nat /\ Cardinality(hand \cap Elems(l)) \in Nat
  BY <1>2, FS_Intersection, FS_CardinalityType
<1> DEFINE a == Cardinality(hand)
           b == Cardinality(Elems(l))
           c == Cardinality(hand \cap Elems(l))
           k == Len(l)
           p == Places(t)
           q == Len(t.completes)
           N == t.next_index - 1
<1>5. a \in Nat /\ b \in Nat /\ c \in Nat /\ k \in Nat /\ a <= n /\ b <= k
  BY <1>1, <1>2, <1>4
<1>6. p \in Nat /\ q \in Nat /\ N \in Nat
  BY PlacesType, BookLists DEF Yields
<1>7. (p + k) + q + n = N
  BY DEF Books, Yields
<1>8. Engine(t) \cup Held(t.completes) \cup (hand \cup Elems(l)) = 1..N
  BY DEF Books, Yields
<1>9. Cardinality(hand \cup Elems(l)) = a + b - c
  BY <1>3
<1> HIDE DEF a, b, c, k, p, q, N
<1>10. a + b - c <= n + k /\ p + q + (n + k) = N /\ n + k \in Nat
  BY <1>2, <1>5, <1>6, <1>7
<1>11. Marks(Held(t.completes), t.completed_index, t.finished)
  BY DEF Books, Yields
<1>12. LedgerTypes(t)
  BY DEF Yields
<1>13. QED
  BY <1>3, <1>8, <1>9, <1>10, <1>11, <1>12 DEF Books, k, p, q, N

\* The pushes of a list of commands.
Answers(l, result) == [k \in 1..Len(l) |-> [index |-> l[k], result |-> result]]

\* `t` is `s` with the commands of `l` completed and pushed with `result`.
Settles(s, t, l, result) ==
  /\ DOMAIN t = Fields
  /\ t.next_index = s.next_index
  /\ t.pending = s.pending /\ t.executing = s.executing
  /\ t.tool_stops = s.tool_stops
  /\ t.completes = s.completes \o Answers(l, result)
  /\ t.completed_index = AdvanceCompleted(s, Elems(l)).completed_index
  /\ t.finished = AdvanceCompleted(s, Elems(l)).finished

\* The pushes of a list hold its commands.
LEMMA AnswersList ==
  ASSUME NEW l \in Seq(Nat), NEW result \in {"ok", "failed", "cancelled"}
  PROVE  /\ Answers(l, result) \in Seq(Pushes)
         /\ Len(Answers(l, result)) = Len(l) /\ Len(l) \in Nat
         /\ Held(Answers(l, result)) = Elems(l)
<1>1. l \in [1..Len(l) -> Nat] /\ Len(l) \in Nat
  BY LenProperties
<1>2. \A k \in 1..Len(l) : [index |-> l[k], result |-> result] \in Pushes
  BY <1>1 DEF Pushes
<1>3. Answers(l, result) \in Seq(Pushes) /\ Len(Answers(l, result)) = Len(l)
  BY <1>1, <1>2, IsASeq DEF Answers
<1>4. \A k \in 1..Len(l) : Answers(l, result)[k].index = l[k]
  BY DEF Answers
<1>5. QED
  BY <1>1, <1>3, <1>4 DEF Held, Elems

\* Concatenated lists of commands hold what their parts hold.
LEMMA HeldConcat ==
  ASSUME NEW S, NEW p \in Seq(S), NEW q \in Seq(S), \A e \in S : e.index \in Nat
  PROVE  /\ p \o q \in Seq(S) /\ Len(p \o q) = Len(p) + Len(q)
         /\ Held(p \o q) = Held(p) \cup Held(q)
<1>1. /\ p \o q \in Seq(S) /\ Len(p \o q) = Len(p) + Len(q)
      /\ Elems(p \o q) = Elems(p) \cup Elems(q)
  BY ElemsConcat
<1>2. \A r : Held(r) = {e.index : e \in Elems(r)}
  BY DEF Held, Elems
<1>3. QED
  BY <1>1, <1>2

\* Answering commands of the hand takes them out of the hand.
LEMMA SettlesBooks ==
  ASSUME NEW s, NEW t, NEW l \in Seq(Nat), NEW result \in {"ok", "failed", "cancelled"},
         NEW n \in Nat, NEW hand, IsFiniteSet(hand), Cardinality(hand) <= n,
         Books(s, n + Len(l), hand \cup Elems(l)), Settles(s, t, l, result)
  PROVE  Books(t, n, hand)
<1> DEFINE A == Answers(l, result)
           P == Held(s.completes)
           D == Elems(l)
           k == Len(l)
           p == Places(s)
           q == Len(s.completes)
           N == s.next_index
<1>1. LedgerTypes(s)
  BY DEF Books
<1>2. /\ A \in Seq(Pushes) /\ Len(A) = k /\ k \in Nat /\ Held(A) = D
  BY AnswersList
<1>3. /\ s.completes \in Seq(Pushes) /\ \A e \in Pushes : e.index \in Nat
      /\ N \in Nat \ {0} /\ q \in Nat /\ p \in Nat
  BY <1>1, BookLists, PlacesType DEF LedgerTypes
<1> HIDE DEF A
<1>4. /\ t.completes \in Seq(Pushes) /\ Len(t.completes) = q + k
      /\ Held(t.completes) = P \cup D
  <2> DEFINE C == s.completes
  <2>1. t.completes = C \o A
    BY DEF Settles, A
  <2>2. C \in Seq(Pushes) /\ A \in Seq(Pushes) /\ \A e \in Pushes : e.index \in Nat
    BY <1>2, <1>3
  <2> HIDE DEF C
  <2>3. /\ C \o A \in Seq(Pushes) /\ Len(C \o A) = Len(C) + Len(A)
        /\ Held(C \o A) = Held(C) \cup Held(A)
    BY <2>2, HeldConcat
  <2>4. QED
    BY <1>2, <2>1, <2>3 DEF C
<1>5. /\ P \cap (hand \cup D) = {}
  BY BooksDisjoint
<1>6. Engine(s) \cup P \cup (hand \cup D) = 1..(N - 1)
  BY DEF Books
<1>7. P \subseteq 1..(N - 1) /\ D \subseteq 1..(N - 1) /\ P \cap D = {}
  BY <1>5, <1>6
<1>8. Marks(P, s.completed_index, s.finished)
  BY DEF Books
<1>9. DOMAIN s = Fields
  BY <1>1 DEF LedgerTypes
<1>10. Marks(P \cup D, t.completed_index, t.finished)
  <2>1. Marks(P \cup D, AdvanceCompleted(s, D).completed_index, AdvanceCompleted(s, D).finished)
    <3> HIDE DEF P, D
    <3>1. QED
      BY <1>3, <1>7, <1>8, <1>9, AdvanceMarks DEF N
  <2>2. QED
    BY <2>1 DEF Settles
<1>11. LedgerTypes(t)
  BY <1>1, <1>4 DEF LedgerTypes, Settles
<1>12. Places(t) = p /\ Engine(t) = Engine(s)
  BY DEF Settles, Places, Engine, ExecList
<1>13. p + q + (n + k) = N - 1
  BY DEF Books
<1> HIDE DEF p, q, k, N
<1>14. p + (q + k) + n = N - 1
  BY <1>2, <1>3, <1>13
<1>15. t.next_index = N
  BY DEF Settles, N
<1>16. Places(t) + Len(t.completes) + n = t.next_index - 1
  BY <1>4, <1>12, <1>14, <1>15
<1>17. Engine(t) \cup Held(t.completes) \cup hand = 1..(t.next_index - 1)
  BY <1>4, <1>6, <1>12, <1>15
<1>18. QED
  BY <1>4, <1>10, <1>11, <1>16, <1>17 DEF Books

\* What is taken out of the engine and answered at once leaves the books balanced.
LEMMA AnswerBooks ==
  ASSUME NEW s, NEW t, NEW u, NEW l, NEW result \in {"ok", "failed", "cancelled"},
         NEW n, NEW hand,
         Books(s, n, hand), Yields(s, t, l), Settles(t, u, l, result)
  PROVE  Books(u, n, hand)
<1>1. Books(t, n + Len(l), hand \cup Elems(l))
  BY YieldsBooks
<1>2. n \in Nat /\ IsFiniteSet(hand) /\ Cardinality(hand) <= n
  BY DEF Books
<1>3. l \in Seq(Nat)
  BY DEF Yields
<1>4. QED
  BY <1>1, <1>2, <1>3, SettlesBooks

\* complete_cancelled answers the list it is given.
LEMMA CompleteCancelledSettles ==
  ASSUME NEW s, NEW l, DOMAIN s = Fields
  PROVE  Settles(s, CompleteCancelled(s, l), l, "cancelled")
<1> DEFINE a == AdvanceCompleted(s, Elems(l))
<1>1. /\ DOMAIN a = Fields
      /\ a.next_index = s.next_index
      /\ a.pending = s.pending /\ a.executing = s.executing
      /\ a.tool_stops = s.tool_stops /\ a.completes = s.completes
  BY DEF AdvanceCompleted, Fields
<1> HIDE DEF a
<1>2. CompleteCancelled(s, l) = [a EXCEPT !.completes = @ \o Answers(l, "cancelled")]
  BY DEF CompleteCancelled, PushComplete, Answers, a
<1>3. QED
  BY <1>1, <1>2 DEF Settles, Fields, a

-----------------------------------------------------------------------------
(* Dropping motion. *)

\* What `Yields` and the books say of types.
LEMMA BooksTypes ==
  ASSUME NEW s, NEW n, NEW hand, Books(s, n, hand)
  PROVE  LedgerTypes(s) /\ DOMAIN s = Fields
  BY DEF Books, LedgerTypes

\* A request on its way leaves the ledger alone.
LEMMA SendSame ==
  ASSUME NEW s, NEW req, DOMAIN s = Fields
  PROVE  SameLedger(s, Send(s, req)) /\ Send(s, req).planning = s.planning
  BY DEF Send, SameLedger, Keeps, Ledger, Fields

\* The list of nothing and of one command.
LEMMA ShortLists ==
  ASSUME NEW x \in Nat
  PROVE  /\ <<>> \in Seq(Nat) /\ Len(<<>>) = 0 /\ Elems(<<>>) = {}
         /\ <<x>> \in Seq(Nat) /\ Len(<<x>>) = 1 /\ Elems(<<x>>) = {x}
<1>1. <<>> \in Seq(Nat) /\ Len(<<>>) = 0 /\ Elems(<<>>) = {}
  BY EmptySeq DEF Elems
<1>2. <<x>> \in Seq(Nat) /\ Len(<<x>>) = 1 /\ Elems(<<x>>) = {x}
  BY DEF Elems
<1>3. QED
  BY <1>1, <1>2

\* NoCmd is a command's record.
LEMMA NoCmdType == NoCmd.index \in Nat /\ NoCmd.blended \in Seq(Nat)
<1>1. <<>> \in Seq(Nat)
  BY EmptySeq
<1>2. QED
  BY <1>1 DEF NoCmd

\* A head taken off the queue.
LEMMA HeadYields ==
  ASSUME NEW s, NEW t, LedgerTypes(s), s.pending # <<>>,
         Keeps(s, t, {"pending"} \cup (Fields \ Ledger)), t.pending = Tail(s.pending)
  PROVE  Yields(s, t, <<s.pending[1].index>>)
<1> DEFINE x == s.pending[1].index
           a == Len(s.pending)
           b == Len(s.tool_stops)
           c == Len(ExecList(s))
<1>1. /\ DOMAIN t = Fields
      /\ t.next_index = s.next_index /\ t.executing = s.executing
      /\ t.tool_stops = s.tool_stops /\ t.completes = s.completes
      /\ t.completed_index = s.completed_index /\ t.finished = s.finished
  BY DEF Keeps, Fields, Ledger
<1>2. /\ Tail(s.pending) \in Seq(Entry) /\ Len(Tail(s.pending)) = a - 1
      /\ a \in Nat \ {0}
      /\ Held(s.pending) = {x} \cup Held(Tail(s.pending))
  BY HeldTail DEF LedgerTypes
<1>3. x \in Nat
  <2>1. s.pending \in Seq(Entry) /\ 1 \in 1..Len(s.pending)
    BY <1>2 DEF LedgerTypes
  <2>2. s.pending[1] \in Entry
    BY <2>1
  <2>3. QED
    BY <2>2 DEF Entry
<1>4. b \in Nat /\ c \in Nat
  BY BookLists
<1>5. ExecList(t) = ExecList(s)
  BY <1>1 DEF ExecList
<1>6. Len(t.pending) = a - 1 /\ Len(t.tool_stops) = b /\ Len(ExecList(t)) = c
  BY <1>1, <1>2, <1>5
<1>7. LedgerTypes(t)
  BY <1>1, <1>2 DEF LedgerTypes
<1>8. Places(s) = a + b + c /\ Places(t) = (a - 1) + b + c
  BY <1>6 DEF Places
<1>9. <<x>> \in Seq(Nat) /\ Len(<<x>>) = 1 /\ Elems(<<x>>) = {x}
  BY <1>3, ShortLists
<1>10. Engine(s) = Engine(t) \cup {x}
  BY <1>1, <1>2, <1>5 DEF Engine
<1> HIDE DEF x, a, b, c
<1>11. Places(s) = Places(t) + Len(<<x>>)
  BY <1>2, <1>4, <1>8, <1>9
<1>12. QED
  BY <1>1, <1>7, <1>9, <1>10, <1>11 DEF Yields, x

\* The queue taken out.
LEMMA QueueYields ==
  ASSUME NEW s, NEW t, LedgerTypes(s),
         Keeps(s, t, {"pending"} \cup (Fields \ Ledger)), t.pending = <<>>
  PROVE  Yields(s, t, Indices(s.pending))
<1> DEFINE l == Indices(s.pending)
           a == Len(s.pending)
           b == Len(s.tool_stops)
           c == Len(ExecList(s))
<1>1. /\ DOMAIN t = Fields
      /\ t.next_index = s.next_index /\ t.executing = s.executing
      /\ t.tool_stops = s.tool_stops /\ t.completes = s.completes
      /\ t.completed_index = s.completed_index /\ t.finished = s.finished
  BY DEF Keeps, Fields, Ledger
<1>2. /\ l \in Seq(Nat) /\ Len(l) = a /\ Elems(l) = Held(s.pending)
  BY BookLists, IndicesList
<1>3. a \in Nat /\ b \in Nat /\ c \in Nat
  BY BookLists
<1>4. /\ t.pending \in Seq(Entry) /\ Len(t.pending) = 0 /\ Held(t.pending) = {}
  BY EmptySeq DEF Held
<1>5. ExecList(t) = ExecList(s)
  BY <1>1 DEF ExecList
<1>6. LedgerTypes(t)
  BY <1>1, <1>4 DEF LedgerTypes
<1>7. Len(t.tool_stops) = b /\ Len(ExecList(t)) = c
  BY <1>1, <1>5
<1>8. Places(s) = a + b + c /\ Places(t) = 0 + b + c
  BY <1>4, <1>7 DEF Places
<1>9. Engine(s) = Engine(t) \cup Elems(l)
  BY <1>1, <1>2, <1>4, <1>5 DEF Engine
<1> HIDE DEF l, a, b, c
<1>10. Places(s) = Places(t) + Len(l)
  BY <1>2, <1>3, <1>8
<1>11. QED
  BY <1>1, <1>2, <1>6, <1>9, <1>10 DEF Yields, l

\* The executing command and its blended tail taken out.
LEMMA ExecYields ==
  ASSUME NEW s, NEW t, LedgerTypes(s),
         Keeps(s, t, {"executing"} \cup (Fields \ Ledger)), t.executing = NoCmd
  PROVE  Yields(s, t, ExecList(s))
<1> DEFINE l == ExecList(s)
           a == Len(s.pending)
           b == Len(s.tool_stops)
           c == Len(l)
<1>1. /\ DOMAIN t = Fields
      /\ t.next_index = s.next_index /\ t.pending = s.pending
      /\ t.tool_stops = s.tool_stops /\ t.completes = s.completes
      /\ t.completed_index = s.completed_index /\ t.finished = s.finished
  BY DEF Keeps, Fields, Ledger
<1>2. l \in Seq(Nat) /\ a \in Nat /\ b \in Nat /\ c \in Nat
  BY BookLists
<1>3. LedgerTypes(t)
  BY <1>1, NoCmdType DEF LedgerTypes
<1>4. Len(ExecList(t)) = 0 /\ Elems(ExecList(t)) = {}
  BY <1>3, BookLists
<1>5. Len(t.tool_stops) = b /\ Len(t.pending) = a
  BY <1>1
<1>6. Places(s) = a + b + c /\ Places(t) = a + b + 0
  BY <1>4, <1>5 DEF Places
<1>7. Engine(s) = Engine(t) \cup Elems(l)
  BY <1>1, <1>4 DEF Engine
<1> HIDE DEF l, a, b, c
<1>8. Places(s) = Places(t) + Len(l)
  BY <1>2, <1>6 DEF c
<1>9. QED
  BY <1>1, <1>2, <1>3, <1>7, <1>8 DEF Yields, l

\* Tool stops taken out: the ones before a place, the one at it, or all.
LEMMA StopsYield ==
  ASSUME NEW s, NEW t, NEW out \in Seq(ToolStops), LedgerTypes(s),
         Keeps(s, t, {"tool_stops"} \cup (Fields \ Ledger)),
         t.tool_stops \in Seq(ToolStops),
         Len(s.tool_stops) = Len(t.tool_stops) + Len(out),
         Held(s.tool_stops) = Held(t.tool_stops) \cup Held(out)
  PROVE  Yields(s, t, Indices(out))
<1> DEFINE l == Indices(out)
           a == Len(s.pending)
           b == Len(t.tool_stops)
           c == Len(ExecList(s))
<1>1. /\ DOMAIN t = Fields
      /\ t.next_index = s.next_index /\ t.pending = s.pending
      /\ t.executing = s.executing /\ t.completes = s.completes
      /\ t.completed_index = s.completed_index /\ t.finished = s.finished
  BY DEF Keeps, Fields, Ledger
<1>2. /\ l \in Seq(Nat) /\ Len(l) = Len(out) /\ Elems(l) = Held(out)
  BY BookLists, IndicesList
<1>3. LedgerTypes(t)
  BY <1>1 DEF LedgerTypes
<1>4. a \in Nat /\ b \in Nat /\ c \in Nat /\ Len(l) \in Nat
  BY <1>2, <1>3, BookLists, LenProperties
<1>5. ExecList(t) = ExecList(s)
  BY <1>1 DEF ExecList
<1>6. Len(ExecList(t)) = c /\ Len(t.pending) = a
  BY <1>1, <1>5
<1>7. Places(s) = a + (b + Len(l)) + c /\ Places(t) = a + b + c
  BY <1>2, <1>6 DEF Places
<1>8. Engine(s) = Engine(t) \cup Elems(l)
  BY <1>1, <1>2, <1>5 DEF Engine
<1> HIDE DEF l, a, b, c
<1>9. Places(s) = Places(t) + Len(l)
  BY <1>4, <1>7
<1>10. QED
  BY <1>1, <1>2, <1>3, <1>8, <1>9 DEF Yields, l

\* drop_active takes out what it returns.
LEMMA DropActiveYields ==
  ASSUME NEW s, LedgerTypes(s)
  PROVE  Yields(s, DropActive(s), DroppedActive(s))
<1> DEFINE u == [s EXCEPT !.planning = 0,
                          !.pending = IF PlanningHead(s) THEN Tail(@) ELSE @,
                          !.action_state = IF s.executing # NoCmd THEN "idle" ELSE @]
           t == DropActive(s)
           h == IF PlanningHead(s) THEN <<s.planning>> ELSE <<>>
<1>1. DOMAIN s = Fields
  BY DEF LedgerTypes
<1>2. /\ Keeps(s, u, {"pending"} \cup (Fields \ Ledger))
      /\ u.pending = IF PlanningHead(s) THEN Tail(s.pending) ELSE s.pending
      /\ u.executing = s.executing
  BY <1>1 DEF Keeps, Fields, Ledger
<1>3. /\ Keeps(u, t, {"executing"} \cup (Fields \ Ledger)) /\ t.executing = NoCmd
  BY <1>1 DEF Keeps, Fields, Ledger, DropActive
<1> HIDE DEF u, t
<1>4. Yields(s, u, h)
  <2>1. CASE PlanningHead(s)
    <3>1. h = <<s.pending[1].index>> /\ s.pending # <<>>
      BY <2>1 DEF PlanningHead
    <3>2. QED
      BY <1>2, <2>1, <3>1, HeadYields
  <2>2. CASE ~PlanningHead(s)
    <3>1. SameLedger(s, u) /\ h = <<>>
      BY <1>2, <2>2 DEF SameLedger, Keeps, Ledger, Fields
    <3>2. QED
      BY <3>1, SameYields
  <2>3. QED
    BY <2>1, <2>2
<1> HIDE DEF h
<1>5. Yields(u, t, ExecList(u))
  BY <1>3, <1>4, ExecYields DEF Yields
<1>6. Yields(s, t, h \o ExecList(u))
  BY <1>4, <1>5, YieldsTrans
<1>7. DroppedActive(s) = h \o ExecList(u)
  BY <1>2 DEF DroppedActive, ExecList, h
<1>8. QED
  BY <1>6, <1>7 DEF t

\* drop_tool_stops takes out the tool stops.
LEMMA DropToolStopsYields ==
  ASSUME NEW s, LedgerTypes(s)
  PROVE  Yields(s, DropToolStops(s), Indices(s.tool_stops))
<1> DEFINE t == DropToolStops(s)
<1>1. DOMAIN s = Fields /\ s.tool_stops \in Seq(ToolStops)
  BY DEF LedgerTypes
<1>2. Keeps(s, t, {"tool_stops"} \cup (Fields \ Ledger)) /\ t.tool_stops = <<>>
  <2>1. CASE s.tool_stops = <<>>
    BY <1>1, <2>1 DEF DropToolStops, Keeps
  <2>2. CASE s.tool_stops # <<>>
    BY <1>1, <2>2 DEF DropToolStops, Keeps, Send, Fields, Ledger
  <2>3. QED
    BY <2>1, <2>2
<1> HIDE DEF t
<1>3. /\ t.tool_stops \in Seq(ToolStops) /\ Len(t.tool_stops) = 0
      /\ Held(t.tool_stops) = {}
  BY <1>2, EmptySeq DEF Held
<1>4. Len(s.tool_stops) \in Nat
  BY <1>1, LenProperties
<1>5. /\ Len(s.tool_stops) = Len(t.tool_stops) + Len(s.tool_stops)
      /\ Held(s.tool_stops) = Held(t.tool_stops) \cup Held(s.tool_stops)
  BY <1>3, <1>4
<1>6. QED
  BY <1>1, <1>2, <1>3, <1>5, StopsYield DEF t

\* drop_pending takes out the queue.
LEMMA DropPendingYields ==
  ASSUME NEW s, LedgerTypes(s)
  PROVE  Yields(s, DropPending(s), Indices(s.pending))
<1> DEFINE t == DropPending(s)
<1>1. Keeps(s, t, {"pending"} \cup (Fields \ Ledger)) /\ t.pending = <<>>
  BY DEF LedgerTypes, DropPending, Keeps, Fields, Ledger
<1> HIDE DEF t
<1>2. QED
  BY <1>1, QueueYields DEF t

\* A Cancel on its way changes nothing that drop_active looks at.
LEMMA CancelSent ==
  ASSUME NEW s, LedgerTypes(s)
  PROVE  LET a == Send(s, [op |-> "Cancel"]) IN
         /\ LedgerTypes(a) /\ SameLedger(s, a)
         /\ DroppedActive(a) = DroppedActive(s)
         /\ DropActive(a).pending = DropActive(s).pending
         /\ DropActive(a).tool_stops = s.tool_stops
<1> DEFINE a == Send(s, [op |-> "Cancel"])
<1>1. DOMAIN s = Fields
  BY DEF LedgerTypes
<1>2. SameLedger(s, a) /\ a.planning = s.planning
  BY <1>1, SendSame
<1> HIDE DEF a
<1>3. /\ DOMAIN a = Fields
      /\ a.pending = s.pending /\ a.executing = s.executing /\ a.tool_stops = s.tool_stops
  BY <1>2, LedgerFields
<1>4. LedgerTypes(a)
  BY <1>2, LedgerFields DEF LedgerTypes
<1>5. DroppedActive(a) = DroppedActive(s)
  BY <1>2, <1>3 DEF DroppedActive, PlanningHead
<1>6. DropActive(a).pending = DropActive(s).pending
         /\ DropActive(a).tool_stops = s.tool_stops
  BY <1>1, <1>2, <1>3 DEF DropActive, PlanningHead, Fields
<1>7. QED
  BY <1>2, <1>4, <1>5, <1>6 DEF a

\* drop_active_motion takes out what it returns.
LEMMA DropActiveMotionYields ==
  ASSUME NEW s, LedgerTypes(s)
  PROVE  /\ Yields(s, DropActiveMotion(s), DroppedActiveMotion(s))
         /\ DropActiveMotion(s).pending = DropActive(s).pending
<1> DEFINE a == Send(s, [op |-> "Cancel"])
           b == DropActive(a)
           c == DropToolStops(b)
           d == [c EXCEPT !.active_stream = "none"]
<1>1. /\ LedgerTypes(a) /\ SameLedger(s, a)
      /\ DroppedActive(a) = DroppedActive(s)
      /\ b.pending = DropActive(s).pending
      /\ b.tool_stops = s.tool_stops
  BY CancelSent
<1> HIDE DEF a
<1>2. Yields(a, b, DroppedActive(s))
  BY <1>1, DropActiveYields
<1> HIDE DEF b
<1>3. Yields(b, c, Indices(s.tool_stops)) /\ DOMAIN b = Fields
  BY <1>1, <1>2, DropToolStopsYields DEF Yields, LedgerTypes
<1>4. c.pending = b.pending
  BY <1>3 DEF DropToolStops, Send, Fields
<1> HIDE DEF c
<1>5. Yields(a, c, DroppedActiveMotion(s))
  BY <1>2, <1>3, YieldsTrans DEF DroppedActiveMotion
<1>6. SameLedger(c, d) /\ d.pending = c.pending
  BY <1>3 DEF Yields, LedgerTypes, SameLedger, Keeps, Fields, Ledger
<1>7. DropActiveMotion(s) = d
  BY DEF DropActiveMotion, a, b, c
<1> HIDE DEF d
<1>8. Yields(s, d, DroppedActiveMotion(s))
  BY <1>1, <1>5, <1>6, YieldsSame
<1>9. QED
  BY <1>1, <1>4, <1>6, <1>7, <1>8

\* drop_planned takes out what it returns.
LEMMA DropPlannedYields ==
  ASSUME NEW s, LedgerTypes(s)
  PROVE  Yields(s, DropPlanned(s), DroppedPlanned(s))
<1> DEFINE a == Send(s, [op |-> "Cancel"])
           b == DropActive(a)
           c == DropPending(b)
<1>1. /\ LedgerTypes(a) /\ SameLedger(s, a)
      /\ DroppedActive(a) = DroppedActive(s)
      /\ b.pending = DropActive(s).pending
  BY CancelSent
<1> HIDE DEF a
<1>2. Yields(a, b, DroppedActive(s))
  BY <1>1, DropActiveYields
<1> HIDE DEF b
<1>3. Yields(b, c, Indices(DropActive(s).pending))
  BY <1>1, <1>2, DropPendingYields DEF Yields
<1>4. Yields(a, c, DroppedPlanned(s))
  BY <1>2, <1>3, YieldsTrans DEF DroppedPlanned
<1>5. SameLedger(c, c)
  BY <1>3 DEF Yields, LedgerTypes, SameLedger, Keeps
<1>6. Yields(s, c, DroppedPlanned(s))
  BY <1>1, <1>4, <1>5, YieldsSame
<1>7. QED
  BY <1>6 DEF DropPlanned, a, b, c

\* The tool action a tool stop cancels is taken out with what it returns.
LEMMA DropToolActionYields ==
  ASSUME NEW s, LedgerTypes(s)
  PROVE  Yields(s, DropActiveToolAction(s), DroppedActiveToolAction(s))
<1> DEFINE t == DropActiveToolAction(s)
           l == DroppedActiveToolAction(s)
<1>1. DOMAIN s = Fields
  BY DEF LedgerTypes
<1>2. CASE RunsTool(s)
  <2>1. Keeps(s, t, {"executing"} \cup (Fields \ Ledger)) /\ t.executing = NoCmd
    BY <1>1, <1>2 DEF DropActiveToolAction, Keeps, Send, Fields, Ledger
  <2>2. l = ExecList(s)
    BY <1>2 DEF DroppedActiveToolAction, ExecList, RunsTool, NoCmd
  <2> HIDE DEF t, l
  <2>3. QED
    BY <2>1, <2>2, ExecYields DEF t, l
<1>3. CASE ~RunsTool(s) /\ StartsTool(s)
  <2>1. Keeps(s, t, {"pending"} \cup (Fields \ Ledger)) /\ t.pending = Tail(s.pending)
    BY <1>1, <1>3 DEF DropActiveToolAction, Keeps, Send, Fields, Ledger
  <2>2. l = <<s.pending[1].index>> /\ s.pending # <<>>
    BY <1>3 DEF DroppedActiveToolAction, StartsTool, PlanningHead
  <2> HIDE DEF t, l
  <2>3. QED
    BY <2>1, <2>2, HeadYields DEF t, l
<1>4. CASE ~RunsTool(s) /\ ~StartsTool(s)
  <2>1. t = s /\ l = <<>>
    BY <1>4 DEF DropActiveToolAction, DroppedActiveToolAction
  <2>2. SameLedger(s, s)
    BY <1>1 DEF SameLedger, Keeps
  <2>3. QED
    BY <2>1, <2>2, SameYields
<1>5. QED
  BY <1>2, <1>3, <1>4

-----------------------------------------------------------------------------
(* Cancelling motion keeps the books. *)

\* cancel_active_motion, cancel_all_motion and cancel_planned answer what they drop.
LEMMA CancelBooks ==
  ASSUME NEW s, NEW n, NEW hand, Books(s, n, hand)
  PROVE  /\ Books(CancelActiveMotion(s), n, hand)
         /\ Books(CancelAllMotion(s), n, hand)
         /\ Books(CancelPlanned(s), n, hand)
<1>1. LedgerTypes(s)
  BY BooksTypes
<1>2. ASSUME NEW t, NEW l, Yields(s, t, l)
      PROVE  Books(CompleteCancelled(t, l), n, hand)
  <2>1. Settles(t, CompleteCancelled(t, l), l, "cancelled")
    BY <1>2, CompleteCancelledSettles DEF Yields, LedgerTypes
  <2>2. QED
    BY <1>2, <2>1, AnswerBooks
<1> DEFINE a == DropActiveMotion(s)
           l == DroppedActiveMotion(s)
           m == Indices(DropActive(s).pending)
<1>3. Yields(s, a, l) /\ a.pending = DropActive(s).pending
  BY <1>1, DropActiveMotionYields
<1>4. Books(CancelActiveMotion(s), n, hand)
  BY <1>2, <1>3 DEF CancelActiveMotion
<1>5. Books(CancelAllMotion(s), n, hand)
  <2> HIDE DEF a, l
  <2>1. Yields(a, DropPending(a), m)
    BY <1>3, DropPendingYields DEF Yields
  <2>2. Yields(s, DropPending(a), l \o m)
    BY <1>3, <2>1, YieldsTrans
  <2>3. CancelAllMotion(s) = CompleteCancelled(DropPending(a), l \o m)
    BY DEF CancelAllMotion, a, l
  <2>4. QED
    BY <1>2, <2>2, <2>3
<1>6. Books(CancelPlanned(s), n, hand)
  BY <1>1, <1>2, DropPlannedYields DEF CancelPlanned
<1>7. QED
  BY <1>4, <1>5, <1>6

\* Latches, pauses, snapshots and held geometry are not in the ledger.
LEMMA LatchesSame ==
  ASSUME NEW s, DOMAIN s = Fields
  PROVE  /\ SameLedger(s, s)
         /\ SameLedger(s, ClearPause(s))
         /\ SameLedger(s, OnMotionAccepted(s))
         /\ \A busy : SameLedger(s, LatchRefusal(s, busy))
         /\ \A sn : SameLedger(s, RefreshSnapshot(s, sn))
         /\ \A on : SameLedger(s, OnPause(s, on))
         /\ SameLedger(s, InvalidateAttachments(s))
         /\ \A changed : SameLedger(s, AdoptToolSelection(s, changed))
         /\ \A set : SameLedger(s, DeferProgramShapes(s, set))
         /\ SameLedger(s, OnReset(s))
<1>1. SameLedger(s, s)
  BY DEF SameLedger, Keeps
<1>2. SameLedger(s, ClearPause(s)) /\ SameLedger(s, OnMotionAccepted(s))
  BY DEF SameLedger, Keeps, Fields, Ledger, ClearPause, OnMotionAccepted
<1>3. ASSUME NEW busy PROVE SameLedger(s, LatchRefusal(s, busy))
  <2>1. CASE LatchRefusal(s, busy) = s
    BY <1>1, <2>1
  <2>2. CASE LatchRefusal(s, busy) # s
    BY <2>2 DEF SameLedger, Keeps, Fields, Ledger, LatchRefusal
  <2>3. QED
    BY <2>1, <2>2
<1>4. ASSUME NEW sn PROVE SameLedger(s, RefreshSnapshot(s, sn))
  BY DEF SameLedger, Keeps, Fields, Ledger, RefreshSnapshot
<1>5. ASSUME NEW on PROVE SameLedger(s, OnPause(s, on))
  BY DEF SameLedger, Keeps, Fields, Ledger, OnPause
<1>6. SameLedger(s, InvalidateAttachments(s)) /\ DOMAIN InvalidateAttachments(s) = Fields
  BY DEF SameLedger, Keeps, Fields, Ledger, InvalidateAttachments
<1>7. ASSUME NEW changed PROVE SameLedger(s, AdoptToolSelection(s, changed))
  BY <1>1, <1>6 DEF AdoptToolSelection
<1>8. ASSUME NEW set PROVE SameLedger(s, DeferProgramShapes(s, set))
  BY DEF SameLedger, Keeps, Fields, Ledger, DeferProgramShapes, Send
<1>9. SameLedger(s, OnReset(s))
  <2> DEFINE a == InvalidateAttachments(s)
  <2>1. /\ DOMAIN OnReset(s) = Fields
        /\ \A f \in Ledger : OnReset(s)[f] = a[f]
    <3> HIDE DEF a
    <3>1. DOMAIN a = Fields
      BY <1>6 DEF a
    <3>2. OnReset(s) = [a EXCEPT !.estop_latched = FALSE, !.standing_error = NoError,
                                 !.action_state = "idle"]
      BY DEF OnReset, a
    <3>3. QED
      BY <3>1, <3>2 DEF Fields, Ledger
  <2>2. QED
    BY <1>6, <2>1 DEF SameLedger, Keeps, Ledger, Fields
<1>10. QED
  BY <1>1, <1>2, <1>3, <1>4, <1>5, <1>6, <1>7, <1>8, <1>9

\* The stop that follows stale attachments keeps the books.
LEMMA StopInvalidBooks ==
  ASSUME NEW s, NEW n, NEW hand, Books(s, n, hand)
  PROVE  Books(StopInvalidAttachments(s), n, hand)
<1> DEFINE t == IF s.shapes = "attached" /\ ~ReferencedAndLive(s.snap)
                THEN InvalidateAttachments(s) ELSE s
           u == [t EXCEPT !.attachment_stop_pending = FALSE]
           c == CancelAllMotion(u)
           d == [c EXCEPT !.standing_error = Unattributed("attachment")]
<1>1. DOMAIN s = Fields
  BY BooksTypes
<1>2. Books(t, n, hand)
  <2>1. SameLedger(s, t)
    BY <1>1, LatchesSame
  <2> HIDE DEF t
  <2>2. QED
    BY <2>1, SameBooks
<1>3. StopInvalidAttachments(s) = IF t.attachment_stop_pending THEN d ELSE t
  BY DEF StopInvalidAttachments
<1> HIDE DEF t
<1>4. DOMAIN t = Fields
  BY <1>2, BooksTypes
<1>5. SameLedger(t, u)
  BY <1>4 DEF SameLedger, Keeps, Fields, Ledger
<1> HIDE DEF u
<1>6. Books(u, n, hand)
  BY <1>2, <1>5, SameBooks
<1>7. Books(c, n, hand)
  BY <1>6, CancelBooks
<1> HIDE DEF c
<1>8. DOMAIN c = Fields
  BY <1>7, BooksTypes
<1>9. SameLedger(c, d)
  BY <1>8 DEF SameLedger, Keeps, Fields, Ledger
<1> HIDE DEF d
<1>10. Books(d, n, hand)
  BY <1>7, <1>9, SameBooks
<1>11. QED
  BY <1>2, <1>3, <1>10

\* What every handler does first keeps the books.
LEMMA ArriveBooks ==
  ASSUME NEW s, NEW sn, NEW n, NEW hand, Books(s, n, hand)
  PROVE  Books(Arrive(s, sn), n, hand)
<1>1. SameLedger(s, RefreshSnapshot(s, sn))
  BY BooksTypes, LatchesSame
<1>2. Books(RefreshSnapshot(s, sn), n, hand)
  BY <1>1, SameBooks
<1>3. QED
  BY <1>2, StopInvalidBooks DEF Arrive

\* pump offers the head and leaves it in the queue.
LEMMA PumpBooks ==
  ASSUME NEW s0, NEW n, NEW hand, Books(s0, n, hand)
  PROVE  Books(Pump(s0), n, hand)
<1> DEFINE s == StopInvalidAttachments(s0)
<1>1. Books(s, n, hand)
  BY StopInvalidBooks
<1>2. \/ Pump(s0) = s
      \/ Pump(s0) = [s EXCEPT !.blend_hold = "none"]
      \/ Pump(s0) = [s EXCEPT !.blend_hold = "armed"]
      \/ Pump(s0) = OfferHead(s)
  BY DEF Pump
<1> HIDE DEF s
<1>3. DOMAIN s = Fields
  BY <1>1, BooksTypes
<1>4. SameLedger(s, OfferHead(s))
  BY <1>3 DEF SameLedger, Keeps, Fields, Ledger, OfferHead, Send
<1>5. /\ SameLedger(s, [s EXCEPT !.blend_hold = "none"])
      /\ SameLedger(s, [s EXCEPT !.blend_hold = "armed"])
  BY <1>3 DEF SameLedger, Keeps, Fields, Ledger
<1>6. QED
  BY <1>1, <1>2, <1>4, <1>5, SameBooks

-----------------------------------------------------------------------------
(* Planner answers keep the books. *)

\* fail_command, with the failed command and its blended tail in the hand.
LEMMA FailBooks ==
  ASSUME NEW s, NEW index \in Nat, NEW blended \in Seq(Nat),
         Books(s, Len(<<index>> \o blended), Elems(<<index>> \o blended))
  PROVE  Balanced(FailCommand(s, index, blended))
<1> DEFINE y == <<index>>
           m == Indices(s.pending)
           r == blended \o m
           p == DropPending(s)
           a == AdvanceCompleted(s, {index})
           b == [a EXCEPT !.standing_error = [code |-> "failed", index |-> index],
                          !.action_state = "error"]
           u == PushComplete(DropPending(b), y, "failed")
<1>1. LedgerTypes(s) /\ DOMAIN s = Fields
  BY BooksTypes
<1>2. Yields(s, p, m)
  BY <1>1, DropPendingYields
<1>3. y \in Seq(Nat) /\ Len(y) = 1 /\ Elems(y) = {index} /\ m \in Seq(Nat)
  BY <1>2, ShortLists DEF Yields
<1>4. /\ p.next_index = s.next_index /\ p.completed_index = s.completed_index
      /\ p.finished = s.finished /\ p.completes = s.completes /\ DOMAIN p = Fields
      /\ p.tool_stops = s.tool_stops /\ p.executing = s.executing /\ p.pending = <<>>
  BY <1>1 DEF DropPending, Fields
<1>5. FailCommand(s, index, blended) = CompleteCancelled(u, r)
  BY DEF FailCommand
<1>6. Settles(p, u, y, "failed")
  <2>1. /\ AdvanceCompleted(p, {index}).completed_index = a.completed_index
        /\ AdvanceCompleted(p, {index}).finished = a.finished
    <3> HIDE DEF p
    <3>1. QED
      BY <1>1, <1>4 DEF AdvanceCompleted, Fields
  <2>2. /\ DOMAIN a = Fields
        /\ a.next_index = s.next_index /\ a.completes = s.completes
        /\ a.tool_stops = s.tool_stops /\ a.executing = s.executing
    BY <1>1 DEF AdvanceCompleted, Fields
  <2> HIDE DEF a
  <2>3. u = [[[b EXCEPT !.pending = <<>>] EXCEPT !.blend_hold = "none"]
                EXCEPT !.completes = @ \o Answers(y, "failed")]
    BY DEF PushComplete, DropPending, Answers
  <2>4. /\ DOMAIN u = Fields
        /\ u.next_index = a.next_index /\ u.pending = <<>>
        /\ u.executing = a.executing /\ u.tool_stops = a.tool_stops
        /\ u.completes = a.completes \o Answers(y, "failed")
        /\ u.completed_index = a.completed_index /\ u.finished = a.finished
    BY <2>2, <2>3, ZenonT(40) DEF Fields
  <2> HIDE DEF u, b, p, y
  <2>5. QED
    BY <1>3, <1>4, <2>1, <2>2, <2>4 DEF Settles
<1> HIDE DEF y, m, p, u
<1>7. /\ y \o blended \in Seq(Nat) /\ Len(y \o blended) = Len(y) + Len(blended)
      /\ Elems(y \o blended) = Elems(y) \cup Elems(blended)
  <2>1. y \in Seq(Nat) /\ blended \in Seq(Nat)
    BY <1>3
  <2>2. QED
    BY <2>1, ElemsConcat
<1>8. /\ r \in Seq(Nat) /\ Len(r) = Len(blended) + Len(m)
      /\ Elems(r) = Elems(blended) \cup Elems(m)
  BY <1>3, ElemsConcat
<1> HIDE DEF r
<1>9. Books(p, Len(y \o blended) + Len(m), Elems(y \o blended) \cup Elems(m))
  BY <1>2, YieldsBooks DEF y
<1>10. Len(blended) \in Nat /\ Len(m) \in Nat /\ Len(y) \in Nat /\ Len(r) \in Nat
  BY <1>3, <1>8, LenProperties
<1>11. Len(y \o blended) + Len(m) = Len(r) + Len(y)
  BY <1>7, <1>8, <1>10
<1>12. Elems(y \o blended) \cup Elems(m) = Elems(r) \cup Elems(y)
  BY <1>7, <1>8
<1>13. Books(p, Len(r) + Len(y), Elems(r) \cup Elems(y))
  BY <1>9, <1>11, <1>12
<1>14. IsFiniteSet(Elems(r)) /\ Cardinality(Elems(r)) <= Len(r)
  BY <1>8, ElemsCount
<1>15. Books(u, Len(r), Elems(r))
  BY <1>3, <1>6, <1>10, <1>13, <1>14, SettlesBooks
<1>16. Settles(u, CompleteCancelled(u, r), r, "cancelled")
  BY <1>15, BooksTypes, CompleteCancelledSettles
<1>17. IsFiniteSet({}) /\ Cardinality({}) <= 0 /\ 0 \in Nat
  <2>1. IsFiniteSet({}) /\ Cardinality({}) = 0
    BY FS_EmptySet
  <2>2. QED
    BY <2>1
<1>18. Books(u, 0 + Len(r), {} \cup Elems(r))
  BY <1>10, <1>15
<1>19. Books(CompleteCancelled(u, r), 0, {})
  BY <1>8, <1>16, <1>17, <1>18, SettlesBooks
<1>20. QED
  BY <1>5, <1>19 DEF Balanced

\* What is taken out of balanced books is all there is in the hand.
LEMMA BalancedYields ==
  ASSUME NEW s, NEW t, NEW l, Balanced(s), Yields(s, t, l)
  PROVE  Books(t, Len(l), Elems(l))
<1>1. Books(t, 0 + Len(l), {} \cup Elems(l))
  BY YieldsBooks DEF Balanced
<1>2. Len(l) \in Nat
  BY LenProperties DEF Yields
<1>3. QED
  BY <1>1, <1>2

\* Taking nothing out keeps the books.
LEMMA BalancedKept ==
  ASSUME NEW s, NEW t, Balanced(s), Yields(s, t, <<>>)
  PROVE  Balanced(t)
<1>1. Books(t, Len(<<>>), Elems(<<>>))
  BY BalancedYields
<1>2. Len(<<>>) = 0 /\ Elems(<<>>) = {}
  BY EmptySeq DEF Elems
<1>3. QED
  BY <1>1, <1>2 DEF Balanced

\* on_plan_rejected fails the head being planned and cancels the queue behind it.
LEMMA PlanRejectedBooks ==
  ASSUME NEW s, NEW index, Balanced(s)
  PROVE  Balanced(OnPlanRejected(s, index))
<1> DEFINE t == [s EXCEPT !.planning = 0, !.pending = Tail(@)]
           x == s.pending[1].index
<1>1. LedgerTypes(s) /\ DOMAIN s = Fields
  BY BooksTypes DEF Balanced
<1>2. CASE s.planning # index
  BY <1>2 DEF OnPlanRejected
<1>3. CASE s.planning = index /\ s.pending = <<>>
  <2>1. SameLedger(s, [s EXCEPT !.planning = 0])
    BY <1>1 DEF SameLedger, Keeps, Fields, Ledger
  <2>2. QED
    BY <1>3, <2>1, SameBooks DEF OnPlanRejected, Balanced
<1>4. CASE s.planning = index /\ s.pending # <<>>
  <2>1. Keeps(s, t, {"pending"} \cup (Fields \ Ledger)) /\ t.pending = Tail(s.pending)
    BY <1>1 DEF Keeps, Fields, Ledger
  <2>2. OnPlanRejected(s, index) = FailCommand(t, x, <<>>)
    BY <1>4 DEF OnPlanRejected
  <2> HIDE DEF t
  <2>3. Yields(s, t, <<x>>)
    BY <1>1, <1>4, <2>1, HeadYields
  <2>4. Books(t, Len(<<x>>), Elems(<<x>>))
    BY <2>3, BalancedYields
  <2>5. x \in Nat
    <3>1. s.pending \in Seq(Entry) /\ 1 \in 1..Len(s.pending)
      BY <1>1, <1>4, EmptySeq, LenProperties DEF LedgerTypes
    <3>2. s.pending[1] \in Entry
      BY <3>1
    <3>3. QED
      BY <3>2 DEF Entry
  <2> HIDE DEF x
  <2>6. <<x>> \o <<>> = <<x>> /\ <<>> \in Seq(Nat)
    BY <2>5
  <2>7. Balanced(FailCommand(t, x, <<>>))
    BY <2>4, <2>5, <2>6, FailBooks
  <2>8. QED
    BY <2>2, <2>7
<1>5. QED
  BY <1>2, <1>3, <1>4

\* on_outcome answers the executing command and its blended tail.
LEMMA OutcomeBooks ==
  ASSUME NEW s, NEW index, NEW ok \in BOOLEAN, NEW changed \in BOOLEAN, Balanced(s)
  PROVE  Balanced(OnOutcome(s, index, ok, changed))
<1> DEFINE ex == s.executing
           t == [s EXCEPT !.executing = NoCmd]
           l == <<ex.index>> \o ex.blended
<1>1. LedgerTypes(s) /\ DOMAIN s = Fields
  BY BooksTypes DEF Balanced
<1>2. CASE s.executing = NoCmd \/ s.executing.index # index
  BY <1>2 DEF OnOutcome
<1>3. CASE ~(s.executing = NoCmd \/ s.executing.index # index)
  <2>1. Keeps(s, t, {"executing"} \cup (Fields \ Ledger)) /\ t.executing = NoCmd
           /\ DOMAIN t = Fields
    BY <1>1 DEF Keeps, Fields, Ledger
  <2>2. ExecList(s) = l
    BY <1>3 DEF ExecList
  <2> HIDE DEF t
  <2>3. Yields(s, t, l)
    BY <1>1, <2>1, <2>2, ExecYields
  <2>4. Books(t, Len(l), Elems(l))
    BY <2>3, BalancedYields
  <2>5. ex.index \in Nat /\ ex.blended \in Seq(Nat)
    BY <1>1 DEF LedgerTypes
  <2>6. CASE ~ok
    <3>1. Balanced(FailCommand(t, ex.index, ex.blended))
      BY <2>4, <2>5, FailBooks
    <3>2. QED
      BY <1>3, <2>6, <3>1 DEF OnOutcome, t
  <2>7. CASE ok
    <3> DEFINE done == {ex.index} \cup Elems(ex.blended)
               a == AdvanceCompleted(t, done)
               b == [a EXCEPT !.action_state = "idle"]
               u == AdoptToolSelection(b, ex.kind = "select" /\ changed)
               v == PushComplete(u, l, "ok")
    <3>1. OnOutcome(s, index, ok, changed) = v
      BY <1>3, <2>7 DEF OnOutcome, t
    <3>2. done = Elems(l)
      BY <1>1, <1>3, <2>2, BookLists
    <3>3. /\ DOMAIN a = Fields
          /\ a.next_index = t.next_index /\ a.completes = t.completes
          /\ a.tool_stops = t.tool_stops /\ a.executing = t.executing
          /\ a.pending = t.pending
      BY <2>1 DEF AdvanceCompleted, Fields
    <3>4. /\ a.completed_index = AdvanceCompleted(t, Elems(l)).completed_index
          /\ a.finished = AdvanceCompleted(t, Elems(l)).finished
      BY <3>2
    <3> HIDE DEF a
    <3>5. SameLedger(a, b) /\ DOMAIN b = Fields
      BY <3>3 DEF SameLedger, Keeps, Fields, Ledger
    <3> HIDE DEF b
    <3>6. SameLedger(b, u) /\ DOMAIN u = Fields
      BY <3>5, LatchesSame, LedgerFields
    <3> HIDE DEF u
    <3>7. SameLedger(a, u)
      BY <3>5, <3>6 DEF SameLedger, Keeps
    <3>8. v = [u EXCEPT !.completes = @ \o Answers(l, "ok")]
      BY DEF PushComplete, Answers
    <3> HIDE DEF l
    <3>9. Settles(t, v, l, "ok")
      <4>1. /\ u.next_index = a.next_index /\ u.completes = a.completes
            /\ u.tool_stops = a.tool_stops /\ u.executing = a.executing
            /\ u.pending = a.pending
            /\ u.completed_index = a.completed_index /\ u.finished = a.finished
        BY <3>7, LedgerFields
      <4>2. /\ DOMAIN v = Fields
            /\ v.next_index = u.next_index
            /\ v.completes = u.completes \o Answers(l, "ok")
            /\ v.tool_stops = u.tool_stops /\ v.executing = u.executing
            /\ v.pending = u.pending
            /\ v.completed_index = u.completed_index /\ v.finished = u.finished
        BY <3>6, <3>8 DEF Fields
      <4> HIDE DEF v
      <4>3. QED
        BY <3>3, <3>4, <4>1, <4>2 DEF Settles
    <3> HIDE DEF v
    <3>10. Balanced(v)
      BY <2>3, <3>9, AnswerBooks DEF Balanced
    <3>11. QED
      BY <3>1, <3>10
  <2>8. QED
    BY <2>6, <2>7
<1>4. QED
  BY <1>2, <1>3

\* The first n of a list are its head and the ones from the second on.
LEMMA HeldChain ==
  ASSUME NEW S, NEW q \in Seq(S), NEW n \in 1..Len(q)
  PROVE  LET c == SubSeq(q, 2, n) IN
         /\ c \in Seq(S) /\ Len(c) = n - 1
         /\ Held(SubSeq(q, 1, n)) = {q[1].index} \cup Held(c)
<1> DEFINE a == SubSeq(q, 1, n)
           c == SubSeq(q, 2, n)
           z == Len(q)
<1>1. q \in [1..z -> S] /\ z \in Nat /\ n \in Nat /\ 1 <= n /\ n <= z
  BY LenProperties
<1>2. /\ a \in Seq(S) /\ Len(a) = n /\ \A i \in 1..n : a[i] = q[i]
  <2>1. n \in 0..Len(q)
    BY <1>1
  <2>2. QED
    BY <2>1, HeldSplit
<1>3. /\ c \in Seq(S) /\ Len(c) = n - 1
      /\ \A i \in 1..(n - 1) : c[i] = q[i + 1]
  <2> DEFINE lo == 2
  <2>1. lo \in Int /\ n \in Int /\ \A i \in lo..n : q[i] \in S
    <3> HIDE DEF z
    <3>1. QED
      BY <1>1
  <2>2. lo = 2 /\ c = SubSeq(q, lo, n)
    OBVIOUS
  <2> HIDE DEF lo, c
  <2>3. /\ SubSeq(q, lo, n) \in Seq(S)
        /\ Len(SubSeq(q, lo, n)) = IF lo <= n THEN n - lo + 1 ELSE 0
        /\ \A i \in 1..(n - lo + 1) : SubSeq(q, lo, n)[i] = q[lo + i - 1]
    BY <2>1, SubSeqProperties
  <2>4. Len(c) = n - 1
    <3>1. Len(c) = IF lo <= n THEN n - lo + 1 ELSE 0
      BY <2>2, <2>3
    <3>2. lo <= n => n - lo + 1 = n - 1
      BY <1>1, <2>2
    <3>3. ~(lo <= n) => 0 = n - 1
      BY <1>1, <2>2
    <3>4. QED
      BY <3>1, <3>2, <3>3
  <2>5. \A i \in 1..(n - 1) : i \in 1..(n - lo + 1) /\ lo + i - 1 = i + 1
    BY <1>1, <2>2
  <2>6. QED
    BY <2>2, <2>3, <2>4, <2>5
<1> HIDE DEF a, c, z
<1>4. Held(a) \subseteq {q[1].index} \cup Held(c)
  <2>1. ASSUME NEW k \in 1..n PROVE a[k].index \in {q[1].index} \cup Held(c)
    <3>1. CASE k = 1
      BY <1>2, <3>1
    <3>2. CASE k # 1
      <4>1. k - 1 \in 1..Len(c) /\ c[k - 1] = q[k]
        BY <1>1, <1>3, <3>2
      <4>2. QED
        BY <1>2, <4>1 DEF Held
    <3>3. QED
      BY <3>1, <3>2
  <2>2. QED
    BY <1>2, <2>1 DEF Held
<1>5. q[1].index \in Held(a)
  <2>1. 1 \in 1..Len(a) /\ a[1] = q[1]
    BY <1>1, <1>2
  <2>2. QED
    BY <2>1 DEF Held
<1>6. Held(c) \subseteq Held(a)
  <2>1. ASSUME NEW k \in 1..Len(c) PROVE c[k].index \in Held(a)
    <3>1. k + 1 \in 1..Len(a) /\ c[k] = a[k + 1]
      BY <1>1, <1>2, <1>3
    <3>2. QED
      BY <3>1 DEF Held
  <2>2. QED
    BY <2>1 DEF Held
<1>7. QED
  BY <1>3, <1>4, <1>5, <1>6 DEF a, c

\* on_plan_started moves the head and what it blended from the queue to the
\* executing command: every command keeps its one place.
LEMMA PlanStartedBooks ==
  ASSUME NEW s, NEW index \in Nat \ {0}, NEW taken \in Nat, Balanced(s), MarkerOK(s)
  PROVE  Balanced(OnPlanStarted(s, index, taken))
<1> DEFINE q == s.pending
           n == Lesser(Greater(taken, 1), Len(q))
           rest == SubSeq(q, n + 1, Len(q))
           c == SubSeq(q, 2, n)
           ex == [index |-> q[1].index, kind |-> q[1].kind, blended |-> Indices(c)]
           t == [s EXCEPT !.planning = 0, !.pending = rest,
                          !.action_state = "executing", !.executing = ex]
<1>1. LedgerTypes(s) /\ DOMAIN s = Fields
  BY BooksTypes DEF Balanced
<1>2. CASE s.planning # index
  BY <1>2 DEF OnPlanStarted
<1>3. CASE s.planning = index /\ s.pending = <<>>
  <2>1. SameLedger(s, [s EXCEPT !.planning = 0])
    BY <1>1 DEF SameLedger, Keeps, Fields, Ledger
  <2>2. QED
    BY <1>3, <2>1, SameBooks DEF OnPlanStarted, Balanced
<1>4. CASE s.planning = index /\ s.pending # <<>>
  <2>1. s.executing = NoCmd
    BY <1>4 DEF MarkerOK
  <2>2. q \in Seq(Entry) /\ Len(q) \in Nat \ {0} /\ q[1] \in Entry
    BY <1>1, <1>4, EmptySeq, LenProperties DEF LedgerTypes
  <2>3. OnPlanStarted(s, index, taken) = t
    BY <1>4 DEF OnPlanStarted
  <2>4. /\ DOMAIN t = Fields
        /\ t.next_index = s.next_index /\ t.pending = rest /\ t.executing = ex
        /\ t.tool_stops = s.tool_stops /\ t.completes = s.completes
        /\ t.completed_index = s.completed_index /\ t.finished = s.finished
    BY <1>1 DEF Fields
  <2> HIDE DEF t
  <2>5. n \in 1..Len(q) /\ n \in 0..Len(q)
    <3> DEFINE z == Len(q)
    <3>1. z \in Nat \ {0}
      BY <2>2
    <3> HIDE DEF z
    <3>2. Lesser(Greater(taken, 1), z) \in 1..z /\ Lesser(Greater(taken, 1), z) \in 0..z
      BY <3>1 DEF Lesser, Greater
    <3>3. QED
      BY <3>2 DEF z
  <2> HIDE DEF n, q
  <2>6. /\ rest \in Seq(Entry) /\ Len(rest) = Len(q) - n
        /\ Held(q) = Held(SubSeq(q, 1, n)) \cup Held(rest)
    BY <2>2, <2>5, HeldSplit
  <2>7. /\ c \in Seq(Entry) /\ Len(c) = n - 1
        /\ Held(SubSeq(q, 1, n)) = {q[1].index} \cup Held(c)
    BY <2>2, <2>5, HeldChain
  <2> HIDE DEF rest, c
  <2>8. /\ Indices(c) \in Seq(Nat) /\ Len(Indices(c)) = Len(c) /\ Elems(Indices(c)) = Held(c)
    BY <1>1, <2>7, BookLists, IndicesList
  <2>9. q[1].index \in Nat \ {0}
    BY <2>2 DEF Entry
  <2>10. ex.index = q[1].index /\ ex.blended = Indices(c) /\ ex # NoCmd
    BY <2>9 DEF NoCmd
  <2> HIDE DEF ex
  <2>11. LedgerTypes(t)
    BY <1>1, <2>4, <2>6, <2>8, <2>9, <2>10 DEF LedgerTypes
  <2>12. /\ Len(ExecList(t)) = 1 + Len(Indices(c))
         /\ Elems(ExecList(t)) = {q[1].index} \cup Held(c)
    BY <2>4, <2>8, <2>10, <2>11, BookLists
  <2>13. Len(ExecList(s)) = 0 /\ Elems(ExecList(s)) = {}
    BY <1>1, <2>1, BookLists
  <2>14. Engine(t) = Engine(s)
    BY <2>4, <2>6, <2>7, <2>12, <2>13 DEF Engine, q
  <2>15. Places(t) = Places(s)
    <3> DEFINE z == Len(q)
               b == Len(s.tool_stops)
    <3>1. z \in Nat /\ b \in Nat /\ n \in Nat
      BY <1>1, <2>2, <2>5, BookLists
    <3>2. Places(s) = z + b + 0
      BY <2>13 DEF Places, q
    <3>3. Places(t) = (z - n) + b + (1 + (n - 1))
      BY <2>4, <2>6, <2>7, <2>8, <2>12 DEF Places
    <3> HIDE DEF z, b
    <3>4. QED
      BY <3>1, <3>2, <3>3
  <2>16. /\ <<>> \in Seq(Nat) /\ Len(<<>>) = 0 /\ Elems(<<>>) = {}
    BY EmptySeq DEF Elems
  <2>17. Places(t) \in Nat
    BY <2>11, PlacesType
  <2>18. Yields(s, t, <<>>)
    BY <2>4, <2>11, <2>14, <2>15, <2>16, <2>17 DEF Yields
  <2>19. QED
    BY <2>3, <2>18, BalancedKept
<1>5. QED
  BY <1>2, <1>3, <1>4

-----------------------------------------------------------------------------
(* Tool stops keep the books. *)

\* finish_tool_stop answers the stops taken out.
LEMMA FinishBooks ==
  ASSUME NEW s, NEW t, NEW stops, NEW ok \in BOOLEAN,
         Balanced(s), Yields(s, t, Indices(stops))
  PROVE  Balanced(FinishToolStops(t, stops, ok))
<1> DEFINE l == Indices(stops)
           r == IF ok THEN "ok" ELSE "failed"
           a == AdvanceCompleted(t, Elems(l))
           b == PushComplete(a, l, r)
           d == [b EXCEPT !.standing_error =
                              [code |-> "failed", index |-> stops[Len(stops)].index],
                          !.action_state = "error"]
<1>1. DOMAIN t = Fields
  BY DEF Yields, LedgerTypes
<1>2. /\ DOMAIN a = Fields
      /\ a.next_index = t.next_index /\ a.pending = t.pending
      /\ a.executing = t.executing /\ a.tool_stops = t.tool_stops
      /\ a.completes = t.completes
  BY <1>1 DEF AdvanceCompleted, Fields
<1>3. FinishToolStops(t, stops, ok) = IF ok THEN b ELSE d
  BY DEF FinishToolStops
<1>4. b = [a EXCEPT !.completes = @ \o Answers(l, r)]
  BY DEF PushComplete, Answers
<1>5. Settles(t, b, l, r) /\ DOMAIN b = Fields
  <2>1. /\ DOMAIN b = Fields
        /\ b.next_index = a.next_index /\ b.pending = a.pending
        /\ b.executing = a.executing /\ b.tool_stops = a.tool_stops
        /\ b.completes = a.completes \o Answers(l, r)
        /\ b.completed_index = a.completed_index /\ b.finished = a.finished
    <3> HIDE DEF a, l, r
    <3>1. QED
      BY <1>2, <1>4 DEF Fields
  <2> HIDE DEF b, l, r
  <2>2. QED
    BY <1>2, <2>1 DEF Settles
<1>6. r \in {"ok", "failed", "cancelled"}
  OBVIOUS
<1> HIDE DEF b, r, l
<1>7. Balanced(b)
  BY <1>5, <1>6, AnswerBooks DEF Balanced, l
<1>8. SameLedger(b, d)
  BY <1>5 DEF SameLedger, Keeps, Fields, Ledger
<1> HIDE DEF d
<1>9. QED
  BY <1>3, <1>7, <1>8, SameBooks DEF Balanced

\* The least place of a set of places is one of them.
LEMMA LeastPlace ==
  ASSUME NEW n \in Nat, NEW at, at \subseteq 1..n, at # {}
  PROVE  (CHOOSE k \in at : \A j \in at : k <= j) \in at
<1>1. at \subseteq Nat
  OBVIOUS
<1>2. \E k \in at : \A j \in at : k <= j
  BY <1>1, LeastNat
<1>3. QED
  BY <1>2

\* A list without its k-th entry.
LEMMA HeldWithout ==
  ASSUME NEW S, NEW q \in Seq(S), NEW k \in 1..Len(q)
  PROVE  LET r == SubSeq(q, 1, k - 1) \o SubSeq(q, k + 1, Len(q)) IN
         /\ r \in Seq(S) /\ Len(q) = Len(r) + 1
         /\ Held(q) = Held(r) \cup {q[k].index}
<1> DEFINE a == SubSeq(q, 1, k - 1)
           b == SubSeq(q, k + 1, Len(q))
           z == Len(q)
<1>1. z \in Nat /\ k \in Nat /\ 1 <= k /\ k <= z
  BY LenProperties
<1>2. k - 1 \in 0..z /\ k \in 0..z
  BY <1>1
<1>3. /\ a \in Seq(S) /\ Len(a) = k - 1 /\ Held(a) \subseteq Held(q)
      /\ \A i \in 1..(k - 1) : a[i] = q[i]
  BY <1>2, HeldSplit
<1>4. /\ b \in Seq(S) /\ Len(b) = z - k /\ Held(b) \subseteq Held(q)
      /\ \A i \in 1..(z - k) : b[i] = q[k + i]
  BY <1>2, HeldSplit
<1>5. q[k].index \in Held(q)
  BY DEF Held
<1> HIDE DEF a, b
<1>6. Held(q) \subseteq Held(a) \cup Held(b) \cup {q[k].index}
  <2>1. ASSUME NEW j \in 1..z PROVE q[j].index \in Held(a) \cup Held(b) \cup {q[k].index}
    <3> HIDE DEF z
    <3>1. CASE j < k
      <4>1. j \in 1..Len(a) /\ a[j] = q[j]
        BY <1>1, <1>3, <3>1
      <4>2. QED
        BY <4>1 DEF Held
    <3>2. CASE j > k
      <4>1. j - k \in 1..Len(b) /\ b[j - k] = q[j]
        BY <1>1, <1>4, <3>2
      <4>2. QED
        BY <4>1 DEF Held
    <3>3. QED
      BY <1>1, <3>1, <3>2
  <2>2. QED
    BY <2>1 DEF Held
<1>7. \A r : Held(r) = {e.index : e \in Elems(r)}
  BY DEF Held, Elems
<1>8. /\ a \o b \in Seq(S) /\ Len(a \o b) = Len(a) + Len(b)
      /\ Elems(a \o b) = Elems(a) \cup Elems(b)
  BY <1>3, <1>4, ElemsConcat
<1>9. Held(a \o b) = Held(a) \cup Held(b)
  BY <1>7, <1>8
<1> HIDE DEF z
<1>10. z = Len(a \o b) + 1
  BY <1>1, <1>3, <1>4, <1>8
<1>11. QED
  BY <1>3, <1>4, <1>5, <1>6, <1>8, <1>9, <1>10 DEF a, b, z

\* The answer to a StartTool keeps the books.
LEMMA ToolStartedBooks ==
  ASSUME NEW s, NEW tag, NEW ok \in BOOLEAN, Balanced(s)
  PROVE  Balanced(OnToolStarted(s, tag, ok))
<1> DEFINE q == s.tool_stops
           at == {k \in 1..Len(q) : q[k].tag = tag}
           k == CHOOSE k \in at : \A j \in at : k <= j
           t == [s EXCEPT !.tool_stops[k].tag = 0]
           out == <<q[k]>>
           u == [s EXCEPT !.tool_stops = SubSeq(@, 1, k - 1) \o SubSeq(@, k + 1, Len(@))]
<1>1. LedgerTypes(s) /\ DOMAIN s = Fields /\ q \in Seq(ToolStops) /\ Len(q) \in Nat
  BY BooksTypes, BookLists DEF Balanced, LedgerTypes
<1>2. OnToolStarted(s, tag, ok) =
        IF at = {} THEN s ELSE IF ok THEN t ELSE Pump(FinishToolStops(u, out, FALSE))
  BY DEF OnToolStarted
<1>3. CASE at = {}
  BY <1>2, <1>3
<1>4. CASE at # {} /\ ok
  <2>1. k \in 1..Len(q)
    <3>1. at \subseteq 1..Len(q)
      OBVIOUS
    <3> HIDE DEF at
    <3>2. k \in at
      BY <1>1, <1>4, <3>1, LeastPlace
    <3>3. QED
      BY <3>1, <3>2
  <2> HIDE DEF at, k
  <2>2. /\ DOMAIN t = Fields
        /\ t.next_index = s.next_index /\ t.pending = s.pending /\ t.executing = s.executing
        /\ t.completes = s.completes
        /\ t.completed_index = s.completed_index /\ t.finished = s.finished
        /\ t.tool_stops = [q EXCEPT ![k].tag = 0]
    BY <1>1 DEF Fields
  <2> DEFINE r == [q EXCEPT ![k].tag = 0]
  <2> HIDE DEF q, t
  <2>3. q \in [1..Len(q) -> ToolStops]
    BY <1>1, LenProperties
  <2>4. r \in [1..Len(q) -> ToolStops]
    BY <2>1, <2>3 DEF ToolStops
  <2>5. r \in Seq(ToolStops) /\ Len(r) = Len(q)
    BY <1>1, <2>4
  <2>6. \A j \in 1..Len(q) : r[j].index = q[j].index
    BY <2>1, <2>3 DEF ToolStops
  <2>7. Held(r) = Held(q)
    BY <2>5, <2>6 DEF Held
  <2> HIDE DEF r
  <2>8. t.tool_stops = r /\ s.tool_stops = q
    BY <2>2 DEF r, q
  <2>9. LedgerTypes(t) /\ Places(t) = Places(s) /\ Engine(t) = Engine(s)
    <3>1. LedgerTypes(t)
      BY <1>1, <2>2, <2>5, <2>8 DEF LedgerTypes
    <3>2. ExecList(t) = ExecList(s)
      BY <2>2 DEF ExecList
    <3>3. Places(t) = Places(s)
      BY <2>2, <2>5, <2>8, <3>2 DEF Places
    <3>4. Engine(t) = Engine(s)
      BY <2>2, <2>7, <2>8, <3>2 DEF Engine
    <3>5. QED
      BY <3>1, <3>3, <3>4
  <2>10. /\ <<>> \in Seq(Nat) /\ Len(<<>>) = 0 /\ Elems(<<>>) = {}
    BY EmptySeq DEF Elems
  <2>11. Places(t) \in Nat
    BY <2>9, PlacesType
  <2>12. Yields(s, t, <<>>)
    BY <2>2, <2>9, <2>10, <2>11 DEF Yields
  <2>13. Balanced(t)
    BY <2>12, BalancedKept
  <2>14. QED
    BY <1>2, <1>4, <2>13
<1>5. CASE at # {} /\ ~ok
  <2>1. k \in 1..Len(q)
    <3>1. at \subseteq 1..Len(q)
      OBVIOUS
    <3> HIDE DEF at
    <3>2. k \in at
      BY <1>1, <1>5, <3>1, LeastPlace
    <3>3. QED
      BY <3>1, <3>2
  <2> HIDE DEF at, k
  <2> DEFINE r == SubSeq(q, 1, k - 1) \o SubSeq(q, k + 1, Len(q))
  <2>2. Keeps(s, u, {"tool_stops"} \cup (Fields \ Ledger)) /\ u.tool_stops = r
    BY <1>1 DEF Keeps, Fields, Ledger
  <2> HIDE DEF u
  <2>3. r \in Seq(ToolStops) /\ Len(q) = Len(r) + 1 /\ Held(q) = Held(r) \cup {q[k].index}
    BY <1>1, <2>1, HeldWithout
  <2> HIDE DEF r
  <2>4. out \in Seq(ToolStops) /\ Len(out) = 1 /\ Held(out) = {q[k].index}
    <3>1. q[k] \in ToolStops
      BY <1>1, <2>1
    <3>2. QED
      BY <3>1 DEF Held
  <2> HIDE DEF out
  <2>5. Yields(s, u, Indices(out))
    BY <1>1, <2>2, <2>3, <2>4, StopsYield
  <2>6. Balanced(FinishToolStops(u, out, FALSE))
    BY <2>5, FinishBooks
  <2>7. QED
    BY <1>2, <1>5, <2>6, PumpBooks DEF Balanced
<1>6. QED
  BY <1>3, <1>4, <1>5

\* A settled tool stop answers itself and the ones it superseded.
LEMMA ToolOutcomeBooks ==
  ASSUME NEW s, NEW index, NEW ok \in BOOLEAN, Balanced(s)
  PROVE  Balanced(OnToolOutcome(s, index, ok))
<1> DEFINE q == s.tool_stops
           at == {k \in 1..Len(q) : q[k].index = index /\ q[k].tag = 0}
           k == CHOOSE k \in at : \A j \in at : k <= j
           out == SubSeq(q, 1, k)
           u == [s EXCEPT !.tool_stops = SubSeq(@, k + 1, Len(@))]
<1>1. LedgerTypes(s) /\ DOMAIN s = Fields /\ q \in Seq(ToolStops) /\ Len(q) \in Nat
  BY BooksTypes, BookLists DEF Balanced, LedgerTypes
<1>2. OnToolOutcome(s, index, ok) =
        IF at = {} THEN s ELSE Pump(FinishToolStops(u, out, ok))
  BY DEF OnToolOutcome
<1>3. CASE at = {}
  BY <1>2, <1>3
<1>4. CASE at # {}
  <2>1. k \in 1..Len(q)
    <3>1. at \subseteq 1..Len(q)
      OBVIOUS
    <3> HIDE DEF at
    <3>2. k \in at
      BY <1>1, <1>4, <3>1, LeastPlace
    <3>3. QED
      BY <3>1, <3>2
  <2> HIDE DEF at, k
  <2> DEFINE r == SubSeq(q, k + 1, Len(q))
  <2>2. Keeps(s, u, {"tool_stops"} \cup (Fields \ Ledger)) /\ u.tool_stops = r
    BY <1>1 DEF Keeps, Fields, Ledger
  <2> HIDE DEF u
  <2>3. k \in 0..Len(q) /\ k \in Nat
    BY <1>1, <2>1
  <2>4. /\ r \in Seq(ToolStops) /\ Len(r) = Len(q) - k
        /\ out \in Seq(ToolStops) /\ Len(out) = k
        /\ Held(q) = Held(out) \cup Held(r)
    BY <1>1, <2>3, HeldSplit
  <2> HIDE DEF r, out
  <2>5. Len(q) = Len(r) + Len(out)
    <3> DEFINE z == Len(q)
    <3>1. z \in Nat /\ Len(r) = z - k /\ Len(out) = k
      BY <1>1, <2>4
    <3> HIDE DEF z
    <3>2. z = Len(r) + Len(out)
      BY <2>3, <3>1
    <3>3. QED
      BY <3>2 DEF z
  <2>6. Held(q) = Held(r) \cup Held(out)
    BY <2>4
  <2>7. Yields(s, u, Indices(out))
    BY <1>1, <2>2, <2>4, <2>5, <2>6, StopsYield
  <2>8. Balanced(FinishToolStops(u, out, ok))
    BY <2>7, FinishBooks
  <2>9. QED
    BY <1>2, <1>4, <2>8, PumpBooks DEF Balanced
<1>5. QED
  BY <1>3, <1>4

-----------------------------------------------------------------------------
(* Accepting commands keeps the books. *)

\* A command of the hand placed in the engine.
LEMMA PlaceBooks ==
  ASSUME NEW a, NEW t, NEW x \in Nat, Books(a, 1, {x}), LedgerTypes(t), Yields(t, a, <<x>>)
  PROVE  Balanced(t)
<1> DEFINE p == Places(a)
           q == Len(a.completes)
           N == a.next_index - 1
<1>1. LedgerTypes(a)
  BY BooksTypes
<1>2. <<x>> \in Seq(Nat) /\ Len(<<x>>) = 1 /\ Elems(<<x>>) = {x}
  BY ShortLists
<1>3. p \in Nat /\ q \in Nat /\ N \in Nat
  BY <1>1, PlacesType, BookLists
<1>4. p + q + 1 = N /\ Places(t) = p + 1
  BY <1>2 DEF Books, Yields
<1>5. /\ t.next_index - 1 = N /\ Len(t.completes) = q
      /\ Held(t.completes) = Held(a.completes)
      /\ t.completed_index = a.completed_index /\ t.finished = a.finished
  BY DEF Yields
<1>6. Engine(t) \cup Held(t.completes) \cup {} = 1..N
  BY <1>2, <1>5 DEF Books, Yields
<1> HIDE DEF p, q, N
<1>7. Places(t) + Len(t.completes) + 0 = N
  BY <1>3, <1>4, <1>5
<1>8. Marks(Held(t.completes), t.completed_index, t.finished)
  BY <1>5 DEF Books
<1>9. IsFiniteSet({}) /\ Cardinality({}) <= 0 /\ 0 \in Nat
  <2>1. IsFiniteSet({}) /\ Cardinality({}) = 0
    BY FS_EmptySet
  <2>2. QED
    BY <2>1
<1>10. QED
  BY <1>5, <1>6, <1>7, <1>8, <1>9 DEF Balanced, Books

\* An accepted command is in the hand until it is placed.
LEMMA AcceptBooks ==
  ASSUME NEW s, NEW key, Balanced(s)
  PROVE  /\ Books(Accept(s, key), 1, {s.next_index})
         /\ Accept(s, key).pending = s.pending
<1> DEFINE b == [s EXCEPT !.next_index = @ + 1, !.dedup = DedupInsert(@, key, s.next_index)]
           a == OnMotionAccepted(b)
           x == s.next_index
           p == Places(s)
           q == Len(s.completes)
<1>1. LedgerTypes(s) /\ DOMAIN s = Fields
  BY BooksTypes DEF Balanced
<1>2. /\ DOMAIN b = Fields
      /\ b.next_index = x + 1 /\ b.pending = s.pending /\ b.executing = s.executing
      /\ b.completes = s.completes /\ b.tool_stops = s.tool_stops
      /\ b.completed_index = s.completed_index /\ b.finished = s.finished
  BY <1>1 DEF Fields
<1> HIDE DEF b
<1>3. SameLedger(b, a)
  BY <1>2, LatchesSame
<1> HIDE DEF a
<1>4. /\ DOMAIN a = Fields
      /\ a.next_index = x + 1 /\ a.pending = s.pending /\ a.executing = s.executing
      /\ a.completes = s.completes /\ a.tool_stops = s.tool_stops
      /\ a.completed_index = s.completed_index /\ a.finished = s.finished
  BY <1>2, <1>3, LedgerFields
<1>5. x \in Nat \ {0} /\ p \in Nat /\ q \in Nat
  BY <1>1, PlacesType, BookLists
<1>6. LedgerTypes(a)
  <2>1. x + 1 \in Nat \ {0}
    <3> HIDE DEF x
    <3>1. QED
      BY <1>5
  <2>2. QED
    BY <1>1, <1>4, <2>1 DEF LedgerTypes
<1>7. Places(a) = p /\ Engine(a) = Engine(s)
  BY <1>4 DEF Places, Engine, ExecList
<1>8. /\ p + q + 0 = x - 1
      /\ Engine(s) \cup Held(s.completes) \cup {} = 1..(x - 1)
      /\ Marks(Held(s.completes), s.completed_index, s.finished)
  BY DEF Balanced, Books
<1>9. IsFiniteSet({x}) /\ Cardinality({x}) = 1
  BY FS_Singleton
<1>10. a.next_index - 1 = x
  BY <1>4, <1>5
<1> HIDE DEF x, p, q
<1>11. p + q + 1 = x /\ 1 \in Nat /\ 1..x = 1..(x - 1) \cup {x}
  BY <1>5, <1>8
<1>12. Engine(a) \cup Held(a.completes) \cup {x} = 1..(a.next_index - 1)
  BY <1>4, <1>7, <1>8, <1>10, <1>11
<1>13. Places(a) + Len(a.completes) + 1 = a.next_index - 1
  BY <1>4, <1>7, <1>10, <1>11 DEF q
<1>14. Marks(Held(a.completes), a.completed_index, a.finished)
  BY <1>4, <1>8
<1>15. Cardinality({x}) <= 1
  BY <1>9
<1>16. Books(a, 1, {x})
  BY <1>6, <1>9, <1>11, <1>12, <1>13, <1>14, <1>15 DEF Books
<1>17. a = Accept(s, key)
  BY DEF Accept, a, b
<1>18. QED
  BY <1>4, <1>16, <1>17 DEF x

\* A tool stop answers the tool action it cancels and takes its own place.
LEMMA StartToolStopBooks ==
  ASSUME NEW s, NEW index \in Nat, Books(s, 1, {index}), s.next_tag \in Nat
  PROVE  Balanced(StartToolStop(s, index))
<1> DEFINE a == DropActiveToolAction(s)
           l == DroppedActiveToolAction(s)
           c == CompleteCancelled(a, l)
           tag == c.next_tag + 1
           e == [index |-> index, tag |-> tag]
           t == Send([c EXCEPT !.next_tag = tag, !.tool_stops = Append(@, e)],
                     [op |-> "StartTool", tag |-> tag, index |-> index])
<1>1. LedgerTypes(s) /\ DOMAIN s = Fields
  BY BooksTypes
<1>2. Yields(s, a, l)
  BY <1>1, DropToolActionYields
<1>3. DOMAIN a = Fields
  BY <1>2 DEF Yields, LedgerTypes
<1>4. a.next_tag = s.next_tag
  BY <1>1 DEF DropActiveToolAction, Send, Fields
<1> HIDE DEF a, l
<1>5. Settles(a, c, l, "cancelled")
  BY <1>3, CompleteCancelledSettles
<1>6. Books(c, 1, {index})
  BY <1>2, <1>5, AnswerBooks
<1>7. c.next_tag = a.next_tag
  BY <1>3, CompleteCancelledKeeps DEF Keeps, Fields
<1>8. LedgerTypes(c) /\ DOMAIN c = Fields
  BY <1>6, BooksTypes
<1>9. StartToolStop(s, index) = t
  BY DEF StartToolStop, a, l
<1> HIDE DEF c
<1>10. /\ DOMAIN t = Fields
       /\ t.next_index = c.next_index /\ t.pending = c.pending /\ t.executing = c.executing
       /\ t.completes = c.completes
       /\ t.completed_index = c.completed_index /\ t.finished = c.finished
       /\ t.tool_stops = Append(c.tool_stops, e)
  BY <1>8 DEF Send, Fields
<1> HIDE DEF t
<1>11. e \in ToolStops /\ e.index = index
  BY <1>4, <1>7 DEF ToolStops
<1> HIDE DEF e
<1>12. c.tool_stops \in Seq(ToolStops)
  BY <1>8 DEF LedgerTypes
<1>13. /\ t.tool_stops \in Seq(ToolStops) /\ Len(t.tool_stops) = Len(c.tool_stops) + 1
       /\ Len(c.tool_stops) \in Nat
       /\ Held(t.tool_stops) = Held(c.tool_stops) \cup {index}
  BY <1>10, <1>11, <1>12, HeldAppend
<1>14. LedgerTypes(t)
  BY <1>8, <1>10, <1>13 DEF LedgerTypes
<1>15. ExecList(t) = ExecList(c)
  BY <1>10 DEF ExecList
<1>16. Engine(t) = Engine(c) \cup {index}
  BY <1>10, <1>13, <1>15 DEF Engine
<1>17. Places(t) = Places(c) + 1
  <2> DEFINE x == Len(c.pending)
             y == Len(c.tool_stops)
             z == Len(ExecList(c))
  <2>1. x \in Nat /\ y \in Nat /\ z \in Nat
    BY <1>8, BookLists
  <2>2. Places(c) = x + y + z /\ Places(t) = x + (y + 1) + z
    BY <1>10, <1>13, <1>15 DEF Places
  <2> HIDE DEF x, y, z
  <2>3. QED
    BY <2>1, <2>2
<1>18. <<index>> \in Seq(Nat) /\ Len(<<index>>) = 1 /\ Elems(<<index>>) = {index}
  BY ShortLists
<1>19. Yields(t, c, <<index>>)
  BY <1>8, <1>10, <1>16, <1>17, <1>18 DEF Yields
<1>20. Balanced(t)
  BY <1>6, <1>14, <1>19, PlaceBooks
<1>21. QED
  BY <1>9, <1>20

\* on_queued places the command it accepts.
LEMMA QueuedBooks ==
  ASSUME NEW s, NEW key, NEW kind \in QueuedKinds \cup {"stop"}, Balanced(s),
         s.next_tag \in Nat
  PROVE  Balanced(OnQueued(s, key, kind))
<1> DEFINE a == Accept(s, key)
           x == s.next_index
           e == [index |-> x, kind |-> kind]
           b == [a EXCEPT !.active_stream = "none", !.pending = Append(@, e)]
<1>1. LedgerTypes(s) /\ DOMAIN s = Fields /\ x \in Nat \ {0}
  BY BooksTypes DEF Balanced, LedgerTypes
<1>2. Books(a, 1, {x}) /\ a.pending = s.pending
  BY AcceptBooks
<1>3. a.next_tag = s.next_tag
  BY <1>1 DEF Accept, OnMotionAccepted, Fields
<1>4. CASE OnQueued(s, key, kind) = s
  BY <1>4
<1>5. CASE OnQueued(s, key, kind) # s /\ kind = "stop"
  <2>1. OnQueued(s, key, kind) = StartToolStop(a, x)
    BY <1>5 DEF OnQueued
  <2> HIDE DEF a, x
  <2>2. QED
    BY <1>1, <1>2, <1>3, <2>1, StartToolStopBooks
<1>6. CASE OnQueued(s, key, kind) # s /\ kind # "stop"
  <2>1. OnQueued(s, key, kind) = Pump(b)
    BY <1>6 DEF OnQueued
  <2>2. LedgerTypes(a) /\ DOMAIN a = Fields
    BY <1>2, BooksTypes
  <2> HIDE DEF a
  <2>3. /\ DOMAIN b = Fields
        /\ b.next_index = a.next_index /\ b.tool_stops = a.tool_stops
        /\ b.executing = a.executing /\ b.completes = a.completes
        /\ b.completed_index = a.completed_index /\ b.finished = a.finished
        /\ b.pending = Append(a.pending, e)
    BY <2>2 DEF Fields
  <2> HIDE DEF b
  <2>4. e \in Entry /\ e.index = x
    BY <1>1, <1>6 DEF Entry
  <2> HIDE DEF e
  <2>5. a.pending \in Seq(Entry)
    BY <2>2 DEF LedgerTypes
  <2>6. /\ b.pending \in Seq(Entry) /\ Len(b.pending) = Len(a.pending) + 1
        /\ Len(a.pending) \in Nat
        /\ Held(b.pending) = Held(a.pending) \cup {x}
    BY <2>3, <2>4, <2>5, HeldAppend
  <2>7. LedgerTypes(b)
    BY <2>2, <2>3, <2>6 DEF LedgerTypes
  <2>8. ExecList(b) = ExecList(a)
    BY <2>3 DEF ExecList
  <2>9. Engine(b) = Engine(a) \cup {x}
    BY <2>3, <2>6, <2>8 DEF Engine
  <2>10. Places(b) = Places(a) + 1
    <3> DEFINE u == Len(a.pending)
               y == Len(a.tool_stops)
               z == Len(ExecList(a))
    <3>1. u \in Nat /\ y \in Nat /\ z \in Nat
      BY <2>2, BookLists
    <3>2. Places(a) = u + y + z /\ Places(b) = (u + 1) + y + z
      BY <2>3, <2>6, <2>8 DEF Places
    <3> HIDE DEF u, y, z
    <3>3. QED
      BY <3>1, <3>2
  <2> HIDE DEF x
  <2>11. <<x>> \in Seq(Nat) /\ Len(<<x>>) = 1 /\ Elems(<<x>>) = {x} /\ x \in Nat
    BY <1>1, ShortLists
  <2>12. Yields(b, a, <<x>>)
    BY <2>2, <2>3, <2>9, <2>10, <2>11 DEF Yields
  <2>13. Balanced(b)
    BY <1>2, <2>7, <2>11, <2>12, PlaceBooks
  <2>14. QED
    BY <2>1, <2>13, PumpBooks DEF Balanced
<1>7. QED
  BY <1>4, <1>5, <1>6

-----------------------------------------------------------------------------
(* Streams and system commands keep the books. *)

\* on_faf cancels what is planned and answers it.
LEMMA FafBooks ==
  ASSUME NEW s, NEW stream, NEW ok \in BOOLEAN, NEW standoff \in BOOLEAN, Balanced(s)
  PROVE  Balanced(OnFaf(s, stream, ok, standoff))
<1>1. LedgerTypes(s) /\ DOMAIN s = Fields
  BY BooksTypes DEF Balanced
<1>2. ASSUME NEW t, Balanced(t)
      PROVE  /\ Balanced(OnMotionAccepted(t))
             /\ \A busy : Balanced(LatchRefusal(t, busy))
  <2>1. DOMAIN t = Fields
    BY <1>2, BooksTypes DEF Balanced
  <2>2. SameLedger(t, OnMotionAccepted(t)) /\ \A busy : SameLedger(t, LatchRefusal(t, busy))
    BY <2>1, LatchesSame
  <2>3. QED
    BY <1>2, <2>2, SameBooks DEF Balanced
<1>3. CASE GateRefuses(s, stream)
  BY <1>2, <1>3 DEF OnFaf
<1>4. CASE ~GateRefuses(s, stream) /\ s.active_stream = stream
  <2> DEFINE t == [s EXCEPT !.active_stream = IF standoff THEN @ ELSE "none"]
  <2>1. \/ OnFaf(s, stream, ok, standoff) = OnMotionAccepted(s)
        \/ OnFaf(s, stream, ok, standoff) = LatchRefusal(t, t.executing # NoCmd \/ t.pending # <<>>)
    BY <1>4 DEF OnFaf
  <2>2. SameLedger(s, t)
    BY <1>1 DEF SameLedger, Keeps, Fields, Ledger
  <2> HIDE DEF t
  <2>3. Balanced(t)
    BY <2>2, SameBooks DEF Balanced
  <2>4. QED
    BY <1>2, <2>1, <2>3
<1>5. CASE ~GateRefuses(s, stream) /\ s.active_stream # stream
  <2> DEFINE n == [s EXCEPT !.active_stream = "none"]
             d == DropPlanned(n)
             w == [d EXCEPT !.active_stream = IF ok \/ standoff THEN stream ELSE "none"]
             l == DroppedPlanned(s)
             t == CompleteCancelled(w, l)
  <2>1. \/ OnFaf(s, stream, ok, standoff) = OnMotionAccepted(t)
        \/ \E busy : OnFaf(s, stream, ok, standoff) = LatchRefusal(t, busy)
    BY <1>5 DEF OnFaf
  <2>2. SameLedger(s, n) /\ DOMAIN n = Fields /\ n.planning = s.planning
    BY <1>1 DEF SameLedger, Keeps, Fields, Ledger
  <2> HIDE DEF n
  <2>3. LedgerTypes(n)
    BY <1>1, <2>2, LedgerFields DEF LedgerTypes
  <2>4. DroppedPlanned(n) = l
    <3>1. n.pending = s.pending /\ n.executing = s.executing
      BY <2>2, LedgerFields
    <3>2. PlanningHead(n) <=> PlanningHead(s)
      BY <2>2, <3>1 DEF PlanningHead
    <3>3. DroppedActive(n) = DroppedActive(s)
      BY <2>2, <3>1, <3>2 DEF DroppedActive
    <3>4. ASSUME NEW c, DOMAIN c = Fields
          PROVE  DropActive(c).pending = IF PlanningHead(c) THEN Tail(c.pending) ELSE c.pending
      BY <3>4 DEF DropActive, Fields
    <3>5. DropActive(n).pending = DropActive(s).pending
      BY <1>1, <2>2, <3>1, <3>2, <3>4
    <3>6. QED
      BY <3>3, <3>5 DEF DroppedPlanned
  <2>5. Yields(n, d, l)
    BY <2>3, <2>4, DropPlannedYields
  <2>6. DOMAIN d = Fields
    BY <2>5 DEF Yields, LedgerTypes
  <2> HIDE DEF d, l
  <2>7. SameLedger(d, w) /\ DOMAIN w = Fields
    BY <2>6 DEF SameLedger, Keeps, Fields, Ledger
  <2> HIDE DEF w
  <2>8. Yields(s, w, l)
    BY <2>2, <2>5, <2>7, YieldsSame
  <2>9. Settles(w, t, l, "cancelled")
    BY <2>7, CompleteCancelledSettles
  <2> HIDE DEF t
  <2>10. Balanced(t)
    BY <2>8, <2>9, AnswerBooks DEF Balanced
  <2>11. QED
    BY <1>2, <2>1, <2>10
<1>6. QED
  BY <1>3, <1>4, <1>5

\* The system commands answer what they cancel.
LEMMA SystemBooks ==
  ASSUME NEW s, Balanced(s)
  PROVE  /\ Balanced(OnEstop(s))
         /\ \A clear_queue \in BOOLEAN : Balanced(OnStop(s, clear_queue))
         /\ \A on : Balanced(OnPause(s, on))
         /\ Balanced(OnTeleport(s))
         /\ Balanced(OnReset(s))
         /\ Balanced(OnResetState(s))
         /\ Balanced(OnBusSwap(s))
         /\ \A set : Balanced(OnSetShapes(s, set))
<1>1. DOMAIN s = Fields
  BY BooksTypes DEF Balanced
<1>2. ASSUME NEW a, NEW b, Balanced(a), SameLedger(a, b) PROVE Balanced(b)
  BY <1>2, SameBooks DEF Balanced
<1>3. ASSUME NEW a, Balanced(a)
      PROVE  /\ DOMAIN a = Fields
             /\ Balanced(ClearPause(a)) /\ Balanced(OnMotionAccepted(a))
             /\ Balanced(InvalidateAttachments(a))
             /\ \A set : Balanced(DeferProgramShapes(a, set))
             /\ Balanced(CancelActiveMotion(a)) /\ Balanced(CancelAllMotion(a))
             /\ Balanced(CancelPlanned(a))
  <2>1. DOMAIN a = Fields
    BY <1>3, BooksTypes DEF Balanced
  <2>2. /\ Balanced(CancelActiveMotion(a)) /\ Balanced(CancelAllMotion(a))
        /\ Balanced(CancelPlanned(a))
    BY <1>3, CancelBooks DEF Balanced
  <2>3. QED
    BY <1>2, <1>3, <2>1, <2>2, LatchesSame
<1>4. Balanced(OnEstop(s))
  <2> DEFINE u == [s EXCEPT !.estop_latched = TRUE, !.standing_error = Unattributed("estop")]
  <2>1. SameLedger(s, u)
    BY <1>1 DEF SameLedger, Keeps, Fields, Ledger
  <2>2. OnEstop(s) = ClearPause(CancelAllMotion(u))
    BY DEF OnEstop
  <2> HIDE DEF u
  <2>3. QED
    BY <1>2, <1>3, <2>1, <2>2
<1>5. ASSUME NEW clear_queue \in BOOLEAN PROVE Balanced(OnStop(s, clear_queue))
  <2> DEFINE t == ClearPause(CancelAllMotion(s))
             u == [t EXCEPT !.standing_error = Unattributed("cancelled")]
  <2>1. Balanced(t) /\ DOMAIN t = Fields
    BY <1>3
  <2>2. \/ OnStop(s, clear_queue) = CancelActiveMotion(s)
        \/ OnStop(s, clear_queue) = t
        \/ OnStop(s, clear_queue) = u
    BY DEF OnStop
  <2> HIDE DEF t
  <2>3. SameLedger(t, u)
    BY <2>1 DEF SameLedger, Keeps, Fields, Ledger
  <2> HIDE DEF u
  <2>4. QED
    BY <1>2, <1>3, <2>1, <2>2, <2>3
<1>6. \A on : Balanced(OnPause(s, on))
  BY <1>1, <1>2, LatchesSame
<1>7. Balanced(OnTeleport(s))
  <2> DEFINE n == [s EXCEPT !.active_stream = "none"]
             c == CancelPlanned(n)
             d == [c EXCEPT !.teleport_homed = TRUE]
  <2>1. OnTeleport(s) = s \/ OnTeleport(s) = OnMotionAccepted(d)
    BY DEF OnTeleport
  <2>2. SameLedger(s, n)
    BY <1>1 DEF SameLedger, Keeps, Fields, Ledger
  <2> HIDE DEF n
  <2>3. Balanced(c) /\ DOMAIN c = Fields
    BY <1>2, <1>3, <2>2
  <2> HIDE DEF c
  <2>4. SameLedger(c, d)
    BY <2>3 DEF SameLedger, Keeps, Fields, Ledger
  <2> HIDE DEF d
  <2>5. QED
    BY <1>2, <1>3, <2>1, <2>3, <2>4
<1>8. Balanced(OnReset(s))
  BY <1>1, <1>2, LatchesSame
<1>9. Balanced(OnResetState(s))
  <2> DEFINE c == CancelAllMotion(InvalidateAttachments(s))
             d == [c EXCEPT !.standing_error = NoError, !.action_state = "idle"]
  <2>1. Balanced(c) /\ DOMAIN c = Fields
    BY <1>3
  <2>2. OnResetState(s) = DeferProgramShapes(ClearPause(d), "plain")
    BY DEF OnResetState
  <2> HIDE DEF c
  <2>3. SameLedger(c, d)
    BY <2>1 DEF SameLedger, Keeps, Fields, Ledger
  <2> HIDE DEF d
  <2>4. QED
    BY <1>2, <1>3, <2>1, <2>2, <2>3
<1>10. Balanced(OnBusSwap(s))
  BY <1>3 DEF OnBusSwap
<1>11. ASSUME NEW set PROVE Balanced(OnSetShapes(s, set))
  BY <1>3 DEF OnSetShapes
<1>12. QED
  BY <1>4, <1>5, <1>6, <1>7, <1>8, <1>9, <1>10, <1>11

\* A geometry answer is not in the ledger.
LEMMA ShapesAppliedBooks ==
  ASSUME NEW s, NEW tag, NEW ok \in BOOLEAN, Balanced(s)
  PROVE  Balanced(OnShapesApplied(s, tag, ok))
<1> DEFINE p == {q \in s.pending_shapes : q.tag = tag}
           x == IF ok THEN (CHOOSE q \in p : TRUE).set ELSE s.shapes
           t == [s EXCEPT !.pending_shapes = @ \ p, !.shapes = x]
<1>1. DOMAIN s = Fields
  BY BooksTypes DEF Balanced
<1>2. OnShapesApplied(s, tag, ok) = s \/ OnShapesApplied(s, tag, ok) = t
  BY DEF OnShapesApplied
<1> HIDE DEF x, p
<1>3. SameLedger(s, t)
  BY <1>1 DEF SameLedger, Keeps, Fields, Ledger
<1> HIDE DEF t
<1>4. QED
  BY <1>2, <1>3, SameBooks DEF Balanced

-----------------------------------------------------------------------------
(* The state machine. *)

\* A handler's core, committed.
LEMMA CommitBooks ==
  ASSUME NEW t, Balanced(t), Commit(t)
  PROVE  Balanced(core')
<1>1. DOMAIN t = Fields
  BY BooksTypes DEF Balanced
<1>2. SameLedger(t, core')
  BY <1>1 DEF Commit, SameLedger, Keeps, Fields, Ledger
<1>3. QED
  BY <1>2, SameBooks DEF Balanced

\* Every server turn keeps the books balanced.
LEMMA ServerBooks ==
  ASSUME Inv, Balanced(core), NEW sn \in Snaps, Client(sn) \/ Poll(sn) \/ PlanEvent(sn)
  PROVE  Balanced(core')
<1> DEFINE a == Arrive(core, sn)
           ev == Head(events)
<1>1. CoreOK(core) /\ events \in Seq(PlanEvents)
  BY DEF Inv, TypeOK
<1>2. CoreOK(a) /\ Balanced(a)
  BY <1>1, ArriveCalms, ArriveBooks DEF Calms, Balanced
<1>3. MarkerOK(a) /\ a.next_tag \in Nat
  BY <1>2 DEF CoreOK
<1> HIDE DEF a
<1>4. CASE Queued(sn)
  <2>1. PICK key \in Keys, kind \in Kinds : Commit(OnQueued(a, key, kind))
    BY <1>4 DEF Queued, a
  <2>2. Balanced(OnQueued(a, key, kind))
    BY <1>2, <1>3, InstanceAssumption, QueuedBooks
  <2>3. QED
    BY <2>1, <2>2, CommitBooks
<1>5. CASE Streamed(sn)
  <2>1. PICK stream \in Streams, ok \in BOOLEAN, standoff \in BOOLEAN :
           Commit(OnFaf(a, stream, ok, standoff))
    BY <1>5 DEF Streamed, a
  <2>2. Balanced(OnFaf(a, stream, ok, standoff))
    BY <1>2, FafBooks
  <2>3. QED
    BY <2>1, <2>2, CommitBooks
<1>6. CASE Estop(sn) \/ Stop(sn) \/ Pause(sn) \/ Teleport(sn) \/ Reset(sn)
             \/ ResetState(sn) \/ BusSwap(sn) \/ SetShapes(sn)
  <2>1. \/ Commit(OnEstop(a))
        \/ \E clear_queue \in BOOLEAN : Commit(OnStop(a, clear_queue))
        \/ \E on \in BOOLEAN : Commit(OnPause(a, on))
        \/ Commit(OnTeleport(a))
        \/ Commit(OnReset(a))
        \/ Commit(OnResetState(a))
        \/ Commit(OnBusSwap(a))
        \/ \E set \in ShapeSets : Commit(OnSetShapes(a, set))
    BY <1>6 DEF Estop, Stop, Pause, Teleport, Reset, ResetState, BusSwap, SetShapes, a
  <2>2. QED
    BY <1>2, <2>1, SystemBooks, CommitBooks
<1>7. CASE Poll(sn)
  <2>1. Commit(Pump(a))
    BY <1>7 DEF Poll, a
  <2>2. Balanced(Pump(a))
    BY <1>2, PumpBooks DEF Balanced
  <2>3. QED
    BY <2>1, <2>2, CommitBooks
<1>8. CASE PlanEvent(sn)
  <2>1. ev \in PlanEvents /\ Commit(OnPlanEvent(a, ev))
    BY <1>1, <1>8, HeadTailProperties DEF PlanEvent, a
  <2> HIDE DEF ev
  <2>2. Balanced(OnPlanEvent(a, ev))
    <3>1. CASE ev \in [op : {"Started"}, index : Nat \ {0}, taken : Nat]
      <4>1. ev.op = "Started" /\ ev.taken \in Nat /\ ev.index \in Nat \ {0}
        BY <3>1
      <4>2. OnPlanEvent(a, ev) = OnPlanStarted(a, ev.index, ev.taken)
        BY <4>1 DEF OnPlanEvent
      <4>3. QED
        BY <1>2, <1>3, <4>1, <4>2, PlanStartedBooks
    <3>2. CASE ev \in [op : {"Rejected"}, index : Nat \ {0}]
      <4>1. ev.op = "Rejected"
        BY <3>2
      <4>2. OnPlanEvent(a, ev) = OnPlanRejected(a, ev.index)
        BY <4>1 DEF OnPlanEvent
      <4>3. QED
        BY <1>2, <4>2, PlanRejectedBooks
    <3>3. CASE ev \in [op : {"Outcome"}, index : Nat, ok : BOOLEAN, changed : BOOLEAN]
      <4> DEFINE o == OnOutcome(a, ev.index, ev.ok, ev.changed)
      <4>1. ev.op = "Outcome" /\ ev.ok \in BOOLEAN /\ ev.changed \in BOOLEAN
        BY <3>3
      <4>2. OnPlanEvent(a, ev) = Pump(o)
        BY <4>1 DEF OnPlanEvent
      <4>3. Balanced(o)
        BY <1>2, <4>1, OutcomeBooks
      <4>4. QED
        BY <4>2, <4>3, PumpBooks DEF Balanced
    <3>4. CASE ev \in [op : {"ToolOutcome"}, index : Nat, ok : BOOLEAN]
      <4>1. ev.op = "ToolOutcome" /\ ev.ok \in BOOLEAN
        BY <3>4
      <4>2. OnPlanEvent(a, ev) = OnToolOutcome(a, ev.index, ev.ok)
        BY <4>1 DEF OnPlanEvent
      <4>3. QED
        BY <1>2, <4>1, <4>2, ToolOutcomeBooks
    <3>5. CASE ev \in [op : {"ToolStarted", "ShapesApplied"}, tag : Nat, ok : BOOLEAN]
      <4>1. ev.op \in {"ToolStarted", "ShapesApplied"} /\ ev.ok \in BOOLEAN
        BY <3>5
      <4>2. CASE ev.op = "ToolStarted"
        <5>1. OnPlanEvent(a, ev) = OnToolStarted(a, ev.tag, ev.ok)
          BY <4>2 DEF OnPlanEvent
        <5>2. QED
          BY <1>2, <4>1, <5>1, ToolStartedBooks
      <4>3. CASE ev.op = "ShapesApplied"
        <5>1. OnPlanEvent(a, ev) = OnShapesApplied(a, ev.tag, ev.ok)
          BY <4>3 DEF OnPlanEvent
        <5>2. QED
          BY <1>2, <4>1, <5>1, ShapesAppliedBooks
      <4>4. QED
        BY <4>1, <4>2, <4>3
    <3>6. CASE ev \in [op : {"ToolFitted"}, changed : BOOLEAN]
      <4>1. ev.op = "ToolFitted" /\ ev.changed \in BOOLEAN
        BY <3>6
      <4>2. OnPlanEvent(a, ev) = AdoptToolSelection(a, ev.changed)
        BY <4>1 DEF OnPlanEvent
      <4>3. SameLedger(a, AdoptToolSelection(a, ev.changed))
        BY <1>2, BooksTypes, LatchesSame DEF Balanced
      <4>4. QED
        BY <1>2, <4>2, <4>3, SameBooks DEF Balanced
    <3>7. QED
      BY <2>1, <3>1, <3>2, <3>3, <3>4, <3>5, <3>6 DEF PlanEvents
  <2>3. QED
    BY <2>1, <2>2, CommitBooks
<1>9. QED
  BY <1>4, <1>5, <1>6, <1>7, <1>8 DEF Client

\* The books start balanced: no command, no answer, the mark below the first.
LEMMA InitBooks ==
  ASSUME Init
  PROVE  Balanced(core)
<1>1. PICK sn \in Snaps : core = InitCore(sn)
  BY DEF Init
<1>2. /\ DOMAIN core = Fields
      /\ core.next_index = 1 /\ core.pending = <<>> /\ core.tool_stops = <<>>
      /\ core.executing = NoCmd /\ core.completes = <<>>
      /\ core.completed_index = -1 /\ core.finished = {}
  BY <1>1 DEF InitCore, Fields
<1>3. \A S : <<>> \in Seq(S)
  BY EmptySeq
<1>4. Len(<<>>) = 0 /\ Held(<<>>) = {} /\ Elems(<<>>) = {}
  BY EmptySeq DEF Held, Elems
<1>5. LedgerTypes(core)
  BY <1>2, <1>3, NoCmdType DEF LedgerTypes
<1>6. ExecList(core) = <<>>
  BY <1>2 DEF ExecList
<1>7. Places(core) = 0 /\ Engine(core) = {}
  BY <1>2, <1>4, <1>6 DEF Places, Engine
<1>8. Marks(Held(core.completes), core.completed_index, core.finished)
  BY <1>2, <1>4 DEF Marks, Greater
<1>9. IsFiniteSet({}) /\ Cardinality({}) = 0
  BY FS_EmptySet
<1>10. Places(core) + Len(core.completes) + 0 = core.next_index - 1
  BY <1>2, <1>4, <1>7
<1>11. Engine(core) \cup Held(core.completes) \cup {} = 1..(core.next_index - 1)
  BY <1>2, <1>4, <1>7
<1>12. Cardinality({}) <= 0 /\ 0 \in Nat
  BY <1>9
<1>13. QED
  BY <1>5, <1>8, <1>9, <1>10, <1>11, <1>12 DEF Balanced, Books

\* Every step keeps the books balanced.
LEMMA NextBooks == Inv /\ Balanced(core) /\ [Next]_vars => Balanced(core)'
<1> SUFFICES ASSUME Inv, Balanced(core), [Next]_vars PROVE Balanced(core')
  BY DEF Balanced, Books, LedgerTypes, Marks, Places, Engine, ExecList
<1>1. ASSUME NEW sn \in Snaps, Client(sn) \/ Poll(sn) \/ PlanEvent(sn)
      PROVE  Balanced(core')
  BY <1>1, ServerBooks
<1>2. CASE HoldExpires
  <2>1. DOMAIN core = Fields
    BY BooksTypes DEF Balanced
  <2>2. SameLedger(core, core')
    BY <1>2, <2>1 DEF HoldExpires, SameLedger, Keeps, Fields, Ledger
  <2>3. QED
    BY <2>2, SameBooks DEF Balanced
<1>3. CASE Planner
  <2>1. core' = core
    BY <1>3 DEF Planner, ServiceStart, ServiceCancel, ServiceStartTool, ServiceCancelTool,
                ServiceSetShapes, PollOutcome, PollTool, DriveToolChanged
  <2>2. QED
    BY <2>1
<1>4. CASE UNCHANGED vars
  BY <1>4 DEF vars
<1>5. QED
  BY <1>1, <1>2, <1>3, <1>4 DEF Next

\* Balanced books are what Accounted asks for.
LEMMA BalancedAccounts ==
  ASSUME Balanced(core)
  PROVE  Accounted
<1>1. LedgerTypes(core)
  BY BooksTypes DEF Balanced
<1>2. /\ Elems(Indices(core.pending)) = Held(core.pending)
      /\ Elems(Indices(core.tool_stops)) = Held(core.tool_stops)
      /\ Elems(Indices(core.completes)) = Held(core.completes)
  <2>1. /\ core.pending \in Seq(Entry) /\ core.tool_stops \in Seq(ToolStops)
        /\ core.completes \in Seq(Pushes)
    BY <1>1 DEF LedgerTypes
  <2>2. QED
    BY <1>1, <2>1, BookLists, IndicesList
<1>3. /\ core.executing # NoCmd =>
           /\ Len(ExecList(core)) = 1 + Len(core.executing.blended)
           /\ Elems(ExecList(core)) = {core.executing.index} \cup Elems(core.executing.blended)
      /\ core.executing = NoCmd => Len(ExecList(core)) = 0 /\ Elems(ExecList(core)) = {}
  BY <1>1, BookLists
<1>4. Live(core) = Engine(core) /\ Pushed(core) = Held(core.completes)
  BY <1>2, <1>3 DEF Live, Pushed, Engine
<1>5. /\ Engine(core) \cap Held(core.completes) = {}
      /\ Cardinality(Engine(core)) = Places(core)
      /\ Cardinality(Held(core.completes)) = Len(core.completes)
  BY BooksDisjoint DEF Balanced
<1>6. Places(core) = Len(core.pending) + Len(core.tool_stops) +
         (IF core.executing = NoCmd THEN 0 ELSE 1 + Len(core.executing.blended))
  BY <1>3 DEF Places
<1>7. 1..(core.next_index - 1) = Live(core) \cup Pushed(core)
  BY <1>4 DEF Balanced, Books
<1>8. ExactlyOneFate
  BY <1>4, <1>5, <1>6, <1>7 DEF ExactlyOneFate
<1>9. MarkIsExact
  BY <1>4 DEF MarkIsExact, Balanced, Books, Marks
<1>10. QED
  BY <1>8, <1>9 DEF Accounted

\* Every accepted command is in exactly one place of the engine or answered by
\* exactly one COMPLETE, and the completion mark clients wait on stands on the
\* longest unbroken run of answered commands, whatever is queued, streamed,
\* stopped, rejected, blended, failed or cancelled, in any order, and however
\* the planner's answers cross.
THEOREM EveryCommandAccounted == Spec => []Accounted
<1> DEFINE B == Balanced(core)
<1>1. Init => Inv /\ B
  BY InitInv, InitBooks
<1>2. (Inv /\ B) /\ [Next]_vars => (Inv /\ B)'
  BY NextInv, NextBooks
<1>3. B => Accounted
  BY BalancedAccounts
<1> HIDE DEF B
<1>4. QED
  BY <1>1, <1>2, <1>3, PTL DEF Spec
=============================================================================
