-------------------------- MODULE TargetReplayProofs --------------------------
(***************************************************************************)
(* Proofs about TargetReplay, for any rows, tables and limits.             *)
(*                                                                         *)
(* The types need that a queue holds a row once (RowsOK), so that a row   *)
(* that is written leaves it, and that a turn starts no more rows than     *)
(* there is room for (HeadsFit).  PassOK adds what makes the passes fair:  *)
(* the tables to come are in their cyclic order from the cursor on         *)
(* (InTurn), so a pass can be cut short and the next goes on after it.     *)
(***************************************************************************)
EXTENDS TargetReplay, FiniteSetTheorems, SequenceTheorems, TLAPS

-----------------------------------------------------------------------------
(* The inductive invariant, and what is fair about a pass *)

\* Going up from the table c and on from the first, t comes before u.
Comes(c, t, u) ==
  \/ t > c /\ (u > c => t < u)
  \/ t <= c /\ u <= c /\ t < u

Cyclic(c, q) == \A i, j \in 1..Len(q) : i < j => Comes(c, q[i], q[j])

InTurn == Cyclic(cursor, todo)

PassOK ==
  /\ passing \in BOOLEAN /\ share \in 0..Batch /\ cursor \in Table \cup {0}
  /\ todo \in Seq(Table) /\ InTurn
  /\ turns \subseteq Table \ ToSet(todo) /\ Cardinality(turns) <= Concurrency
  /\ ~passing => todo = <<>> /\ turns = {}
  /\ awaits \in [Table -> SUBSET Row]
  /\ \A t \in Table : \A r \in awaits[t] : t \in turns /\ TableOf[r] = t

RowsOK ==
  /\ accepted \subseteq Row /\ confirmed \subseteq accepted
  /\ queue \in [Table -> Seq(Row)] /\ \A t \in Table : IsInjective(queue[t])
  /\ \A t \in Table : ToSet(queue[t]) = {r \in accepted \ confirmed : TableOf[r] = t}
  /\ jobs \subseteq accepted \ confirmed /\ delayed \subseteq accepted \ (confirmed \cup jobs)
  /\ IsFiniteSet(jobs) /\ Cardinality(jobs) <= MaxInFlight

ControlOK ==
  paused \subseteq Table /\ canReplay \in BOOLEAN /\ status \in {"up", "closing", "closed"}

IInv == RowsOK /\ ControlOK /\ PassOK

\* The tables with pending rows that a pass which begins leaves out (Targets has all of
\* them) come after those it takes.
NonePassedOver ==
  ~passing /\ passing' =>
    \A t \in ToSet(todo'), u \in Targets \ ToSet(todo') : Comes(cursor, t, u)

\* A turn goes to a table that has none, and that comes before all the others of the
\* pass which wait for theirs.
TurnInOrder ==
  turns' # turns =>
    \/ turns' \subseteq turns
    \/ /\ turns' = turns \cup {cursor'} /\ cursor' \notin turns
       /\ \A u \in ToSet(todo') : Comes(cursor, cursor', u)

\* The passes go round the tables, whose order is that of their names (replayPass()).
RoundRobin == [][NonePassedOver /\ TurnInOrder]_vars

-----------------------------------------------------------------------------
(* Sets of numbers, and sequences *)

\* A part of a finite set is finite and not larger.
LEMMA CountPart ==
  ASSUME NEW S, IsFiniteSet(S), NEW T \in SUBSET S
  PROVE  /\ IsFiniteSet(T) /\ Cardinality(T) \in Nat /\ Cardinality(S) \in Nat
         /\ Cardinality(T) <= Cardinality(S)
BY FS_Subset, FS_CardinalityType

\* Lesser() is the lesser of two numbers.
LEMMA LesserIs ==
  ASSUME NEW x \in Nat, NEW y \in Nat
  PROVE  Lesser(x, y) \in Nat /\ Lesser(x, y) <= x /\ Lesser(x, y) <= y
BY DEF Lesser

\* How many of some numbers are less than x.
Rank(S, x) == Cardinality({z \in S : z < x})

\* The rank of a number in a finite set is one of 0..n-1, and grows with the number.
LEMMA RankGrows ==
  ASSUME NEW S \in SUBSET Nat, IsFiniteSet(S), NEW x \in S
  PROVE  /\ Rank(S, x) \in Nat /\ Rank(S, x) < Cardinality(S)
         /\ \A y \in S : x < y => Rank(S, x) < Rank(S, y)
<1> DEFINE B(y) == {z \in S : z < y}
<1>1. /\ IsFiniteSet(B(x)) /\ Cardinality(B(x)) \in Nat
      /\ IsFiniteSet(B(x) \cup {x}) /\ Cardinality(B(x) \cup {x}) = Cardinality(B(x)) + 1
  <2>1. x \notin B(x) /\ B(x) \in SUBSET S
    OBVIOUS
  <2>2. IsFiniteSet(B(x)) /\ Cardinality(B(x)) \in Nat
    BY <2>1, CountPart
  <2> HIDE DEF B
  <2> QED BY <2>1, <2>2, FS_AddElement
<1>2. Cardinality(B(x)) < Cardinality(S)
  <2>1. B(x) \cup {x} \in SUBSET S
    OBVIOUS
  <2> HIDE DEF B
  <2>2. Cardinality(B(x) \cup {x}) <= Cardinality(S) /\ Cardinality(S) \in Nat
    BY <2>1, CountPart
  <2> QED BY <1>1, <2>2
<1>3. ASSUME NEW y \in S, x < y PROVE Cardinality(B(x)) < Cardinality(B(y))
  <2>0. \A z \in S : z < x => z < y
    BY <1>3
  <2>1. B(x) \cup {x} \in SUBSET B(y) /\ B(y) \in SUBSET S
    BY <1>3, <2>0
  <2> HIDE DEF B
  <2>2. IsFiniteSet(B(y)) /\ Cardinality(B(y)) \in Nat
    BY <2>1, CountPart
  <2>3. Cardinality(B(x) \cup {x}) <= Cardinality(B(y))
    BY <2>1, <2>2, CountPart
  <2> QED BY <1>1, <2>2, <2>3
<1> QED BY <1>1, <1>2, <1>3 DEF Rank

\* The numbers of a finite set of which less than m are below in the set are at most m.
LEMMA FirstFew ==
  ASSUME NEW S \in SUBSET Nat, IsFiniteSet(S), NEW m \in Nat,
         NEW H \in SUBSET S, \A x \in H : Rank(S, x) < m
  PROVE  IsFiniteSet(H) /\ Cardinality(H) <= m
<1> DEFINE f == [x \in H |-> Rank(S, x) + 1]
<1>1. \A x \in H : Rank(S, x) + 1 \in 1..m
  BY RankGrows
<1>2. \A x, y \in H : Rank(S, x) + 1 = Rank(S, y) + 1 => x = y
  <2> SUFFICES ASSUME NEW x \in H, NEW y \in H, Rank(S, x) + 1 = Rank(S, y) + 1 PROVE x = y
    OBVIOUS
  <2>1. /\ Rank(S, x) \in Nat /\ Rank(S, y) \in Nat
        /\ x < y => Rank(S, x) < Rank(S, y)
        /\ y < x => Rank(S, y) < Rank(S, x)
    BY RankGrows
  <2> QED BY <2>1
<1>3. f \in Injection(H, 1..m)
  BY <1>1, <1>2 DEF Injection, IsInjective
<1>4. IsFiniteSet(1..m) /\ Cardinality(1..m) = m
  BY FS_Interval
<1> HIDE DEF f
<1> QED BY <1>3, <1>4, FS_Injection

\* The entries of a sequence, one after the other.
LEMMA EntriesAre ==
  ASSUME NEW E, NEW q \in Seq(E)
  PROVE  ToSet(q) = {q[i] : i \in 1..Len(q)} /\ ToSet(q) \subseteq E /\ Len(q) \in Nat
BY DEF ToSet

\* IsInjective() of a sequence, by its places.
LEMMA DistinctEntries ==
  ASSUME NEW E, NEW q \in Seq(E)
  PROVE  IsInjective(q) <=> \A i, j \in 1..Len(q) : q[i] = q[j] => i = j
BY DEF IsInjective

\* A queue is given a row that it does not hold.
LEMMA AppendGives ==
  ASSUME NEW E, NEW q \in Seq(E), NEW r \in E, IsInjective(q), r \notin ToSet(q)
  PROVE  /\ Append(q, r) \in Seq(E) /\ IsInjective(Append(q, r))
         /\ ToSet(Append(q, r)) = ToSet(q) \cup {r}
<1> DEFINE u == Append(q, r)
           n == Len(q)
<1>1. /\ u \in Seq(E) /\ n \in Nat /\ Len(u) = n + 1 /\ u[n + 1] = r
      /\ \A i \in 1..n : u[i] = q[i]
  OBVIOUS
<1>2. /\ \A i, j \in 1..n : q[i] = q[j] => i = j
      /\ ToSet(q) = {q[i] : i \in 1..n}
  BY DistinctEntries, EntriesAre
<1> HIDE DEF u, n
<1>3. ToSet(u) = {u[i] : i \in 1..Len(u)}
  BY <1>1, EntriesAre
<1>4. \A i \in 1..Len(u) : i \in 1..n \/ i = n + 1
  BY <1>1
<1>5. ToSet(u) = ToSet(q) \cup {r}
  BY <1>1, <1>2, <1>3, <1>4
<1>6. \A i \in 1..n : q[i] # r
  BY <1>2
<1>7. \A i, j \in 1..Len(u) : u[i] = u[j] => i = j
  BY <1>1, <1>2, <1>4, <1>6
<1>8. IsInjective(u)
  BY <1>1, <1>7, DistinctEntries
<1> QED BY <1>1, <1>5, <1>8 DEF u

\* A part of a sequence, entry by entry.
LEMMA Part ==
  ASSUME NEW E, NEW q \in Seq(E), NEW m \in Nat, NEW n \in Nat, 1 <= m, m <= n + 1, n <= Len(q)
  PROVE  /\ SubSeq(q, m, n) \in Seq(E) /\ Len(SubSeq(q, m, n)) = n - m + 1
         /\ \A i \in 1..(n - m + 1) : SubSeq(q, m, n)[i] = q[m + i - 1]
<1>1. \A i \in m..n : q[i] \in E
  OBVIOUS
<1> QED BY <1>1, SubSeqProperties

\* A row that is written leaves its queue.
LEMMA RemoveLeaves ==
  ASSUME NEW E, NEW q \in Seq(E), NEW k \in 1..Len(q), IsInjective(q)
  PROVE  /\ RemoveAt(q, k) \in Seq(E) /\ IsInjective(RemoveAt(q, k))
         /\ ToSet(RemoveAt(q, k)) = ToSet(q) \ {q[k]}
<1> DEFINE x == SubSeq(q, 1, k - 1)
           y == SubSeq(q, k + 1, Len(q))
           u == x \o y
           n == Len(q)
           At(i) == IF i < k THEN i ELSE i + 1
<1>1. k \in Nat /\ n \in Nat /\ 1 <= k /\ k <= n
  OBVIOUS
<1>2. x \in Seq(E) /\ Len(x) = k - 1 /\ \A i \in 1..(k - 1) : x[i] = q[i]
  BY <1>1, Part
<1>3. y \in Seq(E) /\ Len(y) = n - k /\ \A i \in 1..(n - k) : y[i] = q[k + i]
  BY <1>1, Part
<1> HIDE DEF x, y
<1>4. /\ u \in Seq(E) /\ Len(u) = n - 1
      /\ \A i \in 1..(Len(x) + Len(y)) : u[i] = IF i <= Len(x) THEN x[i] ELSE y[i - Len(x)]
  <2>1. /\ u \in Seq(E) /\ Len(u) = Len(x) + Len(y)
        /\ \A i \in 1..(Len(x) + Len(y)) : u[i] = IF i <= Len(x) THEN x[i] ELSE y[i - Len(x)]
    BY <1>2, <1>3, ConcatProperties
  <2> HIDE DEF u, n
  <2>2. Len(u) = n - 1
    BY <1>1, <1>2, <1>3, <2>1
  <2> QED BY <2>1, <2>2
<1> HIDE DEF u, n
<1>5. ASSUME NEW i \in 1..Len(u) PROVE At(i) \in 1..n /\ At(i) # k /\ u[i] = q[At(i)]
  <2>1. i \in 1..(Len(x) + Len(y))
    BY <1>1, <1>2, <1>3, <1>4
  <2>2. CASE i < k
    BY <1>1, <1>2, <1>4, <2>1, <2>2
  <2>3. CASE ~(i < k)
    <3>1. ~(i <= Len(x)) /\ i - Len(x) \in 1..(n - k) /\ k + (i - Len(x)) = i + 1
      BY <1>1, <1>2, <1>4, <2>3
    <3> QED BY <1>1, <1>3, <1>4, <2>1, <2>3, <3>1
  <2> QED BY <2>2, <2>3
<1>6. /\ \A i, j \in 1..n : q[i] = q[j] => i = j
      /\ ToSet(q) = {q[i] : i \in 1..n} /\ ToSet(u) = {u[i] : i \in 1..Len(u)}
  BY <1>4, DistinctEntries, EntriesAre DEF n
<1>7. \A i, j \in 1..Len(u) : u[i] = u[j] => i = j
  <2> SUFFICES ASSUME NEW i \in 1..Len(u), NEW j \in 1..Len(u), u[i] = u[j] PROVE i = j
    OBVIOUS
  <2>1. At(i) = At(j)
    BY <1>5, <1>6
  <2> QED BY <2>1, <1>1
<1>8. IsInjective(u)
  BY <1>4, <1>7, DistinctEntries
<1>9. ASSUME NEW z \in ToSet(u) PROVE z \in ToSet(q) \ {q[k]}
  <2>1. PICK i \in 1..Len(u) : z = u[i]
    BY <1>6
  <2>2. At(i) \in 1..n /\ At(i) # k /\ z = q[At(i)]
    BY <1>5, <2>1
  <2> HIDE DEF At
  <2> QED BY <1>1, <1>6, <2>2
<1>10. ASSUME NEW z \in ToSet(q) \ {q[k]} PROVE z \in ToSet(u)
  <2>1. PICK j \in 1..n : z = q[j] /\ j # k
    BY <1>6
  <2> DEFINE i == IF j < k THEN j ELSE j - 1
  <2>2. i \in 1..Len(u) /\ At(i) = j
    BY <1>1, <1>4, <2>1
  <2> HIDE DEF i, At
  <2>3. u[i] = z
    BY <1>5, <2>1, <2>2
  <2> QED BY <1>6, <2>2, <2>3
<1>11. ToSet(u) = ToSet(q) \ {q[k]}
  BY <1>9, <1>10
<1>12. RemoveAt(q, k) = u
  BY DEF RemoveAt, u, x, y
<1> QED BY <1>4, <1>8, <1>11, <1>12

\* InOrder() gives some tables in their order.
LEMMA InOrderIs ==
  ASSUME NEW S \in SUBSET Table
  PROVE  /\ InOrder(S) \in Seq(S) /\ Len(InOrder(S)) = Cardinality(S) /\ Cardinality(S) \in Nat
         /\ \A i, j \in 1..Cardinality(S) : i < j => InOrder(S)[i] < InOrder(S)[j]
         /\ ToSet(InOrder(S)) = S
<1> DEFINE n == Cardinality(S)
<1>1. S \in SUBSET Nat /\ IsFiniteSet(S) /\ n \in Nat
  BY ReplayAssumption, CountPart
<1>2. IsFiniteSet(1..n) /\ Cardinality(1..n) = n
  BY <1>1, FS_Interval
<1>3. \E s \in [1..n -> S] : \A i, j \in 1..n : i < j => s[i] < s[j]
  <2> DEFINE r == [x \in S |-> Rank(S, x) + 1]
  <2>1. \A x \in S : Rank(S, x) \in Nat /\ Rank(S, x) < n
    BY <1>1, RankGrows
  <2>2. \A x, y \in S : x < y => Rank(S, x) < Rank(S, y)
    BY <1>1, RankGrows
  <2>3. \A x, y \in S : r[x] = r[y] => x = y
    BY <1>1, <2>1, <2>2
  <2>4. r \in Injection(S, 1..n)
    BY <1>1, <2>1, <2>3 DEF Injection, IsInjective
  <2>5. \A x, y \in S : x < y => r[x] < r[y]
    BY <1>1, <2>1, <2>2
  <2> HIDE DEF r, n
  <2>6. r \in Surjection(S, 1..n)
    BY <1>1, <1>2, <2>4, FS_Injection DEF n
  <2> DEFINE s == [i \in 1..n |-> CHOOSE x \in S : r[x] = i]
  <2>7. \A i \in 1..n : s[i] \in S /\ r[s[i]] = i
    BY <2>6 DEF Surjection
  <2>8. s \in [1..n -> S]
    BY <2>7
  <2> HIDE DEF s
  <2>9. ASSUME NEW i \in 1..n, NEW j \in 1..n, i < j PROVE s[i] < s[j]
    <3>1. s[i] \in Nat /\ s[j] \in Nat /\ s[i] \in S /\ s[j] \in S /\ r[s[i]] = i /\ r[s[j]] = j
      BY <1>1, <2>7
    <3>2. s[j] < s[i] => j < i
      BY <2>5, <3>1
    <3>3. s[j] # s[i]
      BY <2>9, <3>1
    <3> QED BY <2>9, <3>1, <3>2, <3>3
  <2> QED BY <2>8, <2>9
<1> DEFINE o == InOrder(S)
<1>4. o \in [1..n -> S] /\ \A i, j \in 1..n : i < j => o[i] < o[j]
  BY <1>3 DEF InOrder
<1> HIDE DEF o, n
<1>5. \A i, j \in 1..n : o[i] = o[j] => i = j
  <2> SUFFICES ASSUME NEW i \in 1..n, NEW j \in 1..n, o[i] = o[j] PROVE i = j
    OBVIOUS
  <2>1. o[i] \in Nat /\ o[j] \in Nat
    BY <1>1, <1>4
  <2> QED BY <1>4, <2>1
<1>6. o \in Injection(1..n, S)
  BY <1>4, <1>5 DEF Injection, IsInjective
<1>7. o \in Surjection(1..n, S)
  BY <1>1, <1>2, <1>6, FS_Injection DEF n
<1>8. o \in Seq(S) /\ Len(o) = n
  BY <1>1, <1>4
<1>9. ToSet(o) = S
  BY <1>4, <1>7, <1>8 DEF Surjection, ToSet
<1> QED BY <1>1, <1>4, <1>8, <1>9 DEF o, n

-----------------------------------------------------------------------------
(* The passes *)

\* Fair has every target once, in the cyclic order from the cursor on.
LEMMA FairIs ==
  ASSUME cursor \in Nat
  PROVE  /\ Fair \in Seq(Table) /\ ToSet(Fair) = Targets
         /\ Len(Fair) = Cardinality(Targets) /\ Len(Fair) \in Nat
         /\ Cyclic(cursor, Fair)
<1> DEFINE A == {t \in Targets : t > cursor}
           B == {t \in Targets : t <= cursor}
           a == InOrder(A)
           b == InOrder(B)
<1>1. /\ Targets \in SUBSET Table /\ A \in SUBSET Table /\ B \in SUBSET Table
      /\ Targets \subseteq Nat /\ IsFiniteSet(Targets)
  BY ReplayAssumption, FS_Subset DEF Targets
<1>2. A \cup B = Targets /\ A \cap B = {}
  <2>1. \A t \in Targets : t > cursor <=> ~(t <= cursor)
    BY <1>1
  <2> QED BY <2>1
<1>3. (\A t \in A : t \in Nat /\ t > cursor) /\ (\A t \in B : t \in Nat /\ t <= cursor)
  BY <1>1
<1> HIDE DEF A, B
<1>4. /\ a \in Seq(A) /\ Len(a) = Cardinality(A) /\ Cardinality(A) \in Nat /\ ToSet(a) = A
      /\ \A i, j \in 1..Len(a) : i < j => a[i] < a[j]
  BY <1>1, InOrderIs
<1>5. /\ b \in Seq(B) /\ Len(b) = Cardinality(B) /\ Cardinality(B) \in Nat /\ ToSet(b) = B
      /\ \A i, j \in 1..Len(b) : i < j => b[i] < b[j]
  BY <1>1, InOrderIs
<1>6. Fair = a \o b
  BY DEF Fair, A, B
<1> HIDE DEF a, b
<1>7. a \in Seq(Table) /\ b \in Seq(Table)
  BY <1>1, <1>4, <1>5, SeqMonotonic
<1>8. /\ Fair \in Seq(Table) /\ Len(Fair) = Len(a) + Len(b)
      /\ \A i \in 1..(Len(a) + Len(b)) : Fair[i] = IF i <= Len(a) THEN a[i] ELSE b[i - Len(a)]
  BY <1>6, <1>7, ConcatProperties
<1>9. /\ ToSet(a) = {a[i] : i \in 1..Len(a)} /\ ToSet(b) = {b[i] : i \in 1..Len(b)}
      /\ ToSet(Fair) = {Fair[i] : i \in 1..Len(Fair)}
  BY <1>7, <1>8, EntriesAre
<1>10. ASSUME NEW i \in 1..Len(Fair)
       PROVE  \/ i <= Len(a) /\ i \in 1..Len(a) /\ Fair[i] = a[i] /\ Fair[i] \in A
              \/ i > Len(a) /\ i - Len(a) \in 1..Len(b) /\ Fair[i] = b[i - Len(a)] /\ Fair[i] \in B
  BY <1>4, <1>5, <1>8
<1>11. ToSet(Fair) = Targets
  <2>1. ASSUME NEW t \in A PROVE t \in ToSet(Fair)
    <3>1. PICK i \in 1..Len(a) : t = a[i]
      BY <1>4, <1>9
    <3>2. i \in 1..Len(Fair) /\ Fair[i] = t
      BY <1>4, <1>5, <1>8, <3>1
    <3> QED BY <1>9, <3>2
  <2>2. ASSUME NEW t \in B PROVE t \in ToSet(Fair)
    <3>1. PICK i \in 1..Len(b) : t = b[i]
      BY <1>5, <1>9
    <3>2. /\ Len(a) + i \in 1..Len(Fair) /\ ~(Len(a) + i <= Len(a)) /\ (Len(a) + i) - Len(a) = i
      BY <1>4, <1>5, <1>8
    <3>3. Fair[Len(a) + i] = t
      BY <1>8, <3>1, <3>2
    <3> QED BY <1>9, <3>2, <3>3
  <2>3. ToSet(Fair) \subseteq Targets
    BY <1>2, <1>9, <1>10
  <2> QED BY <1>2, <2>1, <2>2, <2>3
<1>12. Len(Fair) = Cardinality(Targets)
  <2>1. IsFiniteSet(A) /\ IsFiniteSet(B)
    BY <1>1, <1>2, FS_Subset
  <2>2. Cardinality(A \cup B) = Cardinality(A) + Cardinality(B) - Cardinality(A \cap B)
    BY <2>1, FS_Union
  <2>3. Cardinality(A \cap B) = 0
    BY <1>2, FS_EmptySet
  <2>4. Len(Fair) = Cardinality(A) + Cardinality(B)
    BY <1>4, <1>5, <1>8
  <2>5. Cardinality(A \cup B) = Cardinality(A) + Cardinality(B)
    BY <1>4, <1>5, <2>2, <2>3
  <2> QED BY <1>2, <2>4, <2>5
<1>13. ASSUME NEW i \in 1..Len(Fair), NEW j \in 1..Len(Fair), i < j
       PROVE  Comes(cursor, Fair[i], Fair[j])
  <2>1. CASE i <= Len(a) /\ i \in 1..Len(a) /\ Fair[i] = a[i] /\ Fair[i] \in A
    <3>1. CASE j <= Len(a) /\ j \in 1..Len(a) /\ Fair[j] = a[j] /\ Fair[j] \in A
      BY <1>3, <1>4, <1>13, <2>1, <3>1 DEF Comes
    <3>2. CASE Fair[j] \in B
      BY <1>3, <2>1, <3>2 DEF Comes
    <3> QED BY <1>10, <3>1, <3>2
  <2>2. CASE i > Len(a) /\ i - Len(a) \in 1..Len(b) /\ Fair[i] = b[i - Len(a)] /\ Fair[i] \in B
    <3>1. /\ j - Len(a) \in 1..Len(b) /\ Fair[j] = b[j - Len(a)] /\ Fair[j] \in B
      BY <1>4, <1>10, <1>13, <2>2
    <3>2. i - Len(a) < j - Len(a)
      BY <1>4, <1>13
    <3>3. Fair[i] < Fair[j]
      BY <1>5, <2>2, <3>1, <3>2
    <3> QED BY <1>3, <2>2, <3>1, <3>3 DEF Comes
  <2> QED BY <1>10, <2>1, <2>2
<1>14. Len(Fair) \in Nat
  BY <1>4, <1>5, <1>8
<1> QED BY <1>8, <1>11, <1>12, <1>13, <1>14 DEF Cyclic

\* The oldest entry of a sequence whose entries differ.
LEMMA TailLeaves ==
  ASSUME NEW E, NEW q \in Seq(E), q # <<>>
  PROVE  /\ Head(q) = q[1] /\ Head(q) \in E /\ 1 \in 1..Len(q)
         /\ Tail(q) \in Seq(E) /\ Len(q) \in Nat /\ Len(Tail(q)) = Len(q) - 1
         /\ \A i \in 1..Len(Tail(q)) : i + 1 \in 1..Len(q) /\ Tail(q)[i] = q[i + 1]
OBVIOUS

\* A turn moves the cursor to the first of the tables, and leaves the others in order.
LEMMA TurnMoves ==
  ASSUME NEW c \in Nat, NEW q \in Seq(Table), q # <<>>, Cyclic(c, q)
  PROVE  /\ Head(q) \in Table /\ Tail(q) \in Seq(Table) /\ Cyclic(Head(q), Tail(q))
         /\ ToSet(Tail(q)) \subseteq ToSet(q) \ {Head(q)} /\ Head(q) \in ToSet(q)
         /\ \A u \in ToSet(Tail(q)) : Comes(c, Head(q), u)
<1> DEFINE h == Head(q)
           w == Tail(q)
<1>1. /\ h = q[1] /\ h \in Table /\ 1 \in 1..Len(q)
      /\ w \in Seq(Table) /\ Len(w) = Len(q) - 1 /\ Len(q) \in Nat
      /\ \A i \in 1..Len(w) : i + 1 \in 1..Len(q) /\ w[i] = q[i + 1]
  BY TailLeaves
<1> HIDE DEF h, w
<1>2. \A i \in 1..Len(q) : q[i] \in Table
  OBVIOUS
<1>3. Table \subseteq Nat
  BY ReplayAssumption
<1>4. ToSet(q) = {q[i] : i \in 1..Len(q)} /\ ToSet(w) = {w[i] : i \in 1..Len(w)}
  BY <1>1, EntriesAre
<1>5. ASSUME NEW i \in 1..Len(w)
      PROVE  w[i] \in Nat /\ Comes(c, h, w[i]) /\ w[i] \in ToSet(q)
  <2>1. 1 < i + 1 /\ i + 1 \in 1..Len(q) /\ w[i] = q[i + 1]
    BY <1>1
  <2>2. Comes(c, q[1], q[i + 1])
    BY <1>1, <2>1 DEF Cyclic
  <2> QED BY <1>1, <1>2, <1>3, <1>4, <2>1, <2>2
<1>6. h \in Nat
  BY <1>1, <1>3
<1>7. ASSUME NEW i \in 1..Len(w), NEW j \in 1..Len(w), i < j
      PROVE  Comes(h, w[i], w[j])
  <2>1. Comes(c, q[i + 1], q[j + 1])
    BY <1>1, <1>7 DEF Cyclic
  <2>2. Comes(c, w[i], w[j])
    BY <1>1, <2>1
  <2> QED BY <1>5, <1>6, <2>2 DEF Comes
<1>8. h \notin ToSet(w)
  BY <1>4, <1>5, <1>6 DEF Comes
<1>9. Cyclic(h, w)
  BY <1>7 DEF Cyclic
<1> QED BY <1>1, <1>4, <1>5, <1>8, <1>9 DEF h, w

\* The first tables of a cyclic order: those that are left out come after them.
LEMMA CutShort ==
  ASSUME NEW c, NEW f \in Seq(Table), Cyclic(c, f), NEW n \in Nat, n <= Len(f)
  PROVE  /\ SubSeq(f, 1, n) \in Seq(Table) /\ Cyclic(c, SubSeq(f, 1, n))
         /\ \A t \in ToSet(SubSeq(f, 1, n)), u \in ToSet(f) \ ToSet(SubSeq(f, 1, n)) :
              Comes(c, t, u)
<1> DEFINE q == SubSeq(f, 1, n)
<1>1. q \in Seq(Table) /\ Len(q) = n - 1 + 1 /\ \A i \in 1..(n - 1 + 1) : q[i] = f[1 + i - 1]
  <2>1. 1 \in Nat /\ 1 <= 1 /\ 1 <= n + 1
    OBVIOUS
  <2> QED BY <2>1, Part
<1> HIDE DEF q
<1>2. Len(q) = n /\ Len(f) \in Nat /\ \A i \in 1..n : q[i] = f[i] /\ i \in 1..Len(f)
  BY <1>1
<1>3. ToSet(q) = {q[i] : i \in 1..Len(q)} /\ ToSet(f) = {f[i] : i \in 1..Len(f)}
  BY <1>1, EntriesAre
<1>4. Cyclic(c, q)
  BY <1>2 DEF Cyclic
<1>5. ASSUME NEW t \in ToSet(q), NEW u \in ToSet(f) \ ToSet(q) PROVE Comes(c, t, u)
  <2>1. PICK i \in 1..n : t = f[i]
    BY <1>2, <1>3
  <2>2. PICK j \in 1..Len(f) : u = f[j]
    BY <1>3
  <2>3. j \notin 1..n
    BY <1>2, <1>3, <2>2
  <2>4. i < j
    BY <1>2, <2>2, <2>3
  <2> QED BY <1>2, <2>1, <2>2, <2>4 DEF Cyclic
<1> QED BY <1>1, <1>4, <1>5 DEF q

\* A pass takes the first of the targets.
LEMMA PassTakes ==
  ASSUME cursor \in Nat, Targets # {}
  PROVE  LET n == Lesser(Batch, Cardinality(Targets))
             q == SubSeq(Fair, 1, n)
         IN  /\ n \in 1..Batch /\ q \in Seq(Table) /\ Cyclic(cursor, q)
             /\ \A t \in ToSet(q), u \in Targets \ ToSet(q) : Comes(cursor, t, u)
<1> DEFINE n == Lesser(Batch, Cardinality(Targets))
<1>1. /\ Fair \in Seq(Table) /\ ToSet(Fair) = Targets
      /\ Len(Fair) = Cardinality(Targets) /\ Len(Fair) \in Nat
      /\ Cyclic(cursor, Fair)
  BY FairIs
<1>2. Cardinality(Targets) \in Nat /\ Cardinality(Targets) # 0
  <2>1. IsFiniteSet(Targets)
    BY ReplayAssumption, FS_Subset DEF Targets
  <2> HIDE DEF Targets
  <2> QED BY <2>1, FS_EmptySet, FS_CardinalityType
<1>3. n \in 1..Batch /\ n <= Cardinality(Targets)
  BY <1>2, ReplayAssumption DEF Lesser
<1> HIDE DEF n, Fair, Targets
<1>4. n \in Nat /\ n <= Len(Fair)
  BY <1>1, <1>3
<1> DEFINE q == SubSeq(Fair, 1, n)
<1>5. /\ q \in Seq(Table) /\ Cyclic(cursor, q)
      /\ \A t \in ToSet(q), u \in ToSet(Fair) \ ToSet(q) : Comes(cursor, t, u)
  BY <1>1, <1>4, CutShort
<1> QED BY <1>1, <1>3, <1>5 DEF n

-----------------------------------------------------------------------------
(* The rows *)

\* tryHead() starts rows of the queue that neither have a job nor have to wait, and no
\* more than there is room for.
LEMMA HeadsFit ==
  ASSUME NEW q \in Seq(Row), NEW t, NEW n \in Nat,
         IsFiniteSet(jobs), Cardinality(jobs) <= MaxInFlight
  PROVE  /\ Heads(q, t, n) \subseteq ToSet(q) \ (jobs \cup delayed)
         /\ IsFiniteSet(jobs \cup Heads(q, t, n))
         /\ Cardinality(jobs \cup Heads(q, t, n)) <= MaxInFlight
<1> DEFINE F == Ready(q)
           room == Lesser(n, MaxInFlight - Cardinality(jobs))
           H == {k \in F : /\ status = "up" /\ canReplay /\ t \notin paused
                           /\ Cardinality({j \in F : j < k}) < room}
           S == Heads(q, t, n)
<1>1. S = {q[i] : i \in H}
  BY DEF Heads
<1>2. /\ F \subseteq 1..Len(q) /\ Len(q) \in Nat
      /\ \A i \in F : q[i] \notin jobs /\ q[i] \notin delayed
  BY DEF Ready
<1>3. F \in SUBSET Nat /\ IsFiniteSet(F)
  <2>1. IsFiniteSet(1..Len(q))
    BY <1>2, FS_Interval
  <2> QED BY <1>2, <2>1, FS_Subset
<1>4. Cardinality(jobs) \in Nat /\ MaxInFlight \in Nat
  BY ReplayAssumption, FS_CardinalityType
<1>5. room \in Nat /\ room <= MaxInFlight - Cardinality(jobs)
  <2>1. MaxInFlight - Cardinality(jobs) \in Nat
    BY <1>4
  <2> QED BY <2>1, LesserIs
<1>6. H \in SUBSET F /\ \A x \in H : Rank(F, x) < room
  BY DEF Rank
<1> HIDE DEF F, room, H, S
<1>7. IsFiniteSet(H) /\ Cardinality(H) <= room /\ Cardinality(H) \in Nat
  BY <1>3, <1>5, <1>6, FirstFew, FS_CardinalityType
<1>8. IsFiniteSet(S) /\ Cardinality(S) <= Cardinality(H) /\ Cardinality(S) \in Nat
  <2> DEFINE f == [i \in H |-> q[i]]
  <2>1. f \in Surjection(H, S)
    BY <1>1 DEF Surjection
  <2> HIDE DEF f
  <2> QED BY <1>7, <2>1, FS_Surjection, FS_CardinalityType
<1>9. S \subseteq ToSet(q) \ (jobs \cup delayed)
  BY <1>1, <1>2, <1>6, EntriesAre
<1>10. /\ IsFiniteSet(jobs \cup S)
       /\ Cardinality(jobs \cup S) = Cardinality(jobs) + Cardinality(S) - Cardinality(jobs \cap S)
  BY <1>8, FS_Union
<1>11. jobs \cap S = {} /\ Cardinality({}) = 0
  BY <1>9, FS_EmptySet
<1>12. Cardinality(jobs \cup S) = Cardinality(jobs) + Cardinality(S)
  <2>1. Cardinality(jobs \cap S) = 0
    BY <1>11
  <2> QED BY <1>4, <1>8, <1>10, <2>1
<1>13. Cardinality(jobs \cup S) <= MaxInFlight
  BY <1>4, <1>5, <1>7, <1>8, <1>12
<1> QED BY <1>9, <1>10, <1>13 DEF S

-----------------------------------------------------------------------------
(* The steps *)

\* The parts of the invariant are about different variables.
LEMMA RowsFrame == ASSUME RowsOK, UNCHANGED rowVars PROVE RowsOK'
BY DEF RowsOK, rowVars

LEMMA ControlFrame == ASSUME ControlOK, UNCHANGED <<paused, canReplay, status>> PROVE ControlOK'
BY DEF ControlOK

LEMMA PassFrame == ASSUME PassOK, UNCHANGED passVars PROVE PassOK'
BY DEF PassOK, InTurn, passVars

\* A submitted row joins its queue, and the head of the queue is tried.
LEMMA AcceptHolds == ASSUME IInv, NEW r \in Row, Accept(r) PROVE IInv'
<1> DEFINE t == TableOf[r]
           q == Append(queue[t], r)
           S == Heads(q, t, 1)
<1>1. /\ r \notin accepted /\ accepted' = accepted \cup {r}
      /\ queue' = [queue EXCEPT ![t] = q]
      /\ jobs' = jobs \cup Heads(queue'[t], t, 1)
      /\ UNCHANGED <<confirmed, delayed, paused, canReplay, passVars, status>>
  BY DEF Accept
<1>2. t \in Table
  BY ReplayAssumption
<1> HIDE DEF t
<1>3. queue[t] \in Seq(Row) /\ IsInjective(queue[t]) /\ r \notin ToSet(queue[t])
  BY <1>1, <1>2 DEF IInv, RowsOK
<1>4. q \in Seq(Row) /\ IsInjective(q) /\ ToSet(q) = ToSet(queue[t]) \cup {r}
  BY <1>3, AppendGives
<1> HIDE DEF q
<1>5. /\ queue' \in [Table -> Seq(Row)] /\ queue'[t] = q
      /\ \A u \in Table : u # t => queue'[u] = queue[u]
  BY <1>1, <1>2, <1>4 DEF IInv, RowsOK
<1>6. jobs' = jobs \cup S
  BY <1>1, <1>5
<1>7. /\ S \subseteq ToSet(q) \ (jobs \cup delayed)
      /\ IsFiniteSet(jobs') /\ Cardinality(jobs') <= MaxInFlight
  BY <1>4, <1>6, HeadsFit DEF IInv, RowsOK
<1> HIDE DEF S
<1>8. \A u \in Table : IsInjective(queue'[u])
  BY <1>4, <1>5 DEF IInv, RowsOK
<1>9. ASSUME NEW u \in Table
      PROVE  ToSet(queue'[u]) = {x \in accepted' \ confirmed' : TableOf[x] = u}
  <2>1. ToSet(queue[u]) = {x \in accepted \ confirmed : TableOf[x] = u} /\ r \notin confirmed
    BY <1>1 DEF IInv, RowsOK
  <2>2. CASE u = t
    BY <1>1, <1>4, <1>5, <2>1, <2>2 DEF t
  <2>3. CASE u # t
    BY <1>1, <1>5, <2>1, <2>3 DEF t
  <2> QED BY <2>2, <2>3
<1>10. S \subseteq accepted' \ confirmed'
  BY <1>2, <1>5, <1>7, <1>9
<1>11. RowsOK'
  BY <1>1, <1>5, <1>6, <1>7, <1>8, <1>9, <1>10 DEF IInv, RowsOK
<1> QED BY <1>1, <1>11, ControlFrame, PassFrame DEF IInv

\* A pass begins: its tables are in their order from the cursor on.
LEMMA TickHolds ==
  ASSUME IInv, Tick
  PROVE  /\ IInv' /\ turns' = turns
         /\ \A t \in ToSet(todo'), u \in Targets \ ToSet(todo') : Comes(cursor, t, u)
<1> DEFINE n == Lesser(Batch, Cardinality(Targets))
<1>1. /\ ~passing /\ Targets # {} /\ todo' = SubSeq(Fair, 1, n) /\ share' = Batch \div n
      /\ passing' = TRUE
      /\ UNCHANGED <<rowVars, paused, canReplay, turns, awaits, cursor, status>>
  BY DEF Tick
<1>2. cursor \in Nat /\ turns = {}
  BY <1>1, ReplayAssumption DEF IInv, PassOK
<1>3. /\ n \in 1..Batch /\ todo' \in Seq(Table) /\ Cyclic(cursor, todo')
      /\ \A t \in ToSet(todo'), u \in Targets \ ToSet(todo') : Comes(cursor, t, u)
  BY <1>1, <1>2, PassTakes
<1> HIDE DEF n
<1>4. share' \in 0..Batch
  <2>1. Batch \in Nat /\ n \in Nat /\ n > 0
    BY <1>3, ReplayAssumption
  <2>2. Batch \div n \in Nat /\ Batch \div n <= Batch
    BY <2>1
  <2> QED BY <1>1, <2>1, <2>2
<1>5. InTurn'
  BY <1>1, <1>3 DEF InTurn
<1>6. PassOK'
  BY <1>1, <1>2, <1>3, <1>4, <1>5 DEF IInv, PassOK
<1> QED BY <1>1, <1>3, <1>6, RowsFrame, ControlFrame DEF IInv

\* A table of the pass gets its turn.
LEMMA TurnHolds ==
  ASSUME IInv, Turn
  PROVE  /\ IInv' /\ passing' = passing
         /\ turns' = turns \cup {cursor'} /\ cursor' \notin turns
         /\ \A u \in ToSet(todo') : Comes(cursor, cursor', u)
<1> DEFINE t == Head(todo)
           S == Heads(queue[t], t, share)
<1>1. /\ todo # <<>> /\ Cardinality(turns) < Concurrency
      /\ cursor' = t /\ jobs' = jobs \cup S /\ turns' = turns \cup {t}
      /\ awaits' = [awaits EXCEPT ![t] = S] /\ todo' = Tail(todo)
      /\ UNCHANGED <<accepted, queue, confirmed, delayed, paused, canReplay, passing, share, status>>
  BY DEF Turn
<1>2. todo \in Seq(Table) /\ cursor \in Nat /\ Cyclic(cursor, todo) /\ share \in Nat
  BY ReplayAssumption DEF IInv, PassOK, InTurn
<1>3. /\ t \in Table /\ Tail(todo) \in Seq(Table) /\ Cyclic(t, Tail(todo))
      /\ ToSet(Tail(todo)) \subseteq ToSet(todo) \ {t} /\ t \in ToSet(todo)
      /\ \A u \in ToSet(Tail(todo)) : Comes(cursor, t, u)
  BY <1>1, <1>2, TurnMoves
<1> HIDE DEF t
<1>4. /\ queue[t] \in Seq(Row)
      /\ ToSet(queue[t]) = {r \in accepted \ confirmed : TableOf[r] = t}
  BY <1>3 DEF IInv, RowsOK
<1>5. /\ S \subseteq ToSet(queue[t]) \ (jobs \cup delayed)
      /\ IsFiniteSet(jobs \cup S) /\ Cardinality(jobs \cup S) <= MaxInFlight
  BY <1>2, <1>4, HeadsFit DEF IInv, RowsOK
<1> HIDE DEF S
<1>6. RowsOK'
  BY <1>1, <1>4, <1>5 DEF IInv, RowsOK
<1>7. t \notin turns /\ Cardinality(turns') <= Concurrency
  <2>1. turns \subseteq Table \ ToSet(todo)
    BY DEF IInv, PassOK
  <2>2. IsFiniteSet(turns) /\ Cardinality(turns) \in Nat
    BY <2>1, ReplayAssumption, FS_Subset, FS_CardinalityType
  <2>3. t \notin turns
    BY <1>3, <2>1
  <2>4. Cardinality(turns') = Cardinality(turns) + 1
    BY <1>1, <2>2, <2>3, FS_AddElement
  <2> QED BY <1>1, <2>2, <2>3, <2>4, ReplayAssumption
<1>8. InTurn'
  BY <1>1, <1>3 DEF InTurn
<1>9. passing
  BY <1>1 DEF IInv, PassOK
<1>10. S \in SUBSET Row /\ \A r \in S : TableOf[r] = t
  BY <1>4, <1>5 DEF IInv, RowsOK
<1>11. /\ awaits' \in [Table -> SUBSET Row] /\ awaits'[t] = S
       /\ \A u \in Table : u # t => awaits'[u] = awaits[u]
  BY <1>1, <1>3, <1>10 DEF IInv, PassOK
<1>12. turns' \subseteq Table \ ToSet(todo')
  BY <1>1, <1>3 DEF IInv, PassOK
<1>13. \A u \in Table : \A r \in awaits'[u] : u \in turns' /\ TableOf[r] = u
  BY <1>1, <1>10, <1>11 DEF IInv, PassOK
<1>14. PassOK'
  BY <1>1, <1>3, <1>7, <1>8, <1>9, <1>11, <1>12, <1>13 DEF IInv, PassOK
<1> QED BY <1>1, <1>3, <1>6, <1>7, <1>14, ControlFrame DEF IInv

\* The writes of a turn have settled.
LEMMA TurnEndsHolds ==
  ASSUME IInv, NEW t \in Table, TurnEnds(t)
  PROVE  IInv' /\ turns' \subseteq turns
<1>1. /\ turns' = turns \ {t} /\ awaits' = [awaits EXCEPT ![t] = {}]
      /\ UNCHANGED <<rowVars, paused, canReplay, passing, todo, share, cursor, status>>
  BY DEF TurnEnds
<1>2. Cardinality(turns') <= Concurrency
  <2>1. IsFiniteSet(turns) /\ turns' \in SUBSET turns /\ Cardinality(turns) <= Concurrency
    BY <1>1, ReplayAssumption, FS_Subset DEF IInv, PassOK
  <2> QED BY <2>1, CountPart, ReplayAssumption
<1>3. /\ awaits' \in [Table -> SUBSET Row] /\ awaits'[t] = {}
      /\ \A u \in Table : u # t => awaits'[u] = awaits[u]
  BY <1>1 DEF IInv, PassOK
<1>4. \A u \in Table : \A r \in awaits'[u] : u \in turns' /\ TableOf[r] = u
  BY <1>1, <1>3 DEF IInv, PassOK
<1>5. PassOK'
  BY <1>1, <1>2, <1>3, <1>4 DEF IInv, PassOK, InTurn
<1> QED BY <1>1, <1>5, RowsFrame, ControlFrame DEF IInv

\* The last turn of a pass is over.
LEMMA PassEndsHolds == ASSUME IInv, PassEnds PROVE IInv' /\ turns' = turns /\ ~passing'
<1>1. /\ todo = <<>> /\ turns = {} /\ passing' = FALSE
      /\ UNCHANGED <<rowVars, paused, canReplay, todo, share, turns, awaits, cursor, status>>
  BY DEF PassEnds
<1>2. PassOK'
  BY <1>1 DEF IInv, PassOK, InTurn
<1> QED BY <1>1, <1>2, RowsFrame, ControlFrame DEF IInv

\* A row whose write settles has its job no more.
LEMMA JobEnds ==
  ASSUME RowsOK, NEW r
  PROVE  IsFiniteSet(jobs \ {r}) /\ Cardinality(jobs \ {r}) <= MaxInFlight
<1>1. /\ IsFiniteSet(jobs) /\ jobs \ {r} \in SUBSET jobs /\ Cardinality(jobs) <= MaxInFlight
  BY DEF RowsOK
<1>2. MaxInFlight \in Nat
  BY ReplayAssumption
<1> QED BY <1>1, <1>2, CountPart

\* A written row leaves its queue, and is confirmed.
LEMMA WriteSucceedsHolds == ASSUME IInv, NEW r \in Row, WriteSucceeds(r) PROVE IInv'
<1> DEFINE t == TableOf[r]
           k == CHOOSE i \in DOMAIN queue[t] : queue[t][i] = r
           q == RemoveAt(queue[t], k)
<1>1. /\ r \in jobs /\ jobs' = jobs \ {r} /\ queue' = [queue EXCEPT ![t] = q]
      /\ confirmed' = confirmed \cup {r}
      /\ UNCHANGED <<accepted, delayed, paused, canReplay, passVars, status>>
  <2>1. queue' = [queue EXCEPT ![t] = RemoveAt(@, CHOOSE i \in DOMAIN @ : @[i] = r)]
    BY DEF WriteSucceeds
  <2> QED BY <2>1 DEF WriteSucceeds
<1>2. t \in Table
  BY ReplayAssumption
<1>3. /\ queue[t] \in Seq(Row) /\ IsInjective(queue[t]) /\ r \in ToSet(queue[t])
      /\ r \in accepted \ confirmed /\ r \notin delayed
  BY <1>1, <1>2 DEF IInv, RowsOK
<1> HIDE DEF t
<1>4. k \in 1..Len(queue[t]) /\ queue[t][k] = r
  <2>1. \E i \in DOMAIN queue[t] : queue[t][i] = r
    BY <1>3 DEF ToSet
  <2> QED BY <1>3, <2>1
<1> HIDE DEF k
<1>5. q \in Seq(Row) /\ IsInjective(q) /\ ToSet(q) = ToSet(queue[t]) \ {r}
  BY <1>3, <1>4, RemoveLeaves
<1> HIDE DEF q
<1>6. /\ queue' \in [Table -> Seq(Row)] /\ queue'[t] = q
      /\ \A u \in Table : u # t => queue'[u] = queue[u]
  BY <1>1, <1>2, <1>5 DEF IInv, RowsOK
<1>7. \A u \in Table : IsInjective(queue'[u])
  BY <1>5, <1>6 DEF IInv, RowsOK
<1>8. ASSUME NEW u \in Table
      PROVE  ToSet(queue'[u]) = {x \in accepted' \ confirmed' : TableOf[x] = u}
  <2>1. ToSet(queue[u]) = {x \in accepted \ confirmed : TableOf[x] = u}
    BY DEF IInv, RowsOK
  <2>2. CASE u = t
    BY <1>1, <1>5, <1>6, <2>1, <2>2 DEF t
  <2>3. CASE u # t
    BY <1>1, <1>6, <2>1, <2>3 DEF t
  <2> QED BY <2>2, <2>3
<1>9. IsFiniteSet(jobs') /\ Cardinality(jobs') <= MaxInFlight
  BY <1>1, JobEnds DEF IInv
<1>10. RowsOK'
  BY <1>1, <1>3, <1>6, <1>7, <1>8, <1>9 DEF IInv, RowsOK
<1> QED BY <1>1, <1>10, ControlFrame, PassFrame DEF IInv

\* A row whose write failed waits.
LEMMA WriteFailsHolds == ASSUME IInv, NEW r \in Row, WriteFails(r) PROVE IInv'
<1>1. /\ r \in jobs /\ jobs' = jobs \ {r} /\ delayed' = delayed \cup {r}
      /\ UNCHANGED <<accepted, queue, confirmed, paused, canReplay, passVars, status>>
  BY DEF WriteFails
<1>2. IsFiniteSet(jobs') /\ Cardinality(jobs') <= MaxInFlight
  BY <1>1, JobEnds DEF IInv
<1>3. RowsOK'
  BY <1>1, <1>2 DEF IInv, RowsOK
<1> QED BY <1>1, <1>3, ControlFrame, PassFrame DEF IInv

\* A row that waited may be tried again.
LEMMA RetryDueHolds == ASSUME IInv, NEW r \in Row, RetryDue(r) PROVE IInv'
<1>1. /\ delayed' = delayed \ {r}
      /\ UNCHANGED <<accepted, queue, confirmed, jobs, paused, canReplay, passVars, status>>
  BY DEF RetryDue
<1>2. RowsOK'
  BY <1>1 DEF IInv, RowsOK
<1> QED BY <1>1, <1>2, ControlFrame, PassFrame DEF IInv

\* Rules, the options and close() touch neither rows nor passes.
LEMMA ControlHolds ==
  ASSUME IInv, (\E t \in Table : SetPaused(t)) \/ SetCanReplay \/ Close \/ Closed
  PROVE  IInv' /\ UNCHANGED <<passing, turns>>
<1>1. UNCHANGED <<rowVars, passVars>>
  BY DEF SetPaused, SetCanReplay, Close, Closed
<1>2. ControlOK'
  BY DEF IInv, ControlOK, SetPaused, SetCanReplay, Close, Closed
<1>3. RowsOK' /\ PassOK'
  BY <1>1, RowsFrame, PassFrame DEF IInv
<1> QED BY <1>1, <1>2, <1>3 DEF IInv, passVars

-----------------------------------------------------------------------------
(* The theorems *)

\* A journal that has accepted nothing satisfies the invariant.
LEMMA InitHolds == ASSUME Init PROVE IInv
<1>1. ToSet(<<>>) = {} /\ IsInjective(<<>>)
  BY DEF ToSet, IsInjective
<1>2. IsFiniteSet({}) /\ Cardinality({}) = 0
  BY FS_EmptySet
<1>3. RowsOK
  <2>1. queue \in [Table -> Seq(Row)] /\ \A t \in Table : queue[t] = <<>>
    BY DEF Init
  <2>2. jobs = {} /\ accepted = {} /\ confirmed = {} /\ delayed = {}
    BY DEF Init
  <2>3. Cardinality(jobs) <= MaxInFlight
    BY <1>2, <2>2, ReplayAssumption
  <2> QED BY <1>1, <1>2, <2>1, <2>2, <2>3 DEF RowsOK
<1>4. PassOK
  <2>1. /\ todo = <<>> /\ turns = {} /\ passing = FALSE /\ share = 0 /\ cursor = 0
        /\ awaits = [t \in Table |-> {}]
    BY DEF Init
  <2>2. InTurn
    BY <2>1 DEF InTurn, Cyclic
  <2>3. Cardinality(turns) <= Concurrency
    BY <1>2, <2>1, ReplayAssumption
  <2>4. share \in 0..Batch /\ ToSet(todo) = {} /\ todo \in Seq(Table)
    BY <1>1, <2>1, ReplayAssumption
  <2>5. /\ awaits \in [Table -> SUBSET Row]
        /\ \A t \in Table : \A r \in awaits[t] : t \in turns /\ TableOf[r] = t
    BY <2>1
  <2> QED BY <2>1, <2>2, <2>3, <2>4, <2>5 DEF PassOK
<1> QED BY <1>3, <1>4 DEF IInv, ControlOK, Init

\* Every step keeps the invariant, and what is fair about a pass.
LEMMA StepHolds ==
  ASSUME IInv, [Next]_vars
  PROVE  IInv' /\ NonePassedOver /\ TurnInOrder
<1>1. UNCHANGED <<passing, turns>> => NonePassedOver /\ TurnInOrder
  BY DEF NonePassedOver, TurnInOrder, IInv, PassOK
<1>2. CASE \E r \in Row : Accept(r)
  BY <1>1, <1>2, AcceptHolds DEF Accept, passVars
<1>3. CASE \E r \in Row : WriteSucceeds(r)
  BY <1>1, <1>3, WriteSucceedsHolds DEF WriteSucceeds, passVars
<1>4. CASE \E r \in Row : WriteFails(r)
  BY <1>1, <1>4, WriteFailsHolds DEF WriteFails, passVars
<1>5. CASE \E r \in Row : RetryDue(r)
  BY <1>1, <1>5, RetryDueHolds DEF RetryDue, passVars
<1>6. CASE \E t \in Table : TurnEnds(t)
  <2>1. IInv' /\ turns' \subseteq turns /\ passing' = passing
    BY <1>6, TurnEndsHolds DEF TurnEnds
  <2> QED BY <2>1 DEF NonePassedOver, TurnInOrder, IInv, PassOK
<1>7. CASE Tick
  BY <1>7, TickHolds DEF NonePassedOver, TurnInOrder
<1>8. CASE Turn
  BY <1>8, TurnHolds DEF NonePassedOver, TurnInOrder, IInv, PassOK
<1>9. CASE PassEnds
  BY <1>9, PassEndsHolds DEF NonePassedOver, TurnInOrder, IInv, PassOK
<1>10. CASE (\E t \in Table : SetPaused(t)) \/ SetCanReplay \/ Close \/ Closed
  BY <1>1, <1>10, ControlHolds
<1>11. CASE UNCHANGED vars
  BY <1>1, <1>11, RowsFrame, ControlFrame, PassFrame DEF IInv, vars, passVars
<1> QED BY <1>2, <1>3, <1>4, <1>5, <1>6, <1>7, <1>8, <1>9, <1>10, <1>11 DEF Next

\* Every reachable state satisfies the invariant.
LEMMA IInvHolds == Spec => []IInv
<1>1. Init => IInv
  BY InitHolds
<1>2. IInv /\ [Next]_vars => IInv'
  BY StepHolds
<1> QED BY <1>1, <1>2, PTL DEF Spec

\* A queue holds the accepted rows of its table that are not written, no row is written
\* and retried at once, and no limit of the journal is exceeded: maxInFlight, replayBatch
\* and replayConcurrency.
THEOREM ReplayTypes == Spec => []TypeOK
<1>1. IInv => TypeOK
  <2> SUFFICES ASSUME IInv PROVE TypeOK
    OBVIOUS
  <2>1. ToSet(todo) \subseteq Table
    BY EntriesAre DEF IInv, PassOK
  <2> QED BY <2>1 DEF IInv, RowsOK, ControlOK, PassOK, TypeOK
<1> QED BY <1>1, IInvHolds, PTL

\* The passes go round the tables: none with rows to write is passed over in favour of
\* one that comes after it, and none has two turns at a time.
THEOREM PassesGoRound == Spec => RoundRobin
<1>1. IInv /\ [Next]_vars => [NonePassedOver /\ TurnInOrder]_vars
  BY StepHolds
<1> QED BY <1>1, IInvHolds, PTL DEF Spec, RoundRobin

=============================================================================
