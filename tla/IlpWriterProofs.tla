----------------------------- MODULE IlpWriterProofs -----------------------------
(***************************************************************************)
(* Proofs about IlpWriter, for every set of rows, tables and deadlines,    *)
(* every configuration, and any number of attempts and failures.           *)
(*                                                                         *)
(* What the properties say of the batch and the pending rows holds because *)
(* of what precedes them.  Rows of one table stand in the order of their   *)
(* arrival in the batch, in the pending rows, in the setup chain, and from *)
(* each of these to the next (Lines): so no row is in two of them, and     *)
(* none of them twice.  Rows that stand there have no outcome (Waits), so  *)
(* that settling a batch settles no other row.  The buffer is an initial   *)
(* part of the batch while it is built (Built).                            *)
(***************************************************************************)
EXTENDS IlpWriter, SequenceTheorems, WellFoundedInduction, NaturalsInduction, TLAPS

-----------------------------------------------------------------------------
(* The inductive invariant *)

\* Row a was handed over before row b, when the arrivals are A.
Before(A, a, b) == \E m, n \in 1..Len(A) : m < n /\ A[m] = a /\ A[n] = b

InOrder(A, s) ==
  \A i, j \in 1..Len(s) : i < j /\ TableOf[s[i]] = TableOf[s[j]] => Before(A, s[i], s[j])

Ahead(A, s, u) ==
  \A i \in 1..Len(s), j \in 1..Len(u) : TableOf[s[i]] = TableOf[u[j]] => Before(A, s[i], u[j])

HaveArrived(A, s) == \A i \in 1..Len(s) : \E m \in 1..Len(A) : A[m] = s[i]

\* A batch b, pending rows p and setup chains u keep the order of every table.
Lines(A, b, p, u) ==
  /\ HaveArrived(A, b) /\ HaveArrived(A, p)
  /\ InOrder(A, b) /\ InOrder(A, p) /\ Ahead(A, b, p)
  /\ \A t \in Table :
       /\ HaveArrived(A, u[t]) /\ \A i \in 1..Len(u[t]) : TableOf[u[t][i]] = t
       /\ InOrder(A, u[t]) /\ Ahead(A, b, u[t]) /\ Ahead(A, p, u[t])

ArriveOnce(A) == \A m, n \in 1..Len(A) : A[m] = A[n] => m = n

\* None of the rows of s is settled, when the outcomes are o.
Unsettled(o, s) == \A i \in 1..Len(s) : o[s[i]] = "none"

Waits ==
  /\ \A r \in Row : (\A m \in 1..Len(arrived) : arrived[m] # r) => outcome[r] = "none"
  /\ \A t \in Table : Unsettled(outcome, setup[t])
  /\ Unsettled(outcome, pending)
  /\ phase # "settled" => Unsettled(outcome, batch)

Stored == \A r \in Row : outcome[r] = "resolved" => r \in inDb

Built ==
  /\ phase = "append" => /\ Len(buffer) <= Len(batch)
                         /\ \A i \in 1..Len(buffer) : buffer[i] = batch[i]
  /\ phase = "flush" => buffer = batch
  /\ phase = "wait" => attempt < Attempts

IInv ==
  /\ TypeOK /\ ArriveOnce(arrived) /\ Lines(arrived, batch, pending, setup)
  /\ Waits /\ Stored /\ Built /\ TimerCovers

-----------------------------------------------------------------------------
(* Sequences *)

\* What the first k rows of a sequence are, and the rows after them.
LEMMA Split ==
  ASSUME NEW p \in Seq(Row), NEW k \in Nat, k <= Len(p)
  PROVE  /\ SubSeq(p, 1, k) \in Seq(Row) /\ Len(SubSeq(p, 1, k)) = k
         /\ \A i \in 1..k : SubSeq(p, 1, k)[i] = p[i]
         /\ SubSeq(p, k + 1, Len(p)) \in Seq(Row) /\ Len(SubSeq(p, k + 1, Len(p))) = Len(p) - k
         /\ \A i \in 1..(Len(p) - k) : SubSeq(p, k + 1, Len(p))[i] = p[k + i]
<1>1. Len(p) \in Nat /\ \A i \in 1..Len(p) : p[i] \in Row
  OBVIOUS
<1>2. \A i \in 1..k : p[i] \in Row
  BY <1>1
<1>3. \A i \in (k + 1)..Len(p) : p[i] \in Row
  BY <1>1
<1>4. /\ SubSeq(p, 1, k) \in Seq(Row)
      /\ Len(SubSeq(p, 1, k)) = IF 1 <= k THEN k - 1 + 1 ELSE 0
      /\ \A i \in 1..(k - 1 + 1) : SubSeq(p, 1, k)[i] = p[1 + i - 1]
  BY <1>2, SubSeqProperties
<1>5. /\ SubSeq(p, k + 1, Len(p)) \in Seq(Row)
      /\ Len(SubSeq(p, k + 1, Len(p))) = IF k + 1 <= Len(p) THEN Len(p) - (k + 1) + 1 ELSE 0
      /\ \A i \in 1..(Len(p) - (k + 1) + 1) : SubSeq(p, k + 1, Len(p))[i] = p[k + 1 + i - 1]
  BY <1>1, <1>3, SubSeqProperties
<1> QED BY <1>1, <1>4, <1>5

\* What is left of a sequence without its k-th row.
LEMMA Without ==
  ASSUME NEW b \in Seq(Row), NEW k \in 1..Len(b)
  PROVE  /\ RemoveAt(b, k) \in Seq(Row) /\ Len(RemoveAt(b, k)) = Len(b) - 1
         /\ \A i \in 1..(Len(b) - 1) :
              RemoveAt(b, k)[i] = IF i < k THEN b[i] ELSE b[i + 1]
<1> DEFINE x == SubSeq(b, 1, k - 1)
           y == SubSeq(b, k + 1, Len(b))
<1>1. k \in Nat /\ k - 1 \in Nat /\ Len(b) \in Nat /\ k <= Len(b)
  OBVIOUS
<1>2. /\ x \in Seq(Row) /\ Len(x) = k - 1
      /\ \A i \in 1..(k - 1) : x[i] = b[i]
  BY <1>1, Split
<1>3. /\ y \in Seq(Row) /\ Len(y) = Len(b) - k
      /\ \A i \in 1..(Len(b) - k) : y[i] = b[k + i]
  BY <1>1, Split
<1>4. RemoveAt(b, k) = x \o y
  BY DEF RemoveAt
<1> HIDE DEF x, y
<1>5. /\ x \o y \in Seq(Row) /\ Len(x \o y) = Len(x) + Len(y)
      /\ \A i \in 1..(Len(x) + Len(y)) :
           (x \o y)[i] = IF i <= Len(x) THEN x[i] ELSE y[i - Len(x)]
  BY <1>2, <1>3, ConcatProperties
<1>6. Len(x \o y) = Len(b) - 1
  BY <1>1, <1>2, <1>3, <1>5
<1>7. ASSUME NEW i \in 1..(Len(b) - 1)
      PROVE  (x \o y)[i] = IF i < k THEN b[i] ELSE b[i + 1]
  <2>1. i \in 1..(Len(x) + Len(y)) /\ i \in Nat
    BY <1>1, <1>2, <1>3
  <2>2. CASE i < k
    <3>1. i <= Len(x) /\ i \in 1..(k - 1)
      BY <1>1, <1>2, <2>1, <2>2
    <3> QED BY <1>2, <1>5, <2>1, <2>2, <3>1
  <2>3. CASE ~(i < k)
    <3>1. ~(i <= Len(x)) /\ i - Len(x) \in 1..(Len(b) - k) /\ k + (i - Len(x)) = i + 1
      BY <1>1, <1>2, <2>1, <2>3
    <3> QED BY <1>3, <1>5, <2>1, <2>3, <3>1
  <2> QED BY <2>2, <2>3
<1> QED BY <1>4, <1>5, <1>6, <1>7

\* The rows of a sequence are its entries.
LEMMA RowsAre ==
  ASSUME NEW s \in Seq(Row)
  PROVE  Rows(s) = {s[i] : i \in 1..Len(s)}
BY DEF Rows, ToSet

\* The earliest deadline of some rows is one of theirs, and none is before it.
LEMMA EarliestIs ==
  ASSUME NEW p \in Seq(Row), p # <<>>, NEW due \in [Row -> Nat]
  PROVE  /\ Earliest(p, due) \in Nat
         /\ \A i \in 1..Len(p) : Earliest(p, due) <= due[p[i]]
<1> DEFINE S == {due[r] : r \in Rows(p)}
<1>1. /\ Rows(p) \subseteq Row /\ p[1] \in Rows(p)
      /\ \A i \in 1..Len(p) : p[i] \in Rows(p)
  BY RowsAre
<1>2. S \in SUBSET Nat /\ S # {}
  BY <1>1
<1>3. PICK m \in S : \A y \in S : ~(<<y, m>> \in OpToRel(<, Nat))
  BY <1>2, NatLessThanWellFounded, WFMin
<1>4. \A r \in Rows(p) : m <= due[r]
  <2>1. \A y \in S : y \in Nat /\ m \in Nat /\ ~(y < m)
    BY <1>2, <1>3 DEF OpToRel
  <2>2. \A r \in Rows(p) : due[r] \in S
    OBVIOUS
  <2> HIDE DEF S
  <2>3. \A y \in S : m <= y
    BY <2>1
  <2> QED BY <2>2, <2>3
<1>5. \E d \in S : \A r \in Rows(p) : d <= due[r]
  BY <1>4
<1>6. Earliest(p, due) \in S /\ \A r \in Rows(p) : Earliest(p, due) <= due[r]
  BY <1>5 DEF Earliest
<1> QED BY <1>1, <1>2, <1>6

-----------------------------------------------------------------------------
(* The order of the rows *)

\* No row was handed over before itself.
LEMMA NotBeforeItself == ASSUME NEW A, ArriveOnce(A), NEW a PROVE ~Before(A, a, a)
BY DEF ArriveOnce, Before

\* An entry of a sequence that entries of another come from comes with them.
LEMMA PartOfInOrder ==
  ASSUME NEW A, NEW s \in Seq(Row), NEW x \in Seq(Row), InOrder(A, s),
         NEW k \in Nat, k + Len(x) <= Len(s), \A i \in 1..Len(x) : x[i] = s[k + i]
  PROVE  InOrder(A, x)
<1> SUFFICES ASSUME NEW i \in 1..Len(x), NEW j \in 1..Len(x),
                    i < j, TableOf[x[i]] = TableOf[x[j]]
             PROVE  Before(A, x[i], x[j])
  BY DEF InOrder
<1>1. k + i \in 1..Len(s) /\ k + j \in 1..Len(s) /\ k + i < k + j
  OBVIOUS
<1> QED BY <1>1 DEF InOrder

\* Flushing takes the oldest pending rows: the order stays what it was.
LEMMA LinesBegun ==
  ASSUME NEW A, NEW p \in Seq(Row), NEW k \in Nat, k <= Len(p),
         NEW b \in Seq(Row), NEW u \in [Table -> Seq(Row)], Lines(A, b, p, u)
  PROVE  Lines(A, SubSeq(p, 1, k), SubSeq(p, k + 1, Len(p)), u)
<1> DEFINE x == SubSeq(p, 1, k)
           y == SubSeq(p, k + 1, Len(p))
<1>1. /\ x \in Seq(Row) /\ Len(x) = k /\ \A i \in 1..k : x[i] = p[i]
      /\ y \in Seq(Row) /\ Len(y) = Len(p) - k /\ \A i \in 1..(Len(p) - k) : y[i] = p[k + i]
  BY Split
<1>2. Len(p) \in Nat
  OBVIOUS
<1> HIDE DEF x, y
<1>3. /\ \A i \in 1..Len(x) : i \in 1..Len(p) /\ x[i] = p[i]
      /\ \A i \in 1..Len(y) : k + i \in 1..Len(p) /\ y[i] = p[k + i]
  BY <1>1, <1>2
<1>4. /\ HaveArrived(A, p) /\ InOrder(A, p)
      /\ \A t \in Table : /\ HaveArrived(A, u[t]) /\ \A i \in 1..Len(u[t]) : TableOf[u[t][i]] = t
                          /\ InOrder(A, u[t]) /\ Ahead(A, p, u[t])
  BY DEF Lines
<1>5. HaveArrived(A, x) /\ HaveArrived(A, y)
  BY <1>3, <1>4 DEF HaveArrived
<1>6. InOrder(A, x)
  <2>1. 0 + Len(x) <= Len(p) /\ \A i \in 1..Len(x) : x[i] = p[0 + i]
    BY <1>1, <1>2, <1>3
  <2> QED BY <1>1, <1>4, <2>1, PartOfInOrder
<1>7. InOrder(A, y)
  <2>1. k + Len(y) <= Len(p)
    BY <1>1, <1>2
  <2> QED BY <1>1, <1>3, <1>4, <2>1, PartOfInOrder
<1>8. Ahead(A, x, y)
  <2> SUFFICES ASSUME NEW i \in 1..Len(x), NEW j \in 1..Len(y), TableOf[x[i]] = TableOf[y[j]]
               PROVE  Before(A, x[i], y[j])
    BY DEF Ahead
  <2>1. i \in 1..Len(p) /\ k + j \in 1..Len(p) /\ i < k + j
    BY <1>1, <1>2
  <2>2. x[i] = p[i] /\ y[j] = p[k + j]
    BY <1>3
  <2> QED BY <1>4, <2>1, <2>2 DEF InOrder
<1>9. ASSUME NEW t \in Table PROVE Ahead(A, x, u[t]) /\ Ahead(A, y, u[t])
  <2>1. Ahead(A, p, u[t])
    BY <1>4
  <2>2. Ahead(A, x, u[t])
    BY <1>3, <2>1 DEF Ahead
  <2>3. Ahead(A, y, u[t])
    BY <1>3, <2>1 DEF Ahead
  <2> QED BY <2>2, <2>3
<1>10. Lines(A, x, y, u)
  BY <1>4, <1>5, <1>6, <1>7, <1>8, <1>9 DEF Lines
<1> QED BY <1>10 DEF x, y

\* What the head of a chain leaves, and what it was.
LEMMA ChainTail ==
  ASSUME NEW c \in Seq(Row), c # <<>>
  PROVE  /\ Head(c) = c[1] /\ c[1] \in Row /\ 1 \in 1..Len(c)
         /\ Tail(c) \in Seq(Row) /\ Len(Tail(c)) = Len(c) - 1
         /\ \A i \in 1..Len(Tail(c)) : Tail(c)[i] = c[1 + i] /\ 1 + i \in 1..Len(c)
OBVIOUS

\* A row leaves the setup chain of its table: the order stays what it was.
LEMMA LinesSetup ==
  ASSUME NEW A, NEW b \in Seq(Row), NEW p \in Seq(Row), NEW u \in [Table -> Seq(Row)],
         NEW t \in Table, u[t] # <<>>, Lines(A, b, p, u)
  PROVE  Lines(A, b, p, [u EXCEPT ![t] = Tail(@)])
<1> DEFINE v == [u EXCEPT ![t] = Tail(@)]
<1>1. v \in [Table -> Seq(Row)] /\ v[t] = Tail(u[t]) /\ \A q \in Table : q # t => v[q] = u[q]
  OBVIOUS
<1>2. /\ Tail(u[t]) \in Seq(Row) /\ Len(Tail(u[t])) = Len(u[t]) - 1
      /\ \A i \in 1..Len(Tail(u[t])) : Tail(u[t])[i] = u[t][1 + i] /\ 1 + i \in 1..Len(u[t])
  BY ChainTail
<1>3. /\ HaveArrived(A, u[t]) /\ \A i \in 1..Len(u[t]) : TableOf[u[t][i]] = t
      /\ InOrder(A, u[t]) /\ Ahead(A, b, u[t]) /\ Ahead(A, p, u[t])
  BY DEF Lines
<1> DEFINE c == u[t]
           x == Tail(u[t])
<1>4. /\ c \in Seq(Row) /\ x \in Seq(Row) /\ 1 + Len(x) <= Len(c)
      /\ \A i \in 1..Len(x) : x[i] = c[1 + i] /\ 1 + i \in 1..Len(c)
  BY <1>2
<1>5. /\ HaveArrived(A, c) /\ \A i \in 1..Len(c) : TableOf[c[i]] = t
      /\ InOrder(A, c) /\ Ahead(A, b, c) /\ Ahead(A, p, c)
  BY <1>3
<1> HIDE DEF c, x
<1>6. HaveArrived(A, x) /\ \A i \in 1..Len(x) : TableOf[x[i]] = t
  <2>1. \A i \in 1..Len(c) : \E m \in 1..Len(A) : A[m] = c[i]
    BY <1>5 DEF HaveArrived
  <2>2. HaveArrived(A, x)
    BY <1>4, <2>1, Zenon DEF HaveArrived
  <2>3. \A i \in 1..Len(x) : TableOf[x[i]] = t
    BY <1>4, <1>5
  <2> QED BY <2>2, <2>3
<1>7. InOrder(A, x)
  BY <1>4, <1>5, PartOfInOrder
<1>8. Ahead(A, b, x) /\ Ahead(A, p, x)
  BY <1>4, <1>5 DEF Ahead
<1>9. v[t] = x
  BY <1>1 DEF x
<1> HIDE DEF v
<1>10. Lines(A, b, p, v)
  BY <1>1, <1>6, <1>7, <1>8, <1>9 DEF Lines
<1> QED BY <1>10 DEF v

\* The head of a setup chain follows every pending row of its table, and precedes
\* what is left of the chain.
LEMMA LinesEnqueued ==
  ASSUME NEW A, NEW b \in Seq(Row), NEW p \in Seq(Row), NEW u \in [Table -> Seq(Row)],
         NEW t \in Table, u[t] # <<>>, Lines(A, b, p, u)
  PROVE  Lines(A, b, Append(p, Head(u[t])), [u EXCEPT ![t] = Tail(@)])
<1> DEFINE v == [u EXCEPT ![t] = Tail(@)]
           h == Head(u[t])
           q == Append(p, h)
<1>1. v \in [Table -> Seq(Row)] /\ v[t] = Tail(u[t]) /\ \A x \in Table : x # t => v[x] = u[x]
  OBVIOUS
<1>2. /\ h = u[t][1] /\ h \in Row /\ 1 \in 1..Len(u[t])
      /\ Tail(u[t]) \in Seq(Row)
      /\ \A i \in 1..Len(Tail(u[t])) : Tail(u[t])[i] = u[t][1 + i] /\ 1 + i \in 1..Len(u[t])
  BY ChainTail
<1>3. /\ HaveArrived(A, u[t]) /\ \A i \in 1..Len(u[t]) : TableOf[u[t][i]] = t
      /\ InOrder(A, u[t]) /\ Ahead(A, b, u[t]) /\ Ahead(A, p, u[t])
      /\ HaveArrived(A, p) /\ InOrder(A, p) /\ Ahead(A, b, p)
  BY DEF Lines
<1>4. Lines(A, b, p, v)
  BY LinesSetup
<1> HIDE DEF h
<1>5. /\ q \in Seq(Row) /\ Len(q) = Len(p) + 1 /\ q[Len(p) + 1] = h
      /\ \A i \in 1..Len(p) : q[i] = p[i]
  BY <1>2
<1> HIDE DEF v, q
<1>6. \A i \in 1..Len(q) : (i \in 1..Len(p) /\ q[i] = p[i]) \/ (i = Len(p) + 1 /\ q[i] = h)
  BY <1>5
<1>7. HaveArrived(A, q)
  BY <1>2, <1>3, <1>6 DEF HaveArrived
<1>8. TableOf[h] = t
  BY <1>2, <1>3
<1>9. InOrder(A, q)
  <2> SUFFICES ASSUME NEW i \in 1..Len(q), NEW j \in 1..Len(q),
                      i < j, TableOf[q[i]] = TableOf[q[j]]
               PROVE  Before(A, q[i], q[j])
    BY DEF InOrder
  <2>1. i \in 1..Len(p) /\ q[i] = p[i]
    BY <1>5
  <2>2. CASE j \in 1..Len(p) /\ q[j] = p[j]
    BY <1>3, <2>1, <2>2 DEF InOrder
  <2>3. CASE q[j] = h
    BY <1>2, <1>3, <2>1, <2>3 DEF Ahead
  <2> QED BY <1>6, <2>2, <2>3
<1>10. Ahead(A, b, q)
  <2> SUFFICES ASSUME NEW i \in 1..Len(b), NEW j \in 1..Len(q), TableOf[b[i]] = TableOf[q[j]]
               PROVE  Before(A, b[i], q[j])
    BY DEF Ahead
  <2>1. CASE j \in 1..Len(p) /\ q[j] = p[j]
    BY <1>3, <2>1 DEF Ahead
  <2>2. CASE q[j] = h
    BY <1>2, <1>3, <2>2 DEF Ahead
  <2> QED BY <1>6, <2>1, <2>2
<1>11. ASSUME NEW x \in Table PROVE Ahead(A, q, v[x])
  <2>1. Ahead(A, p, v[x]) /\ \A j \in 1..Len(v[x]) : TableOf[v[x][j]] = x
    BY <1>4 DEF Lines
  <2> SUFFICES ASSUME NEW i \in 1..Len(q), NEW j \in 1..Len(v[x]),
                      TableOf[q[i]] = TableOf[v[x][j]]
               PROVE  Before(A, q[i], v[x][j])
    BY DEF Ahead
  <2>2. CASE i \in 1..Len(p) /\ q[i] = p[i]
    BY <2>1, <2>2 DEF Ahead
  <2>3. CASE q[i] = h
    <3>1. x = t
      BY <1>8, <2>1, <2>3
    <3>2. v[x][j] = u[t][1 + j] /\ 1 + j \in 1..Len(u[t]) /\ 1 < 1 + j
      <4>1. v[x] = Tail(u[t]) /\ j \in 1..Len(Tail(u[t]))
        BY <1>1, <3>1
      <4> QED BY <1>2, <4>1
    <3>3. TableOf[u[t][1]] = TableOf[u[t][1 + j]]
      BY <1>2, <1>3, <3>2
    <3> QED BY <1>2, <1>3, <2>3, <3>2, <3>3 DEF InOrder
  <2> QED BY <1>6, <2>2, <2>3
<1>12. Lines(A, b, q, v)
  BY <1>4, <1>7, <1>9, <1>10, <1>11 DEF Lines
<1> QED BY <1>12 DEF q, v, h

\* A batch that loses a row keeps the order of the others.
LEMMA LinesWithout ==
  ASSUME NEW A, NEW b \in Seq(Row), NEW p \in Seq(Row), NEW u \in [Table -> Seq(Row)],
         NEW k \in 1..Len(b), Lines(A, b, p, u)
  PROVE  Lines(A, RemoveAt(b, k), p, u)
<1> DEFINE x == RemoveAt(b, k)
           At(i) == IF i < k THEN i ELSE i + 1
<1>1. /\ x \in Seq(Row) /\ Len(x) = Len(b) - 1
      /\ \A i \in 1..(Len(b) - 1) : x[i] = IF i < k THEN b[i] ELSE b[i + 1]
  BY Without
<1> HIDE DEF x
<1>2. \A i \in 1..Len(x) : At(i) \in 1..Len(b) /\ x[i] = b[At(i)]
  BY <1>1
<1>3. \A i, j \in 1..Len(x) : i < j => At(i) < At(j)
  BY <1>1
<1> HIDE DEF At
<1>4. HaveArrived(A, b) /\ InOrder(A, b) /\ Ahead(A, b, p) /\ \A t \in Table : Ahead(A, b, u[t])
  BY DEF Lines
<1>5. HaveArrived(A, x)
  BY <1>2, <1>4 DEF HaveArrived
<1>6. InOrder(A, x)
  BY <1>2, <1>3, <1>4 DEF InOrder
<1>7. Ahead(A, x, p)
  BY <1>2, <1>4 DEF Ahead
<1>8. ASSUME NEW t \in Table PROVE Ahead(A, x, u[t])
  <2>1. Ahead(A, b, u[t])
    BY <1>4
  <2> QED BY <1>2, <2>1 DEF Ahead
<1>9. Lines(A, x, p, u)
  BY <1>5, <1>6, <1>7, <1>8 DEF Lines
<1> QED BY <1>9 DEF x

\* A finished batch is let go.
LEMMA LinesFinished ==
  ASSUME NEW A, NEW b \in Seq(Row), NEW p \in Seq(Row), NEW u \in [Table -> Seq(Row)], Lines(A, b, p, u)
  PROVE  Lines(A, <<>>, p, u)
BY DEF Lines, HaveArrived, InOrder, Ahead

\* A row arrives, at the end of the chain of its table.
LEMMA LinesWritten ==
  ASSUME NEW A \in Seq(Row), NEW b \in Seq(Row), NEW p \in Seq(Row), NEW u \in [Table -> Seq(Row)],
         NEW r \in Row, Lines(A, b, p, u), ArriveOnce(A), \A m \in 1..Len(A) : A[m] # r
  PROVE  /\ ArriveOnce(Append(A, r))
         /\ Lines(Append(A, r), b, p, [u EXCEPT ![TableOf[r]] = Append(@, r)])
<1> DEFINE B == Append(A, r)
           t == TableOf[r]
           v == [u EXCEPT ![t] = Append(@, r)]
           c == u[t]
           d == Append(u[t], r)
<1>1. t \in Table /\ c \in Seq(Row)
  BY WriterAssumption
<1>2. v[t] = d /\ \A x \in Table : x # t => v[x] = u[x]
  BY <1>1
<1>3. /\ Len(A) \in Nat /\ Len(B) = Len(A) + 1 /\ B[Len(A) + 1] = r
      /\ \A i \in 1..Len(A) : B[i] = A[i]
  OBVIOUS
<1>4. /\ Len(c) \in Nat /\ Len(d) = Len(c) + 1 /\ d[Len(c) + 1] = r
      /\ \A i \in 1..Len(c) : d[i] = c[i]
  BY <1>1
<1>5. /\ HaveArrived(A, b) /\ HaveArrived(A, p)
      /\ InOrder(A, b) /\ InOrder(A, p) /\ Ahead(A, b, p)
      /\ \A x \in Table : /\ HaveArrived(A, u[x]) /\ \A i \in 1..Len(u[x]) : TableOf[u[x][i]] = x
                          /\ InOrder(A, u[x]) /\ Ahead(A, b, u[x]) /\ Ahead(A, p, u[x])
  BY DEF Lines
<1>6. /\ HaveArrived(A, c) /\ \A i \in 1..Len(c) : TableOf[c[i]] = t
      /\ InOrder(A, c) /\ Ahead(A, b, c) /\ Ahead(A, p, c)
  BY <1>1, <1>5
<1> HIDE DEF B, t, v, c, d
<1>7. ArriveOnce(B)
  <2> SUFFICES ASSUME NEW m \in 1..Len(B), NEW n \in 1..Len(B), B[m] = B[n] PROVE m = n
    BY DEF ArriveOnce
  <2>1. (m \in 1..Len(A) \/ m = Len(A) + 1) /\ (n \in 1..Len(A) \/ n = Len(A) + 1)
    BY <1>3
  <2> QED BY <1>3, <2>1 DEF ArriveOnce
<1>8. ASSUME NEW x, NEW y, Before(A, x, y) PROVE Before(B, x, y)
  <2>1. PICK m \in 1..Len(A), n \in 1..Len(A) : m < n /\ A[m] = x /\ A[n] = y
    BY <1>8 DEF Before
  <2>2. m \in 1..Len(B) /\ n \in 1..Len(B) /\ B[m] = x /\ B[n] = y
    BY <1>3, <2>1
  <2> QED BY <2>1, <2>2 DEF Before
<1>9. ASSUME NEW i \in 1..Len(A)
      PROVE  Before(B, A[i], r) /\ \E m \in 1..Len(B) : B[m] = A[i]
  <2>1. i \in 1..Len(B) /\ Len(A) + 1 \in 1..Len(B) /\ i < Len(A) + 1 /\ B[i] = A[i]
    BY <1>3
  <2> QED BY <1>3, <2>1 DEF Before
<1>10. ASSUME NEW s, HaveArrived(A, s)
       PROVE  HaveArrived(B, s) /\ \A i \in 1..Len(s) : Before(B, s[i], r)
  BY <1>9, <1>10 DEF HaveArrived
<1>11. ASSUME NEW s, InOrder(A, s) PROVE InOrder(B, s)
  BY <1>8, <1>11 DEF InOrder
<1>12. ASSUME NEW s, NEW q, Ahead(A, s, q) PROVE Ahead(B, s, q)
  BY <1>8, <1>12 DEF Ahead
<1>13. \A i \in 1..Len(d) : (i \in 1..Len(c) /\ d[i] = c[i]) \/ (i = Len(c) + 1 /\ d[i] = r)
  BY <1>4
<1>14. HaveArrived(B, d)
  <2>1. Len(B) \in 1..Len(B) /\ B[Len(B)] = r
    BY <1>3
  <2>2. HaveArrived(B, c)
    BY <1>6, <1>10
  <2> QED BY <1>13, <2>1, <2>2 DEF HaveArrived
<1>15. \A i \in 1..Len(d) : TableOf[d[i]] = t
  BY <1>6, <1>13 DEF t
<1>16. ASSUME NEW s, HaveArrived(A, s), Ahead(A, s, c) PROVE Ahead(B, s, d)
  <2>1. Ahead(B, s, c) /\ \A i \in 1..Len(s) : Before(B, s[i], r)
    BY <1>10, <1>12, <1>16
  <2> QED BY <1>13, <2>1 DEF Ahead
<1>17. InOrder(B, d)
  <2> SUFFICES ASSUME NEW i \in 1..Len(d), NEW j \in 1..Len(d), i < j, TableOf[d[i]] = TableOf[d[j]]
               PROVE  Before(B, d[i], d[j])
    BY DEF InOrder
  <2>1. i \in 1..Len(c) /\ d[i] = c[i]
    BY <1>4
  <2>2. InOrder(B, c) /\ Before(B, c[i], r)
    BY <1>6, <1>10, <1>11, <2>1
  <2> QED BY <1>13, <2>1, <2>2 DEF InOrder
<1>18. ASSUME NEW x \in Table
       PROVE  /\ HaveArrived(B, v[x]) /\ \A i \in 1..Len(v[x]) : TableOf[v[x][i]] = x
              /\ InOrder(B, v[x]) /\ Ahead(B, b, v[x]) /\ Ahead(B, p, v[x])
  <2>1. CASE x = t
    BY <1>2, <1>5, <1>6, <1>14, <1>15, <1>16, <1>17, <2>1
  <2>2. CASE x # t
    BY <1>2, <1>5, <1>10, <1>11, <1>12, <2>2
  <2> QED BY <2>1, <2>2
<1>19. Lines(B, b, p, v)
  BY <1>5, <1>10, <1>11, <1>12, <1>18 DEF Lines
<1> QED BY <1>7, <1>19 DEF B, v, t

-----------------------------------------------------------------------------
(* Scheduling and settling *)

\* The part of TypeOK that is about the pending rows and the flush.
QueueOK ==
  /\ pending \in Seq(Row) /\ batch \in Seq(Row) /\ buffer \in Seq(Row)
  /\ flushAt \in [Row -> Nat] /\ timer \in Nat \cup {NoTimer}
  /\ flushing \in Nat /\ Len(batch) <= flushing
  /\ phase \in {"idle", "append", "flush", "wait", "settled"}
  /\ attempt \in 0..Attempts

\* The rest of TypeOK.
OthersOK ==
  /\ arrived \in Seq(Row) /\ setup \in [Table -> Seq(Row)]
  /\ config \in Config
  /\ circuit \in {"closed", "open"}
  /\ failures \in 0..FailureThreshold /\ cooled \in BOOLEAN
  /\ status \in {"open", "closing", "closed"}
  /\ outcome \in [Row -> {"none", "resolved", "rejected"}]
  /\ inDb \subseteq Row

\* The two parts are the whole.
LEMMA TypeParts == TypeOK <=> QueueOK /\ OthersOK
BY DEF TypeOK, QueueOK, OthersOK

\* TimerCovers, with the rows told by their places and a batch of n rows.
Covered(n) ==
  phase = "idle" /\ pending # <<>> =>
    /\ timer # NoTimer /\ \A i \in 1..Len(pending) : timer <= flushAt[pending[i]]
    /\ Len(pending) < n

\* Covered() says what TimerCovers does.
LEMMA CoveredCovers ==
  ASSUME QueueOK, Covered(config.maxRows) PROVE TimerCovers
<1>1. Rows(pending) = {pending[i] : i \in 1..Len(pending)}
  BY RowsAre DEF QueueOK
<1> QED BY <1>1 DEF Covered, TimerCovers

\* Begin() takes a batch that nothing has settled, and leaves the order.
LEMMA BeginHolds ==
  ASSUME NEW p \in Seq(Row), NEW due \in [Row -> Nat], NEW n \in Nat \ {0}, Begin(p, due, n),
         NEW b \in Seq(Row), NEW u \in [Table -> Seq(Row)],
         Lines(arrived, b, p, u), Unsettled(outcome, p)
  PROVE  /\ QueueOK' /\ phase' = "append" /\ Built'
         /\ Lines(arrived, batch', pending', u)
        /\ Unsettled(outcome, batch') /\ Unsettled(outcome, pending')
<1> DEFINE k == IF Len(p) < n THEN Len(p) ELSE n
<1>1. k \in Nat /\ k <= Len(p) /\ Len(p) \in Nat
  OBVIOUS
<1>2. /\ batch' = SubSeq(p, 1, k) /\ pending' = SubSeq(p, k + 1, Len(p))
      /\ flushing' = k /\ phase' = "append" /\ attempt' = 1 /\ buffer' = <<>> /\ timer' = NoTimer
      /\ flushAt' = [r \in Row |-> IF r \in Rows(batch') THEN 0 ELSE due[r]]
  BY DEF Begin
<1> HIDE DEF k
<1>3. /\ batch' \in Seq(Row) /\ Len(batch') = k /\ \A i \in 1..k : batch'[i] = p[i]
      /\ pending' \in Seq(Row) /\ Len(pending') = Len(p) - k
      /\ \A i \in 1..(Len(p) - k) : pending'[i] = p[k + i]
  BY <1>1, <1>2, Split
<1>4. flushAt' \in [Row -> Nat]
  BY <1>2
<1>5. 1 \in 0..Attempts
  BY WriterAssumption
<1>6. QueueOK'
  BY <1>1, <1>2, <1>3, <1>4, <1>5 DEF QueueOK
<1>7. Built'
  BY <1>2, <1>3 DEF Built
<1>8. Lines(arrived, batch', pending', u)
  BY <1>1, <1>2, LinesBegun
<1>9. \A i \in 1..Len(p) : outcome[p[i]] = "none"
  BY DEF Unsettled
<1>10. Unsettled(outcome, batch')
  <2>1. \A i \in 1..Len(batch') : i \in 1..Len(p) /\ batch'[i] = p[i]
    BY <1>1, <1>3
  <2> QED BY <1>9, <2>1 DEF Unsettled
<1>11. Unsettled(outcome, pending')
  <2>1. \A i \in 1..Len(pending') : k + i \in 1..Len(p) /\ pending'[i] = p[k + i]
    BY <1>1, <1>3
  <2> QED BY <1>9, <2>1 DEF Unsettled
<1> QED BY <1>2, <1>6, <1>7, <1>8, <1>10, <1>11

\* Armed() is due by every deadline.
LEMMA ArmedIs ==
  ASSUME NEW p \in Seq(Row), p # <<>>, NEW due \in [Row -> Nat], NEW now \in Nat \cup {NoTimer}
  PROVE  /\ Armed(p, due, now) \in Nat
         /\ \A i \in 1..Len(p) : Armed(p, due, now) <= due[p[i]]
<1>1. /\ Earliest(p, due) \in Nat
      /\ \A i \in 1..Len(p) : Earliest(p, due) <= due[p[i]] /\ due[p[i]] \in Nat
  BY EarliestIs
<1> QED BY <1>1 DEF Armed

\* Schedule() covers what waits, or begins a flush.
LEMMA ScheduleHolds ==
  ASSUME NEW p \in Seq(Row), NEW due \in [Row -> Nat], NEW n \in Nat \ {0},
         NEW now \in Nat \cup {NoTimer}, Schedule(p, due, n, now),
         NEW u \in [Table -> Seq(Row)], QueueOK, Lines(arrived, batch, p, u), Unsettled(outcome, p),
         phase # "settled" => Unsettled(outcome, batch), Built
  PROVE  /\ QueueOK' /\ Built' /\ Covered(n)'
         /\ Lines(arrived, batch', pending', u) /\ Unsettled(outcome, pending')
         /\ phase' # "settled" => Unsettled(outcome, batch')
<1>1. batch \in Seq(Row)
  BY DEF QueueOK
<1>2. CASE UNCHANGED flushVars /\ pending' = p /\ flushAt' = due /\ timer' \in Nat \cup {NoTimer}
           /\ (phase = "idle" /\ p # <<>> =>
                 /\ timer' # NoTimer /\ \A i \in 1..Len(p) : timer' <= due[p[i]]
                 /\ Len(p) < n)
  <2>1. QueueOK'
    BY <1>2 DEF QueueOK, flushVars
  <2>2. Built'
    BY <1>2 DEF Built, flushVars
  <2>3. Covered(n)'
    BY <1>2 DEF Covered, flushVars
  <2>4. /\ Lines(arrived, batch', pending', u) /\ Unsettled(outcome, pending')
        /\ phase' # "settled" => Unsettled(outcome, batch')
    BY <1>2 DEF flushVars
  <2> QED BY <2>1, <2>2, <2>3, <2>4
<1>3. CASE Begin(p, due, n)
  <2>1. /\ QueueOK' /\ phase' = "append" /\ Built'
        /\ Lines(arrived, batch', pending', u)
        /\ Unsettled(outcome, batch') /\ Unsettled(outcome, pending')
    BY <1>1, <1>3, BeginHolds
  <2> QED BY <2>1 DEF Covered
<1>4. CASE p # <<>> /\ Len(p) < n
  <2>1. pending' = p /\ timer' = Armed(p, due, now) /\ flushAt' = due /\ UNCHANGED flushVars
    BY <1>4 DEF Schedule
  <2>2. Armed(p, due, now) \in Nat /\ \A i \in 1..Len(p) : Armed(p, due, now) <= due[p[i]]
    BY <1>4, ArmedIs
  <2> QED BY <1>2, <1>4, <2>1, <2>2, WriterAssumption
<1>5. CASE p = <<>>
  <2>1. Len(p) = 0 /\ ~(Len(p) >= n)
    BY <1>5
  <2>2. pending' = p /\ timer' = now /\ flushAt' = due /\ UNCHANGED flushVars
    BY <1>5, <2>1 DEF Schedule
  <2> QED BY <1>2, <1>5, <2>2
<1>6. CASE Len(p) >= n /\ p # <<>>
  <2>1. CASE phase = "idle"
    BY <1>3, <1>6, <2>1 DEF Schedule
  <2>2. CASE phase # "idle"
    <3>1. pending' = p /\ timer' = now /\ flushAt' = due /\ UNCHANGED flushVars
      BY <1>6, <2>2 DEF Schedule
    <3> QED BY <1>2, <2>2, <3>1
  <2> QED BY <2>1, <2>2
<1>7. Len(p) < n \/ Len(p) >= n
  OBVIOUS
<1> QED BY <1>4, <1>5, <1>6, <1>7

\* Settle() gives the rows of S their outcome, and no other row.
LEMMA SettleHolds ==
  ASSUME NEW S \in SUBSET Row, NEW how \in {"resolved", "rejected"}, Settle(S, how), OthersOK
  PROVE  /\ outcome' \in [Row -> {"none", "resolved", "rejected"}]
         /\ \A r \in Row : outcome'[r] = IF r \in S THEN how ELSE outcome[r]
BY DEF Settle, OthersOK

\* Rows that are not settled stay so when others are.
LEMMA UnsettledKept ==
  ASSUME NEW S \in SUBSET Row, NEW how \in {"resolved", "rejected"}, Settle(S, how), OthersOK,
         NEW s \in Seq(Row), Unsettled(outcome, s), \A i \in 1..Len(s) : s[i] \notin S
  PROVE  \A i \in 1..Len(s) : outcome'[s[i]] = "none"
<1>1. \A i \in 1..Len(s) : s[i] \in Row
  OBVIOUS
<1> QED BY <1>1, SettleHolds DEF Unsettled

-----------------------------------------------------------------------------
(* Every step keeps the invariant *)

\* Rows of the batch, of the pending rows and of a setup chain are not the same.
LEMMA Apart ==
  ASSUME IInv
  PROVE  /\ \A i, j \in 1..Len(batch) : i # j => batch[i] # batch[j]
         /\ \A i \in 1..Len(batch), j \in 1..Len(pending) : batch[i] # pending[j]
         /\ \A t \in Table : \A i \in 1..Len(batch), j \in 1..Len(setup[t]) : batch[i] # setup[t][j]
         /\ \A t \in Table : \A i \in 1..Len(pending), j \in 1..Len(setup[t]) :
              pending[i] # setup[t][j]
         /\ \A t, u \in Table : \A i \in 1..Len(setup[t]), j \in 1..Len(setup[u]) :
              t # u \/ i # j => setup[t][i] # setup[u][j]
<1>1. /\ InOrder(arrived, batch) /\ Ahead(arrived, batch, pending)
      /\ \A t \in Table : /\ \A i \in 1..Len(setup[t]) : TableOf[setup[t][i]] = t
                          /\ InOrder(arrived, setup[t]) /\ Ahead(arrived, batch, setup[t])
                          /\ Ahead(arrived, pending, setup[t])
  BY DEF IInv, Lines
<1>2. \A a : ~Before(arrived, a, a)
  BY NotBeforeItself DEF IInv
<1>3. \A i, j \in 1..Len(batch) : i # j => i < j \/ j < i
  OBVIOUS
<1>4. \A i, j \in 1..Len(batch) : i # j => batch[i] # batch[j]
  BY <1>1, <1>2, <1>3 DEF InOrder
<1>5. \A i \in 1..Len(batch), j \in 1..Len(pending) : batch[i] # pending[j]
  BY <1>1, <1>2 DEF Ahead
<1>6. ASSUME NEW t \in Table
      PROVE  /\ \A i \in 1..Len(batch), j \in 1..Len(setup[t]) : batch[i] # setup[t][j]
             /\ \A i \in 1..Len(pending), j \in 1..Len(setup[t]) : pending[i] # setup[t][j]
  BY <1>1, <1>2 DEF Ahead
<1>7. ASSUME NEW t \in Table, NEW i \in 1..Len(setup[t]), NEW j \in 1..Len(setup[t]), i # j
      PROVE  setup[t][i] # setup[t][j]
  <2>1. i < j \/ j < i
    BY <1>7
  <2>2. InOrder(arrived, setup[t])
    BY <1>1
  <2> QED BY <1>2, <2>1, <2>2 DEF InOrder
<1>8. \A t, u \in Table : \A i \in 1..Len(setup[t]), j \in 1..Len(setup[u]) :
        t # u \/ i # j => setup[t][i] # setup[u][j]
  BY <1>1, <1>7
<1> QED BY <1>4, <1>5, <1>6, <1>8

\* A row that is not in any line has not been handed over; one that is, has.
LEMMA LinesArrived ==
  ASSUME IInv, NEW r \in Row, \A m \in 1..Len(arrived) : arrived[m] # r
  PROVE  /\ \A i \in 1..Len(batch) : batch[i] # r
         /\ \A i \in 1..Len(pending) : pending[i] # r
         /\ \A t \in Table : \A i \in 1..Len(setup[t]) : setup[t][i] # r
BY DEF IInv, Lines, HaveArrived

\* The invariant holds at the start.
LEMMA InitHolds == Init => IInv
<1> SUFFICES ASSUME Init PROVE IInv
  OBVIOUS
<1>1. TypeOK
  <2>1. arrived \in Seq(Row) /\ setup \in [Table -> Seq(Row)] /\ config \in Config
    BY DEF Init
  <2>5. /\ circuit \in {"closed", "open"} /\ cooled \in BOOLEAN
        /\ status \in {"open", "closing", "closed"}
    BY DEF Init
  <2>6. outcome \in [Row -> {"none", "resolved", "rejected"}] /\ inDb \subseteq Row
    BY DEF Init
  <2>2. /\ pending \in Seq(Row) /\ batch \in Seq(Row) /\ buffer \in Seq(Row)
        /\ timer \in Nat \cup {NoTimer}
        /\ phase \in {"idle", "append", "flush", "wait", "settled"}
    BY DEF Init
  <2>3. flushAt \in [Row -> Nat] /\ flushing \in Nat /\ Len(batch) <= flushing
    BY DEF Init
  <2>4. attempt \in 0..Attempts /\ failures \in 0..FailureThreshold
    BY WriterAssumption DEF Init
  <2> QED BY <2>1, <2>2, <2>3, <2>4, <2>5, <2>6 DEF TypeOK
<1>2. ArriveOnce(arrived) /\ Lines(arrived, batch, pending, setup)
  BY DEF Init, ArriveOnce, Lines, HaveArrived, InOrder, Ahead
<1>3. Waits /\ Stored
  BY DEF Init, Waits, Stored, Unsettled
<1>4. Built /\ TimerCovers
  BY DEF Init, Built, TimerCovers
<1> QED BY <1>1, <1>2, <1>3, <1>4 DEF IInv

-----------------------------------------------------------------------------
(* The steps *)

\* A row is handed over.
LEMMA WriteHolds == ASSUME IInv, NEW r \in Row, Write(r) PROVE IInv'
<1>1. /\ r \notin Rows(arrived) /\ arrived' = Append(arrived, r)
      /\ setup' = [setup EXCEPT ![TableOf[r]] = Append(@, r)]
  BY DEF Write
<1>2. UNCHANGED <<config, pending, flushAt, timer, batch, flushing, phase, attempt, buffer,
                  circuit, failures, cooled, status, outcome, inDb>>
  BY DEF Write, queueVars, flushVars, circuitVars
<1>3. /\ QueueOK /\ OthersOK /\ arrived \in Seq(Row) /\ setup \in [Table -> Seq(Row)]
      /\ batch \in Seq(Row) /\ pending \in Seq(Row) /\ TableOf[r] \in Table
      /\ ArriveOnce(arrived) /\ Lines(arrived, batch, pending, setup)
  BY WriterAssumption, TypeParts DEF IInv, TypeOK
<1>4. \A m \in 1..Len(arrived) : arrived[m] # r
  BY <1>1, <1>3, RowsAre
<1>5. ArriveOnce(arrived') /\ Lines(arrived', batch', pending', setup')
  BY <1>1, <1>2, <1>3, <1>4, LinesWritten
<1>6. TypeOK'
  <2>1. arrived' \in Seq(Row) /\ setup' \in [Table -> Seq(Row)]
    BY <1>1, <1>3
  <2>2. OthersOK'
    BY <1>2, <1>3, <2>1 DEF OthersOK
  <2>3. QueueOK'
    BY <1>2, <1>3 DEF QueueOK
  <2> QED BY <2>2, <2>3, TypeParts DEF TypeOK, QueueOK, OthersOK
<1>7. Waits'
  <2>1. /\ \A x \in Row : (\A m \in 1..Len(arrived) : arrived[m] # x) => outcome[x] = "none"
        /\ \A u \in Table : \A i \in 1..Len(setup[u]) : outcome[setup[u][i]] = "none"
        /\ Unsettled(outcome, pending) /\ (phase # "settled" => Unsettled(outcome, batch))
    BY DEF IInv, Waits, Unsettled
  <2>2. \A m \in 1..Len(arrived) : m \in 1..Len(arrived') /\ arrived'[m] = arrived[m]
    BY <1>1, <1>3
  <2>3. \A x \in Row : (\A m \in 1..Len(arrived') : arrived'[m] # x) => outcome'[x] = "none"
    BY <1>2, <2>1, <2>2
  <2>4. outcome[r] = "none"
    BY <1>4, <2>1
  <2>5. ASSUME NEW u \in Table, NEW i \in 1..Len(setup'[u]) PROVE outcome'[setup'[u][i]] = "none"
    <3>1. CASE TableOf[r] # u
      <4>1. setup'[u] = setup[u]
        BY <1>1, <1>3, <3>1
      <4> QED BY <1>2, <2>1, <4>1
    <3>2. CASE TableOf[r] = u
      <4>1. setup'[u] = Append(setup[u], r) /\ setup[u] \in Seq(Row)
        BY <1>1, <1>3, <3>2
      <4>2. (i \in 1..Len(setup[u]) /\ setup'[u][i] = setup[u][i]) \/ setup'[u][i] = r
        BY <4>1
      <4> QED BY <1>2, <2>1, <2>4, <4>2
    <3> QED BY <3>1, <3>2
  <2> QED BY <1>2, <2>1, <2>3, <2>5 DEF Waits, Unsettled
<1>8. Stored' /\ Built' /\ TimerCovers'
  BY <1>2 DEF IInv, Stored, Built, TimerCovers
<1> QED BY <1>5, <1>6, <1>7, <1>8 DEF IInv

\* A step that moves no row and settles none.
LEMMA QuietHolds ==
  ASSUME IInv, UNCHANGED <<arrived, setup, pending, batch, outcome, inDb>>,
         phase = "settled" => phase' = "settled",
         TypeOK', Built', TimerCovers'
  PROVE  IInv'
<1>1. ArriveOnce(arrived') /\ Lines(arrived', batch', pending', setup')
  BY DEF IInv
<1>2. Stored'
  BY DEF IInv, Stored
<1>3. Waits'
  BY DEF IInv, Waits, Unsettled
<1> QED BY <1>1, <1>2, <1>3 DEF IInv

\* The next row is built.
LEMMA AppendRowHolds == ASSUME IInv, AppendRow PROVE IInv'
<1>1. /\ phase = "append" /\ Len(buffer) < Len(batch)
      /\ buffer' = Append(buffer, batch[Len(buffer) + 1])
      /\ UNCHANGED <<arrived, setup, config, pending, flushAt, timer, batch, flushing, phase,
                     attempt, circuit, failures, cooled, status, outcome, inDb>>
  BY DEF AppendRow, setupVars, queueVars, circuitVars
<1>2. QueueOK /\ OthersOK /\ buffer \in Seq(Row) /\ batch \in Seq(Row)
  BY TypeParts DEF IInv, TypeOK
<1>3. batch[Len(buffer) + 1] \in Row
  BY <1>1, <1>2
<1>4. /\ buffer' \in Seq(Row) /\ Len(buffer') = Len(buffer) + 1
      /\ buffer'[Len(buffer) + 1] = batch[Len(buffer) + 1]
      /\ \A i \in 1..Len(buffer) : buffer'[i] = buffer[i]
  BY <1>1, <1>2, <1>3
<1>5. TypeOK'
  <2>1. QueueOK'
    BY <1>1, <1>2, <1>4 DEF QueueOK
  <2>2. OthersOK'
    BY <1>1, <1>2 DEF OthersOK
  <2> QED BY <2>1, <2>2, TypeParts DEF TypeOK, QueueOK, OthersOK
<1>6. Built'
  <2>1. \A i \in 1..Len(buffer) : buffer[i] = batch[i]
    BY <1>1 DEF IInv, Built
  <2>2. \A i \in 1..Len(buffer') : i \in 1..Len(buffer) \/ i = Len(buffer) + 1
    BY <1>2, <1>4
  <2>3. \A i \in 1..Len(buffer') : buffer'[i] = batch[i]
    BY <1>4, <2>1, <2>2
  <2>4. Len(buffer') <= Len(batch)
    BY <1>1, <1>2, <1>4
  <2> QED BY <1>1, <2>3, <2>4 DEF Built
<1>7. TimerCovers'
  BY <1>1 DEF IInv, TimerCovers
<1> QED BY <1>1, <1>5, <1>6, <1>7, QuietHolds

\* Every row is built: the buffer is the batch.
LEMMA AppendedHolds == ASSUME IInv, Appended PROVE IInv'
<1>1. /\ phase = "append" /\ Len(buffer) = Len(batch)
      /\ phase' = IF batch = <<>> THEN "settled" ELSE "flush"
      /\ UNCHANGED <<arrived, setup, config, pending, flushAt, timer, batch, flushing, buffer,
                     attempt, circuit, failures, cooled, status, outcome, inDb>>
  BY DEF Appended, setupVars, queueVars, circuitVars
<1>2. TypeOK /\ buffer \in Seq(Row) /\ batch \in Seq(Row)
  BY DEF IInv, TypeOK
<1>3. TypeOK'
  BY <1>1, <1>2 DEF TypeOK
<1>4. \A i \in 1..Len(buffer) : buffer[i] = batch[i]
  BY <1>1 DEF IInv, Built
<1>5. buffer = batch
  BY <1>1, <1>2, <1>4, SeqEqual
<1>6. Built' /\ TimerCovers'
  BY <1>1, <1>5 DEF Built, TimerCovers
<1> QED BY <1>1, <1>3, <1>6, QuietHolds

\* A retry starts with an empty buffer, and only while attempts are left.
LEMMA RetryHolds == ASSUME IInv, Retry PROVE IInv'
<1>1. /\ phase = "wait" /\ attempt' = attempt + 1 /\ phase' = "append" /\ buffer' = <<>>
      /\ UNCHANGED <<arrived, setup, config, pending, flushAt, timer, batch, flushing,
                     circuit, failures, cooled, status, outcome, inDb>>
  BY DEF Retry, setupVars, queueVars, circuitVars
<1>2. TypeOK /\ attempt < Attempts /\ attempt \in 0..Attempts /\ batch \in Seq(Row)
  BY <1>1 DEF IInv, TypeOK, Built
<1>3. attempt' \in 0..Attempts /\ buffer' \in Seq(Row)
  BY <1>1, <1>2, WriterAssumption
<1>4. TypeOK'
  BY <1>1, <1>2, <1>3 DEF TypeOK
<1>5. Built' /\ TimerCovers'
  BY <1>1, <1>2 DEF Built, TimerCovers
<1> QED BY <1>1, <1>4, <1>5, QuietHolds

\* The circuit may be probed.
LEMMA CoolsDownHolds == ASSUME IInv, CoolsDown PROVE IInv'
<1>1. /\ cooled' = TRUE
      /\ UNCHANGED <<arrived, setup, config, pending, flushAt, timer, batch, flushing, phase,
                     attempt, buffer, circuit, failures, status, outcome, inDb>>
  BY DEF CoolsDown, setupVars, queueVars, flushVars
<1>2. TypeOK'
  BY <1>1 DEF IInv, TypeOK
<1>3. Built' /\ TimerCovers'
  BY <1>1 DEF IInv, Built, TimerCovers
<1> QED BY <1>1, <1>2, <1>3, QuietHolds

\* The batcher closes, and the sender after it.
LEMMA CloseHolds == ASSUME IInv, Close \/ Closed PROVE IInv'
<1>1. /\ UNCHANGED <<arrived, setup, config, pending, flushAt, batch, flushing, phase, attempt,
                     circuit, failures, cooled, outcome, inDb>>
      /\ status' \in {"closing", "closed"} /\ timer' \in {timer, NoTimer}
      /\ buffer' = buffer \/ (phase = "idle" /\ buffer' = <<>>)
  BY DEF Close, Closed, setupVars, queueVars, flushVars, circuitVars
<1>2. TypeOK
  BY DEF IInv
<1>3. timer' \in Nat \cup {NoTimer} /\ buffer' \in Seq(Row)
  <2>1. timer \in Nat \cup {NoTimer} /\ buffer \in Seq(Row) /\ <<>> \in Seq(Row)
    BY <1>2 DEF TypeOK
  <2>2. timer' \in Nat \cup {NoTimer}
    BY <1>1, <2>1
  <2>3. buffer' \in Seq(Row)
    BY <1>1, <2>1
  <2> QED BY <2>2, <2>3
<1>4. TypeOK'
  BY <1>1, <1>2, <1>3 DEF TypeOK
<1>5. Built' /\ TimerCovers'
  BY <1>1 DEF IInv, Built, TimerCovers
<1> QED BY <1>1, <1>4, <1>5, QuietHolds

\* Settling the batch settles no other row.
LEMMA SettleBatchHolds ==
  ASSUME IInv, NEW how \in {"resolved", "rejected"}, Settle(Rows(batch), how),
         UNCHANGED <<arrived, setup, pending, batch>>, phase' = "settled"
  PROVE  /\ Waits' /\ outcome' \in [Row -> {"none", "resolved", "rejected"}]
         /\ \A r \in Row : outcome'[r] \in {outcome[r], how}
         /\ \A r \in Row : outcome'[r] # outcome[r] => r \in Rows(batch)
<1> DEFINE S == Rows(batch)
<1>1. /\ OthersOK /\ batch \in Seq(Row) /\ pending \in Seq(Row) /\ setup \in [Table -> Seq(Row)]
      /\ S = {batch[i] : i \in 1..Len(batch)}
  BY TypeParts, RowsAre DEF IInv, TypeOK
<1>2. S \in SUBSET Row
  BY <1>1
<1>3. /\ outcome' \in [Row -> {"none", "resolved", "rejected"}]
      /\ \A r \in Row : outcome'[r] = IF r \in S THEN how ELSE outcome[r]
  BY <1>1, <1>2, SettleHolds
<1>4. /\ \A r \in Row : (\A m \in 1..Len(arrived) : arrived[m] # r) => outcome[r] = "none"
      /\ \A t \in Table : Unsettled(outcome, setup[t])
      /\ Unsettled(outcome, pending)
  BY DEF IInv, Waits
<1>5. /\ \A i \in 1..Len(pending) : pending[i] \notin S
      /\ \A t \in Table : \A i \in 1..Len(setup[t]) : setup[t][i] \notin S
  BY <1>1, Apart
<1> HIDE DEF S
<1>6. \A i \in 1..Len(pending) : outcome'[pending[i]] = "none"
  BY <1>1, <1>2, <1>4, <1>5, UnsettledKept DEF S
<1>7. ASSUME NEW t \in Table PROVE \A i \in 1..Len(setup[t]) : outcome'[setup[t][i]] = "none"
  BY <1>1, <1>2, <1>4, <1>5, UnsettledKept DEF S
<1>8. ASSUME NEW r \in Row, \A m \in 1..Len(arrived) : arrived[m] # r PROVE outcome'[r] = "none"
  <2>1. r \notin S
    BY <1>1, <1>8, LinesArrived DEF S
  <2> QED BY <1>3, <1>4, <1>8, <2>1
<1>9. Waits'
  BY <1>6, <1>7, <1>8 DEF Waits, Unsettled
<1> QED BY <1>3, <1>9 DEF S

\* A failed attempt is followed by a delay, or by the rejection of the batch.
LEMMA AttemptFailsHolds ==
  ASSUME IInv, NEW retryable \in BOOLEAN, AttemptFails(retryable), phase = "flush",
         UNCHANGED <<arrived, setup, pending, batch, attempt>>
  PROVE  /\ Waits' /\ Built' /\ phase' \in {"wait", "settled"}
         /\ outcome' \in [Row -> {"none", "resolved", "rejected"}]
         /\ \A r \in Row : outcome'[r] = "resolved" => outcome[r] = "resolved"
<1>1. /\ outcome \in [Row -> {"none", "resolved", "rejected"}]
      /\ attempt \in 0..Attempts /\ Attempts \in Nat
  BY WriterAssumption DEF IInv, TypeOK
<1>2. CASE retryable /\ attempt < Attempts
  <2>1. phase' = "wait" /\ outcome' = outcome
    BY <1>2 DEF AttemptFails
  <2>2. Waits' /\ Built'
    BY <1>2, <2>1 DEF IInv, Waits, Unsettled, Built
  <2> QED BY <1>1, <2>1, <2>2
<1>3. CASE ~(retryable /\ attempt < Attempts)
  <2>1. phase' = "settled" /\ Settle(Rows(batch), "rejected")
    BY <1>3 DEF AttemptFails
  <2>2. /\ Waits' /\ outcome' \in [Row -> {"none", "resolved", "rejected"}]
        /\ \A r \in Row : outcome'[r] \in {outcome[r], "rejected"}
    BY <2>1, SettleBatchHolds
  <2>3. Built'
    BY <2>1 DEF Built
  <2> QED BY <2>1, <2>2, <2>3
<1> QED BY <1>2, <1>3

\* The circuit refuses a flush.
LEMMA FlushRefusedHolds == ASSUME IInv, FlushRefused PROVE IInv'
<1>1. /\ phase = "flush" /\ AttemptFails(TRUE)
      /\ UNCHANGED <<arrived, setup, config, pending, flushAt, timer, batch, flushing, attempt,
                     buffer, circuit, failures, cooled, status, inDb>>
  BY DEF FlushRefused, setupVars, queueVars, circuitVars
<1>2. /\ Waits' /\ Built' /\ phase' \in {"wait", "settled"}
      /\ outcome' \in [Row -> {"none", "resolved", "rejected"}]
      /\ \A r \in Row : outcome'[r] = "resolved" => outcome[r] = "resolved"
  BY <1>1, AttemptFailsHolds
<1>3. TypeOK'
  BY <1>1, <1>2 DEF IInv, TypeOK
<1>4. Stored' /\ TimerCovers'
  BY <1>1, <1>2 DEF IInv, Stored, TimerCovers
<1>5. ArriveOnce(arrived') /\ Lines(arrived', batch', pending', setup')
  BY <1>1 DEF IInv
<1> QED BY <1>2, <1>3, <1>4, <1>5 DEF IInv

\* A flush throws: of what was sent, QuestDB may have applied any part.
LEMMA FlushFailsHolds == ASSUME IInv, NEW retryable \in BOOLEAN, FlushFails(retryable) PROVE IInv'
<1>1. /\ phase = "flush" /\ AttemptFails(retryable)
      /\ UNCHANGED <<arrived, setup, config, pending, flushAt, timer, batch, flushing, attempt,
                     buffer, status>>
      /\ \E S \in SUBSET Rows(buffer) : inDb' = inDb \cup S
      /\ \/ circuit' = "open" /\ failures' = FailureThreshold /\ cooled' = FALSE
         \/ /\ ~(failures + 1 >= FailureThreshold) /\ failures' = failures + 1
            /\ circuit' = circuit /\ cooled' = cooled
  BY DEF FlushFails, Admitted, setupVars, queueVars
<1>2. TypeOK /\ buffer \in Seq(Row) /\ inDb \subseteq Row /\ failures \in 0..FailureThreshold
  BY DEF IInv, TypeOK
<1>3. /\ Waits' /\ Built' /\ phase' \in {"wait", "settled"}
      /\ outcome' \in [Row -> {"none", "resolved", "rejected"}]
      /\ \A r \in Row : outcome'[r] = "resolved" => outcome[r] = "resolved"
  BY <1>1, AttemptFailsHolds
<1>4. inDb \subseteq inDb' /\ inDb' \subseteq Row
  <2>1. Rows(buffer) \subseteq Row
    BY <1>2, RowsAre
  <2> QED BY <1>1, <1>2, <2>1
<1>5. circuit' \in {"closed", "open"} /\ failures' \in 0..FailureThreshold /\ cooled' \in BOOLEAN
  <2>1. circuit \in {"closed", "open"} /\ cooled \in BOOLEAN
    BY <1>2 DEF TypeOK
  <2>2. FailureThreshold \in Nat
    BY WriterAssumption
  <2>3. CASE circuit' = "open" /\ failures' = FailureThreshold /\ cooled' = FALSE
    <3>1. FailureThreshold \in 0..FailureThreshold
      BY <2>2
    <3>2. failures' \in 0..FailureThreshold
      BY <2>3, <3>1
    <3>3. circuit' \in {"closed", "open"} /\ cooled' \in BOOLEAN
      BY <2>3
    <3> QED BY <3>2, <3>3
  <2>4. CASE /\ ~(failures + 1 >= FailureThreshold) /\ failures' = failures + 1
             /\ circuit' = circuit /\ cooled' = cooled
    <3>1. failures' \in 0..FailureThreshold
      BY <1>2, <2>2, <2>4
    <3> QED BY <2>1, <2>4, <3>1
  <2> QED BY <1>1, <2>3, <2>4
<1>6. TypeOK'
  BY <1>1, <1>2, <1>3, <1>4, <1>5 DEF TypeOK
<1>7. Stored' /\ TimerCovers'
  BY <1>1, <1>3, <1>4 DEF IInv, Stored, TimerCovers
<1>8. ArriveOnce(arrived') /\ Lines(arrived', batch', pending', setup')
  BY <1>1 DEF IInv
<1> QED BY <1>3, <1>6, <1>7, <1>8 DEF IInv

\* A flush comes back: what was sent is the batch, and it is in QuestDB.
LEMMA FlushDoneHolds == ASSUME IInv, FlushDone PROVE IInv'
<1>1. /\ phase = "flush" /\ Settle(Rows(batch), "resolved") /\ inDb' = inDb \cup Rows(buffer)
      /\ circuit' = "closed" /\ failures' = 0 /\ cooled' = FALSE
      /\ phase' = "settled" /\ buffer' = <<>>
      /\ UNCHANGED <<arrived, setup, config, pending, flushAt, timer, batch, flushing, attempt,
                     status>>
  BY DEF FlushDone, Admitted, setupVars, queueVars
<1>2. /\ TypeOK /\ buffer \in Seq(Row) /\ inDb \subseteq Row /\ <<>> \in Seq(Row)
      /\ outcome \in [Row -> {"none", "resolved", "rejected"}] /\ buffer = batch
  BY <1>1 DEF IInv, TypeOK, Built
<1>3. /\ Waits' /\ outcome' \in [Row -> {"none", "resolved", "rejected"}]
      /\ \A r \in Row : outcome'[r] # outcome[r] => r \in Rows(batch)
  BY <1>1, SettleBatchHolds
<1>4. inDb' \subseteq Row
  <2>1. Rows(buffer) \subseteq Row
    BY <1>2, RowsAre
  <2> QED BY <1>1, <1>2, <2>1
<1>5. 0 \in 0..FailureThreshold
  BY WriterAssumption
<1>6. TypeOK'
  BY <1>1, <1>2, <1>3, <1>4, <1>5 DEF TypeOK
<1>7. Stored'
  BY <1>1, <1>2, <1>3 DEF IInv, Stored
<1>8. Built' /\ TimerCovers'
  BY <1>1 DEF Built, TimerCovers
<1>9. ArriveOnce(arrived') /\ Lines(arrived', batch', pending', setup')
  BY <1>1 DEF IInv
<1> QED BY <1>3, <1>6, <1>7, <1>8, <1>9 DEF IInv

\* A flush that sent nothing rejects the batch.
LEMMA FlushEmptyHolds == ASSUME IInv, FlushEmpty PROVE IInv'
<1>1. /\ phase = "flush" /\ Settle(Rows(batch), "rejected")
      /\ circuit' = "closed" /\ failures' = 0 /\ cooled' = FALSE /\ phase' = "settled"
      /\ UNCHANGED <<arrived, setup, config, pending, flushAt, timer, batch, flushing, attempt,
                     buffer, status, inDb>>
  BY DEF FlushEmpty, Admitted, setupVars, queueVars
<1>2. TypeOK
  BY DEF IInv
<1>3. /\ Waits' /\ outcome' \in [Row -> {"none", "resolved", "rejected"}]
      /\ \A r \in Row : outcome'[r] \in {outcome[r], "rejected"}
  BY <1>1, SettleBatchHolds
<1>4. 0 \in 0..FailureThreshold
  BY WriterAssumption
<1>5. TypeOK'
  BY <1>1, <1>2, <1>3, <1>4 DEF TypeOK
<1>6. Stored'
  BY <1>1, <1>3 DEF IInv, Stored
<1>7. Built' /\ TimerCovers'
  BY <1>1 DEF Built, TimerCovers
<1>8. ArriveOnce(arrived') /\ Lines(arrived', batch', pending', setup')
  BY <1>1 DEF IInv
<1> QED BY <1>3, <1>5, <1>6, <1>7, <1>8 DEF IInv

\* A row that cannot be built is rejected, and the others are built again.
LEMMA AppendFailsHolds == ASSUME IInv, AppendFails PROVE IInv'
<1> DEFINE k == Len(buffer) + 1
           r == batch[k]
<1>1. /\ phase = "append" /\ Len(buffer) < Len(batch) /\ batch' = RemoveAt(batch, k)
      /\ Settle({r}, "rejected") /\ buffer' = <<>>
      /\ UNCHANGED <<arrived, setup, config, pending, flushAt, timer, flushing, phase, attempt,
                     circuit, failures, cooled, status, inDb>>
  BY DEF AppendFails, setupVars, queueVars, circuitVars
<1>2. /\ QueueOK /\ OthersOK /\ buffer \in Seq(Row) /\ batch \in Seq(Row) /\ pending \in Seq(Row)
      /\ setup \in [Table -> Seq(Row)] /\ Lines(arrived, batch, pending, setup)
      /\ ArriveOnce(arrived) /\ Len(batch) <= flushing /\ flushing \in Nat
  BY TypeParts DEF IInv, TypeOK
<1>3. k \in 1..Len(batch) /\ r \in Row
  BY <1>1, <1>2
<1> HIDE DEF k
<1>4. /\ batch' \in Seq(Row) /\ Len(batch') = Len(batch) - 1
      /\ \A i \in 1..(Len(batch) - 1) : batch'[i] = IF i < k THEN batch[i] ELSE batch[i + 1]
  BY <1>1, <1>2, <1>3, Without
<1>5. /\ outcome' \in [Row -> {"none", "resolved", "rejected"}]
      /\ \A x \in Row : outcome'[x] = IF x \in {r} THEN "rejected" ELSE outcome[x]
  BY <1>1, <1>2, <1>3, SettleHolds
<1>6. ArriveOnce(arrived') /\ Lines(arrived', batch', pending', setup')
  BY <1>1, <1>2, <1>3, LinesWithout
<1>7. TypeOK'
  <2>1. Len(batch') <= flushing /\ <<>> \in Seq(Row)
    BY <1>2, <1>4
  <2>2. QueueOK'
    BY <1>1, <1>2, <1>4, <2>1 DEF QueueOK
  <2>3. OthersOK'
    BY <1>1, <1>2, <1>5 DEF OthersOK
  <2> QED BY <2>2, <2>3, TypeParts DEF TypeOK, QueueOK, OthersOK
<1>8. Stored' /\ Built' /\ TimerCovers'
  BY <1>1, <1>4, <1>5 DEF IInv, Stored, Built, TimerCovers
<1>9. /\ \A x \in Row : (\A m \in 1..Len(arrived) : arrived[m] # x) => outcome[x] = "none"
      /\ \A t \in Table : Unsettled(outcome, setup[t])
      /\ Unsettled(outcome, pending) /\ Unsettled(outcome, batch)
  BY <1>1 DEF IInv, Waits
<1>10. /\ \A i \in 1..Len(pending) : pending[i] \notin {r}
       /\ \A t \in Table : \A i \in 1..Len(setup[t]) : setup[t][i] \notin {r}
       /\ \A i \in 1..Len(batch) : i # k => batch[i] \notin {r}
  BY <1>3, Apart
<1>11. \A i \in 1..Len(pending) : outcome'[pending[i]] = "none"
  BY <1>1, <1>2, <1>3, <1>9, <1>10, UnsettledKept
<1>12. ASSUME NEW t \in Table PROVE \A i \in 1..Len(setup[t]) : outcome'[setup[t][i]] = "none"
  BY <1>1, <1>2, <1>3, <1>9, <1>10, UnsettledKept
<1>13. \A i \in 1..Len(batch') : outcome'[batch'[i]] = "none"
  <2>1. \A i \in 1..Len(batch) : i # k => batch[i] \in Row /\ outcome'[batch[i]] = "none"
    BY <1>2, <1>5, <1>9, <1>10 DEF Unsettled
  <2>2. \A i \in 1..Len(batch') : IF i < k THEN i \in 1..Len(batch) /\ i # k
                                   ELSE i + 1 \in 1..Len(batch) /\ i + 1 # k
    BY <1>2, <1>3, <1>4
  <2>3. \A i \in 1..Len(batch') : i \in 1..(Len(batch) - 1)
    BY <1>4
  <2> QED BY <1>4, <2>1, <2>2, <2>3
<1>14. ASSUME NEW x \in Row, \A m \in 1..Len(arrived) : arrived[m] # x PROVE outcome'[x] = "none"
  <2>1. x \notin {r}
    BY <1>3, <1>14, LinesArrived
  <2> QED BY <1>5, <1>9, <1>14, <2>1
<1>15. Waits'
  BY <1>1, <1>11, <1>12, <1>13, <1>14 DEF Waits, Unsettled
<1> QED BY <1>6, <1>7, <1>8, <1>15 DEF IInv

\* The rows that wait while the head of a chain is settled.
LEMMA SettleHeadHolds ==
  ASSUME IInv, NEW t \in Table, setup[t] # <<>>, setup' = [setup EXCEPT ![t] = Tail(@)],
         Settle({Head(setup[t])}, "rejected"), UNCHANGED <<arrived, pending, batch, phase>>
  PROVE  /\ Waits' /\ setup' \in [Table -> Seq(Row)]
         /\ outcome' \in [Row -> {"none", "resolved", "rejected"}]
         /\ \A x \in Row : outcome'[x] = "resolved" => outcome[x] = "resolved"
         /\ Lines(arrived', batch', pending', setup')
<1> DEFINE r == Head(setup[t])
<1>1. /\ OthersOK /\ batch \in Seq(Row) /\ pending \in Seq(Row)
      /\ setup \in [Table -> Seq(Row)] /\ setup[t] \in Seq(Row)
      /\ Lines(arrived, batch, pending, setup)
  BY TypeParts DEF IInv, TypeOK
<1>2. /\ r = setup[t][1] /\ r \in Row /\ 1 \in 1..Len(setup[t])
      /\ Tail(setup[t]) \in Seq(Row)
      /\ \A i \in 1..Len(Tail(setup[t])) :
           Tail(setup[t])[i] = setup[t][1 + i] /\ 1 + i \in 1..Len(setup[t])
  BY <1>1, ChainTail
<1> HIDE DEF r
<1>3. /\ outcome' \in [Row -> {"none", "resolved", "rejected"}]
      /\ \A x \in Row : outcome'[x] = IF x \in {r} THEN "rejected" ELSE outcome[x]
  BY <1>1, <1>2, SettleHolds DEF r
<1>4. Lines(arrived', batch', pending', setup')
  BY <1>1, LinesSetup
<1>5. /\ \A x \in Row : (\A m \in 1..Len(arrived) : arrived[m] # x) => outcome[x] = "none"
      /\ \A u \in Table : Unsettled(outcome, setup[u])
      /\ Unsettled(outcome, pending) /\ (phase # "settled" => Unsettled(outcome, batch))
  BY DEF IInv, Waits
<1>6. /\ \A i \in 1..Len(pending) : pending[i] \notin {r}
      /\ \A i \in 1..Len(batch) : batch[i] \notin {r}
      /\ \A u \in Table : \A i \in 1..Len(setup[u]) : u # t \/ i # 1 => setup[u][i] \notin {r}
  BY <1>2, Apart
<1>7. \A i \in 1..Len(pending) : outcome'[pending[i]] = "none"
  BY <1>1, <1>3, <1>5, <1>6 DEF Unsettled
<1>8. phase # "settled" => \A i \in 1..Len(batch) : outcome'[batch[i]] = "none"
  BY <1>1, <1>3, <1>5, <1>6 DEF Unsettled
<1>9. ASSUME NEW u \in Table, NEW i \in 1..Len(setup[u]), u # t \/ i # 1
      PROVE  outcome'[setup[u][i]] = "none"
  <2>1. setup[u] \in Seq(Row) /\ setup[u][i] \in Row
    BY <1>1
  <2>2. outcome[setup[u][i]] = "none"
    BY <1>5 DEF Unsettled
  <2> QED BY <1>3, <1>6, <1>9, <2>1, <2>2
<1>10. ASSUME NEW u \in Table, NEW i \in 1..Len(setup'[u]) PROVE outcome'[setup'[u][i]] = "none"
  <2>1. CASE u = t
    <3> DEFINE y == Tail(setup[t])
    <3>1. setup'[u] = y
      BY <1>1, <2>1
    <3>2. \A j \in 1..Len(y) : y[j] = setup[t][1 + j] /\ 1 + j \in 1..Len(setup[t]) /\ j # 0
      BY <1>2
    <3> HIDE DEF y
    <3>3. setup'[u][i] = setup[t][1 + i] /\ 1 + i \in 1..Len(setup[t]) /\ 1 + i # 1
      BY <3>1, <3>2
    <3> QED BY <1>9, <3>3
  <2>2. CASE u # t
    <3>1. setup'[u] = setup[u]
      BY <1>1, <2>2
    <3> QED BY <1>9, <2>2, <3>1
  <2> QED BY <2>1, <2>2
<1>11. ASSUME NEW x \in Row, \A m \in 1..Len(arrived) : arrived[m] # x PROVE outcome'[x] = "none"
  <2>1. x \notin {r}
    BY <1>2, <1>11, LinesArrived
  <2> QED BY <1>3, <1>5, <1>11, <2>1
<1>12. Waits'
  BY <1>7, <1>8, <1>10, <1>11 DEF Waits, Unsettled
<1>13. setup' \in [Table -> Seq(Row)]
  BY <1>1, <1>2
<1> QED BY <1>3, <1>4, <1>12, <1>13

\* The setup of a row fails.
LEMMA SetupFailsHolds == ASSUME IInv, NEW t \in Table, SetupFails(t) PROVE IInv'
<1>1. /\ setup[t] # <<>> /\ setup' = [setup EXCEPT ![t] = Tail(@)]
      /\ Settle({Head(setup[t])}, "rejected")
      /\ UNCHANGED <<arrived, config, pending, flushAt, timer, batch, flushing, phase, attempt,
                     buffer, circuit, failures, cooled, status, inDb>>
  BY DEF SetupFails, queueVars, flushVars, circuitVars
<1>2. /\ Waits' /\ setup' \in [Table -> Seq(Row)]
      /\ outcome' \in [Row -> {"none", "resolved", "rejected"}]
      /\ \A x \in Row : outcome'[x] = "resolved" => outcome[x] = "resolved"
      /\ Lines(arrived', batch', pending', setup')
  BY <1>1, SettleHeadHolds
<1>3. TypeOK'
  BY <1>1, <1>2 DEF IInv, TypeOK
<1>4. Stored' /\ Built' /\ TimerCovers' /\ ArriveOnce(arrived')
  BY <1>1, <1>2 DEF IInv, Stored, Built, TimerCovers
<1> QED BY <1>2, <1>3, <1>4 DEF IInv

\* A configuration has a batch size.
LEMMA MaxRows == ASSUME TypeOK PROVE config.maxRows \in Nat \ {0}
BY WriterAssumption DEF TypeOK

\* What a step of the queue alone has to keep.
LEMMA QueueStepHolds ==
  ASSUME IInv, UNCHANGED <<arrived, circuit, failures, cooled, status, outcome, inDb>>,
         config' \in Config, setup' \in [Table -> Seq(Row)],
         \A u \in Table : Unsettled(outcome, setup'[u]),
         QueueOK', Built', Covered(config.maxRows)',
         Lines(arrived, batch', pending', setup'), Unsettled(outcome, pending'),
         phase' # "settled" => Unsettled(outcome, batch')
  PROVE  IInv'
<1>1. TypeOK'
  <2>1. OthersOK'
    BY TypeParts DEF IInv, OthersOK
  <2> QED BY <2>1 DEF TypeOK, QueueOK, OthersOK
<1>2. ArriveOnce(arrived') /\ Lines(arrived', batch', pending', setup') /\ Stored'
  BY DEF IInv, Stored
<1>3. Waits'
  BY DEF IInv, Waits
<1>4. TimerCovers'
  BY CoveredCovers, PTL
<1> QED BY <1>1, <1>2, <1>3, <1>4 DEF IInv

\* The table of a row exists: the row is queued, or rejected.
LEMMA SetupDoneHolds == ASSUME IInv, NEW t \in Table, SetupDone(t) PROVE IInv'
<1> DEFINE r == Head(setup[t])
<1>1. /\ setup[t] # <<>> /\ setup' = [setup EXCEPT ![t] = Tail(@)]
      /\ UNCHANGED <<arrived, config, circuit, failures, cooled, status, inDb>>
      /\ \/ /\ \E d \in Deadline :
                 Schedule(Append(pending, r), [flushAt EXCEPT ![r] = d], config.maxRows, timer)
            /\ outcome' = outcome
         \/ /\ Settle({Head(setup[t])}, "rejected")
            /\ UNCHANGED <<pending, flushAt, timer, batch, flushing, phase, attempt, buffer>>
  BY DEF SetupDone, queueVars, flushVars, circuitVars
<1>2. CASE /\ Settle({Head(setup[t])}, "rejected")
           /\ UNCHANGED <<pending, flushAt, timer, batch, flushing, phase, attempt, buffer>>
  <2>1. SetupFails(t)
    BY <1>1, <1>2 DEF SetupFails, queueVars, flushVars, circuitVars
  <2> QED BY <2>1, SetupFailsHolds
<1>3. ASSUME NEW d \in Deadline, outcome' = outcome,
             Schedule(Append(pending, r), [flushAt EXCEPT ![r] = d], config.maxRows, timer)
      PROVE  IInv'
  <2> DEFINE p == Append(pending, r)
             due == [flushAt EXCEPT ![r] = d]
  <2>1. /\ QueueOK /\ OthersOK /\ batch \in Seq(Row) /\ pending \in Seq(Row)
        /\ setup \in [Table -> Seq(Row)] /\ setup[t] \in Seq(Row)
        /\ Lines(arrived, batch, pending, setup)
        /\ flushAt \in [Row -> Nat] /\ timer \in Nat \cup {NoTimer} /\ config \in Config
    BY TypeParts DEF IInv, TypeOK
  <2>2. /\ r = setup[t][1] /\ r \in Row /\ 1 \in 1..Len(setup[t])
        /\ Tail(setup[t]) \in Seq(Row)
        /\ \A i \in 1..Len(Tail(setup[t])) :
             Tail(setup[t])[i] = setup[t][1 + i] /\ 1 + i \in 1..Len(setup[t])
    BY <1>1, <2>1, ChainTail
  <2>3. config.maxRows \in Nat \ {0}
    BY MaxRows DEF IInv
  <2>4. Lines(arrived, batch, p, setup')
    BY <1>1, <2>1, LinesEnqueued
  <2> HIDE DEF r
  <2>5. p \in Seq(Row) /\ due \in [Row -> Nat] /\ setup' \in [Table -> Seq(Row)]
    BY <1>1, <2>1, <2>2, WriterAssumption
  <2>6. /\ \A u \in Table : \A i \in 1..Len(setup[u]) : outcome[setup[u][i]] = "none"
        /\ \A i \in 1..Len(pending) : outcome[pending[i]] = "none"
        /\ (phase # "settled" => Unsettled(outcome, batch)) /\ Built
    BY DEF IInv, Waits, Unsettled
  <2>7. \A i \in 1..Len(p) : outcome[p[i]] = "none"
    <3>1. outcome[r] = "none"
      BY <2>2, <2>6
    <3>2. \A i \in 1..Len(p) : (i \in 1..Len(pending) /\ p[i] = pending[i]) \/ p[i] = r
      BY <2>1, <2>2
    <3> QED BY <2>6, <3>1, <3>2
  <2>8. ASSUME NEW u \in Table PROVE Unsettled(outcome, setup'[u])
    <3>1. CASE u = t
      <4>1. setup'[u] = Tail(setup[t])
        BY <1>1, <2>1, <3>1
      <4> QED BY <2>2, <2>6, <4>1 DEF Unsettled
    <3>2. CASE u # t
      <4>1. setup'[u] = setup[u]
        BY <1>1, <2>1, <3>2
      <4> QED BY <2>6, <4>1 DEF Unsettled
    <3> QED BY <3>1, <3>2
  <2> HIDE DEF p, due
  <2>9. /\ QueueOK' /\ Built' /\ Covered(config.maxRows)'
        /\ Lines(arrived, batch', pending', setup') /\ Unsettled(outcome, pending')
        /\ (phase' # "settled" => Unsettled(outcome, batch'))
    <3>1. Schedule(p, due, config.maxRows, timer) /\ Unsettled(outcome, p)
      BY <1>3, <2>7 DEF p, due, Unsettled
    <3>2. /\ QueueOK' /\ Built' /\ Covered(config.maxRows)'
          /\ Lines(arrived, batch', pending', setup') /\ Unsettled(outcome, pending')
          /\ (phase' # "settled" => Unsettled(outcome, batch'))
      BY <1>1, <2>1, <2>3, <2>4, <2>5, <2>6, <3>1, ScheduleHolds
    <3> QED BY <3>2
  <2> QED BY <1>1, <1>3, <2>1, <2>5, <2>8, <2>9, QueueStepHolds
<1> QED BY <1>1, <1>2, <1>3

\* The configuration changes: what waits is scheduled again.
LEMMA ConfigureHolds == ASSUME IInv, NEW c \in Config, Configure(c) PROVE IInv'
<1>1. /\ config' = c
      /\ UNCHANGED <<arrived, setup, circuit, failures, cooled, status, outcome, inDb>>
      /\ \E d \in Deadline :
           Schedule(pending, [r \in Row |-> IF d < flushAt[r] THEN d ELSE flushAt[r]], c.maxRows,
                    NoTimer)
  BY DEF Configure, setupVars, circuitVars
<1>2. PICK d \in Deadline :
        Schedule(pending, [r \in Row |-> IF d < flushAt[r] THEN d ELSE flushAt[r]], c.maxRows, NoTimer)
  BY <1>1
<1> DEFINE due == [r \in Row |-> IF d < flushAt[r] THEN d ELSE flushAt[r]]
<1>3. /\ QueueOK /\ pending \in Seq(Row) /\ setup \in [Table -> Seq(Row)]
      /\ Lines(arrived, batch, pending, setup) /\ flushAt \in [Row -> Nat]
  BY TypeParts DEF IInv, TypeOK
<1>4. due \in [Row -> Nat] /\ c.maxRows \in Nat \ {0} /\ NoTimer \in Nat \cup {NoTimer}
  BY <1>3, WriterAssumption
<1>5. /\ \A t \in Table : Unsettled(outcome, setup[t])
      /\ Unsettled(outcome, pending) /\ (phase # "settled" => Unsettled(outcome, batch)) /\ Built
  BY DEF IInv, Waits
<1>6. Schedule(pending, due, c.maxRows, NoTimer)
  BY <1>2
<1> HIDE DEF due
<1>7. /\ QueueOK' /\ Built' /\ Covered(c.maxRows)'
      /\ Lines(arrived, batch', pending', setup) /\ Unsettled(outcome, pending')
      /\ (phase' # "settled" => Unsettled(outcome, batch'))
  BY <1>3, <1>4, <1>5, <1>6, ScheduleHolds
<1>8. Covered(config.maxRows)'
  BY <1>1, <1>7 DEF Covered
<1> QED BY <1>1, <1>3, <1>5, <1>7, <1>8, QueueStepHolds

\* A flush begins with the pending rows.
LEMMA BeginsHolds ==
  ASSUME IInv, Begin(pending, flushAt, config.maxRows),
         UNCHANGED <<arrived, setup, config, circuit, failures, cooled, status, outcome, inDb>>
  PROVE  IInv'
<1>1. /\ batch \in Seq(Row) /\ pending \in Seq(Row) /\ setup \in [Table -> Seq(Row)]
      /\ Lines(arrived, batch, pending, setup) /\ flushAt \in [Row -> Nat]
      /\ config \in Config /\ config.maxRows \in Nat \ {0}
  BY MaxRows DEF IInv, TypeOK
<1>2. (\A t \in Table : Unsettled(outcome, setup[t])) /\ Unsettled(outcome, pending)
  BY DEF IInv, Waits
<1>3. /\ QueueOK' /\ phase' = "append" /\ Built'
      /\ Lines(arrived, batch', pending', setup)
      /\ Unsettled(outcome, batch') /\ Unsettled(outcome, pending')
  BY <1>1, <1>2, BeginHolds
<1>4. Covered(config.maxRows)'
  BY <1>3 DEF Covered
<1> QED BY <1>1, <1>2, <1>3, <1>4, QueueStepHolds

\* The timer fires.
LEMMA TimerFiresHolds == ASSUME IInv, TimerFires PROVE IInv'
<1>1. UNCHANGED <<arrived, setup, config, circuit, failures, cooled, status, outcome, inDb>>
  BY DEF TimerFires, setupVars, circuitVars
<1>2. CASE phase = "idle" /\ pending # <<>>
  BY <1>1, <1>2, BeginsHolds DEF TimerFires
<1>3. CASE ~(phase = "idle" /\ pending # <<>>)
  <2>1. /\ timer' = NoTimer
        /\ UNCHANGED <<pending, flushAt, batch, flushing, phase, attempt, buffer>>
    BY <1>3 DEF TimerFires, flushVars
  <2>2. TypeOK'
    BY <1>1, <2>1 DEF IInv, TypeOK
  <2>3. Built' /\ TimerCovers'
    BY <1>1, <1>3, <2>1 DEF IInv, Built, TimerCovers
  <2> QED BY <1>1, <2>1, <2>2, <2>3, QuietHolds
<1> QED BY <1>2, <1>3

\* A batch is settled: the next begins, or what waits is scheduled.
LEMMA FinishHolds == ASSUME IInv, Finish PROVE IInv'
<1>1. UNCHANGED <<arrived, setup, config, circuit, failures, cooled, status, outcome, inDb>>
  BY DEF Finish, setupVars, circuitVars
<1>2. CASE Begin(pending, flushAt, config.maxRows)
  BY <1>1, <1>2, BeginsHolds
<1>3. CASE /\ Len(pending) < config.maxRows
           /\ batch' = <<>> /\ flushing' = 0 /\ attempt' = 0 /\ phase' = "idle"
           /\ timer' = IF pending = <<>> THEN timer ELSE Armed(pending, flushAt, timer)
           /\ pending' = pending /\ flushAt' = flushAt /\ buffer' = buffer
  <2>1. /\ QueueOK /\ pending \in Seq(Row) /\ setup \in [Table -> Seq(Row)] /\ batch \in Seq(Row)
        /\ Lines(arrived, batch, pending, setup) /\ flushAt \in [Row -> Nat]
        /\ timer \in Nat \cup {NoTimer} /\ config \in Config
    BY TypeParts DEF IInv, TypeOK
  <2>2. pending # <<>> => /\ timer' \in Nat
                          /\ \A i \in 1..Len(pending) : timer' <= flushAt[pending[i]]
    <3>1. CASE pending # <<>>
      <4>1. timer' = Armed(pending, flushAt, timer)
        BY <1>3, <3>1
      <4> QED BY <2>1, <3>1, <4>1, ArmedIs
    <3> QED BY <3>1
  <2>3. pending = <<>> => timer' = timer
    BY <1>3
  <2>4. timer' \in Nat \cup {NoTimer}
    BY <2>1, <2>2, <2>3
  <2>5. 0 \in 0..Attempts /\ <<>> \in Seq(Row) /\ Len(<<>>) <= 0
    BY WriterAssumption
  <2>6. QueueOK'
    BY <1>3, <2>1, <2>4, <2>5 DEF QueueOK
  <2>7. Built'
    BY <1>3 DEF Built
  <2>8. Covered(config.maxRows)'
    BY <1>1, <1>3, <2>2, WriterAssumption DEF Covered
  <2>9. Lines(arrived, batch', pending', setup')
    BY <1>1, <1>3, <2>1, LinesFinished
  <2>10. /\ \A t \in Table : Unsettled(outcome, setup'[t])
         /\ Unsettled(outcome, pending') /\ Unsettled(outcome, batch')
    BY <1>1, <1>3 DEF IInv, Waits, Unsettled
  <2> QED BY <1>1, <2>1, <2>6, <2>7, <2>8, <2>9, <2>10, QueueStepHolds
<1> QED BY <1>2, <1>3 DEF Finish

\* Every step keeps the invariant.
LEMMA StepHolds == IInv /\ [Next]_vars => IInv'
<1> SUFFICES ASSUME IInv, [Next]_vars PROVE IInv'
  OBVIOUS
<1>1. CASE UNCHANGED vars
  <2>1. UNCHANGED <<arrived, setup, config, pending, flushAt, timer, batch, flushing, phase,
                    attempt, buffer, circuit, failures, cooled, status, outcome, inDb>>
    BY <1>1 DEF vars, setupVars, queueVars, flushVars, circuitVars
  <2>2. TypeOK'
    BY <2>1 DEF IInv, TypeOK
  <2>3. Built' /\ TimerCovers'
    BY <2>1 DEF IInv, Built, TimerCovers
  <2> QED BY <2>1, <2>2, <2>3, QuietHolds
<1>2. CASE \E r \in Row : Write(r)
  BY <1>2, WriteHolds
<1>3. CASE \E t \in Table : SetupDone(t) \/ SetupFails(t)
  BY <1>3, SetupDoneHolds, SetupFailsHolds
<1>4. CASE \E c \in Config : Configure(c)
  BY <1>4, ConfigureHolds
<1>5. CASE TimerFires
  BY <1>5, TimerFiresHolds
<1>6. CASE FlushStep
  <2>1. \A b \in BOOLEAN : FlushFails(b) => IInv'
    BY FlushFailsHolds
  <2> QED BY <1>6, <2>1, AppendRowHolds, AppendFailsHolds, AppendedHolds, FlushRefusedHolds,
             FlushDoneHolds, FlushEmptyHolds, RetryHolds, FinishHolds DEF FlushStep
<1>7. CASE CoolsDown \/ Close \/ Closed
  BY <1>7, CoolsDownHolds, CloseHolds
<1>8. CASE CloseDrains
  <2>1. /\ Begin(pending, flushAt, config.maxRows)
        /\ UNCHANGED <<arrived, setup, config, circuit, failures, cooled, status, outcome, inDb>>
    BY <1>8 DEF CloseDrains, setupVars, circuitVars
  <2> QED BY <2>1, BeginsHolds
<1> QED BY <1>1, <1>2, <1>3, <1>4, <1>5, <1>6, <1>7, <1>8 DEF Next

\* The invariant holds at all times.
LEMMA IInvHolds == Spec => []IInv
BY InitHolds, StepHolds, PTL DEF Spec

-----------------------------------------------------------------------------
(* The theorems *)

\* The state of the writer has the types that it is declared with; in particular no
\* flush has more than Attempts attempts.
THEOREM WriterTypes == Spec => []TypeOK
BY IInvHolds, PTL DEF IInv

\* The sender's buffer is the batch whenever it is flushed, whatever earlier attempts
\* and rows that could not be built have left behind (appendRows()).
THEOREM BufferIsBatch == Spec => []FlushSendsTheBatch
<1>1. IInv => FlushSendsTheBatch
  BY DEF IInv, Built, FlushSendsTheBatch
<1> QED BY <1>1, IInvHolds, PTL

\* An acknowledged row is in QuestDB, and a row that waits has no answer yet.
THEOREM AckedIsStored == Spec => []AckMeansStored
<1>1. ASSUME IInv PROVE AckMeansStored
  <2>1. /\ pending \in Seq(Row) /\ batch \in Seq(Row)
        /\ Rows(pending) = {pending[i] : i \in 1..Len(pending)}
        /\ Rows(batch) = {batch[i] : i \in 1..Len(batch)}
    BY <1>1, RowsAre DEF IInv, TypeOK
  <2>2. /\ \A i \in 1..Len(pending) : outcome[pending[i]] = "none"
        /\ phase # "settled" => \A i \in 1..Len(batch) : outcome[batch[i]] = "none"
        /\ \A r \in Row : outcome[r] = "resolved" => r \in inDb
    BY <1>1 DEF IInv, Waits, Unsettled, Stored
  <2>3. \A r \in Rows(pending) : outcome[r] = "none"
    BY <2>1, <2>2
  <2>4. phase # "settled" => \A r \in Rows(batch) : outcome[r] = "none"
    BY <2>1, <2>2
  <2> QED BY <2>2, <2>3, <2>4 DEF AckMeansStored
<1> QED BY <1>1, IInvHolds, PTL

\* Rows that wait while no flush runs have a timer that is due in time.
THEOREM NoWakeUpIsLost == Spec => []TimerCovers
BY IInvHolds, PTL DEF IInv

\* Rows of a table are sent in the order of their arrival, through every batch.
THEOREM TableOrderKept == Spec => []TableOrder
<1>1. ASSUME IInv PROVE TableOrder
  <2> DEFINE line == batch \o pending
  <2>1. batch \in Seq(Row) /\ pending \in Seq(Row)
    BY <1>1 DEF IInv, TypeOK
  <2>2. /\ Len(line) = Len(batch) + Len(pending)
        /\ \A i \in 1..(Len(batch) + Len(pending)) :
             line[i] = IF i <= Len(batch) THEN batch[i] ELSE pending[i - Len(batch)]
        /\ Len(batch) \in Nat /\ Len(pending) \in Nat
    BY <2>1, ConcatProperties
  <2> HIDE DEF line
  <2>3. \A i \in 1..Len(line) : \/ i \in 1..Len(batch) /\ line[i] = batch[i]
                                \/ /\ i - Len(batch) \in 1..Len(pending)
                                   /\ line[i] = pending[i - Len(batch)]
    BY <2>2
  <2>4. InOrder(arrived, batch) /\ InOrder(arrived, pending) /\ Ahead(arrived, batch, pending)
    BY <1>1 DEF IInv, Lines
  <2>5. ASSUME NEW i \in 1..Len(line), NEW j \in 1..Len(line),
               i < j, TableOf[line[i]] = TableOf[line[j]]
        PROVE  Before(arrived, line[i], line[j])
    <3>1. CASE j \in 1..Len(batch) /\ line[j] = batch[j]
      <4>1. i \in 1..Len(batch) /\ line[i] = batch[i]
        BY <2>2, <2>5, <3>1
      <4> QED BY <2>4, <2>5, <3>1, <4>1 DEF InOrder
    <3>2. CASE j - Len(batch) \in 1..Len(pending) /\ line[j] = pending[j - Len(batch)]
      <4>1. CASE i \in 1..Len(batch) /\ line[i] = batch[i]
        BY <2>4, <2>5, <3>2, <4>1 DEF Ahead
      <4>2. CASE i - Len(batch) \in 1..Len(pending) /\ line[i] = pending[i - Len(batch)]
        <5>1. i - Len(batch) < j - Len(batch)
          BY <2>2, <2>5
        <5> QED BY <2>4, <2>5, <3>2, <4>2, <5>1 DEF InOrder
      <4> QED BY <2>3, <4>1, <4>2
    <3> QED BY <2>3, <3>1, <3>2
  <2> QED BY <2>5 DEF TableOrder, Before, line
<1> QED BY <1>1, IInvHolds, PTL

\* A promise settles once: an answer is never followed by another, neither of the
\* batch nor of a setup that fails.
SettledOnce == [][\A r \in Row : outcome[r] # "none" => outcome'[r] = outcome[r]]_vars

\* The promise of a row settles at most once, and so the journal is told once.
THEOREM RowsSettleOnce == Spec => SettledOnce
<1> DEFINE Kept == \A r \in Row : outcome[r] # "none" => outcome'[r] = outcome[r]
<1>1. ASSUME IInv, NEW S \in SUBSET Row, NEW how \in {"resolved", "rejected"}, Settle(S, how),
             \A r \in S : outcome[r] = "none"
      PROVE  Kept
  <2>1. OthersOK
    BY <1>1, TypeParts DEF IInv
  <2> QED BY <1>1, <2>1, SettleHolds
<1>2. ASSUME IInv, [Next]_vars PROVE Kept
  <2>1. /\ OthersOK /\ batch \in Seq(Row) /\ buffer \in Seq(Row) /\ setup \in [Table -> Seq(Row)]
        /\ Rows(batch) = {batch[i] : i \in 1..Len(batch)}
    BY <1>2, TypeParts, RowsAre DEF IInv, TypeOK
  <2>2. /\ \A t \in Table : Unsettled(outcome, setup[t])
        /\ phase # "settled" => Unsettled(outcome, batch)
    BY <1>2 DEF IInv, Waits
  <2>3. ASSUME NEW t \in Table, setup[t] # <<>>
        PROVE  {Head(setup[t])} \in SUBSET Row /\ \A r \in {Head(setup[t])} : outcome[r] = "none"
    <3>1. setup[t] \in Seq(Row)
      BY <2>1
    <3>2. Head(setup[t]) = setup[t][1] /\ setup[t][1] \in Row /\ 1 \in 1..Len(setup[t])
      BY <2>3, <3>1, ChainTail
    <3> QED BY <2>2, <3>2 DEF Unsettled
  <2>4. phase # "settled" => Rows(batch) \in SUBSET Row /\ \A r \in Rows(batch) : outcome[r] = "none"
    BY <2>1, <2>2 DEF Unsettled
  <2>5. CASE outcome' = outcome
    BY <2>5
  <2>6. CASE \E t \in Table : setup[t] # <<>> /\ Settle({Head(setup[t])}, "rejected")
    BY <1>1, <1>2, <2>3, <2>6
  <2>7. CASE phase = "flush" /\ \E how \in {"resolved", "rejected"} : Settle(Rows(batch), how)
    BY <1>1, <1>2, <2>4, <2>7
  <2>8. CASE AppendFails
    <3>1. /\ phase = "append" /\ Len(buffer) < Len(batch)
          /\ Settle({batch[Len(buffer) + 1]}, "rejected")
      BY <2>8 DEF AppendFails
    <3>2. Len(buffer) + 1 \in 1..Len(batch)
      BY <2>1, <3>1
    <3>3. batch[Len(buffer) + 1] \in Row /\ outcome[batch[Len(buffer) + 1]] = "none"
      BY <2>1, <2>2, <3>1, <3>2 DEF Unsettled
    <3> QED BY <1>1, <1>2, <3>1, <3>3
  <2>9. CASE \E r \in Row : Write(r)
    BY <2>5, <2>9 DEF Write
  <2>10. CASE \E t \in Table : SetupDone(t) \/ SetupFails(t)
    BY <2>5, <2>6, <2>10 DEF SetupDone, SetupFails
  <2>11. CASE FlushRefused \/ \E b \in BOOLEAN : FlushFails(b)
    <3>1. phase = "flush" /\ \E b \in BOOLEAN : AttemptFails(b)
      BY <2>11 DEF FlushRefused, FlushFails, Admitted
    <3> QED BY <2>5, <2>7, <3>1 DEF AttemptFails
  <2>12. CASE FlushDone \/ FlushEmpty
    BY <2>7, <2>12 DEF FlushDone, FlushEmpty, Admitted
  <2>13. CASE \/ AppendRow \/ Appended \/ Retry \/ Finish \/ CoolsDown \/ Close \/ Closed
              \/ CloseDrains \/ TimerFires \/ \E c \in Config : Configure(c)
    BY <2>5, <2>13 DEF AppendRow, Appended, Retry, Finish, CoolsDown, Close, Closed, CloseDrains,
                       TimerFires, Configure
  <2>14. CASE UNCHANGED vars
    BY <2>5, <2>14 DEF vars
  <2> QED BY <1>2, <2>8, <2>9, <2>10, <2>11, <2>12, <2>13, <2>14 DEF Next, FlushStep
<1> QED BY <1>2, IInvHolds, PTL DEF Spec, SettledOnce

=============================================================================
