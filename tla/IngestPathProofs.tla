----------------------------- MODULE IngestPathProofs -----------------------------
(***************************************************************************)
(* Proofs about IngestPath, for any events, topics, limits, process ids    *)
(* and number of stops; of the events none needs to be the last.           *)
(*                                                                         *)
(* An event that a replay pass works on is out of the live path for good   *)
(* (StoredOK), so inflightEventIds never stands for two copies.  The lock  *)
(* of a stored event is deleted for a reason that lasts: a new file, a row *)
(* of the journal, or a rule that nothing of it is to be stored (Settled). *)
(* Processed ids are those of written events, and until the process stops  *)
(* they are those of all the receipts that were dropped (JournalOK).       *)
(***************************************************************************)
EXTENDS IngestPath, FiniteSetTheorems, SequenceTheorems, TLAPS

-----------------------------------------------------------------------------
(* The inductive invariant *)

Gone(e) == live[e] = "gone"

LiveOK ==
  /\ live \in [Event -> LiveStages]
  /\ queue \in Seq(Event) /\ IsInjective(queue)
  /\ ToSet(queue) = {e \in Event : live[e] = "queued"}
  /\ IsFiniteSet(Slots) /\ Pending <= MaxPending /\ Cardinality(Slots) <= Concurrency
  /\ IsFiniteSet(Buffered) /\ Cardinality(Buffered) <= BufferMax

\* A stored event, one that the directory cursor has yet to give too, is out of the
\* live path, and locked by this process while it is worked on.
StoredOK ==
  /\ stored \in [Event -> StoredStages] /\ passing \in BOOLEAN
  /\ ahead \subseteq Event /\ \A e \in ahead : Gone(e)
  /\ \A e \in Event : stored[e] # "none" => passing /\ Gone(e)
  /\ \A e \in Event : stored[e] \in LockedStages => pid \in lock[e]
  /\ status = "down" => ~passing
  /\ IsFiniteSet(Busy) /\ Cardinality(Busy) <= Workers

MemoryOK ==
  /\ inflight = {e \in Event : live[e] \in AtWork} \cup {e \in Event : stored[e] \in AtWork}
  /\ processed \subseteq Event /\ inflight \cap processed = {}

DiskOK == file \subseteq Event /\ lock \in [Event -> SUBSET Pid]

ControlOK ==
  /\ lost \subseteq Event /\ marked \subseteq Spilled
  /\ active \subseteq Topic /\ paused \in BOOLEAN
  /\ status \in {"up", "releasing", "draining", "closing", "closed", "down"}
  /\ pid \in Pid /\ stops \in 0..MaxStops

JournalOK ==
  /\ journal \in [Event -> {"none", "row", "acked"}]
  /\ \A e \in Event : live[e] = "writing" \/ stored[e] = "writing" \/ e \in processed
                         => journal[e] # "none"
  /\ stops = 0 => \A e \in Event : journal[e] = "acked" => e \in processed

\* What lets a lock go.
Settled ==
  \A e \in Event : stored[e] = "delete" =>
    e \in file \/ journal[e] # "none" \/ (e \in lost /\ e \in Foreign \cup Invalid \cup marked)

IInv ==
  /\ LiveOK /\ StoredOK /\ MemoryOK /\ DiskOK /\ ControlOK /\ JournalOK /\ Settled
  /\ Accounted /\ OneKeeper

-----------------------------------------------------------------------------
(* Sets and sequences *)

\* A part of a finite set is finite and not larger.
LEMMA CountPart ==
  ASSUME NEW S, IsFiniteSet(S), NEW T \in SUBSET S
  PROVE  /\ IsFiniteSet(T) /\ Cardinality(T) \in Nat /\ Cardinality(S) \in Nat
         /\ Cardinality(T) <= Cardinality(S)
BY FS_Subset, FS_CardinalityType

\* Lesser() is the lesser of two numbers.
LEMMA LesserIs ==
  ASSUME NEW x \in Nat, NEW y \in Nat
  PROVE  Lesser(x, y) \in Nat /\ Lesser(x, y) <= x /\ Lesser(x, y) <= y
BY DEF Lesser

\* The entries of a sequence, one after the other.
LEMMA EntriesAre ==
  ASSUME NEW q \in Seq(Event)
  PROVE  ToSet(q) = {q[i] : i \in 1..Len(q)} /\ ToSet(q) \subseteq Event /\ Len(q) \in Nat
BY DEF ToSet

\* IsInjective() of a sequence, by its places.
LEMMA DistinctEntries ==
  ASSUME NEW q \in Seq(Event)
  PROVE  IsInjective(q) <=> \A i, j \in 1..Len(q) : q[i] = q[j] => i = j
BY DEF IsInjective

\* What the oldest entry of a queue without duplicates leaves.
LEMMA TailLeaves ==
  ASSUME NEW q \in Seq(Event), IsInjective(q), q # <<>>
  PROVE  /\ Head(q) \in ToSet(q) /\ Tail(q) \in Seq(Event) /\ Len(Tail(q)) = Len(q) - 1
         /\ IsInjective(Tail(q)) /\ ToSet(Tail(q)) = ToSet(q) \ {Head(q)}
<1> DEFINE u == Tail(q)
           h == Head(q)
<1>1. /\ u \in Seq(Event) /\ Len(u) = Len(q) - 1 /\ Len(q) \in Nat /\ 1 \in 1..Len(q)
      /\ h = q[1] /\ \A i \in 1..Len(u) : u[i] = q[i + 1]
  OBVIOUS
<1>2. \A i, j \in 1..Len(q) : q[i] = q[j] => i = j
  BY DistinctEntries
<1> HIDE DEF u, h
<1>3. /\ ToSet(q) = {q[i] : i \in 1..Len(q)} /\ ToSet(u) = {u[i] : i \in 1..Len(u)}
  BY <1>1, EntriesAre
<1>4. \A i \in 1..Len(u) : i + 1 \in 1..Len(q) /\ i + 1 # 1 /\ u[i] = q[i + 1]
  BY <1>1
<1>5. \A i, j \in 1..Len(u) : u[i] = u[j] => i = j
  <2> SUFFICES ASSUME NEW i \in 1..Len(u), NEW j \in 1..Len(u), u[i] = u[j] PROVE i = j
    OBVIOUS
  <2>1. i + 1 = j + 1
    BY <1>2, <1>4
  <2> QED BY <2>1
<1>6. IsInjective(u)
  BY <1>1, <1>5, DistinctEntries
<1>7. ASSUME NEW x \in ToSet(u) PROVE x \in ToSet(q) \ {h}
  <2>1. PICK i \in 1..Len(u) : x = u[i]
    BY <1>3
  <2> QED BY <1>1, <1>2, <1>3, <1>4, <2>1
<1>8. ASSUME NEW x \in ToSet(q) \ {h} PROVE x \in ToSet(u)
  <2>1. PICK i \in 1..Len(q) : x = q[i]
    BY <1>3
  <2>2. i # 1
    BY <1>1, <1>8, <2>1
  <2>3. i - 1 \in 1..Len(u) /\ (i - 1) + 1 = i
    BY <1>1, <2>2
  <2>4. u[i - 1] = x
    BY <1>1, <2>1, <2>3
  <2> QED BY <1>3, <2>3, <2>4
<1>9. h \in ToSet(q)
  BY <1>1, <1>3
<1>10. ToSet(u) = ToSet(q) \ {h}
  BY <1>7, <1>8
<1> QED BY <1>1, <1>6, <1>9, <1>10 DEF u, h

\* Two queues without duplicates and without common entries, one behind the other.
LEMMA JoinedQueues ==
  ASSUME NEW q \in Seq(Event), NEW r \in Seq(Event), IsInjective(q), IsInjective(r),
         ToSet(q) \cap ToSet(r) = {}
  PROVE  /\ q \o r \in Seq(Event) /\ Len(q \o r) = Len(q) + Len(r)
         /\ IsInjective(q \o r) /\ ToSet(q \o r) = ToSet(q) \cup ToSet(r)
<1> DEFINE u == q \o r
<1>1. /\ u \in Seq(Event) /\ Len(u) = Len(q) + Len(r) /\ Len(q) \in Nat /\ Len(r) \in Nat
      /\ \A i \in 1..(Len(q) + Len(r)) : u[i] = IF i <= Len(q) THEN q[i] ELSE r[i - Len(q)]
  BY ConcatProperties
<1> HIDE DEF u
<1>2. /\ \A i, j \in 1..Len(q) : q[i] = q[j] => i = j
      /\ \A i, j \in 1..Len(r) : r[i] = r[j] => i = j
  BY DistinctEntries
<1>3. /\ ToSet(q) = {q[i] : i \in 1..Len(q)} /\ ToSet(r) = {r[i] : i \in 1..Len(r)}
      /\ ToSet(u) = {u[i] : i \in 1..Len(u)}
  BY <1>1, EntriesAre
<1>4. ASSUME NEW i \in 1..Len(u)
      PROVE  \/ i <= Len(q) /\ i \in 1..Len(q) /\ u[i] = q[i]
             \/ i > Len(q) /\ i - Len(q) \in 1..Len(r) /\ u[i] = r[i - Len(q)]
  BY <1>1
<1>5. ASSUME NEW i \in 1..Len(u), NEW j \in 1..Len(u), u[i] = u[j] PROVE i = j
  <2>1. CASE i <= Len(q) /\ i \in 1..Len(q) /\ u[i] = q[i]
    <3>1. u[i] \in ToSet(q)
      BY <1>3, <2>1
    <3>2. j <= Len(q) /\ j \in 1..Len(q) /\ u[j] = q[j]
      BY <1>3, <1>4, <1>5, <3>1
    <3> QED BY <1>2, <1>5, <2>1, <3>2
  <2>2. CASE i > Len(q) /\ i - Len(q) \in 1..Len(r) /\ u[i] = r[i - Len(q)]
    <3>1. j > Len(q) /\ j - Len(q) \in 1..Len(r) /\ u[j] = r[j - Len(q)]
      BY <1>3, <1>4, <1>5, <2>2
    <3>2. i - Len(q) = j - Len(q)
      BY <1>2, <1>5, <2>2, <3>1
    <3> QED BY <1>1, <3>2
  <2> QED BY <1>4, <2>1, <2>2
<1>6. IsInjective(u)
  BY <1>1, <1>5, DistinctEntries
<1>7. ASSUME NEW x \in ToSet(u) PROVE x \in ToSet(q) \cup ToSet(r)
  <2>1. PICK i \in 1..Len(u) : x = u[i]
    BY <1>3
  <2> QED BY <1>3, <1>4, <2>1
<1>8. ASSUME NEW x \in ToSet(q) PROVE x \in ToSet(u)
  <2>1. PICK i \in 1..Len(q) : x = q[i]
    BY <1>3
  <2>2. i \in 1..Len(u) /\ u[i] = x
    BY <1>1, <2>1
  <2> QED BY <1>3, <2>2
<1>9. ASSUME NEW x \in ToSet(r) PROVE x \in ToSet(u)
  <2>1. PICK i \in 1..Len(r) : x = r[i]
    BY <1>3
  <2>2. Len(q) + i \in 1..Len(u) /\ ~(Len(q) + i <= Len(q)) /\ (Len(q) + i) - Len(q) = i
    BY <1>1
  <2>3. u[Len(q) + i] = x
    BY <1>1, <2>1, <2>2
  <2> QED BY <1>3, <2>2, <2>3
<1>10. ToSet(u) = ToSet(q) \cup ToSet(r)
  BY <1>7, <1>8, <1>9
<1> QED BY <1>1, <1>6, <1>10 DEF u

\* SetToSeq() gives some events an order, and the queue takes the first of them.
LEMMA OrderOf ==
  ASSUME NEW S \in SUBSET Event, IsFiniteSet(S), NEW k \in Nat, k <= Len(SetToSeq(S))
  PROVE  /\ SubSeq(SetToSeq(S), 1, k) \in Seq(Event) /\ Len(SubSeq(SetToSeq(S), 1, k)) = k
         /\ IsInjective(SubSeq(SetToSeq(S), 1, k)) /\ ToSet(SubSeq(SetToSeq(S), 1, k)) \subseteq S
<1> DEFINE n == Cardinality(S)
           o == SetToSeq(S)
           u == SubSeq(o, 1, k)
<1>1. n \in Nat /\ ExistsBijection(1..n, S)
  BY FS_CardinalityType
<1>2. \E f \in [1..n -> S] : IsInjective(f)
  BY <1>1 DEF ExistsBijection, Bijection, Injection
<1>3. o \in [1..n -> S] /\ IsInjective(o)
  BY <1>2 DEF SetToSeq
<1> HIDE DEF n, o
<1>4. o \in Seq(Event) /\ Len(o) = n
  BY <1>1, <1>3
<1>5. k <= n
  BY <1>4 DEF o
<1>6. \A i \in 1..k : i \in 1..n /\ o[i] \in S /\ o[i] \in Event
  BY <1>1, <1>3, <1>5
<1>7. /\ u \in Seq(Event) /\ Len(u) = IF 1 <= k THEN k - 1 + 1 ELSE 0
      /\ \A i \in 1..(k - 1 + 1) : u[i] = o[1 + i - 1]
  BY <1>6, SubSeqProperties
<1> HIDE DEF u
<1>8. Len(u) = k /\ \A i \in 1..k : u[i] = o[i]
  BY <1>7
<1>9. \A i, j \in 1..Len(u) : u[i] = u[j] => i = j
  BY <1>3, <1>6, <1>8 DEF IsInjective
<1>10. IsInjective(u)
  BY <1>7, <1>9, DistinctEntries
<1>11. ToSet(u) \subseteq S
  BY <1>6, <1>7, <1>8, EntriesAre
<1> QED BY <1>7, <1>8, <1>10, <1>11 DEF u, o

-----------------------------------------------------------------------------
(* The live path *)

SlotStages == AtWork \cup {"refused"}

\* The live path is untouched.
LEMMA LiveFrame == ASSUME LiveOK, UNCHANGED liveVars PROVE LiveOK'
BY DEF LiveOK, liveVars, Slots, Buffered, Pending

\* The oldest event leaves the queue, and the live path.
LEMMA LeavesQueue ==
  ASSUME LiveOK, NEW e \in Event, Taken(e), live' = [live EXCEPT ![e] = "gone"]
  PROVE  LiveOK' /\ live[e] = "queued"
<1>1. /\ queue \in Seq(Event) /\ queue # <<>> /\ IsInjective(queue) /\ e = Head(queue)
      /\ queue' = Tail(queue)
  BY DEF Taken, LiveOK
<1>2. /\ e \in ToSet(queue) /\ queue' \in Seq(Event) /\ Len(queue') = Len(queue) - 1
      /\ IsInjective(queue') /\ ToSet(queue') = ToSet(queue) \ {e}
  BY <1>1, TailLeaves
<1>3. live[e] = "queued" /\ live \in [Event -> LiveStages]
  BY <1>2 DEF LiveOK
<1>4. live' \in [Event -> LiveStages]
  BY <1>3 DEF LiveStages
<1>5. Slots' = Slots /\ Buffered' = Buffered
  BY <1>3 DEF Slots, Buffered, AtWork
<1>6. ToSet(queue') = {x \in Event : live'[x] = "queued"}
  BY <1>2, <1>3 DEF LiveOK
<1>7. Pending' <= MaxPending
  <2>1. Pending' = Len(queue) - 1 + Cardinality(Slots) /\ Pending = Len(queue) + Cardinality(Slots)
    BY <1>2, <1>5 DEF Pending
  <2>2. Cardinality(Slots) \in Nat /\ Len(queue) \in Nat /\ Pending <= MaxPending
    BY <1>1, FS_CardinalityType DEF LiveOK
  <2> QED BY <2>1, <2>2, IngestAssumption
<1> QED BY <1>2, <1>3, <1>4, <1>5, <1>6, <1>7 DEF LiveOK

\* A worker is done with its event.
LEMMA SlotFreed ==
  ASSUME LiveOK, NEW e \in Event, live[e] \in SlotStages, queue' = queue,
         live' = [live EXCEPT ![e] = "gone"]
  PROVE  LiveOK'
<1>1. live \in [Event -> LiveStages] /\ queue \in Seq(Event)
  BY DEF LiveOK
<1>2. live' \in [Event -> LiveStages]
  BY <1>1 DEF LiveStages
<1>3. Slots' = Slots \ {e} /\ Buffered' = Buffered
  BY <1>1 DEF Slots, Buffered, SlotStages, AtWork
<1>4. ToSet(queue') = {x \in Event : live'[x] = "queued"}
  BY <1>1 DEF LiveOK, SlotStages, AtWork
<1>5. IsFiniteSet(Slots') /\ Cardinality(Slots') <= Cardinality(Slots)
      /\ Cardinality(Slots') \in Nat /\ Cardinality(Slots) \in Nat
  BY <1>3, CountPart DEF LiveOK
<1>6. Pending' <= MaxPending /\ Cardinality(Slots') <= Concurrency
  <2>1. Len(queue) \in Nat /\ Pending <= MaxPending /\ Cardinality(Slots) <= Concurrency
    BY <1>1 DEF LiveOK
  <2>2. Pending = Len(queue) + Cardinality(Slots) /\ Pending' = Len(queue) + Cardinality(Slots')
    BY DEF Pending
  <2> QED BY <1>5, <2>1, <2>2, IngestAssumption
<1> QED BY <1>2, <1>3, <1>4, <1>5, <1>6 DEF LiveOK

\* A worker goes on with its event.
LEMMA SlotKept ==
  ASSUME LiveOK, NEW e \in Event, live[e] \in SlotStages, queue' = queue,
         NEW stage \in SlotStages, live' = [live EXCEPT ![e] = stage]
  PROVE  LiveOK'
<1>1. live \in [Event -> LiveStages]
  BY DEF LiveOK
<1>2. live' \in [Event -> LiveStages]
  BY <1>1 DEF LiveStages, InMemory, SlotStages, AtWork
<1>3. Slots' = Slots /\ Buffered' = Buffered
  BY <1>1 DEF Slots, Buffered, SlotStages, AtWork
<1>4. ToSet(queue') = {x \in Event : live'[x] = "queued"}
  BY <1>1 DEF LiveOK, SlotStages, AtWork
<1>5. Pending' = Pending
  BY <1>3 DEF Pending
<1> QED BY <1>2, <1>3, <1>4, <1>5 DEF LiveOK

\* A worker takes the oldest event.
LEMMA TakeActiveLive == ASSUME LiveOK, NEW e \in Event, TakeActive(e) PROVE LiveOK' /\ live[e] = "queued"
<1>1. /\ queue \in Seq(Event) /\ queue # <<>> /\ IsInjective(queue) /\ e = Head(queue)
      /\ queue' = Tail(queue) /\ Cardinality(Slots) < Concurrency
      /\ live' = [live EXCEPT ![e] = "resolving"]
  BY DEF TakeActive, Taken, LiveOK
<1>2. /\ e \in ToSet(queue) /\ queue' \in Seq(Event) /\ Len(queue') = Len(queue) - 1
      /\ IsInjective(queue') /\ ToSet(queue') = ToSet(queue) \ {e}
  BY <1>1, TailLeaves
<1>3. live[e] = "queued" /\ live \in [Event -> LiveStages]
  BY <1>2 DEF LiveOK
<1>4. live' \in [Event -> LiveStages]
  BY <1>1, <1>3 DEF LiveStages, InMemory
<1>5. Slots' = Slots \cup {e} /\ e \notin Slots /\ Buffered' = Buffered
  BY <1>1, <1>3 DEF Slots, Buffered, AtWork
<1>6. ToSet(queue') = {x \in Event : live'[x] = "queued"}
  BY <1>1, <1>2, <1>3 DEF LiveOK
<1>7. /\ IsFiniteSet(Slots') /\ Cardinality(Slots') = Cardinality(Slots) + 1
      /\ Cardinality(Slots) \in Nat
  BY <1>5, FS_AddElement, FS_CardinalityType DEF LiveOK
<1>8. Pending' <= MaxPending /\ Cardinality(Slots') <= Concurrency
  <2>1. Len(queue) \in Nat /\ Pending <= MaxPending
    BY <1>1 DEF LiveOK
  <2>2. /\ Pending = Len(queue) + Cardinality(Slots)
        /\ Pending' = Len(queue) - 1 + (Cardinality(Slots) + 1)
    BY <1>2, <1>7 DEF Pending
  <2> QED BY <1>1, <1>7, <2>1, <2>2, IngestAssumption
<1> QED BY <1>2, <1>3, <1>4, <1>5, <1>6, <1>7, <1>8 DEF LiveOK

\* The oldest event waits for its topic; others may have to go.
LEMMA TakeInactiveLive ==
  ASSUME LiveOK, NEW e \in Event, Taken(e), NEW D \in SUBSET Buffered,
         Cardinality(Buffered \ D) < BufferMax,
         live' = [x \in Event |->
                     IF x = e THEN "buffered" ELSE IF x \in D THEN "gone" ELSE live[x]]
  PROVE  LiveOK' /\ live[e] = "queued"
<1>1. /\ queue \in Seq(Event) /\ queue # <<>> /\ IsInjective(queue) /\ e = Head(queue)
      /\ queue' = Tail(queue)
  BY DEF Taken, LiveOK
<1>2. /\ e \in ToSet(queue) /\ queue' \in Seq(Event) /\ Len(queue') = Len(queue) - 1
      /\ IsInjective(queue') /\ ToSet(queue') = ToSet(queue) \ {e}
  BY <1>1, TailLeaves
<1>3. live[e] = "queued" /\ live \in [Event -> LiveStages]
  BY <1>2 DEF LiveOK
<1>4. live' \in [Event -> LiveStages]
  BY <1>3 DEF LiveStages, InMemory
<1>5. \A x \in D : live[x] = "buffered"
  BY DEF Buffered
<1>6. Slots' = Slots
  BY <1>3, <1>5 DEF Slots, AtWork
<1>7. Buffered' = (Buffered \ D) \cup {e}
  BY <1>3 DEF Buffered
<1>8. ToSet(queue') = {x \in Event : live'[x] = "queued"}
  BY <1>2, <1>3, <1>5 DEF LiveOK
<1>9. /\ IsFiniteSet(Buffered \ D) /\ Cardinality(Buffered \ D) \in Nat
  BY CountPart DEF LiveOK
<1>10. IsFiniteSet(Buffered') /\ Cardinality(Buffered') <= BufferMax
  <2>1. /\ IsFiniteSet(Buffered')
        /\ Cardinality(Buffered') = IF e \in Buffered \ D THEN Cardinality(Buffered \ D)
                                    ELSE Cardinality(Buffered \ D) + 1
    BY <1>7, <1>9, FS_AddElement
  <2> QED BY <1>9, <2>1, IngestAssumption
<1>11. Pending' <= MaxPending
  <2>1. Pending' = Len(queue) - 1 + Cardinality(Slots) /\ Pending = Len(queue) + Cardinality(Slots)
    BY <1>2, <1>6 DEF Pending
  <2>2. Cardinality(Slots) \in Nat /\ Len(queue) \in Nat /\ Pending <= MaxPending
    BY <1>1, FS_CardinalityType DEF LiveOK
  <2> QED BY <2>1, <2>2, IngestAssumption
<1> QED BY <1>2, <1>3, <1>4, <1>6, <1>8, <1>10, <1>11 DEF LiveOK

\* Enqueued(): of the events of S the queue takes those of T, and the others go, to a
\* file each, or with a report that they are lost.
LEMMA EnqueuedLive ==
  ASSUME LiveOK, NEW S \in SUBSET Event, IsFiniteSet(S), Enqueued(S),
         \A e \in S : live[e] \in {"none", "buffered"}
  PROVE  /\ LiveOK'
         /\ \E T \in SUBSET S :
              /\ live' = [e \in Event |-> IF e \notin S THEN live[e]
                                          ELSE IF e \in T THEN "queued" ELSE "gone"]
              /\ Save(S \ T)
<1> DEFINE k == Lesser(Len(SetToSeq(S)), MaxPending - Pending)
           u == SubSeq(SetToSeq(S), 1, k)
           T == ToSet(u)
<1>1. /\ queue' = queue \o u /\ Save(S \ T)
      /\ live' = [e \in Event |-> IF e \notin S THEN live[e]
                                  ELSE IF e \in T THEN "queued" ELSE "gone"]
  BY DEF Enqueued
<1>2. /\ queue \in Seq(Event) /\ IsInjective(queue) /\ Len(queue) \in Nat
      /\ Cardinality(Slots) \in Nat /\ Pending <= MaxPending /\ MaxPending \in Nat
      /\ Pending = Len(queue) + Cardinality(Slots)
  BY IngestAssumption, FS_CardinalityType DEF LiveOK, Pending
<1>3. Len(SetToSeq(S)) \in Nat
  <2>1. Cardinality(S) \in Nat /\ \E f \in [1..Cardinality(S) -> S] : IsInjective(f)
    BY FS_CardinalityType DEF ExistsBijection, Bijection, Injection
  <2>2. SetToSeq(S) \in [1..Cardinality(S) -> S]
    BY <2>1 DEF SetToSeq
  <2> QED BY <2>1, <2>2
<1>4. k \in Nat /\ k <= Len(SetToSeq(S)) /\ Len(queue) + k + Cardinality(Slots) <= MaxPending
  <2>1. MaxPending - Pending \in Nat
    BY <1>2
  <2>2. k \in Nat /\ k <= Len(SetToSeq(S)) /\ k <= MaxPending - Pending
    BY <1>3, <2>1, LesserIs
  <2> QED BY <1>2, <2>2
<1> HIDE DEF k
<1>5. u \in Seq(Event) /\ Len(u) = k /\ IsInjective(u) /\ T \subseteq S
  BY <1>4, OrderOf
<1> HIDE DEF u
<1>6. live \in [Event -> LiveStages] /\ ToSet(queue) = {e \in Event : live[e] = "queued"}
  BY DEF LiveOK
<1>7. ToSet(queue) \cap ToSet(u) = {}
  BY <1>5, <1>6
<1>8. /\ queue' \in Seq(Event) /\ Len(queue') = Len(queue) + k
      /\ IsInjective(queue') /\ ToSet(queue') = ToSet(queue) \cup T
  BY <1>1, <1>2, <1>5, <1>7, JoinedQueues
<1> HIDE DEF T
<1>9. live' \in [Event -> LiveStages]
  BY <1>1, <1>6 DEF LiveStages, InMemory
<1>10. Slots' = Slots /\ Buffered' \in SUBSET Buffered
  BY <1>1, <1>6 DEF Slots, Buffered, AtWork
<1>11. IsFiniteSet(Buffered') /\ Cardinality(Buffered') <= BufferMax
  <2>1. /\ IsFiniteSet(Buffered') /\ Cardinality(Buffered') <= Cardinality(Buffered)
        /\ Cardinality(Buffered') \in Nat /\ Cardinality(Buffered) \in Nat
    BY <1>10, CountPart DEF LiveOK
  <2>2. Cardinality(Buffered) <= BufferMax /\ BufferMax \in Nat
    BY IngestAssumption DEF LiveOK
  <2> QED BY <2>1, <2>2
<1>12. ToSet(queue') = {e \in Event : live'[e] = "queued"}
  BY <1>1, <1>5, <1>6, <1>8
<1>13. Pending' <= MaxPending
  <2>1. Pending' = Len(queue) + k + Cardinality(Slots)
    BY <1>8, <1>10 DEF Pending
  <2> QED BY <1>4, <2>1
<1>14. LiveOK'
  BY <1>8, <1>9, <1>10, <1>11, <1>12, <1>13 DEF LiveOK
<1> QED BY <1>1, <1>5, <1>14

-----------------------------------------------------------------------------
(* What most steps have in common *)

\* The replay pass goes on beside a step of the live path, the disk or the control.
LEMMA StoredFrame ==
  ASSUME StoredOK, UNCHANGED <<stored, passing, ahead, lock, pid>>,
         status' = "down" => status = "down",
         \A x \in Event : live[x] = "gone" => live'[x] = "gone"
  PROVE  StoredOK'
BY DEF StoredOK, Gone, Busy

\* Save() writes a file of each event, or reports it lost.
LEMMA SaveHolds ==
  ASSUME NEW S \in SUBSET Event, Save(S), DiskOK, ControlOK
  PROVE  /\ file \subseteq file' /\ file' \subseteq file \cup S /\ file' \subseteq Event
         /\ lost \subseteq lost' /\ lost' \subseteq lost \cup S /\ lost' \subseteq Event
         /\ \A e \in S : e \in file' \/ e \in lost'
BY DEF Save, DiskOK, ControlOK

\* An event that is in memory is not in the spool, and no pass works on it.
LEMMA LiveAlone ==
  ASSUME IInv, NEW e \in Event, live[e] # "gone"
  PROVE  ~OnDisk(e) /\ stored[e] = "none" /\ e \notin ahead /\ e \notin file /\ lock[e] = {}
BY DEF IInv, OneKeeper, OnDisk, StoredOK, Gone, DiskOK

\* Events go to disk, or are lost for a cause; nothing else of the spool changes.
LEMMA SpoolGrows ==
  ASSUME IInv, UNCHANGED <<lock, journal, stored, marked>>, file \subseteq file', lost \subseteq lost'
  PROVE  Settled' /\ \A e \in Event : OnDisk(e) => OnDisk(e)'
BY DEF IInv, Settled, OnDisk

\* An event leaves the memory of the live path: to the spool, or for another reason
\* that Accounted knows.
LEMMA LiveLeaves ==
  ASSUME IInv, NEW e \in Event, live[e] \notin {"none", "gone"}, live' = [live EXCEPT ![e] = "gone"],
         UNCHANGED <<stored, passing, ahead, lock, marked, pid, status, stops>>,
         LiveOK', DiskOK', ControlOK', JournalOK',
         file \subseteq file' /\ file' \subseteq file \cup {e}, lost \subseteq lost',
         \A x \in Event : journal[x] # "none" => journal'[x] # "none",
         e \in file' \/ e \in lost' \/ journal'[e] # "none",
         inflight' = inflight \ {e}, processed \subseteq processed',
         processed' \subseteq processed \cup {e}
  PROVE  IInv'
<1>1. live \in [Event -> LiveStages] /\ live'[e] = "gone" /\ \A x \in Event : x # e => live'[x] = live[x]
  BY DEF IInv, LiveOK
<1>2. stored[e] = "none"
  BY LiveAlone
<1>3. StoredOK'
  BY <1>1, StoredFrame DEF IInv
<1>4. MemoryOK'
  BY <1>1, <1>2 DEF IInv, MemoryOK, AtWork
<1>5. Settled'
  BY <1>2 DEF IInv, Settled
<1>6. Accounted'
  <2> SUFFICES ASSUME NEW x \in Event
               PROVE  \/ live'[x] = "none" \/ live'[x] \in InMemory \/ x \in file' \/ lock'[x] # {}
                      \/ journal'[x] # "none" \/ x \in lost'
    BY DEF Accounted, OnDisk, InMemory
  <2>1. CASE x = e
    BY <2>1
  <2>2. CASE x # e
    BY <1>1, <2>2 DEF IInv, Accounted, OnDisk
  <2> QED BY <2>1, <2>2
<1>7. OneKeeper'
  BY <1>1 DEF IInv, OneKeeper, OnDisk
<1> QED BY <1>3, <1>4, <1>5, <1>6, <1>7 DEF IInv

\* A step that touches neither the events nor their places.
LEMMA QuietHolds ==
  ASSUME IInv, UNCHANGED <<live, queue, stored, passing, ahead, inflight, processed, file, lock,
                           journal, lost, marked, pid, stops>>,
         ControlOK', status' = "down" => status = "down"
  PROVE  IInv'
<1>1. LiveOK' /\ StoredOK'
  BY LiveFrame, StoredFrame DEF IInv, liveVars
<1>2. MemoryOK' /\ DiskOK' /\ JournalOK' /\ Settled'
  BY DEF IInv, MemoryOK, DiskOK, JournalOK, Settled
<1>3. Accounted' /\ OneKeeper'
  BY DEF IInv, Accounted, OneKeeper, OnDisk
<1> QED BY <1>1, <1>2, <1>3 DEF IInv

-----------------------------------------------------------------------------
(* Steps of the live path *)

\* Some events are queued, and the rest of them spilled.
LEMMA EnqueuedHolds ==
  ASSUME IInv, NEW S \in SUBSET Event, IsFiniteSet(S), Enqueued(S),
         \A e \in S : live[e] \in {"none", "buffered"},
         UNCHANGED <<passVars, memory, lock, journal, control>>
  PROVE  IInv'
<1>1. PICK T \in SUBSET S :
        /\ live' = [e \in Event |-> IF e \notin S THEN live[e]
                                    ELSE IF e \in T THEN "queued" ELSE "gone"]
        /\ Save(S \ T)
  BY EnqueuedLive DEF IInv
<1>2. LiveOK' /\ live \in [Event -> LiveStages]
  BY EnqueuedLive DEF IInv, LiveOK
<1>3. /\ file \subseteq file' /\ file' \subseteq file \cup (S \ T) /\ file' \subseteq Event
      /\ lost \subseteq lost' /\ lost' \subseteq Event
      /\ \A e \in S \ T : e \in file' \/ e \in lost'
  BY <1>1, SaveHolds DEF IInv
<1>4. UNCHANGED <<stored, passing, ahead, lock, pid, status, inflight, processed, journal, marked,
                  active, paused, stops>>
  BY DEF passVars, memory, control
<1>5. \A e \in S : live[e] # "gone" /\ live[e] \notin AtWork /\ ~OnDisk(e)
  BY LiveAlone DEF AtWork
<1>6. StoredOK'
  BY <1>1, <1>4, <1>5, StoredFrame DEF IInv
<1>7. MemoryOK'
  <2>1. \A e \in Event : live'[e] \in AtWork <=> live[e] \in AtWork
    BY <1>1, <1>5 DEF AtWork
  <2> QED BY <1>4, <2>1 DEF IInv, MemoryOK
<1>8. DiskOK' /\ ControlOK'
  BY <1>3, <1>4 DEF IInv, DiskOK, ControlOK
<1>9. JournalOK'
  BY <1>1, <1>4 DEF IInv, JournalOK
<1>10. Settled'
  BY <1>3, <1>4, SpoolGrows
<1>11. Accounted'
  <2> SUFFICES ASSUME NEW x \in Event
               PROVE  \/ live'[x] = "none" \/ live'[x] \in InMemory \/ x \in file' \/ lock'[x] # {}
                      \/ journal'[x] # "none" \/ x \in lost'
    BY DEF Accounted, OnDisk, InMemory
  <2>1. CASE x \in S
    BY <1>1, <1>3, <2>1 DEF InMemory
  <2>2. CASE x \notin S
    BY <1>1, <1>3, <1>4, <2>2 DEF IInv, Accounted, OnDisk
  <2> QED BY <2>1, <2>2
<1>12. OneKeeper'
  <2> SUFFICES ASSUME NEW x \in Event, x \in file' \/ lock'[x] # {} PROVE live'[x] = "gone"
    BY DEF OneKeeper, OnDisk
  <2>1. CASE x \in S \ T
    BY <1>1, <2>1
  <2>2. CASE x \notin S \ T
    <3>1. OnDisk(x)
      BY <1>3, <1>4, <2>2 DEF OnDisk
    <3>2. live[x] = "gone" /\ x \notin S
      BY <1>5, <3>1 DEF IInv, OneKeeper
    <3> QED BY <1>1, <3>2
  <2> QED BY <2>1, <2>2
<1> QED BY <1>2, <1>6, <1>7, <1>8, <1>9, <1>10, <1>11, <1>12 DEF IInv

\* An event is received.
LEMMA ReceiveHolds == ASSUME IInv, NEW e \in Event, Receive(e) PROVE IInv'
<1>1. IsFiniteSet({e}) /\ \A x \in {e} : live[x] \in {"none", "buffered"}
  BY FS_Singleton DEF Receive
<1> QED BY <1>1, EnqueuedHolds DEF Receive

\* The events of active topics leave the buffer.
LEMMA FlushHolds == ASSUME IInv, Flush PROVE IInv'
<1> DEFINE S == {e \in Buffered : TopicOf[e] \in active}
<1>1. S \in SUBSET Event /\ S \in SUBSET Buffered /\ \A x \in S : live[x] \in {"none", "buffered"}
  BY DEF Buffered
<1>2. IsFiniteSet(S)
  BY <1>1, CountPart DEF IInv, LiveOK
<1>3. Enqueued(S) /\ UNCHANGED <<passVars, memory, lock, journal, control>>
  BY DEF Flush
<1> HIDE DEF S
<1> QED BY <1>1, <1>2, <1>3, EnqueuedHolds

\* An event that waits in the queue is at work nowhere.
LEMMA QueuedIdle ==
  ASSUME IInv, NEW e \in Event, live[e] = "queued"
  PROVE  e \notin inflight /\ journal[e] \in {"none", "row", "acked"} /\ inflight \ {e} = inflight
BY LiveAlone DEF IInv, MemoryOK, AtWork, JournalOK

\* Paused, the oldest event goes to the spool.
LEMMA TakePausedHolds == ASSUME IInv, NEW e \in Event, TakePaused(e) PROVE IInv'
<1>1. /\ Taken(e) /\ Save({e}) /\ live' = [live EXCEPT ![e] = "gone"]
      /\ UNCHANGED <<stored, passing, ahead, lock, pid, status, stops, inflight, processed, journal,
                     marked, active, paused>>
  BY DEF TakePaused, passVars, memory, control
<1>2. LiveOK' /\ live[e] = "queued" /\ live \in [Event -> LiveStages]
  BY <1>1, LeavesQueue DEF IInv, LiveOK
<1>3. /\ file \subseteq file' /\ file' \subseteq file \cup {e} /\ file' \subseteq Event
      /\ lost \subseteq lost' /\ lost' \subseteq Event /\ (e \in file' \/ e \in lost')
  BY <1>1, SaveHolds DEF IInv
<1>4. inflight' = inflight \ {e}
  BY <1>1, <1>2, QueuedIdle
<1>5. DiskOK' /\ ControlOK'
  BY <1>1, <1>3 DEF IInv, DiskOK, ControlOK
<1>6. JournalOK'
  BY <1>1, <1>2 DEF IInv, JournalOK
<1> QED BY <1>1, <1>2, <1>3, <1>4, <1>5, <1>6, LiveLeaves

\* An event that was written, or is not to be stored, is dropped.
LEMMA TakeDroppedHolds == ASSUME IInv, NEW e \in Event, TakeDropped(e) PROVE IInv'
<1>1. /\ Taken(e) /\ live' = [live EXCEPT ![e] = "gone"]
      /\ e \in processed \cup inflight \/ Unarchived(e)
      /\ lost' = IF Unarchived(e) THEN lost \cup {e} ELSE lost
      /\ UNCHANGED <<stored, passing, ahead, file, lock, pid, status, stops, inflight, processed,
                     journal, marked, active, paused>>
  BY DEF TakeDropped, passVars, memory, disk, control
<1>2. LiveOK' /\ live[e] = "queued" /\ live \in [Event -> LiveStages]
  BY <1>1, LeavesQueue DEF IInv, LiveOK
<1>3. e \notin inflight /\ inflight' = inflight \ {e}
  BY <1>1, <1>2, QueuedIdle
<1>4. e \in lost' \/ journal'[e] # "none"
  BY <1>1, <1>3 DEF IInv, JournalOK
<1>5. DiskOK' /\ ControlOK' /\ lost \subseteq lost'
  BY <1>1 DEF IInv, DiskOK, ControlOK
<1>6. JournalOK'
  BY <1>1, <1>2 DEF IInv, JournalOK
<1> QED BY <1>1, <1>2, <1>3, <1>4, <1>5, <1>6, LiveLeaves

\* An event is buffered for its topic; those that give way to it are discarded.
LEMMA TakeInactiveHolds == ASSUME IInv, NEW e \in Event, TakeInactive(e) PROVE IInv'
<1>1. PICK D \in SUBSET Buffered :
        /\ Cardinality(Buffered \ D) < BufferMax /\ lost' = lost \cup D
        /\ live' = [x \in Event |->
                       IF x = e THEN "buffered" ELSE IF x \in D THEN "gone" ELSE live[x]]
  BY DEF TakeInactive
<1>2. /\ Taken(e)
      /\ UNCHANGED <<stored, passing, ahead, file, lock, pid, status, stops, inflight, processed,
                     journal, marked, active, paused>>
  BY DEF TakeInactive, passVars, memory, disk, control
<1>3. LiveOK' /\ live[e] = "queued" /\ live \in [Event -> LiveStages]
  BY <1>1, <1>2, TakeInactiveLive DEF IInv, LiveOK
<1>4. D \subseteq Event /\ \A x \in D : live[x] = "buffered"
  BY DEF Buffered
<1>5. StoredOK'
  BY <1>1, <1>2, <1>3, StoredFrame DEF IInv
<1>6. MemoryOK'
  <2>1. \A x \in Event : live'[x] \in AtWork <=> live[x] \in AtWork
    BY <1>1, <1>3, <1>4 DEF AtWork
  <2> QED BY <1>2, <2>1 DEF IInv, MemoryOK
<1>7. DiskOK' /\ ControlOK'
  BY <1>1, <1>2, <1>4 DEF IInv, DiskOK, ControlOK
<1>8. JournalOK'
  BY <1>1, <1>2, <1>3 DEF IInv, JournalOK
<1>9. Settled'
  BY <1>1, <1>2, SpoolGrows
<1>10. Accounted'
  <2> SUFFICES ASSUME NEW x \in Event
               PROVE  \/ live'[x] = "none" \/ live'[x] \in InMemory \/ x \in file' \/ lock'[x] # {}
                      \/ journal'[x] # "none" \/ x \in lost'
    BY DEF Accounted, OnDisk, InMemory
  <2>1. CASE x = e
    BY <1>1, <2>1 DEF InMemory
  <2>2. CASE x # e /\ x \in D
    BY <1>1, <2>2
  <2>3. CASE x # e /\ x \notin D
    BY <1>1, <1>2, <2>3 DEF IInv, Accounted, OnDisk
  <2> QED BY <2>1, <2>2, <2>3
<1>11. OneKeeper'
  <2> SUFFICES ASSUME NEW x \in Event, x \in file' \/ lock'[x] # {} PROVE live'[x] = "gone"
    BY DEF OneKeeper, OnDisk
  <2>1. live[x] = "gone"
    BY <1>2 DEF IInv, OneKeeper, OnDisk
  <2> QED BY <1>1, <1>3, <2>1
<1> QED BY <1>3, <1>5, <1>6, <1>7, <1>8, <1>9, <1>10, <1>11 DEF IInv

\* A live event changes its stage in memory, with its place in the set of those in
\* flight, and perhaps in the journal.
LEMMA LiveGoesOn ==
  ASSUME IInv, NEW e \in Event, live[e] \in InMemory, NEW stage \in InMemory,
         live' = [live EXCEPT ![e] = stage],
         UNCHANGED <<stored, passing, ahead, file, lock, pid, status, stops, processed, lost,
                     marked, active, paused>>,
         LiveOK', JournalOK', \A x \in Event : journal[x] # "none" => journal'[x] # "none",
         inflight' = IF stage \in AtWork THEN inflight \cup {e} ELSE inflight \ {e},
         stage \in AtWork => e \notin processed
  PROVE  IInv'
<1>1. /\ live \in [Event -> LiveStages] /\ live'[e] = stage /\ live[e] # "gone"
      /\ \A x \in Event : x # e => live'[x] = live[x]
  BY DEF IInv, LiveOK, InMemory, AtWork
<1>2. stored[e] = "none" /\ ~OnDisk(e)
  BY <1>1, LiveAlone
<1>3. StoredOK'
  BY <1>1, StoredFrame DEF IInv
<1>4. MemoryOK'
  BY <1>1, <1>2 DEF IInv, MemoryOK, AtWork
<1>5. DiskOK' /\ ControlOK'
  BY DEF IInv, DiskOK, ControlOK
<1>6. Settled'
  BY DEF IInv, Settled
<1>7. Accounted'
  BY <1>1 DEF IInv, Accounted, OnDisk, InMemory
<1>8. OneKeeper'
  BY <1>1, <1>2 DEF IInv, OneKeeper, OnDisk
<1> QED BY <1>3, <1>4, <1>5, <1>6, <1>7, <1>8 DEF IInv

\* A worker takes the oldest event.
LEMMA TakeActiveHolds == ASSUME IInv, NEW e \in Event, TakeActive(e) PROVE IInv'
<1>1. /\ live' = [live EXCEPT ![e] = "resolving"] /\ inflight' = inflight \cup {e}
      /\ e \notin processed
      /\ UNCHANGED <<stored, passing, ahead, file, lock, pid, status, stops, processed, journal,
                     lost, marked, active, paused>>
  BY DEF TakeActive, Admitted, passVars, disk, control
<1>2. LiveOK' /\ live[e] = "queued" /\ live \in [Event -> LiveStages]
  BY TakeActiveLive DEF IInv, LiveOK
<1>3. JournalOK'
  BY <1>1, <1>2 DEF IInv, JournalOK
<1>4. "resolving" \in InMemory /\ "resolving" \in AtWork /\ live[e] \in InMemory
  BY <1>2 DEF InMemory, AtWork
<1> QED BY <1>1, <1>2, <1>3, <1>4, LiveGoesOn

\* submit() commits the row of a live event.
LEMMA LiveSubmitHolds == ASSUME IInv, NEW e \in Event, LiveSubmit(e) PROVE IInv'
<1>1. /\ live[e] = "resolving" /\ live' = [live EXCEPT ![e] = "writing"] /\ queue' = queue
      /\ journal' = [journal EXCEPT ![e] = "row"]
      /\ UNCHANGED <<stored, passing, ahead, file, lock, pid, status, stops, inflight, processed,
                     lost, marked, active, paused>>
  BY DEF LiveSubmit, liveVars, passVars, memory, disk, control
<1>2. /\ live \in [Event -> LiveStages] /\ journal \in [Event -> {"none", "row", "acked"}]
      /\ "writing" \in SlotStages /\ "writing" \in InMemory /\ "writing" \in AtWork
      /\ live[e] \in SlotStages /\ live[e] \in InMemory
  BY <1>1 DEF IInv, LiveOK, JournalOK, SlotStages, InMemory, AtWork
<1>3. LiveOK'
  BY <1>1, <1>2, SlotKept DEF IInv
<1>4. e \in inflight /\ e \notin processed
  BY <1>1 DEF IInv, MemoryOK, AtWork
<1>5. JournalOK'
  BY <1>1, <1>2 DEF IInv, JournalOK
<1>6. inflight' = inflight \cup {e} /\ \A x \in Event : journal[x] # "none" => journal'[x] # "none"
  BY <1>1, <1>2, <1>4
<1> QED BY <1>1, <1>2, <1>3, <1>4, <1>5, <1>6, LiveGoesOn

\* The journal refuses a live event, before or after its commit.
LEMMA LiveRefusedHolds == ASSUME IInv, NEW e \in Event, LiveRefused(e) PROVE IInv'
<1>1. /\ live[e] \in AtWork /\ live' = [live EXCEPT ![e] = "refused"] /\ queue' = queue
      /\ inflight' = inflight \ {e} /\ journal' \in {journal, [journal EXCEPT ![e] = "row"]}
      /\ UNCHANGED <<stored, passing, ahead, file, lock, pid, status, stops, processed, lost,
                     marked, active, paused>>
  BY DEF LiveRefused, passVars, disk, control
<1>2. /\ live \in [Event -> LiveStages] /\ journal \in [Event -> {"none", "row", "acked"}]
      /\ "refused" \in SlotStages /\ "refused" \in InMemory /\ "refused" \notin AtWork
      /\ live[e] \in SlotStages /\ live[e] \in InMemory
  BY <1>1 DEF IInv, LiveOK, JournalOK, SlotStages, InMemory, AtWork
<1>3. LiveOK'
  BY <1>1, <1>2, SlotKept DEF IInv
<1>4. \A x \in Event : journal'[x] = journal[x] \/ journal'[x] = "row"
  BY <1>1, <1>2
<1>5. journal' \in [Event -> {"none", "row", "acked"}]
  BY <1>1, <1>2
<1>6. \A x \in Event : live'[x] = "writing" => live[x] = "writing"
  BY <1>1, <1>2
<1>7. JournalOK'
  BY <1>1, <1>4, <1>5, <1>6 DEF IInv, JournalOK
<1>8. \A x \in Event : journal[x] # "none" => journal'[x] # "none"
  BY <1>4
<1> QED BY <1>1, <1>2, <1>3, <1>7, <1>8, LiveGoesOn

\* An identity retry: the event goes to the spool.
LEMMA LiveRetryHolds == ASSUME IInv, NEW e \in Event, LiveRetry(e) PROVE IInv'
<1>1. /\ live[e] = "resolving" /\ Save({e}) /\ live' = [live EXCEPT ![e] = "gone"] /\ queue' = queue
      /\ inflight' = inflight \ {e}
      /\ UNCHANGED <<stored, passing, ahead, lock, pid, status, stops, processed, journal, marked,
                     active, paused>>
  BY DEF LiveRetry, passVars, control
<1>2. LiveOK' /\ live \in [Event -> LiveStages]
  BY <1>1, SlotFreed DEF IInv, LiveOK, SlotStages, AtWork
<1>3. /\ file \subseteq file' /\ file' \subseteq file \cup {e} /\ file' \subseteq Event
      /\ lost \subseteq lost' /\ lost' \subseteq Event /\ (e \in file' \/ e \in lost')
  BY <1>1, SaveHolds DEF IInv
<1>4. DiskOK' /\ ControlOK'
  BY <1>1, <1>3 DEF IInv, DiskOK, ControlOK
<1>5. JournalOK'
  BY <1>1, <1>2 DEF IInv, JournalOK
<1> QED BY <1>1, <1>2, <1>3, <1>4, <1>5, LiveLeaves

\* An event whose processing failed is spilled.
LEMMA LiveSpillHolds == ASSUME IInv, NEW e \in Event, LiveSpill(e) PROVE IInv'
<1>1. /\ live[e] = "refused" /\ Save({e}) /\ live' = [live EXCEPT ![e] = "gone"] /\ queue' = queue
      /\ UNCHANGED <<stored, passing, ahead, lock, pid, status, stops, inflight, processed, journal,
                     marked, active, paused>>
  BY DEF LiveSpill, passVars, memory, control
<1>2. LiveOK' /\ live \in [Event -> LiveStages]
  BY <1>1, SlotFreed DEF IInv, LiveOK, SlotStages, AtWork
<1>3. /\ file \subseteq file' /\ file' \subseteq file \cup {e} /\ file' \subseteq Event
      /\ lost \subseteq lost' /\ lost' \subseteq Event /\ (e \in file' \/ e \in lost')
  BY <1>1, SaveHolds DEF IInv
<1>4. inflight' = inflight \ {e}
  <2>1. stored[e] = "none"
    BY <1>1, LiveAlone
  <2> QED BY <1>1, <2>1 DEF IInv, MemoryOK, AtWork
<1>5. DiskOK' /\ ControlOK'
  BY <1>1, <1>3 DEF IInv, DiskOK, ControlOK
<1>6. JournalOK'
  BY <1>1, <1>2 DEF IInv, JournalOK
<1> QED BY <1>1, <1>2, <1>3, <1>4, <1>5, <1>6, LiveLeaves

\* A live event is written, and remembered as processed.
LEMMA LiveWrittenHolds == ASSUME IInv, NEW e \in Event, LiveWritten(e) PROVE IInv'
<1>1. /\ live[e] = "writing" /\ live' = [live EXCEPT ![e] = "gone"] /\ queue' = queue
      /\ inflight' = inflight \ {e} /\ processed' = processed \cup {e}
      /\ journal' \in {journal, [journal EXCEPT ![e] = "acked"]}
      /\ UNCHANGED <<stored, passing, ahead, file, lock, pid, status, stops, lost, marked, active,
                     paused>>
  BY DEF LiveWritten, passVars, disk, control
<1>2. LiveOK' /\ live \in [Event -> LiveStages]
  BY <1>1, SlotFreed DEF IInv, LiveOK, SlotStages, AtWork
<1>3. /\ journal \in [Event -> {"none", "row", "acked"}] /\ journal[e] # "none"
  BY <1>1 DEF IInv, JournalOK
<1>4. /\ journal' \in [Event -> {"none", "row", "acked"}] /\ journal'[e] # "none"
      /\ \A x \in Event : x # e => journal'[x] = journal[x]
  BY <1>1, <1>3
<1>5. DiskOK' /\ ControlOK'
  BY <1>1 DEF IInv, DiskOK, ControlOK
<1>6. JournalOK'
  <2>1. processed' \subseteq Event
    BY <1>1 DEF IInv, MemoryOK
  <2>2. ASSUME NEW x \in Event, live'[x] = "writing" \/ stored'[x] = "writing" \/ x \in processed'
        PROVE  journal'[x] # "none"
    BY <1>1, <1>2, <1>4, <2>2 DEF IInv, JournalOK
  <2>3. ASSUME stops' = 0, NEW x \in Event, journal'[x] = "acked" PROVE x \in processed'
    BY <1>1, <1>4, <2>3 DEF IInv, JournalOK
  <2> QED BY <1>4, <2>2, <2>3 DEF JournalOK
<1> QED BY <1>1, <1>2, <1>3, <1>4, <1>5, <1>6, LiveLeaves

-----------------------------------------------------------------------------
(* Steps of the replay pass *)

BusyStages == LockedStages \ {"locked"}

\* An event takes up no worker, or keeps the one it has.
LEMMA BusyKept ==
  ASSUME StoredOK, NEW e \in Event, NEW stage, stored' = [stored EXCEPT ![e] = stage],
         stage \in BusyStages => stored[e] \in BusyStages
  PROVE  IsFiniteSet(Busy') /\ Cardinality(Busy') <= Workers
<1>1. Busy' \in SUBSET Busy
  BY DEF StoredOK, Busy, BusyStages
<1>2. /\ IsFiniteSet(Busy') /\ Cardinality(Busy') <= Cardinality(Busy)
      /\ Cardinality(Busy') \in Nat /\ Cardinality(Busy) \in Nat
  BY <1>1, CountPart DEF StoredOK
<1>3. Cardinality(Busy) <= Workers /\ Workers \in Nat
  BY IngestAssumption DEF StoredOK
<1> QED BY <1>2, <1>3

\* A stored event changes its stage, with its files, its place in the set of those in
\* flight and among the processed ones, and perhaps in the journal.
LEMMA StoredMoves ==
  ASSUME IInv, NEW e \in Event, stored[e] # "none", NEW stage \in StoredStages,
         stored' = [stored EXCEPT ![e] = stage],
         UNCHANGED <<live, queue, passing, ahead, marked, pid, status, stops>>,
         IsFiniteSet(Busy') /\ Cardinality(Busy') <= Workers,
         DiskOK', ControlOK', JournalOK',
         \A x \in Event : x # e => (x \in file' <=> x \in file) /\ lock'[x] = lock[x],
         stage \in LockedStages => pid \in lock'[e],
         inflight' = IF stage \in AtWork THEN inflight \cup {e} ELSE inflight \ {e},
         processed \subseteq processed',
         processed' \subseteq processed \cup {e},
         stage \in AtWork => e \notin processed',
         lost \subseteq lost', \A x \in Event : journal[x] # "none" => journal'[x] # "none",
         stage = "delete" =>
           \/ e \in file' \/ journal'[e] # "none"
           \/ e \in lost' /\ e \in Foreign \cup Invalid \cup marked,
         e \in file' \/ lock'[e] # {} \/ journal'[e] # "none" \/ e \in lost'
  PROVE  IInv'
<1>1. /\ stored \in [Event -> StoredStages] /\ stored'[e] = stage
      /\ \A x \in Event : x # e => stored'[x] = stored[x]
      /\ passing /\ Gone(e) /\ live[e] = "gone"
  BY DEF IInv, StoredOK, Gone
<1>2. LiveOK'
  BY LiveFrame DEF IInv, liveVars
<1>3. stored' \in [Event -> StoredStages]
  BY <1>1
<1>4. \A x \in Event : stored'[x] # "none" => passing' /\ Gone(x)'
  BY <1>1 DEF IInv, StoredOK, Gone
<1>5. \A x \in Event : stored'[x] \in LockedStages => pid' \in lock'[x]
  BY <1>1 DEF IInv, StoredOK
<1>6. /\ passing' \in BOOLEAN /\ ahead' \subseteq Event /\ \A x \in ahead' : Gone(x)'
      /\ status' = "down" => ~passing'
  BY DEF IInv, StoredOK, Gone
<1>7. StoredOK'
  BY <1>3, <1>4, <1>5, <1>6 DEF StoredOK
<1>8. MemoryOK'
  <2>1. inflight' = {x \in Event : live'[x] \in AtWork} \cup {x \in Event : stored'[x] \in AtWork}
    BY <1>1 DEF IInv, MemoryOK, AtWork
  <2>2. processed' \subseteq Event /\ inflight' \cap processed' = {}
    BY DEF IInv, MemoryOK
  <2> QED BY <2>1, <2>2 DEF MemoryOK
<1>9. Settled'
  <2> SUFFICES ASSUME NEW x \in Event, stored'[x] = "delete"
               PROVE  \/ x \in file' \/ journal'[x] # "none"
                      \/ x \in lost' /\ x \in Foreign \cup Invalid \cup marked
    BY DEF Settled
  <2>1. CASE x = e
    BY <1>1, <2>1
  <2>2. CASE x # e
    BY <1>1, <2>2 DEF IInv, Settled
  <2> QED BY <2>1, <2>2
<1>10. Accounted'
  <2> SUFFICES ASSUME NEW x \in Event
               PROVE  \/ live'[x] = "none" \/ live'[x] \in InMemory \/ x \in file' \/ lock'[x] # {}
                      \/ journal'[x] # "none" \/ x \in lost'
    BY DEF Accounted, OnDisk, InMemory
  <2>1. CASE x = e
    BY <2>1
  <2>2. CASE x # e
    BY <2>2 DEF IInv, Accounted, OnDisk
  <2> QED BY <2>1, <2>2
<1>11. OneKeeper'
  <2> SUFFICES ASSUME NEW x \in Event, x \in file' \/ lock'[x] # {} PROVE live'[x] = "gone"
    BY DEF OneKeeper, OnDisk
  <2>1. CASE x = e
    BY <1>1, <2>1
  <2>2. CASE x # e
    BY <2>2 DEF IInv, OneKeeper, OnDisk
  <2> QED BY <2>1, <2>2
<1> QED BY <1>2, <1>7, <1>8, <1>9, <1>10, <1>11 DEF IInv

\* Only the stage changes, outside the awaits of processEvent().
LEMMA StageMoves ==
  ASSUME IInv, NEW e \in Event, stored[e] # "none", stored[e] \notin AtWork,
         NEW stage \in StoredStages \ AtWork, stored' = [stored EXCEPT ![e] = stage],
         UNCHANGED <<live, queue, passing, ahead, pid, status, stops, inflight, processed, file,
                     lock, journal, marked, active, paused>>,
         IsFiniteSet(Busy') /\ Cardinality(Busy') <= Workers,
         stage \in LockedStages => stored[e] \in LockedStages,
         lost \subseteq lost', lost' \subseteq Event,
         stage = "delete" =>
           journal[e] # "none" \/ (e \in lost' /\ e \in Foreign \cup Invalid \cup marked)
  PROVE  IInv'
<1>1. live[e] = "gone" /\ stored \in [Event -> StoredStages]
  BY DEF IInv, StoredOK, Gone
<1>2. inflight \ {e} = inflight
  BY <1>1 DEF IInv, MemoryOK, AtWork
<1>3. DiskOK' /\ ControlOK'
  BY DEF IInv, DiskOK, ControlOK
<1>4. JournalOK'
  BY <1>1 DEF IInv, JournalOK, AtWork
<1>5. stage \in LockedStages => pid \in lock'[e]
  BY DEF IInv, StoredOK
<1>6. e \in file' \/ lock'[e] # {} \/ journal'[e] # "none" \/ e \in lost'
  BY <1>1 DEF IInv, Accounted, OnDisk, InMemory, AtWork
<1> QED BY <1>2, <1>3, <1>4, <1>5, <1>6, StoredMoves

\* A file is locked, or is gone.
LEMMA LockHolds == ASSUME IInv, NEW e \in Event, Lock(e) PROVE IInv'
<1>1. /\ stored[e] = "picked" /\ stored \in [Event -> StoredStages]
      /\ UNCHANGED <<live, queue, passing, ahead, pid, status, stops, inflight, processed, journal,
                     lost, marked, active, paused>>
  BY DEF IInv, StoredOK, Lock, liveVars, memory, control
<1>2. live[e] = "gone" /\ lock \in [Event -> SUBSET Pid] /\ file \subseteq Event /\ pid \in Pid
  BY <1>1 DEF IInv, StoredOK, Gone, DiskOK, ControlOK
<1>3. CASE e \in file
  <2>1. /\ file' = file \ {e} /\ lock' = [lock EXCEPT ![e] = @ \cup {pid}]
        /\ stored' = [stored EXCEPT ![e] = "locked"]
    BY <1>3 DEF Lock
  <2>2. /\ "locked" \in StoredStages /\ "locked" \in LockedStages /\ "locked" \notin AtWork
        /\ "locked" \notin BusyStages
    BY DEF StoredStages, LockedStages, AtWork, BusyStages
  <2>3. IsFiniteSet(Busy') /\ Cardinality(Busy') <= Workers
    BY <2>1, <2>2, BusyKept DEF IInv
  <2>4. lock' \in [Event -> SUBSET Pid] /\ lock'[e] = lock[e] \cup {pid}
        /\ \A x \in Event : x # e => lock'[x] = lock[x]
    BY <1>2, <2>1
  <2>5. DiskOK' /\ ControlOK'
    BY <1>1, <2>1, <2>4 DEF IInv, DiskOK, ControlOK
  <2>6. JournalOK'
    BY <1>1, <2>1 DEF IInv, JournalOK
  <2>7. inflight \ {e} = inflight
    BY <1>1, <1>2 DEF IInv, MemoryOK, AtWork
  <2> QED BY <1>1, <2>1, <2>2, <2>3, <2>4, <2>5, <2>6, <2>7, StoredMoves
<1>4. CASE e \notin file
  <2>1. stored' = [stored EXCEPT ![e] = "none"] /\ UNCHANGED <<file, lock>>
    BY <1>4 DEF Lock, disk
  <2>2. /\ "none" \in StoredStages \ AtWork /\ "none" \notin LockedStages
        /\ "none" \notin BusyStages /\ stored[e] \notin AtWork
    BY <1>1 DEF StoredStages, LockedStages, AtWork, BusyStages
  <2>3. IsFiniteSet(Busy') /\ Cardinality(Busy') <= Workers
    BY <2>1, <2>2, BusyKept DEF IInv
  <2>4. lost' \subseteq Event
    BY <1>1 DEF IInv, ControlOK
  <2> QED BY <1>1, <2>1, <2>2, <2>3, <2>4, StageMoves
<1> QED BY <1>3, <1>4

\* A worker of the pass takes a locked event.
LEMMA WorkHolds == ASSUME IInv, NEW e \in Event, Work(e) PROVE IInv'
<1>1. /\ stored[e] = "locked" /\ stored \in [Event -> StoredStages] /\ Cardinality(Busy) < Workers
      /\ UNCHANGED <<live, queue, passing, ahead, pid, status, stops, inflight, processed, file,
                     lock, journal, lost, marked, active, paused>>
  BY DEF IInv, StoredOK, Work, liveVars, memory, disk, control
<1>2. PICK stage \in {"reading", "requeue"} : stored' = [stored EXCEPT ![e] = stage]
  BY DEF Work
<1>3. /\ stage \in StoredStages \ AtWork /\ stage \in BusyStages /\ stage # "delete" /\ stage # "none"
      /\ stored[e] \in LockedStages /\ stored[e] \notin AtWork /\ stored[e] \notin BusyStages
  BY <1>1, <1>2 DEF StoredStages, LockedStages, AtWork, BusyStages
<1>4. Busy' = Busy \cup {e} /\ e \notin Busy
  BY <1>1, <1>2, <1>3 DEF Busy, BusyStages
<1>5. IsFiniteSet(Busy') /\ Cardinality(Busy') <= Workers
  <2>1. IsFiniteSet(Busy') /\ Cardinality(Busy') = Cardinality(Busy) + 1 /\ Cardinality(Busy) \in Nat
    BY <1>4, FS_AddElement, FS_CardinalityType DEF IInv, StoredOK
  <2> QED BY <1>1, <2>1, IngestAssumption
<1>6. lost' \subseteq Event
  BY <1>1 DEF IInv, ControlOK
<1> QED BY <1>1, <1>2, <1>3, <1>5, <1>6, StageMoves

\* Paused, a stored event gets a new file, and its lock can go.
LEMMA StoredPausedHolds == ASSUME IInv, NEW e \in Event, StoredPaused(e) PROVE IInv'
<1>1. /\ stored[e] = "reading" /\ stored \in [Event -> StoredStages] /\ live[e] = "gone"
      /\ UNCHANGED <<live, queue, passing, ahead, pid, status, stops, inflight, processed, lock,
                     journal, lost, marked, active, paused>>
  BY DEF IInv, StoredOK, Gone, StoredPaused, liveVars, memory, control
<1>2. PICK stage \in {"delete", "requeue"} :
        /\ stored' = [stored EXCEPT ![e] = stage]
        /\ (file' = file \cup {e}) \/ (file' = file /\ stage = "requeue")
  BY DEF StoredPaused
<1>3. /\ stage \in StoredStages /\ stage \in LockedStages /\ stage \in BusyStages /\ stage \notin AtWork
      /\ stored[e] \in LockedStages /\ stored[e] \in BusyStages
  BY <1>1, <1>2 DEF StoredStages, LockedStages, AtWork, BusyStages
<1>4. IsFiniteSet(Busy') /\ Cardinality(Busy') <= Workers
  BY <1>2, <1>3, BusyKept DEF IInv
<1>5. /\ DiskOK' /\ ControlOK' /\ \A x \in Event : x # e => (x \in file' <=> x \in file)
  BY <1>1, <1>2 DEF IInv, DiskOK, ControlOK
<1>6. JournalOK'
  BY <1>1, <1>2 DEF IInv, JournalOK
<1>7. inflight \ {e} = inflight
  BY <1>1 DEF IInv, MemoryOK, AtWork
<1>8. pid \in lock'[e]
  BY <1>1, <1>3 DEF IInv, StoredOK
<1>9. stage = "delete" => e \in file'
  BY <1>2
<1> QED BY <1>1, <1>2, <1>3, <1>4, <1>5, <1>6, <1>7, <1>8, <1>9, StoredMoves

\* A stored event that was written, or is not to be stored, can go.
LEMMA StoredDroppedHolds == ASSUME IInv, NEW e \in Event, StoredDropped(e) PROVE IInv'
<1>1. /\ stored[e] = "reading" /\ stored' = [stored EXCEPT ![e] = "delete"]
      /\ e \in processed \/ Unarchived(e) \/ GivenUp(e)
      /\ lost' = IF e \in processed THEN lost ELSE lost \cup {e}
      /\ UNCHANGED <<live, queue, passing, ahead, pid, status, stops, inflight, processed, file,
                     lock, journal, marked, active, paused>>
  BY DEF StoredDropped, liveVars, memory, disk, control
<1>2. /\ "delete" \in StoredStages \ AtWork /\ stored[e] \in LockedStages
      /\ stored[e] \in BusyStages /\ stored[e] \notin AtWork
  BY <1>1 DEF StoredStages, LockedStages, AtWork, BusyStages
<1>3. IsFiniteSet(Busy') /\ Cardinality(Busy') <= Workers
  BY <1>1, <1>2, BusyKept DEF IInv
<1>4. lost \subseteq lost' /\ lost' \subseteq Event
  BY <1>1 DEF IInv, ControlOK
<1>5. journal[e] # "none" \/ (e \in lost' /\ e \in Foreign \cup Invalid \cup marked)
  BY <1>1 DEF IInv, JournalOK, Unarchived, GivenUp
<1> QED BY <1>1, <1>2, <1>3, <1>4, <1>5, StageMoves

\* A stored event in flight, or of an inactive topic, stays in the spool.
LEMMA StoredDeferredHolds == ASSUME IInv, NEW e \in Event, StoredDeferred(e) PROVE IInv'
<1>1. /\ stored[e] = "reading" /\ stored' = [stored EXCEPT ![e] = "requeue"]
      /\ UNCHANGED <<live, queue, passing, ahead, pid, status, stops, inflight, processed, file,
                     lock, journal, lost, marked, active, paused>>
  BY DEF StoredDeferred, liveVars, memory, disk, control
<1>2. /\ "requeue" \in StoredStages \ AtWork /\ "requeue" # "delete" /\ stored[e] \in LockedStages
      /\ stored[e] \in BusyStages /\ stored[e] \notin AtWork
  BY <1>1 DEF StoredStages, LockedStages, AtWork, BusyStages
<1>3. IsFiniteSet(Busy') /\ Cardinality(Busy') <= Workers
  BY <1>1, <1>2, BusyKept DEF IInv
<1>4. lost \subseteq lost' /\ lost' \subseteq Event
  BY <1>1 DEF IInv, ControlOK
<1> QED BY <1>1, <1>2, <1>3, <1>4, StageMoves

\* A worker changes the stage of its event, with what the process remembers of it and
\* what the journal has; the disk is untouched.
LEMMA WorkerGoesOn ==
  ASSUME IInv, NEW e \in Event, stored[e] \in BusyStages,
         NEW stage \in BusyStages, stored' = [stored EXCEPT ![e] = stage],
         UNCHANGED <<live, queue, passing, ahead, pid, status, stops, file, lock, lost, marked,
                     active, paused>>,
         JournalOK', \A x \in Event : journal[x] # "none" => journal'[x] # "none",
         inflight' = IF stage \in AtWork THEN inflight \cup {e} ELSE inflight \ {e},
         processed \subseteq processed',
         processed' \subseteq processed \cup {e},
         stage \in AtWork => e \notin processed',
         stage = "delete" => journal'[e] # "none"
  PROVE  IInv'
<1>1. /\ stage \in StoredStages /\ stage \in LockedStages
      /\ stored[e] \in LockedStages /\ stored[e] # "none"
  BY DEF StoredStages, LockedStages, BusyStages
<1>2. IsFiniteSet(Busy') /\ Cardinality(Busy') <= Workers
  BY BusyKept DEF IInv
<1>3. DiskOK' /\ ControlOK'
  BY DEF IInv, DiskOK, ControlOK
<1>4. pid \in lock'[e] /\ lock'[e] # {}
  BY <1>1 DEF IInv, StoredOK
<1> QED BY <1>1, <1>2, <1>3, <1>4, StoredMoves

\* A stored event is admitted.
LEMMA StoredActiveHolds == ASSUME IInv, NEW e \in Event, StoredActive(e) PROVE IInv'
<1>1. /\ stored[e] = "reading" /\ stored' = [stored EXCEPT ![e] = "resolving"]
      /\ e \notin processed /\ inflight' = inflight \cup {e}
      /\ UNCHANGED <<live, queue, passing, ahead, pid, status, stops, processed, file, lock,
                     journal, lost, marked, active, paused>>
  BY DEF StoredActive, Admitted, liveVars, disk, control
<1>2. /\ "resolving" \in BusyStages /\ "resolving" \in AtWork /\ "resolving" # "delete"
      /\ stored[e] \in BusyStages
  BY <1>1 DEF LockedStages, AtWork, BusyStages
<1>3. JournalOK'
  BY <1>1 DEF IInv, JournalOK
<1> QED BY <1>1, <1>2, <1>3, WorkerGoesOn

\* A stored event fails: it stays in the spool, written or not.
LEMMA StoredFailsHolds == ASSUME IInv, NEW e \in Event, StoredFails(e) PROVE IInv'
<1>1. /\ stored[e] \in AtWork /\ stored' = [stored EXCEPT ![e] = "requeue"]
      /\ inflight' = inflight \ {e} /\ journal' \in {journal, [journal EXCEPT ![e] = "row"]}
      /\ UNCHANGED <<live, queue, passing, ahead, pid, status, stops, processed, file, lock, lost,
                     marked, active, paused>>
  BY DEF StoredFails, liveVars, disk, control
<1>2. /\ "requeue" \in BusyStages /\ "requeue" \notin AtWork /\ stored[e] \in BusyStages
      /\ stored \in [Event -> StoredStages] /\ journal \in [Event -> {"none", "row", "acked"}]
  BY <1>1 DEF IInv, StoredOK, JournalOK, LockedStages, AtWork, BusyStages
<1>3. \A x \in Event : journal'[x] = journal[x] \/ journal'[x] = "row"
  BY <1>1, <1>2
<1>4. journal' \in [Event -> {"none", "row", "acked"}]
  BY <1>1, <1>2
<1>5. \A x \in Event : stored'[x] = "writing" => stored[x] = "writing"
  BY <1>1, <1>2
<1>6. JournalOK'
  BY <1>1, <1>3, <1>4, <1>5 DEF IInv, JournalOK
<1>7. \A x \in Event : journal[x] # "none" => journal'[x] # "none"
  BY <1>3
<1> QED BY <1>1, <1>2, <1>6, <1>7, WorkerGoesOn

\* submit() commits the row of a stored event.
LEMMA StoredSubmitHolds == ASSUME IInv, NEW e \in Event, StoredSubmit(e) PROVE IInv'
<1>1. /\ stored[e] = "resolving" /\ stored' = [stored EXCEPT ![e] = "writing"]
      /\ journal' = [journal EXCEPT ![e] = "row"]
      /\ UNCHANGED <<live, queue, passing, ahead, pid, status, stops, inflight, processed, file,
                     lock, lost, marked, active, paused>>
  BY DEF StoredSubmit, liveVars, memory, disk, control
<1>2. /\ "writing" \in BusyStages /\ "writing" \in AtWork /\ stored[e] \in BusyStages
      /\ stored \in [Event -> StoredStages] /\ journal \in [Event -> {"none", "row", "acked"}]
  BY <1>1 DEF IInv, StoredOK, JournalOK, LockedStages, AtWork, BusyStages
<1>3. e \in inflight /\ e \notin processed
  BY <1>1 DEF IInv, MemoryOK, AtWork
<1>4. JournalOK'
  BY <1>1, <1>2 DEF IInv, JournalOK
<1>5. inflight' = inflight \cup {e} /\ \A x \in Event : journal[x] # "none" => journal'[x] # "none"
  BY <1>1, <1>2, <1>3
<1> QED BY <1>1, <1>2, <1>3, <1>4, <1>5, WorkerGoesOn

\* A stored event is written, and remembered as processed: its lock can go.
LEMMA StoredWrittenHolds == ASSUME IInv, NEW e \in Event, StoredWritten(e) PROVE IInv'
<1>1. /\ stored[e] = "writing" /\ stored' = [stored EXCEPT ![e] = "delete"]
      /\ inflight' = inflight \ {e} /\ processed' = processed \cup {e}
      /\ journal' \in {journal, [journal EXCEPT ![e] = "acked"]}
      /\ UNCHANGED <<live, queue, passing, ahead, pid, status, stops, file, lock, lost, marked,
                     active, paused>>
  BY DEF StoredWritten, liveVars, disk, control
<1>2. /\ "delete" \in BusyStages /\ "delete" \notin AtWork /\ stored[e] \in BusyStages
      /\ stored \in [Event -> StoredStages] /\ journal \in [Event -> {"none", "row", "acked"}]
      /\ journal[e] # "none"
  BY <1>1 DEF IInv, StoredOK, JournalOK, LockedStages, AtWork, BusyStages
<1>3. /\ journal' \in [Event -> {"none", "row", "acked"}] /\ journal'[e] # "none"
      /\ \A x \in Event : x # e => journal'[x] = journal[x]
  BY <1>1, <1>2
<1>4. JournalOK'
  <2>1. ASSUME NEW x \in Event, live'[x] = "writing" \/ stored'[x] = "writing" \/ x \in processed'
        PROVE  journal'[x] # "none"
    BY <1>1, <1>2, <1>3, <2>1 DEF IInv, JournalOK
  <2>2. ASSUME stops' = 0, NEW x \in Event, journal'[x] = "acked" PROVE x \in processed'
    BY <1>1, <1>3, <2>2 DEF IInv, JournalOK
  <2> QED BY <1>3, <2>1, <2>2 DEF JournalOK
<1>5. \A x \in Event : journal[x] # "none" => journal'[x] # "none"
  BY <1>3
<1> QED BY <1>1, <1>2, <1>3, <1>4, <1>5, WorkerGoesOn

\* The lock goes, or is to be put back.
LEMMA DeleteHolds == ASSUME IInv, NEW e \in Event, Delete(e) PROVE IInv'
<1>1. /\ stored[e] = "delete" /\ stored \in [Event -> StoredStages] /\ lock \in [Event -> SUBSET Pid]
      /\ UNCHANGED <<live, queue, passing, ahead, pid, status, stops, inflight, processed, file,
                     journal, lost, marked, active, paused>>
  BY DEF IInv, StoredOK, DiskOK, Delete, liveVars, memory, control
<1>2. stored[e] \in BusyStages /\ stored[e] \in LockedStages /\ stored[e] \notin AtWork
  BY <1>1 DEF LockedStages, BusyStages, AtWork
<1>3. CASE lock' = [lock EXCEPT ![e] = @ \ {pid}] /\ stored' = [stored EXCEPT ![e] = "none"]
  <2>1. "none" \in StoredStages /\ "none" \notin LockedStages /\ "none" \notin BusyStages
        /\ "none" \notin AtWork
    BY DEF StoredStages, LockedStages, BusyStages, AtWork
  <2>2. IsFiniteSet(Busy') /\ Cardinality(Busy') <= Workers
    BY <1>3, <2>1, BusyKept DEF IInv
  <2>3. lock' \in [Event -> SUBSET Pid] /\ \A x \in Event : x # e => lock'[x] = lock[x]
    BY <1>1, <1>3
  <2>4. DiskOK' /\ ControlOK'
    BY <1>1, <2>3 DEF IInv, DiskOK, ControlOK
  <2>5. JournalOK'
    BY <1>1, <1>3 DEF IInv, JournalOK
  <2>6. inflight \ {e} = inflight
    <3>1. live[e] = "gone"
      BY <1>1 DEF IInv, StoredOK, Gone
    <3> QED BY <1>2, <3>1 DEF IInv, MemoryOK, AtWork
  <2>7. e \in file' \/ journal'[e] # "none" \/ e \in lost'
    BY <1>1 DEF IInv, Settled
  <2> QED BY <1>1, <1>3, <2>1, <2>2, <2>3, <2>4, <2>5, <2>6, <2>7, StoredMoves
<1>4. CASE UNCHANGED lock /\ stored' = [stored EXCEPT ![e] = "requeue"]
  <2>1. "requeue" \in StoredStages \ AtWork /\ "requeue" # "delete"
    BY DEF StoredStages, LockedStages, AtWork
  <2>2. IsFiniteSet(Busy') /\ Cardinality(Busy') <= Workers
    BY <1>2, <1>4, BusyKept DEF IInv
  <2>3. lost' \subseteq Event
    BY <1>1 DEF IInv, ControlOK
  <2> QED BY <1>1, <1>2, <1>4, <2>1, <2>2, <2>3, StageMoves
<1> QED BY <1>3, <1>4 DEF Delete

\* The lock is put back, or stays.
LEMMA RequeueHolds == ASSUME IInv, NEW e \in Event, Requeue(e) PROVE IInv'
<1>1. /\ stored[e] = "requeue" /\ stored \in [Event -> StoredStages] /\ lock \in [Event -> SUBSET Pid]
      /\ stored' = [stored EXCEPT ![e] = "none"] /\ live[e] = "gone"
      /\ UNCHANGED <<live, queue, passing, ahead, pid, status, stops, inflight, processed, journal,
                     lost, marked, active, paused>>
  BY DEF IInv, StoredOK, Gone, DiskOK, Requeue, liveVars, memory, control
<1>2. /\ "none" \in StoredStages \ AtWork /\ "none" \notin LockedStages /\ "none" \notin BusyStages
      /\ stored[e] \notin AtWork /\ stored[e] \in LockedStages
  BY <1>1 DEF StoredStages, LockedStages, BusyStages, AtWork
<1>3. IsFiniteSet(Busy') /\ Cardinality(Busy') <= Workers
  BY <1>1, <1>2, BusyKept DEF IInv
<1>4. CASE file' = file \cup {e} /\ lock' = [lock EXCEPT ![e] = @ \ {pid}]
  <2>1. lock' \in [Event -> SUBSET Pid] /\ \A x \in Event : x # e => lock'[x] = lock[x]
    BY <1>1, <1>4
  <2>2. DiskOK' /\ ControlOK'
    BY <1>1, <1>4, <2>1 DEF IInv, DiskOK, ControlOK
  <2>3. JournalOK'
    BY <1>1 DEF IInv, JournalOK
  <2>4. inflight \ {e} = inflight
    BY <1>1 DEF IInv, MemoryOK, AtWork
  <2> QED BY <1>1, <1>2, <1>3, <1>4, <2>1, <2>2, <2>3, <2>4, StoredMoves
<1>5. CASE UNCHANGED disk
  <2>1. UNCHANGED <<file, lock>> /\ lost' \subseteq Event
    BY <1>1, <1>5 DEF disk, IInv, ControlOK
  <2> QED BY <1>1, <1>2, <1>3, <2>1, StageMoves
<1> QED BY <1>4, <1>5 DEF Requeue

\* A pass step that changes stages only, of events that are out of the live path and
\* for none of which a worker is taken.
LEMMA PassMoves ==
  ASSUME IInv, stored' \in [Event -> {"none", "picked"} \cup LockedStages],
         UNCHANGED <<live, queue, inflight, processed, file, lock, journal, lost, marked, active,
                     paused, status, pid, stops>>,
         \A x \in Event : stored'[x] \in {"none", "picked", stored[x]},
         \A x \in Event : stored[x] \in LockedStages => stored'[x] = stored[x],
         \A x \in Event : stored'[x] # "none" => passing' /\ Gone(x),
         passing' \in BOOLEAN, status = "down" => ~passing',
         ahead' \subseteq Event, \A x \in ahead' : Gone(x)
  PROVE  IInv'
<1>1. stored' \in [Event -> StoredStages] /\ stored \in [Event -> StoredStages]
  BY DEF StoredStages, IInv, StoredOK
<1>2. \A x \in Event : stored'[x] \in LockedStages => stored[x] = stored'[x]
  BY DEF LockedStages
<1>3. Busy' \in SUBSET Busy
  BY <1>2 DEF Busy
<1>4. IsFiniteSet(Busy') /\ Cardinality(Busy') <= Workers
  <2>1. /\ IsFiniteSet(Busy') /\ Cardinality(Busy') <= Cardinality(Busy)
        /\ Cardinality(Busy') \in Nat /\ Cardinality(Busy) \in Nat
    BY <1>3, CountPart DEF IInv, StoredOK
  <2>2. Cardinality(Busy) <= Workers /\ Workers \in Nat
    BY IngestAssumption DEF IInv, StoredOK
  <2> QED BY <2>1, <2>2
<1>5. \A x \in Event : stored'[x] \in LockedStages => pid' \in lock'[x]
  BY <1>2 DEF IInv, StoredOK
<1>6. StoredOK'
  BY <1>1, <1>4, <1>5 DEF StoredOK, Gone
<1>7. \A x \in Event : stored'[x] \in AtWork <=> stored[x] \in AtWork
  BY <1>1, <1>2 DEF AtWork, LockedStages, StoredStages
<1>8. MemoryOK'
  BY <1>7 DEF IInv, MemoryOK
<1>9. LiveOK' /\ DiskOK' /\ ControlOK'
  BY LiveFrame DEF IInv, liveVars, DiskOK, ControlOK
<1>10. JournalOK' /\ Settled'
  BY <1>2 DEF IInv, JournalOK, Settled, LockedStages
<1>11. Accounted' /\ OneKeeper'
  BY DEF IInv, Accounted, OneKeeper, OnDisk
<1> QED BY <1>6, <1>8, <1>9, <1>10, <1>11 DEF IInv

\* A pass picks names from the directory.
LEMMA StartPassHolds == ASSUME IInv, StartPass PROVE IInv'
<1> DEFINE names == IF ahead = {} THEN file ELSE ahead
<1>1. PICK S \in SUBSET names :
        /\ ahead' = names \ S
        /\ stored' = [x \in Event |-> IF x \in S THEN "picked" ELSE stored[x]]
  BY DEF StartPass
<1>2. /\ ~passing /\ passing' = TRUE /\ status # "down"
      /\ UNCHANGED <<live, queue, inflight, processed, file, lock, journal, lost, marked, active,
                     paused, status, pid, stops>>
  BY DEF StartPass, Running, liveVars, memory, disk, control
<1>3. \A x \in Event : stored[x] = "none"
  BY <1>2 DEF IInv, StoredOK
<1>4. names \subseteq Event /\ \A x \in names : Gone(x)
  BY DEF IInv, StoredOK, DiskOK, OneKeeper, OnDisk, Gone
<1> HIDE DEF names
<1>5. /\ stored' \in [Event -> {"none", "picked"} \cup LockedStages]
      /\ \A x \in Event : stored'[x] \in {"none", "picked"}
      /\ \A x \in Event : stored'[x] # "none" => x \in S
  BY <1>1, <1>3
<1>6. \A x \in Event : stored[x] \notin LockedStages
  BY <1>3 DEF LockedStages
<1>7. ahead' \subseteq Event /\ \A x \in ahead' : Gone(x)
  BY <1>1, <1>4
<1>8. \A x \in Event : stored'[x] # "none" => Gone(x)
  BY <1>1, <1>4, <1>5
<1> QED BY <1>2, <1>5, <1>6, <1>7, <1>8, PassMoves

\* The names not yet locked are left for a later pass.
LEMMA LockNoMoreHolds == ASSUME IInv, LockNoMore PROVE IInv'
<1>1. /\ stored' = [x \in Event |-> IF stored[x] = "picked" THEN "none" ELSE stored[x]]
      /\ UNCHANGED <<live, queue, passing, ahead, inflight, processed, file, lock, journal, lost,
                     marked, active, paused, status, pid, stops>>
  BY DEF LockNoMore, liveVars, memory, disk, control
<1>2. /\ stored \in [Event -> StoredStages] /\ passing \in BOOLEAN /\ ahead \subseteq Event
      /\ status = "down" => ~passing
      /\ \A x \in ahead : Gone(x)
      /\ \A x \in Event : stored[x] # "none" => passing /\ Gone(x)
  BY DEF IInv, StoredOK
<1>3. stored' \in [Event -> {"none", "picked"} \cup LockedStages]
  BY <1>1, <1>2 DEF StoredStages
<1>4. /\ \A x \in Event : stored'[x] \in {"none", "picked", stored[x]}
      /\ \A x \in Event : stored[x] \in LockedStages => stored'[x] = stored[x]
  BY <1>1, <1>2 DEF LockedStages
<1>5. \A x \in Event : stored'[x] # "none" => passing' /\ Gone(x)
  BY <1>1, <1>2
<1> QED BY <1>1, <1>2, <1>3, <1>4, <1>5, PassMoves

\* The pass is over.
LEMMA EndPassHolds == ASSUME IInv, EndPass PROVE IInv'
<1>1. /\ \A x \in Event : stored[x] = "none"
      /\ passing' = FALSE /\ stored' = stored
      /\ UNCHANGED <<live, queue, ahead, inflight, processed, file, lock, journal, lost, marked,
                     active, paused, status, pid, stops>>
  BY DEF EndPass, liveVars, memory, disk, control
<1>2. /\ stored \in [Event -> {"none", "picked"} \cup LockedStages]
      /\ ahead \subseteq Event /\ \A x \in ahead : Gone(x)
  BY DEF IInv, StoredOK, StoredStages
<1> QED BY <1>1, <1>2, PassMoves

\* The lock of another process becomes a file again.
LEMMA RecoverHolds == ASSUME IInv, NEW e \in Event, NEW p \in Pid, Recover(e, p) PROVE IInv'
<1>1. /\ p \in lock[e] /\ p # pid /\ file' = file \cup {e} /\ lock' = [lock EXCEPT ![e] = @ \ {p}]
      /\ UNCHANGED <<live, queue, stored, passing, ahead, inflight, processed, journal, lost,
                     marked, active, paused, status, pid, stops>>
  BY DEF Recover, liveVars, passVars, memory, control
<1>2. lock \in [Event -> SUBSET Pid] /\ file \subseteq Event
  BY DEF IInv, DiskOK
<1>3. /\ lock' \in [Event -> SUBSET Pid] /\ lock'[e] = lock[e] \ {p}
      /\ \A x \in Event : x # e => lock'[x] = lock[x]
  BY <1>1, <1>2
<1>4. LiveOK' /\ MemoryOK' /\ ControlOK' /\ JournalOK'
  BY <1>1, LiveFrame DEF IInv, liveVars, MemoryOK, ControlOK, JournalOK
<1>5. DiskOK' /\ Settled'
  BY <1>1, <1>2, <1>3 DEF IInv, DiskOK, Settled
<1>6. \A x \in Event : stored'[x] \in LockedStages => pid' \in lock'[x]
  BY <1>1, <1>3 DEF IInv, StoredOK
<1>7. StoredOK'
  BY <1>1, <1>6 DEF IInv, StoredOK, Gone, Busy
<1>8. \A x \in Event : OnDisk(x)' <=> OnDisk(x)
  BY <1>1, <1>3 DEF OnDisk
<1>9. Accounted' /\ OneKeeper'
  BY <1>1, <1>8 DEF IInv, Accounted, OneKeeper
<1> QED BY <1>4, <1>5, <1>7, <1>9 DEF IInv

-----------------------------------------------------------------------------
(* The process as a whole *)

\* Topics become active or inactive.
LEMMA RefreshHolds == ASSUME IInv, NEW S \in SUBSET Topic, Refresh(S) PROVE IInv'
<1>1. /\ active' = S
      /\ UNCHANGED <<live, queue, stored, passing, ahead, inflight, processed, file, lock, journal,
                     lost, marked, paused, status, pid, stops>>
  BY DEF Refresh, liveVars, passVars, memory, disk
<1>2. ControlOK'
  BY <1>1 DEF IInv, ControlOK
<1> QED BY <1>1, <1>2, QuietHolds

\* Replay control pauses the process, or resumes it.
LEMMA SetPausedHolds == ASSUME IInv, SetPaused PROVE IInv'
<1>1. /\ paused' = ~paused
      /\ UNCHANGED <<live, queue, stored, passing, ahead, inflight, processed, file, lock, journal,
                     lost, marked, active, status, pid, stops>>
  BY DEF SetPaused, liveVars, passVars, memory, disk
<1>2. ControlOK'
  BY <1>1 DEF IInv, ControlOK
<1> QED BY <1>1, <1>2, QuietHolds

\* A shutdown goes on.
LEMMA BecomesHolds ==
  ASSUME IInv, NEW s \in {"releasing", "draining", "closing", "closed"}, Becomes(s)
  PROVE  IInv'
<1>1. /\ status' = s
      /\ UNCHANGED <<live, queue, stored, passing, ahead, inflight, processed, file, lock, journal,
                     lost, marked, active, paused, pid, stops>>
  BY DEF Becomes, liveVars, passVars, memory, disk
<1>2. ControlOK'
  BY <1>1 DEF IInv, ControlOK
<1> QED BY <1>1, <1>2, QuietHolds

\* The empty queue.
LEMMA EmptyQueue == <<>> \in Seq(Event) /\ Len(<<>>) = 0 /\ IsInjective(<<>>) /\ ToSet(<<>>) = {}
<1> DEFINE q == <<>>
<1>1. q \in Seq(Event) /\ Len(q) = 0
  OBVIOUS
<1> HIDE DEF q
<1>2. \A i \in 1..Len(q) : FALSE
  BY <1>1
<1>3. IsInjective(q)
  BY <1>1, <1>2, DistinctEntries
<1>4. ToSet(q) = {}
  BY <1>1, <1>2, EntriesAre
<1> QED BY <1>1, <1>3, <1>4 DEF q

\* The process ends: what was in its memory only is gone.
LEMMA StopHolds == ASSUME IInv, Stop PROVE IInv'
<1>1. /\ status' = "down" /\ stops < MaxStops /\ stops' = stops + 1
      /\ live' = [x \in Event |-> IF live[x] \in InMemory THEN "gone" ELSE live[x]]
      /\ lost' = lost \cup {x \in Event : live[x] \in InMemory /\ journal[x] = "none"}
      /\ queue' = <<>> /\ inflight' = {} /\ processed' = {}
      /\ stored' = [x \in Event |-> "none"] /\ passing' = FALSE /\ ahead' = {}
      /\ active' = {} /\ paused' = FALSE
      /\ UNCHANGED <<file, lock, journal, marked, pid>>
  BY DEF Stop, disk
<1>2. live \in [Event -> LiveStages]
  BY DEF IInv, LiveOK
<1>3. live' \in [Event -> LiveStages] /\ \A x \in Event : live'[x] \notin InMemory
  BY <1>1, <1>2 DEF LiveStages, InMemory
<1>4. Slots' = {} /\ Buffered' = {} /\ {x \in Event : live'[x] = "queued"} = {}
  BY <1>3 DEF Slots, Buffered, InMemory, AtWork
<1>5. queue' \in Seq(Event) /\ Len(queue') = 0 /\ IsInjective(queue') /\ ToSet(queue') = {}
  BY <1>1, EmptyQueue
<1>6. LiveOK'
  <2>1. IsFiniteSet({}) /\ Cardinality({}) = 0
    BY FS_EmptySet
  <2>2. Pending' = 0
    BY <1>4, <1>5, <2>1 DEF Pending
  <2>3. 0 <= MaxPending /\ 0 <= Concurrency /\ 0 <= BufferMax
    BY IngestAssumption
  <2> QED BY <1>3, <1>4, <1>5, <2>1, <2>2, <2>3 DEF LiveOK
<1>7. Busy' = {}
  BY <1>1 DEF Busy, LockedStages
<1>8. StoredOK'
  <2>1. IsFiniteSet({}) /\ Cardinality({}) = 0 /\ 0 <= Workers
    BY FS_EmptySet, IngestAssumption
  <2>2. "none" \in StoredStages /\ "none" \notin LockedStages
    BY DEF StoredStages, LockedStages
  <2> QED BY <1>1, <1>7, <2>1, <2>2 DEF StoredOK
<1>9. MemoryOK'
  BY <1>1, <1>3 DEF MemoryOK, AtWork, InMemory
<1>10. DiskOK' /\ ControlOK'
  <2>1. stops' \in 0..MaxStops
    BY <1>1, IngestAssumption DEF IInv, ControlOK
  <2>2. lost' \subseteq Event /\ active' \subseteq Topic /\ pid' \in Pid
    BY <1>1 DEF IInv, ControlOK
  <2>3. paused' \in BOOLEAN
    BY <1>1
  <2>4. status' \in {"up", "releasing", "draining", "closing", "closed", "down"}
    BY <1>1
  <2> QED BY <1>1, <2>1, <2>2, <2>3, <2>4 DEF IInv, DiskOK, ControlOK
<1>11. JournalOK'
  <2>1. stops' # 0
    BY <1>1, IngestAssumption DEF IInv, ControlOK
  <2>2. \A x \in Event : live'[x] # "writing" /\ stored'[x] # "writing"
    BY <1>1, <1>3 DEF InMemory, AtWork
  <2> QED BY <1>1, <2>1, <2>2 DEF IInv, JournalOK
<1>12. Settled'
  BY <1>1 DEF Settled
<1>13. Accounted'
  BY <1>1, <1>2 DEF IInv, Accounted, OnDisk
<1>14. OneKeeper'
  BY <1>1, <1>2 DEF IInv, OneKeeper, OnDisk
<1> QED BY <1>6, <1>8, <1>9, <1>10, <1>11, <1>12, <1>13, <1>14 DEF IInv

\* A process starts, with any process id: nothing is under way, so no lock counts as
\* its own.
LEMMA StartHolds == ASSUME IInv, NEW p \in Pid, Start(p) PROVE IInv'
<1>1. /\ status = "down" /\ status' = "up" /\ pid' = p
      /\ UNCHANGED <<live, queue, stored, passing, ahead, inflight, processed, file, lock, journal,
                     lost, marked, active, paused, stops>>
  BY DEF Start, liveVars, passVars, memory, disk
<1>2. \A x \in Event : stored[x] = "none"
  BY <1>1 DEF IInv, StoredOK
<1>3. \A x \in Event : stored'[x] \notin LockedStages
  BY <1>1, <1>2 DEF LockedStages
<1>4. StoredOK'
  BY <1>1, <1>3 DEF IInv, StoredOK, Gone, Busy
<1>5. LiveOK'
  BY <1>1, LiveFrame DEF IInv, liveVars
<1>6. MemoryOK' /\ DiskOK' /\ ControlOK' /\ JournalOK' /\ Settled'
  BY <1>1 DEF IInv, MemoryOK, DiskOK, ControlOK, JournalOK, Settled
<1>7. Accounted' /\ OneKeeper'
  BY <1>1 DEF IInv, Accounted, OneKeeper, OnDisk
<1> QED BY <1>4, <1>5, <1>6, <1>7 DEF IInv

\* The first process starts with an empty spool, or with files of an earlier release.
LEMMA InitHolds == ASSUME Init PROVE IInv
<1>1. <<>> \in Seq(Event) /\ Len(<<>>) = 0 /\ IsInjective(<<>>) /\ ToSet(<<>>) = {}
  BY EmptyQueue
<1>2. Slots = {} /\ Buffered = {} /\ Busy = {} /\ {x \in Event : live[x] = "queued"} = {}
  BY DEF Init, Slots, Buffered, Busy, AtWork, LockedStages
<1>3. IsFiniteSet({}) /\ Cardinality({}) = 0
  BY FS_EmptySet
<1>4. Pending = 0
  BY <1>1, <1>2, <1>3 DEF Init, Pending
<1>5. 0 <= MaxPending /\ 0 <= Concurrency /\ 0 <= BufferMax /\ 0 <= Workers
  BY IngestAssumption
<1>6. LiveOK
  BY <1>1, <1>2, <1>3, <1>4, <1>5 DEF Init, LiveOK, LiveStages
<1>7. StoredOK
  BY <1>2, <1>3, <1>5 DEF Init, StoredOK, StoredStages, LockedStages
<1>8. MemoryOK /\ DiskOK /\ JournalOK /\ Settled
  BY IngestAssumption DEF Init, MemoryOK, DiskOK, JournalOK, Settled, AtWork
<1>9. ControlOK
  <2>1. (CHOOSE p \in Pid : TRUE) \in Pid
    BY IngestAssumption
  <2>2. pid \in Pid
    BY <2>1 DEF Init
  <2>3. stops \in 0..MaxStops
    BY IngestAssumption DEF Init
  <2>4. lost \subseteq Event /\ marked \subseteq Spilled /\ active \subseteq Topic /\ paused \in BOOLEAN
    BY DEF Init
  <2>5. status \in {"up", "releasing", "draining", "closing", "closed", "down"}
    BY DEF Init
  <2> QED BY <2>2, <2>3, <2>4, <2>5 DEF ControlOK
<1>10. Accounted /\ OneKeeper
  BY DEF Init, Accounted, OneKeeper, OnDisk
<1> QED BY <1>6, <1>7, <1>8, <1>9, <1>10 DEF IInv

\* Every step keeps the invariant.
LEMMA StepHolds == ASSUME IInv, [Next]_vars PROVE IInv'
<1>1. CASE UNCHANGED vars
  <2>1. UNCHANGED <<live, queue, stored, passing, ahead, inflight, processed, file, lock, journal,
                    lost, marked, active, paused, status, pid, stops>>
    BY <1>1 DEF vars
  <2>2. ControlOK'
    BY <2>1 DEF IInv, ControlOK
  <2> QED BY <2>1, <2>2, QuietHolds
<1>2. ASSUME NEW e \in Event, Receive(e) PROVE IInv'
  BY <1>2, ReceiveHolds
<1>3. ASSUME NEW e \in Event, LiveStep(e) PROVE IInv'
  BY <1>3, TakePausedHolds, TakeDroppedHolds, TakeInactiveHolds, TakeActiveHolds, LiveRetryHolds,
     LiveSubmitHolds, LiveRefusedHolds, LiveSpillHolds, LiveWrittenHolds DEF LiveStep
<1>4. ASSUME NEW e \in Event, StoredStep(e) PROVE IInv'
  BY <1>4, LockHolds, WorkHolds, StoredPausedHolds, StoredDroppedHolds, StoredDeferredHolds,
     StoredActiveHolds, StoredFailsHolds, StoredSubmitHolds, StoredWrittenHolds, DeleteHolds,
     RequeueHolds DEF StoredStep
<1>5. ASSUME NEW e \in Event, NEW p \in Pid, Recover(e, p) PROVE IInv'
  BY <1>5, RecoverHolds
<1>6. CASE Flush \/ StartPass \/ LockNoMore \/ EndPass
  BY <1>6, FlushHolds, StartPassHolds, LockNoMoreHolds, EndPassHolds
<1>7. ASSUME NEW S \in SUBSET Topic, Refresh(S) PROVE IInv'
  BY <1>7, RefreshHolds
<1>8. CASE SetPaused
  BY <1>8, SetPausedHolds
<1>9. CASE Release \/ StopMqtt \/ LiveIdle \/ StoredIdle
  BY <1>9, BecomesHolds DEF Release, StopMqtt, LiveIdle, StoredIdle
<1>10. CASE Stop
  BY <1>10, StopHolds
<1>11. ASSUME NEW p \in Pid, Start(p) PROVE IInv'
  BY <1>11, StartHolds
<1> QED BY <1>1, <1>2, <1>3, <1>4, <1>5, <1>6, <1>7, <1>8, <1>9, <1>10, <1>11 DEF Next

\* The invariant holds in every reachable state.
LEMMA IInvHolds == Spec => []IInv
BY InitHolds, StepHolds, PTL DEF Spec

-----------------------------------------------------------------------------
(* The theorems *)

\* The types, the bounds of the queue, of its workers, of the buffer and of the pass
\* (BoundedIngestQueue, bufferInactiveEvent, StoredEventReplay), and that the ids in
\* flight are those of the events at work, on either way (inflightEventIds).
THEOREM PathTypes == Spec => []TypeOK
<1>1. ASSUME IInv PROVE TypeOK
  <2>1. /\ live \in [Event -> LiveStages] /\ stored \in [Event -> StoredStages]
        /\ IsInjective(queue) /\ ToSet(queue) = {e \in Event : live[e] = "queued"}
    BY <1>1 DEF IInv, LiveOK, StoredOK
  <2>2. /\ Pending <= MaxPending /\ Cardinality(Slots) <= Concurrency
        /\ Cardinality(Buffered) <= BufferMax /\ Cardinality(Busy) <= Workers
    BY <1>1 DEF IInv, LiveOK, StoredOK
  <2>3. /\ passing \in BOOLEAN /\ ahead \subseteq Event
        /\ \A e \in Event : stored[e] # "none" => passing /\ live[e] \in {"none", "gone"}
        /\ \A e \in Event : stored[e] \in LockedStages => pid \in lock[e]
    BY <1>1 DEF IInv, StoredOK, Gone
  <2>4. /\ inflight = {e \in Event : live[e] \in AtWork} \cup {e \in Event : stored[e] \in AtWork}
        /\ processed \subseteq Event /\ file \subseteq Event /\ lock \in [Event -> SUBSET Pid]
        /\ journal \in [Event -> {"none", "row", "acked"}]
    BY <1>1 DEF IInv, MemoryOK, DiskOK, JournalOK
  <2>5. /\ lost \subseteq Event /\ active \subseteq Topic /\ paused \in BOOLEAN
        /\ status \in {"up", "releasing", "draining", "closing", "closed", "down"}
        /\ pid \in Pid /\ stops \in 0..MaxStops
    BY <1>1 DEF IInv, ControlOK
  <2>6. marked \subseteq Spilled
    BY <1>1 DEF IInv, ControlOK
  <2> QED BY <2>1, <2>2, <2>3, <2>4, <2>5, <2>6 DEF TypeOK
<1> QED BY <1>1, IInvHolds, PTL

\* A received event is in memory, in the spool or in the journal, or its loss has a
\* cause that the program names (enqueue, spill, processEvent, bufferInactiveEvent).
THEOREM NothingVanishes == Spec => []Accounted
<1>1. IInv => Accounted
  BY DEF IInv
<1> QED BY <1>1, IInvHolds, PTL

\* The two ways through processEvent() never hold the same event.
THEOREM OneWayAtATime == Spec => []OneKeeper
<1>1. IInv => OneKeeper
  BY DEF IInv
<1> QED BY <1>1, IInvHolds, PTL

\* Files go to the spool, and none leaves it, in a step of the live path.
LEMMA LiveKeepsSpool ==
  ASSUME NEW e \in Event, LiveStep(e)
  PROVE  file \subseteq file' /\ lock' = lock
<1>1. ASSUME Save({e}) PROVE file \subseteq file'
  BY <1>1 DEF Save
<1>2. CASE TakePaused(e) \/ LiveRetry(e) \/ LiveSpill(e)
  BY <1>1, <1>2 DEF TakePaused, LiveRetry, LiveSpill
<1>3. CASE TakeDropped(e) \/ TakeInactive(e) \/ TakeActive(e) \/ LiveSubmit(e) \/ LiveRefused(e)
             \/ LiveWritten(e)
  BY <1>3 DEF TakeDropped, TakeInactive, TakeActive, LiveSubmit, LiveRefused, LiveWritten, disk
<1> QED BY <1>2, <1>3 DEF LiveStep

\* A step of the replay pass moves a file under a lock and back, and only Delete()
\* takes the last copy of an event.
LEMMA StoredKeepsSpool ==
  ASSUME IInv, NEW e \in Event, StoredStep(e), NEW x \in Event, OnDisk(x), ~OnDisk(x)'
  PROVE  x = e /\ stored[x] = "delete" /\ file' = file
<1>1. lock \in [Event -> SUBSET Pid]
  BY DEF IInv, DiskOK
<1>2. CASE Lock(e)
  BY <1>1, <1>2 DEF Lock, OnDisk, disk
<1>3. CASE Work(e) \/ StoredPaused(e) \/ StoredDropped(e) \/ StoredDeferred(e) \/ StoredActive(e)
  BY <1>3 DEF Work, StoredPaused, StoredDropped, StoredDeferred, StoredActive, OnDisk, disk
<1>4. CASE StoredFails(e) \/ StoredSubmit(e) \/ StoredWritten(e)
  BY <1>4 DEF StoredFails, StoredSubmit, StoredWritten, OnDisk, disk
<1>5. CASE Delete(e)
  BY <1>1, <1>5 DEF Delete, OnDisk
<1>6. CASE Requeue(e)
  BY <1>1, <1>6 DEF Requeue, OnDisk, disk
<1> QED BY <1>2, <1>3, <1>4, <1>5, <1>6 DEF StoredStep

\* The last file of a spooled event goes only when the journal has accepted it, or when
\* it is not to be stored, what an earlier release gave up among it (StoredEventReplay,
\* README "Stored replay removes its original only after the target journal accepts it
\* durably").
THEOREM SpoolIsKept == Spec => SpoolKept
<1>1. ASSUME IInv, [Next]_vars, NEW x \in Archivable, OnDisk(x), ~OnDisk(x)'
      PROVE  journal[x] # "none" \/ (x \in marked /\ x \in lost)
  <2>0. x \in Event /\ x \notin Foreign \cup Invalid /\ lock \in [Event -> SUBSET Pid]
    BY <1>1 DEF Archivable, IInv, DiskOK
  <2>1. ~(file \subseteq file' /\ lock' = lock)
    BY <1>1, <2>0 DEF OnDisk
  <2>2. ASSUME NEW e \in Event, Receive(e) PROVE FALSE
    BY <2>1, <2>2 DEF Receive, Enqueued, Save
  <2>3. ASSUME NEW e \in Event, LiveStep(e) PROVE FALSE
    BY <2>1, <2>3, LiveKeepsSpool
  <2>4. ASSUME NEW e \in Event, StoredStep(e)
        PROVE  journal[x] # "none" \/ (x \in marked /\ x \in lost)
    <3>1. stored[x] = "delete" /\ file' = file
      BY <1>1, <2>0, <2>4, StoredKeepsSpool
    <3>2. x \notin file
      BY <1>1, <3>1 DEF OnDisk
    <3> QED BY <1>1, <2>0, <3>1, <3>2 DEF IInv, Settled
  <2>5. ASSUME NEW e \in Event, NEW p \in Pid, Recover(e, p) PROVE FALSE
    BY <1>1, <2>0, <2>5 DEF Recover, OnDisk
  <2>6. CASE Flush
    BY <2>1, <2>6 DEF Flush, Enqueued, Save
  <2>7. CASE StartPass \/ LockNoMore \/ EndPass
    BY <2>1, <2>7 DEF StartPass, LockNoMore, EndPass, disk
  <2>8. CASE \/ \E S \in SUBSET Topic : Refresh(S)
             \/ SetPaused \/ Release \/ StopMqtt \/ LiveIdle \/ StoredIdle
             \/ Stop \/ \E p \in Pid : Start(p)
    BY <2>1, <2>8
    DEF Refresh, SetPaused, Release, StopMqtt, LiveIdle, StoredIdle, Becomes, Stop, Start, disk
  <2>9. CASE UNCHANGED vars
    BY <2>1, <2>9 DEF vars
  <2> QED BY <1>1, <2>2, <2>3, <2>4, <2>5, <2>6, <2>7, <2>8, <2>9 DEF Next
<1>2. ASSUME IInv, [Next]_vars
      PROVE  \A e \in Archivable :
               OnDisk(e) /\ ~OnDisk(e)' => journal[e] # "none" \/ (e \in marked /\ e \in lost)
  BY <1>1, <1>2
<1> QED BY <1>2, IInvHolds, PTL DEF Spec, SpoolKept

\* Only the submission of an event at work puts a row of it into the journal, on
\* either way.
LEMMA SubmitsAtWork ==
  ASSUME IInv, [Next]_vars, NEW x \in Event, journal[x] # "row", journal'[x] = "row"
  PROVE  x \in inflight
<1>0. journal \in [Event -> {"none", "row", "acked"}]
  BY DEF IInv, JournalOK
<1>1. ASSUME NEW e \in Event, LiveStep(e) PROVE x \in inflight
  <2>1. CASE LiveSubmit(e) \/ LiveRefused(e)
    BY <1>0, <2>1 DEF LiveSubmit, LiveRefused, AtWork, IInv, MemoryOK
  <2>2. CASE LiveWritten(e)
    BY <1>0, <2>2 DEF LiveWritten
  <2>3. CASE TakePaused(e) \/ TakeDropped(e) \/ TakeInactive(e) \/ TakeActive(e) \/ LiveRetry(e)
               \/ LiveSpill(e)
    BY <2>3 DEF TakePaused, TakeDropped, TakeInactive, TakeActive, LiveRetry, LiveSpill
  <2> QED BY <1>1, <2>1, <2>2, <2>3 DEF LiveStep
<1>2. ASSUME NEW e \in Event, StoredStep(e) PROVE x \in inflight
  <2>1. CASE StoredSubmit(e) \/ StoredFails(e)
    BY <1>0, <2>1 DEF StoredSubmit, StoredFails, AtWork, IInv, MemoryOK
  <2>2. CASE StoredWritten(e)
    BY <1>0, <2>2 DEF StoredWritten
  <2>3. CASE Lock(e) \/ Work(e) \/ StoredPaused(e) \/ StoredDropped(e) \/ StoredDeferred(e)
               \/ StoredActive(e) \/ Delete(e) \/ Requeue(e)
    BY <2>3
    DEF Lock, Work, StoredPaused, StoredDropped, StoredDeferred, StoredActive, Delete, Requeue
  <2> QED BY <1>2, <2>1, <2>2, <2>3 DEF StoredStep
<1>3. CASE \/ \E e \in Event : Receive(e)
           \/ \E e \in Event, p \in Pid : Recover(e, p)
           \/ Flush \/ StartPass \/ LockNoMore \/ EndPass
           \/ \E S \in SUBSET Topic : Refresh(S)
           \/ SetPaused \/ Release \/ StopMqtt \/ LiveIdle \/ StoredIdle
           \/ Stop \/ \E p \in Pid : Start(p)
  <2>1. journal' = journal
    BY <1>3
    DEF Receive, Recover, Flush, StartPass, LockNoMore, EndPass, Refresh, SetPaused, Release, StopMqtt,
        LiveIdle, StoredIdle, Becomes, Stop, Start
  <2> QED BY <2>1
<1>4. CASE UNCHANGED vars
  BY <1>4 DEF vars
<1> QED BY <1>1, <1>2, <1>3, <1>4 DEF Next

\* A process puts no event into the journal again once its receipt is dropped
\* (processedEventIds).
THEOREM EventsWrittenOnce == Spec => WrittenOnce
<1>1. ASSUME IInv, [Next]_vars, NEW x \in Event, journal[x] = "acked", journal'[x] = "row"
      PROVE  x \notin processed /\ stops > 0
  <2>1. x \in inflight
    BY <1>1, SubmitsAtWork
  <2>2. x \notin processed
    BY <1>1, <2>1 DEF IInv, MemoryOK
  <2>3. stops # 0 /\ stops \in 0..MaxStops
    BY <1>1, <2>2 DEF IInv, JournalOK, ControlOK
  <2> QED BY <2>2, <2>3, IngestAssumption
<1>2. ASSUME IInv, [Next]_vars
      PROVE  \A e \in Event :
               journal[e] = "acked" /\ journal'[e] = "row" => e \notin processed /\ stops > 0
  BY <1>1, <1>2
<1> QED BY <1>2, IInvHolds, PTL DEF Spec, WrittenOnce

=============================================================================
