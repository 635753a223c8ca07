------------------------ MODULE TargetJournalProofs ------------------------
(***************************************************************************)
(* What TargetJournal keeps for every set of parts, tables, selectors and  *)
(* requests, and for every bound: the types, the totals, the trace of an   *)
(* uncertain write, the order of a table, and that the journal implements  *)
(* DurableQueue.  The policy has a module of its own,                      *)
(* TargetJournalPolicyProofs.                                              *)
(***************************************************************************)
EXTENDS TargetJournal, FiniteSetTheorems, TLAPS

-----------------------------------------------------------------------------
(* Counting the rows of a table.                                           *)

LEMMA CountType ==
  ASSUME NEW S \in SUBSET Part, NEW t
  PROVE  IsFiniteSet(At(S, t)) /\ Cardinality(At(S, t)) \in Nat
  <1>1. At(S, t) \in SUBSET Part
    BY DEF At
  <1> QED
    BY <1>1, PartsAssumption, FS_Subset, FS_CardinalityType

LEMMA CountAdd ==
  ASSUME NEW S \in SUBSET Part, NEW R \in SUBSET Part, S \cap R = {}, NEW t
  PROVE  Cardinality(At(S \cup R, t)) = Cardinality(At(S, t)) + Cardinality(At(R, t))
  <1> DEFINE A == At(S, t)
             B == At(R, t)
  <1>1. At(S \cup R, t) = A \cup B
    BY DEF At
  <1>2. A \cap B = {}
    BY DEF At
  <1>3. IsFiniteSet(A) /\ IsFiniteSet(B) /\ Cardinality(A) \in Nat /\ Cardinality(B) \in Nat
    BY CountType
  <1> HIDE DEF A, B
  <1>4. Cardinality(A \cup B) = Cardinality(A) + Cardinality(B) - Cardinality(A \cap B)
    BY <1>3, FS_Union
  <1>5. Cardinality(A \cap B) = 0
    BY <1>2, FS_EmptySet
  <1>6. Cardinality(A \cup B) = Cardinality(A) + Cardinality(B)
    BY <1>3, <1>4, <1>5
  <1> QED
    BY <1>1, <1>6 DEF A, B

LEMMA CountOne ==
  ASSUME NEW i \in Part, NEW t
  PROVE  Cardinality(At({i}, t)) = IF TargetOf[i] = t THEN 1 ELSE 0
  <1>1. CASE TargetOf[i] = t
    <2>1. At({i}, t) = {i}
      BY <1>1 DEF At
    <2> QED
      BY <1>1, <2>1, FS_Singleton
  <1>2. CASE TargetOf[i] # t
    <2>1. At({i}, t) = {}
      BY <1>2 DEF At
    <2> QED
      BY <1>2, <2>1, FS_EmptySet
  <1> QED
    BY <1>1, <1>2

LEMMA CountInsert ==
  ASSUME NEW S \in SUBSET Part, NEW i \in Part \ S, NEW t
  PROVE  Cardinality(At(S \cup {i}, t))
           = Cardinality(At(S, t)) + (IF TargetOf[i] = t THEN 1 ELSE 0)
  <1>1. Cardinality(At(S \cup {i}, t)) = Cardinality(At(S, t)) + Cardinality(At({i}, t))
    BY CountAdd
  <1>2. Cardinality(At({i}, t)) = IF TargetOf[i] = t THEN 1 ELSE 0
    BY CountOne
  <1> QED
    BY <1>1, <1>2

LEMMA CountRemove ==
  ASSUME NEW S \in SUBSET Part, NEW i \in S, NEW t
  PROVE  Cardinality(At(S \ {i}, t))
           = Cardinality(At(S, t)) - (IF TargetOf[i] = t THEN 1 ELSE 0)
  <1>1. S \ {i} \in SUBSET Part /\ i \in Part \ (S \ {i}) /\ (S \ {i}) \cup {i} = S
    OBVIOUS
  <1>2. Cardinality(At(S, t)) = Cardinality(At(S \ {i}, t)) + (IF TargetOf[i] = t THEN 1 ELSE 0)
    BY <1>1, CountInsert
  <1>3. Cardinality(At(S \ {i}, t)) \in Nat
    BY <1>1, CountType
  <1> QED
    BY <1>2, <1>3

-----------------------------------------------------------------------------
(* The inductive invariant of the rows.  It does not mention the policy:   *)
(* whatever is paused, the rows are kept right.                            *)

RowTypes ==
  /\ queued \subseteq Part /\ confirmed \subseteq Part /\ queued \cap confirmed = {}
  /\ ahead \in [Part -> SUBSET Part]
  /\ attempted \subseteq queued /\ inWrite \subseteq queued /\ delayed \subseteq attempted
  /\ scheduled \subseteq queued /\ writing \subseteq queued /\ scheduled \cap writing = {}
  /\ sent \subseteq Part /\ inDb \subseteq sent
  \* a row that waits for its retry has no job, and a job holds the current
  \* attempts of its row: else the totals would drift
  /\ delayed \cap Jobs = {}
  /\ snapshot = Jobs \cap attempted

Counted ==
  /\ pending \in [Target -> Nat] /\ retrying \in [Target -> Nat]
  /\ \A t \in Target : pending[t] = Cardinality(At(queued, t)) /\ pending[t] <= MaxPending
  /\ \A t \in Target : retrying[t] = Cardinality(At(attempted, t))

\* What left the queue is in the database
Delivery == UncertainLeavesTrace /\ sent \ queued \subseteq inDb

\* ahead is the order of seq: within the table, and transitive
Ordered ==
  \A i \in queued :
    /\ ahead[i] \subseteq At(queued, TargetOf[i])
    /\ \A j \in ahead[i] : ahead[j] \subseteq ahead[i]

RowInv == RowTypes /\ Counted /\ Delivery /\ Ordered

LEMMA RowInit == Init => RowInv
  <1> SUFFICES ASSUME Init PROVE RowInv
    OBVIOUS
  <1>1. RowTypes
    BY DEF Init, RowTypes, Jobs
  <1>2. Counted
    <2>1. \A t \in Target : At({}, t) = {}
      BY DEF At
    <2> QED
      BY <2>1, FS_EmptySet, BoundsAssumption DEF Init, Counted
  <1>3. Delivery /\ Ordered
    BY DEF Init, Delivery, UncertainLeavesTrace, Ordered
  <1> QED
    BY <1>1, <1>2, <1>3 DEF RowInv

LEMMA HeadsFree ==
  ASSUME NEW q, NEW a, NEW t, NEW n
  PROVE  Heads(q, a, t, n) \subseteq At(q, t) \ (Jobs \cup delayed)
  BY DEF Heads, Startable, At

\* Installing jobs for free rows keeps the types
LEMMA StartTypes ==
  ASSUME RowTypes, NEW S, Start(S), S \cap (Jobs \cup delayed) = {}
  PROVE  /\ snapshot' = Jobs' \cap attempted
         /\ delayed \cap Jobs' = {}
         /\ scheduled' \cap writing' = {}
         /\ writing' = writing
         /\ scheduled' = scheduled \cup S
  BY DEF RowTypes, Start, Jobs

-----------------------------------------------------------------------------
(* One lemma per action that changes a row, a job or the database.         *)

LEMMA SubmitRows ==
  ASSUME RowInv, NEW p \in Packet, Submit(p)
  PROVE  RowInv'
  <1> DEFINE new == p \ (queued \cup confirmed)
             np == Observing(p)
             a == [i \in Part |-> IF i \in new THEN At(queued, TargetOf[i]) ELSE ahead[i]]
             heads == UNION {Heads(queued \cup new, a, t, 1) :
                               t \in {u \in Target : At(p, u) # {} /\ ~PausedBy(np, u)}}
  <1>1. /\ p \in SUBSET Part /\ new \in SUBSET Part
        /\ new \cap (queued \cup confirmed) = {}
    BY PartsAssumption
  <1>2. /\ Fits(new)
        /\ queued' = queued \cup new
        /\ ahead' = a
        /\ pending' = [t \in Target |-> pending[t] + Cardinality(At(new, t))]
        /\ sent' = sent \ new
        /\ inDb' = inDb \ new
        /\ UNCHANGED <<confirmed, attempted, inWrite, delayed, retrying>>
    BY DEF Submit
  <1>3. UNCHANGED jobVars \/ \E S \in SUBSET heads : Start(S)
    BY DEF Submit
  <1>4. heads \cap (Jobs \cup delayed) = {} /\ heads \subseteq queued \cup new
    <2> SUFFICES ASSUME NEW i \in heads
                 PROVE  i \notin Jobs \cup delayed /\ i \in queued \cup new
      OBVIOUS
    <2>1. PICK t \in Target : i \in Heads(queued \cup new, a, t, 1)
      OBVIOUS
    <2> HIDE DEF a, heads, new
    <2>2. i \in At(queued \cup new, t) \ (Jobs \cup delayed)
      BY <2>1, HeadsFree
    <2> QED
      BY <2>2 DEF At
  <1> HIDE DEF new, a, heads
  <1> DEFINE JobsTyped ==
        /\ snapshot' = Jobs' \cap attempted
        /\ delayed \cap Jobs' = {}
        /\ scheduled' \cap writing' = {}
        /\ writing' = writing
        /\ scheduled' \subseteq queued \cup new
  <1>5. JobsTyped
    <2>1. CASE UNCHANGED jobVars
      BY <2>1 DEF RowInv, RowTypes, jobVars, Jobs
    <2>2. ASSUME NEW S \in SUBSET heads, Start(S)
          PROVE  JobsTyped
      BY <2>2, <1>4, StartTypes DEF RowInv, RowTypes
    <2> QED
      BY <1>3, <2>1, <2>2
  <1>6. RowTypes'
    <2>1. a \in [Part -> SUBSET Part]
      BY <1>1 DEF a, At, RowInv, RowTypes
    <2> QED
      BY <1>1, <1>2, <1>5, <2>1 DEF RowInv, RowTypes, Jobs
  <1>7. Counted'
    <2>1. \A t \in Target : /\ Cardinality(At(new, t)) \in Nat
                            /\ Cardinality(At(queued', t)) = pending[t] + Cardinality(At(new, t))
      BY <1>1, <1>2, CountType, CountAdd DEF RowInv, RowTypes, Counted
    <2>2. ASSUME NEW t \in Target
          PROVE  /\ pending'[t] = Cardinality(At(queued', t))
                 /\ pending'[t] \in Nat /\ pending'[t] <= MaxPending
      <3> DEFINE c == Cardinality(At(new, t))
      <3>1. c \in Nat /\ Cardinality(At(queued', t)) = pending[t] + c
        BY <2>1
      <3>2. pending'[t] = pending[t] + c /\ pending[t] + c <= MaxPending
        BY <1>2 DEF Fits
      <3>3. pending[t] \in Nat
        BY DEF RowInv, Counted
      <3> HIDE DEF c
      <3> QED
        BY <3>1, <3>2, <3>3
    <2>3. \A t \in Target : At(queued, t)' = At(queued', t) /\ At(attempted, t)' = At(attempted, t)
      BY <1>2 DEF At
    <2> QED
      BY <1>2, <2>2, <2>3 DEF RowInv, Counted
  <1>8. Delivery'
    BY <1>1, <1>2 DEF RowInv, RowTypes, Delivery, UncertainLeavesTrace
  <1>9. Ordered'
    <2>1. \A i \in queued : a[i] = ahead[i]
      BY <1>1 DEF a, RowInv, RowTypes
    <2>2. \A i \in new : a[i] = At(queued, TargetOf[i])
      BY <1>1 DEF a
    <2>3. \A i \in queued : \A j \in ahead[i] : j \in queued
      BY DEF RowInv, Ordered, At
    <2>4. ASSUME NEW i \in queued
          PROVE  /\ a[i] \subseteq At(queued \cup new, TargetOf[i])
                 /\ \A j \in a[i] : a[j] \subseteq a[i]
      BY <2>1, <2>3 DEF RowInv, Ordered, At
    <2>5. ASSUME NEW i \in new
          PROVE  /\ a[i] \subseteq At(queued \cup new, TargetOf[i])
                 /\ \A j \in a[i] : a[j] \subseteq a[i]
      BY <2>1, <2>2, <2>3 DEF RowInv, Ordered, At
    <2> QED
      BY <1>2, <2>4, <2>5 DEF Ordered, At
  <1> QED
    BY <1>6, <1>7, <1>8, <1>9 DEF RowInv

LEMMA ReplayRows ==
  ASSUME RowInv, NEW t \in Target, Replay(t)
  PROVE  RowInv'
  <1>1. PICK n \in 1..Batch : Start(Heads(queued, ahead, t, Lesser(n, Room)))
    BY DEF Replay
  <1> DEFINE S == Heads(queued, ahead, t, Lesser(n, Room))
  <1>2. S \subseteq At(queued, t) \ (Jobs \cup delayed)
    BY HeadsFree
  <1> HIDE DEF S
  <1>3. UNCHANGED <<rowVars, dbVars>>
    BY DEF Replay
  <1>4. Start(S) /\ S \cap (Jobs \cup delayed) = {} /\ S \subseteq queued
    BY <1>1, <1>2 DEF S, At
  <1>5. RowTypes'
    BY <1>3, <1>4, StartTypes DEF rowVars, dbVars, RowInv, RowTypes, Jobs
  <1>6. Counted' /\ Delivery' /\ Ordered'
    BY <1>3 DEF rowVars, dbVars, RowInv, Counted, Delivery, UncertainLeavesTrace, Ordered, At
  <1> QED
    BY <1>5, <1>6 DEF RowInv

LEMMA BeginWriteRows ==
  ASSUME RowInv, NEW i \in Part, BeginWrite(i)
  PROVE  RowInv'
  <1>1. RowTypes'
    BY DEF BeginWrite, RowInv, RowTypes, Jobs
  <1>2. Counted' /\ Ordered'
    BY DEF BeginWrite, RowInv, Counted, Ordered, At
  <1>3. Delivery'
    BY DEF BeginWrite, RowInv, RowTypes, Delivery, UncertainLeavesTrace
  <1> QED
    BY <1>1, <1>2, <1>3 DEF RowInv

LEMMA ApplyRows ==
  ASSUME RowInv, NEW i \in Part, Apply(i)
  PROVE  RowInv'
  <1>1. RowTypes' /\ Delivery'
    BY DEF Apply, rowVars, jobVars, RowInv, RowTypes, Jobs, Delivery, UncertainLeavesTrace
  <1>2. Counted' /\ Ordered'
    BY DEF Apply, rowVars, RowInv, Counted, Ordered, At
  <1> QED
    BY <1>1, <1>2 DEF RowInv

\* The row counts as retrying unless it did when it was read: snapshot tells,
\* because a job holds the current attempts of its row.
LEMMA WriteFailsRows ==
  ASSUME RowInv, NEW i \in Part, WriteFails(i)
  PROVE  RowInv'
  <1>1. RowTypes'
    BY DEF WriteFails, EndJob, dbVars, RowInv, RowTypes, Jobs
  <1>2. attempted' = attempted \cup {i} /\ i \in queued /\ (i \in snapshot <=> i \in attempted)
    BY DEF WriteFails, RowInv, RowTypes, Jobs
  <1>3. retrying' = [retrying EXCEPT ![TargetOf[i]] = @ + (IF i \in snapshot THEN 0 ELSE 1)]
    BY DEF WriteFails
  <1>4. \A t \in Target : retrying'[t] = Cardinality(At(attempted', t)) /\ retrying'[t] \in Nat
    <2> TAKE t \in Target
    <2>1. retrying[t] \in Nat /\ retrying[t] = Cardinality(At(attempted, t))
      BY DEF RowInv, Counted
    <2>2. CASE i \in attempted
      <3>1. attempted' = attempted
        BY <1>2, <2>2
      <3> QED
        BY <1>2, <1>3, <2>1, <2>2, <3>1 DEF RowInv, Counted
    <2>3. CASE i \notin attempted
      <3>1. Cardinality(At(attempted', t))
              = Cardinality(At(attempted, t)) + (IF TargetOf[i] = t THEN 1 ELSE 0)
        BY <1>2, <2>3, CountInsert DEF RowInv, RowTypes
      <3>2. retrying'[t] = retrying[t] + (IF TargetOf[i] = t THEN 1 ELSE 0)
        BY <1>2, <1>3, <2>1, <2>3 DEF RowInv, Counted
      <3> QED
        BY <2>1, <3>1, <3>2
    <2> QED
      BY <2>2, <2>3
  <1>5. Counted'
    BY <1>3, <1>4 DEF WriteFails, RowInv, Counted, At
  <1>6. Delivery' /\ Ordered'
    BY DEF WriteFails, dbVars, RowInv, Delivery, UncertainLeavesTrace, Ordered, At
  <1> QED
    BY <1>1, <1>5, <1>6 DEF RowInv

LEMMA WriteConfirmedRows ==
  ASSUME RowInv, NEW i \in Part, WriteConfirmed(i)
  PROVE  RowInv'
  <1>1. RowTypes'
    BY DEF WriteConfirmed, EndJob, dbVars, RowInv, RowTypes, Jobs
  <1>2. /\ i \in queued /\ (i \in snapshot <=> i \in attempted)
        /\ queued' = queued \ {i} /\ attempted' = attempted \ {i}
        /\ queued \in SUBSET Part /\ attempted \in SUBSET Part
    BY DEF WriteConfirmed, RowInv, RowTypes, Jobs
  <1>3. /\ pending' = [pending EXCEPT ![TargetOf[i]] = @ - 1]
        /\ retrying' = [retrying EXCEPT ![TargetOf[i]] = @ - (IF i \in snapshot THEN 1 ELSE 0)]
    BY DEF WriteConfirmed
  <1>4. \A t \in Target : /\ pending'[t] = Cardinality(At(queued', t))
                          /\ pending'[t] \in Nat /\ pending'[t] <= MaxPending
    <2> TAKE t \in Target
    <2>1. pending[t] \in Nat /\ pending[t] = Cardinality(At(queued, t)) /\ pending[t] <= MaxPending
      BY DEF RowInv, Counted
    <2>2. Cardinality(At(queued', t))
            = Cardinality(At(queued, t)) - (IF TargetOf[i] = t THEN 1 ELSE 0)
      BY <1>2, CountRemove
    <2>3. pending'[t] = pending[t] - (IF TargetOf[i] = t THEN 1 ELSE 0)
      BY <1>3, <2>1 DEF RowInv, Counted
    <2>4. Cardinality(At(queued', t)) \in Nat
      BY <1>2, CountType
    <2> QED
      BY <2>1, <2>2, <2>3, <2>4, BoundsAssumption
  <1>5. \A t \in Target : retrying'[t] = Cardinality(At(attempted', t)) /\ retrying'[t] \in Nat
    <2> TAKE t \in Target
    <2>1. retrying[t] \in Nat /\ retrying[t] = Cardinality(At(attempted, t))
      BY DEF RowInv, Counted
    <2>2. CASE i \in attempted
      <3>1. Cardinality(At(attempted', t))
              = Cardinality(At(attempted, t)) - (IF TargetOf[i] = t THEN 1 ELSE 0)
        BY <1>2, <2>2, CountRemove
      <3>2. retrying'[t] = retrying[t] - (IF TargetOf[i] = t THEN 1 ELSE 0)
        BY <1>2, <1>3, <2>1, <2>2 DEF RowInv, Counted
      <3>3. Cardinality(At(attempted', t)) \in Nat
        BY <1>2, CountType
      <3> QED
        BY <2>1, <3>1, <3>2, <3>3
    <2>3. CASE i \notin attempted
      <3>1. attempted' = attempted
        BY <1>2, <2>3
      <3> QED
        BY <1>2, <1>3, <2>1, <2>3, <3>1 DEF RowInv, Counted
    <2> QED
      BY <2>2, <2>3
  <1>6. Counted'
    BY <1>3, <1>4, <1>5 DEF RowInv, Counted, At
  <1>7. Delivery'
    BY DEF WriteConfirmed, dbVars, RowInv, Delivery, UncertainLeavesTrace
  <1>8. Ordered'
    BY DEF WriteConfirmed, RowInv, RowTypes, Ordered, At
  <1> QED
    BY <1>1, <1>6, <1>7, <1>8 DEF RowInv

LEMMA SettleFailsRows ==
  ASSUME RowInv, NEW i \in Part, SettleFails(i)
  PROVE  RowInv'
  <1>1. RowTypes'
    BY DEF SettleFails, EndJob, rowVars, dbVars, RowInv, RowTypes, Jobs
  <1>2. Counted' /\ Delivery' /\ Ordered'
    BY DEF SettleFails, rowVars, dbVars, RowInv, Counted, Delivery, UncertainLeavesTrace,
           Ordered, At
  <1> QED
    BY <1>1, <1>2 DEF RowInv

LEMMA RetryDueRows ==
  ASSUME RowInv, NEW i \in Part, RetryDue(i)
  PROVE  RowInv'
  <1>1. RowTypes'
    BY DEF RetryDue, jobVars, dbVars, RowInv, RowTypes, Jobs
  <1>2. Counted' /\ Delivery' /\ Ordered'
    BY DEF RetryDue, dbVars, RowInv, Counted, Delivery, UncertainLeavesTrace, Ordered, At
  <1> QED
    BY <1>1, <1>2 DEF RowInv

LEMMA DropReceiptsRows ==
  ASSUME RowInv, NEW S \in SUBSET Part, DropReceipts(S)
  PROVE  RowInv'
  <1>1. RowTypes'
    BY DEF DropReceipts, jobVars, dbVars, RowInv, RowTypes, Jobs
  <1>2. Counted' /\ Delivery' /\ Ordered'
    BY DEF DropReceipts, dbVars, RowInv, Counted, Delivery, UncertainLeavesTrace, Ordered, At
  <1> QED
    BY <1>1, <1>2 DEF RowInv

\* A crash loses the jobs and keeps the rows: what was being written stays
\* marked until the restart.
LEMMA CrashRows ==
  ASSUME RowInv, Crash
  PROVE  RowInv'
  <1>1. RowTypes'
    BY DEF Crash, rowVars, dbVars, RowInv, RowTypes, Jobs
  <1>2. Counted' /\ Delivery' /\ Ordered'
    BY DEF Crash, rowVars, dbVars, RowInv, Counted, Delivery, UncertainLeavesTrace, Ordered, At
  <1> QED
    BY <1>1, <1>2 DEF RowInv

LEMMA RestartRows ==
  ASSUME RowInv, Jobs = {}, Restart
  PROVE  RowInv'
  <1> DEFINE found == inWrite \ attempted
  <1>1. /\ retrying' = [t \in Target |-> retrying[t] + Cardinality(At(found, t))]
        /\ attempted' = attempted \cup found
        /\ attempted \in SUBSET Part /\ found \in SUBSET Part /\ attempted \cap found = {}
    BY DEF Restart, RowInv, RowTypes
  <1>2. RowTypes'
    BY DEF Restart, jobVars, dbVars, RowInv, RowTypes, Jobs
  <1>3. \A t \in Target : retrying'[t] = Cardinality(At(attempted', t)) /\ retrying'[t] \in Nat
    <2> TAKE t \in Target
    <2> HIDE DEF found
    <2>1. retrying[t] = Cardinality(At(attempted, t))
      BY DEF RowInv, Counted
    <2>2. /\ Cardinality(At(attempted', t)) = Cardinality(At(attempted, t)) + Cardinality(At(found, t))
          /\ Cardinality(At(attempted', t)) \in Nat
      BY <1>1, CountAdd, CountType
    <2> QED
      BY <1>1, <2>1, <2>2
  <1>4. Counted'
    BY <1>1, <1>3 DEF Restart, RowInv, Counted, At
  <1>5. Delivery' /\ Ordered'
    BY DEF Restart, dbVars, RowInv, Delivery, UncertainLeavesTrace, Ordered, At
  <1> QED
    BY <1>2, <1>4, <1>5 DEF RowInv

-----------------------------------------------------------------------------
(* Every other action leaves the rows, the jobs and the database alone.    *)

LEMMA RowFrame ==
  ASSUME RowInv, UNCHANGED <<rowVars, jobVars, dbVars>>
  PROVE  RowInv'
  <1>1. RowTypes'
    BY DEF rowVars, jobVars, dbVars, RowInv, RowTypes, Jobs
  <1>2. Counted' /\ Delivery' /\ Ordered'
    BY DEF rowVars, jobVars, dbVars, RowInv, Counted, Delivery, UncertainLeavesTrace, Ordered, At
  <1> QED
    BY <1>1, <1>2 DEF RowInv

\* A process that does not run has no jobs and no pause under way.  A journal
\* found drained is closed, and admits nothing.
LifeInv ==
  /\ status \in {"down", "up", "closing", "closed", "refused"}
  /\ fault \in BOOLEAN /\ globalPaused \in BOOLEAN /\ busy \in BOOLEAN /\ drained \in BOOLEAN
  /\ status \in {"down", "refused"} => Jobs = {} /\ ~busy /\ ~drained
  /\ status \in {"up", "closing"} => ~drained
  /\ drained => queued = {}
  /\ status = "closed" => Jobs = {}

Inv == RowInv /\ LifeInv

LEMMA InvInit == Init => Inv
  BY RowInit DEF Init, Inv, LifeInv, Jobs

LEMMA RowStep ==
  ASSUME Inv, [Next]_vars
  PROVE  RowInv'
  <1>1. CASE UNCHANGED vars
    BY <1>1, RowFrame DEF Inv, vars
  <1>2. CASE PacketNext
    <2>1. PICK p \in Packet :
            Submit(p) \/ SubmitRejected(p) \/ Acknowledge(p) \/ AcknowledgeLegacy(p)
      BY <1>2 DEF PacketNext
    <2>2. CASE Submit(p)
      BY <2>2, SubmitRows DEF Inv
    <2>3. CASE SubmitRejected(p)
      BY <2>3, RowFrame DEF Inv, SubmitRejected, RolledBack
    <2>4. CASE Acknowledge(p)
      BY <2>4, DropReceiptsRows, PartsAssumption DEF Inv, Acknowledge
    <2>5. CASE AcknowledgeLegacy(p)
      BY <2>5, DropReceiptsRows, PartsAssumption DEF Inv, AcknowledgeLegacy
    <2> QED
      BY <2>1, <2>2, <2>3, <2>4, <2>5
  <1>3. CASE RowNext
    BY <1>3, BeginWriteRows, ApplyRows, WriteFailsRows, WriteConfirmedRows, SettleFailsRows,
       RetryDueRows DEF Inv, RowNext
  <1>4. CASE \E t \in Target : Replay(t)
    BY <1>4, ReplayRows DEF Inv
  <1>5. CASE StorageFails
    BY <1>5, RowFrame DEF Inv, StorageFails
  <1>6. CASE ControlNext
    <2>1. UNCHANGED <<rowVars, jobVars, dbVars>>
      BY <1>6 DEF ControlNext, Pause, Resume, Record, RolledBack, PauseReturns, CommandAnswered,
                  SetGlobalPaused, ImportPolicy
    <2> QED
      BY <2>1, RowFrame DEF Inv
  <1>7. CASE LifeNext
    <2>1. CASE Close \/ Closed
      BY <2>1, RowFrame DEF Inv, Close, Closed
    <2>2. CASE Crash
      BY <2>2, CrashRows DEF Inv
    <2>3. CASE Restart
      <3>1. Jobs = {}
        BY <2>3 DEF Restart, Inv, LifeInv
      <3> QED
        BY <2>3, <3>1, RestartRows DEF Inv
    <2> QED
      BY <1>7, <2>1, <2>2, <2>3 DEF LifeNext
  <1> QED
    BY <1>1, <1>2, <1>3, <1>4, <1>5, <1>6, <1>7 DEF Next

LEMMA LifeStep ==
  ASSUME Inv, [Next]_vars
  PROVE  LifeInv'
  <1> USE DEF Inv, LifeInv, Jobs
  <1>1. CASE UNCHANGED vars
    BY <1>1 DEF vars, rowVars, jobVars, lifeVars
  <1>2. CASE PacketNext
    <2>1. PICK p \in Packet :
            Submit(p) \/ SubmitRejected(p) \/ Acknowledge(p) \/ AcknowledgeLegacy(p)
      BY <1>2 DEF PacketNext
    <2>2. CASE Submit(p)
      <3>1. status = "up" /\ UNCHANGED lifeVars /\ fault' \in BOOLEAN
        BY <2>2 DEF Submit
      <3> QED
        BY <3>1 DEF lifeVars
    <2>3. CASE SubmitRejected(p)
      BY <2>3 DEF SubmitRejected, RolledBack, rowVars, jobVars, lifeVars
    <2>4. CASE Acknowledge(p) \/ AcknowledgeLegacy(p)
      BY <2>4 DEF Acknowledge, AcknowledgeLegacy, DropReceipts, jobVars, lifeVars
    <2> QED
      BY <2>1, <2>2, <2>3, <2>4
  <1>3. CASE RowNext
    <2>1. PICK i \in Part : \/ BeginWrite(i) \/ Apply(i) \/ WriteFails(i) \/ WriteConfirmed(i)
                            \/ SettleFails(i) \/ RetryDue(i)
      BY <1>3 DEF RowNext
    <2>2. UNCHANGED lifeVars /\ fault' \in BOOLEAN /\ Jobs' \subseteq Jobs /\ queued' \subseteq queued
      BY <2>1 DEF BeginWrite, Apply, WriteFails, WriteConfirmed, SettleFails, RetryDue, EndJob,
                  rowVars, jobVars
    <2> QED
      BY <2>2 DEF lifeVars
  <1>4. CASE \E t \in Target : Replay(t)
    BY <1>4 DEF Replay, lifeVars
  <1>5. CASE StorageFails
    BY <1>5 DEF StorageFails, rowVars, jobVars, lifeVars
  <1>6. CASE ControlNext
    <2>1. /\ UNCHANGED <<queued, scheduled, writing, status, drained>>
          /\ fault' \in BOOLEAN /\ busy' \in BOOLEAN /\ globalPaused' \in BOOLEAN
          /\ busy' => status = "up" \/ busy
      BY <1>6 DEF ControlNext, Pause, Resume, Record, RolledBack, PauseReturns, CommandAnswered,
                  SetGlobalPaused, ImportPolicy, rowVars, jobVars, lifeVars
    <2> QED
      BY <2>1
  <1>7. CASE LifeNext
    <2>1. CASE Close
      BY <2>1 DEF Close, rowVars, jobVars
    <2>2. CASE Closed
      BY <2>2 DEF Closed, rowVars, jobVars
    <2>3. CASE Crash
      BY <2>3 DEF Crash, rowVars
    <2>4. CASE Restart
      BY <2>4 DEF Restart, jobVars
    <2> QED
      BY <1>7, <2>1, <2>2, <2>3, <2>4 DEF LifeNext
  <1> QED
    BY <1>1, <1>2, <1>3, <1>4, <1>5, <1>6, <1>7 DEF Next

LEMMA InvAlways == Spec => []Inv
  <1>1. Inv /\ [Next]_vars => Inv'
    BY RowStep, LifeStep DEF Inv
  <1> QED
    BY <1>1, InvInit, PTL DEF Spec

-----------------------------------------------------------------------------
(* What the rows keep.                                                     *)

\* The totals count the rows of every table, and no table is over its bound,
\* whatever failed, crashed or was retried in between (submit(), startWrite()
\* and the recovery of the constructor).
THEOREM TotalsCorrect == Spec => []CountersAgree
  <1>1. Inv => CountersAgree
    BY DEF Inv, RowInv, RowTypes, Counted, CountersAgree
  <1> QED
    BY <1>1, InvAlways, PTL

\* A pending part that QuestDB may hold is marked (startWrite() sets in_write
\* before it calls the write; the constructor keeps the mark as an attempt).
THEOREM UncertaintyKept == Spec => []UncertainLeavesTrace
  <1>1. Inv => UncertainLeavesTrace
    BY DEF Inv, RowInv, Delivery
  <1> QED
    BY <1>1, InvAlways, PTL

\* The policy is handed over only by a journal without pending parts and
\* without a pause (exportPolicy(), closeJournal()).
THEOREM ExportSafe == Spec => []ExportOnlyDrained
  <1>1. Inv => ExportOnlyDrained
    BY DEF Inv, LifeInv, ExportOnlyDrained, ExportAllowed, RetainedWritesBlock, Paused, PausedBy
  <1> QED
    BY <1>1, InvAlways, PTL

-----------------------------------------------------------------------------
(* The order of a table.                                                   *)

\* An older part of a startable one has a job or is startable itself
LEMMA OlderStartable ==
  ASSUME NEW q, NEW a, NEW t, NEW i \in Startable(q, a, t), NEW j \in a[i],
         a[i] \subseteq At(q, t), a[j] \subseteq a[i]
  PROVE  j \in Jobs \/ j \in Startable(q, a, t)
  BY DEF Startable

\* The heads of a table are a prefix of what has no job: an older part has a job
\* or is among them
LEMMA HeadsPrefix ==
  ASSUME NEW q \in SUBSET Part, NEW a, NEW t, NEW n \in Int,
         NEW i \in Heads(q, a, t, n), NEW j \in a[i],
         a[i] \subseteq At(q, t), a[j] \subseteq a[i]
  PROVE  j \in Jobs \/ j \in Heads(q, a, t, n)
  <1> SUFFICES ASSUME j \notin Jobs PROVE j \in Heads(q, a, t, n)
    OBVIOUS
  <1> DEFINE ready == Startable(q, a, t)
  <1>1. j \in ready
    BY OlderStartable DEF Heads
  <1>2. ready \subseteq Part /\ Cardinality(a[i] \cap ready) < n
    BY DEF Heads, Startable, At
  <1> HIDE DEF ready
  <1>3. /\ a[j] \cap ready \subseteq a[i] \cap ready
        /\ IsFiniteSet(a[i] \cap ready)
    BY <1>2, PartsAssumption, FS_Subset
  <1>4. /\ Cardinality(a[j] \cap ready) <= Cardinality(a[i] \cap ready)
        /\ Cardinality(a[i] \cap ready) \in Nat /\ Cardinality(a[j] \cap ready) \in Nat
    BY <1>3, FS_Subset, FS_CardinalityType
  <1>5. Cardinality(a[j] \cap ready) < n
    BY <1>2, <1>4
  <1> QED
    BY <1>1, <1>5 DEF Heads, ready

\* Nothing older than a single head is without a job
LEMMA SoleHead ==
  ASSUME NEW q \in SUBSET Part, NEW a, NEW t,
         NEW i \in Heads(q, a, t, 1), NEW j \in a[i],
         a[i] \subseteq At(q, t), a[j] \subseteq a[i]
  PROVE  j \in Jobs
  <1> SUFFICES ASSUME j \notin Jobs PROVE FALSE
    OBVIOUS
  <1> DEFINE older == a[i] \cap Startable(q, a, t)
  <1>1. j \in older
    BY OlderStartable DEF Heads
  <1>2. older \subseteq Part /\ Cardinality(older) < 1
    BY DEF Heads, Startable, At
  <1> HIDE DEF older
  <1>3. IsFiniteSet(older) /\ Cardinality(older) \in Nat
    BY <1>2, PartsAssumption, FS_Subset, FS_CardinalityType
  <1>4. Cardinality(older) = 0
    BY <1>2, <1>3
  <1> QED
    BY <1>1, <1>3, <1>4, FS_EmptySet

\* Only submit() and a replay pass install jobs
LEMMA JobsFrom ==
  ASSUME Next, Jobs' \ Jobs # {}
  PROVE  (\E p \in Packet : Submit(p)) \/ \E t \in Target : Replay(t)
  BY DEF Next, PacketNext, RowNext, ControlNext, LifeNext, SubmitRejected, StorageFails,
         Acknowledge, AcknowledgeLegacy, DropReceipts, BeginWrite, Apply, WriteFails,
         WriteConfirmed, SettleFails, RetryDue, EndJob, Pause, Resume, Record, PauseReturns,
         CommandAnswered, SetGlobalPaused, ImportPolicy, Close, Closed, Crash, Restart,
         jobVars, Jobs

LEMMA HeadOfLineStep ==
  ASSUME Inv, Next
  PROVE  \A i \in Jobs' \ Jobs : ahead'[i] \subseteq Jobs'
  <1> SUFFICES ASSUME NEW i \in Jobs' \ Jobs, NEW j \in ahead'[i] PROVE j \in Jobs'
    OBVIOUS
  <1>1. (\E p \in Packet : Submit(p)) \/ \E t \in Target : Replay(t)
    BY JobsFrom
  <1>2. RowInv'
    BY RowStep
  <1>3. ASSUME NEW p \in Packet, Submit(p)
        PROVE  j \in Jobs'
    <2> DEFINE np == Observing(p)
               chosen == {u \in Target : At(p, u) # {} /\ ~PausedBy(np, u)}
               heads == UNION {Heads(queued', ahead', t, 1) : t \in chosen}
    <2>1. UNCHANGED jobVars \/ \E S \in SUBSET heads : Start(S)
      BY <1>3 DEF Submit
    <2>2. PICK t \in chosen : i \in Heads(queued', ahead', t, 1)
      BY <2>1 DEF Start, Jobs, jobVars
    <2> HIDE DEF chosen
    <2>3. i \in queued' /\ TargetOf[i] = t /\ queued' \in SUBSET Part
      BY <1>2, <2>2 DEF Heads, Startable, At, RowInv, RowTypes
    <2>4. ahead'[i] \subseteq At(queued', t) /\ ahead'[j] \subseteq ahead'[i]
      BY <1>2, <2>3 DEF RowInv, Ordered, At
    <2>5. j \in Jobs
      BY <2>2, <2>3, <2>4, SoleHead
    <2>6. Jobs \subseteq Jobs'
      BY <2>1 DEF Start, Jobs, jobVars
    <2> QED
      BY <2>5, <2>6
  <1>4. ASSUME NEW t \in Target, Replay(t)
        PROVE  j \in Jobs'
    <2>1. PICK n \in 1..Batch : Start(Heads(queued, ahead, t, Lesser(n, Room)))
      BY <1>4 DEF Replay
    <2> DEFINE m == Lesser(n, Room)
    <2>2. queued' = queued /\ ahead' = ahead
      BY <1>4 DEF Replay, rowVars
    <2>3. i \in Heads(queued, ahead, t, m)
      BY <2>1 DEF Start, Jobs
    <2>4. m \in Int
      <3>1. Jobs \in SUBSET Part
        BY DEF Inv, RowInv, RowTypes, Jobs
      <3>2. Cardinality(Jobs) \in Nat
        BY <3>1, PartsAssumption, FS_Subset, FS_CardinalityType
      <3> QED
        BY <3>2, BoundsAssumption DEF Lesser, Room
    <2> HIDE DEF m
    <2>5. i \in queued /\ TargetOf[i] = t /\ queued \in SUBSET Part
      BY <2>3 DEF Heads, Startable, At, Inv, RowInv, RowTypes
    <2>6. j \in ahead[i] /\ ahead[i] \subseteq At(queued, t) /\ ahead[j] \subseteq ahead[i]
      BY <2>2, <2>5 DEF Inv, RowInv, Ordered, At
    <2>7. j \in Jobs \/ j \in Heads(queued, ahead, t, m)
      BY <2>3, <2>4, <2>5, <2>6, HeadsPrefix
    <2> QED
      BY <2>1, <2>7 DEF Start, Jobs, m
  <1> QED
    BY <1>1, <1>3, <1>4

\* A failed part holds its table back: no write begins before every older part
\* is confirmed or being written (tryHead()).
THEOREM HeadOfLineHolds == Spec => HeadOfLine
  <1>1. Inv /\ [Next]_vars => [\A i \in Jobs' \ Jobs : ahead'[i] \subseteq Jobs']_vars
    BY HeadOfLineStep
  <1> QED
    BY <1>1, InvAlways, PTL DEF Spec, HeadOfLine

-----------------------------------------------------------------------------
(* The journal implements DurableQueue.                                    *)

LEMMA QueueInit == Init => Queue!DQInit
  BY DEF Init, Queue!DQInit

LEMMA QueueStep ==
  ASSUME Inv, [Next]_vars
  PROVE  [Queue!DQNext]_(Queue!dqVars)
  <1> SUFFICES UNCHANGED <<queued, inDb>> \/ Queue!DQNext
    BY DEF Queue!dqVars
  <1> USE DEF Inv, RowInv, RowTypes
  <1>1. CASE UNCHANGED vars
    BY <1>1 DEF vars, rowVars, dbVars
  <1>2. CASE PacketNext
    <2>1. PICK p \in Packet :
            Submit(p) \/ SubmitRejected(p) \/ Acknowledge(p) \/ AcknowledgeLegacy(p)
      BY <1>2 DEF PacketNext
    <2>2. CASE Submit(p)
      <3> DEFINE new == p \ (queued \cup confirmed)
      <3>1. queued' = queued \cup new /\ inDb' = inDb \ new
        BY <2>2 DEF Submit
      <3>2. p \ confirmed \in SUBSET Part /\ (p \ confirmed) \ queued = new
        BY PartsAssumption
      <3>3. Queue!Accept(p \ confirmed)
        BY <3>1, <3>2 DEF Queue!Accept
      <3> QED
        BY <3>2, <3>3 DEF Queue!DQNext
    <2>3. CASE SubmitRejected(p) \/ Acknowledge(p) \/ AcknowledgeLegacy(p)
      BY <2>3 DEF SubmitRejected, RolledBack, Acknowledge, AcknowledgeLegacy, DropReceipts,
                  rowVars, dbVars
    <2> QED
      BY <2>1, <2>2, <2>3
  <1>3. CASE RowNext
    <2>1. PICK i \in Part : \/ BeginWrite(i) \/ Apply(i) \/ WriteFails(i) \/ WriteConfirmed(i)
                            \/ SettleFails(i) \/ RetryDue(i)
      BY <1>3 DEF RowNext
    <2>2. CASE Apply(i)
      <3>1. CASE i \in queued
        BY <2>2, <3>1 DEF Apply, rowVars, Queue!DQNext, Queue!Deliver
      <3>2. CASE i \notin queued
        BY <2>2, <3>2 DEF Apply, rowVars, Delivery
      <3> QED
        BY <3>1, <3>2
    <2>3. CASE WriteConfirmed(i)
      BY <2>3 DEF WriteConfirmed, dbVars, Queue!DQNext, Queue!Release
    <2>4. CASE BeginWrite(i) \/ WriteFails(i) \/ SettleFails(i) \/ RetryDue(i)
      BY <2>4 DEF BeginWrite, WriteFails, SettleFails, RetryDue, rowVars, dbVars
    <2> QED
      BY <2>1, <2>2, <2>3, <2>4
  <1>4. CASE \E t \in Target : Replay(t)
    BY <1>4 DEF Replay, rowVars, dbVars
  <1>5. CASE StorageFails
    BY <1>5 DEF StorageFails, rowVars, dbVars
  <1>6. CASE ControlNext
    BY <1>6 DEF ControlNext, Pause, Resume, Record, RolledBack, PauseReturns, CommandAnswered,
                SetGlobalPaused, ImportPolicy, rowVars, dbVars
  <1>7. CASE LifeNext
    BY <1>7 DEF LifeNext, Close, Closed, Crash, Restart, rowVars, dbVars
  <1> QED
    BY <1>1, <1>2, <1>3, <1>4, <1>5, <1>6, <1>7 DEF Next

\* Every accepted part is held, over crashes, storage faults, failed writes and
\* lost answers, until QuestDB has it.
THEOREM QueueImplemented == Spec => ImplementsQueue
  <1> QED
    BY QueueInit, QueueStep, InvAlways, PTL DEF Spec, ImplementsQueue, Queue!DQSpec
=============================================================================
