------------------------- MODULE HistoricalImportProofs -------------------------
(***************************************************************************)
(* Proofs about HistoricalImport, for every source, mapping, size of page  *)
(* and slice, and every number of faults and restarts.                     *)
(*                                                                         *)
(* The control of replay is implemented whatever the import does, so what  *)
(* it promises holds beside it.                                            *)
(*                                                                         *)
(* That the import is exact needs more than the property says.  The        *)
(* journal has nothing of the rows that the cursor has passed, but for the *)
(* receipts that the job remembers (EntryInv): so none is left when no     *)
(* row is.  The page in the hands of the worker is the part of the         *)
(* reviewed source that follows the cursor, with no gap (HeldPage): so the *)
(* cursor passes no row that is not confirmed.  A seal read is between the *)
(* one reviewed and the one there is (PageInv): so two that agree are the  *)
(* seal of the page.  When the source is read to its end, the count is     *)
(* therefore right, and a job is not blocked for it.                       *)
(***************************************************************************)
EXTENDS HistoricalImport, ReplayControlProofs, FiniteSetTheorems, WellFoundedInduction

-----------------------------------------------------------------------------
(* Sets of rows *)

\* Rows can be counted.
LEMMA RowsFinite ==
  ASSUME NEW S \in SUBSET Row
  PROVE  IsFiniteSet(S) /\ Cardinality(S) \in Nat
<1>1. IsFiniteSet(Row)
  BY HistoryAssumption, FS_Interval DEF Row
<1> QED BY <1>1, FS_Subset, FS_CardinalityType

\* Rows are ordered as numbers.
LEMMA Ordered ==
  /\ Row \subseteq Nat
  /\ \A x, y, z \in Row : x <= x /\ (x <= y /\ y <= z => x <= z) /\ (x <= y /\ y <= x => x = y)
BY HistoryAssumption DEF Row

\* Some row is the first of a set of them.
LEMMA LeastNumber ==
  ASSUME NEW S \in SUBSET Nat, S # {}
  PROVE  \E m \in S : \A x \in S : m <= x
<1>1. PICK m \in S : \A y \in S : ~(<<y, m>> \in OpToRel(<, Nat))
  BY NatLessThanWellFounded, WFMin
<1>2. \A y \in S : ~(y < m)
  BY <1>1 DEF OpToRel
<1> QED BY <1>2

\* Last() is the last row of a set of them.
LEMMA LastRow ==
  ASSUME NEW S \in SUBSET Row, S # {}
  PROVE  Last(S) \in S /\ \A x \in S : x <= Last(S)
<1> USE HistoryAssumption DEF Row
<1> DEFINE T == {k \in 0..N : N - k \in S}
<1>1. T \in SUBSET Nat
  OBVIOUS
<1>2. T # {}
  <2>1. PICK r \in S : TRUE
    OBVIOUS
  <2>2. N - r \in 0..N /\ N - (N - r) = r
    OBVIOUS
  <2> QED BY <2>1, <2>2
<1>3. PICK k \in T : \A x \in T : k <= x
  BY <1>1, <1>2, LeastNumber
<1>4. ASSUME NEW x \in S PROVE x <= N - k
  <2>1. N - x \in 0..N /\ N - (N - x) = x
    OBVIOUS
  <2>2. k <= N - x
    BY <1>3, <2>1
  <2> QED BY <2>2, <1>3
<1>5. \E r \in S : \A x \in S : x <= r
  BY <1>3, <1>4
<1> QED BY <1>5 DEF Last

\* A page is an initial part of the rows that it is taken from, and not empty.
LEMMA FirstIsInitial ==
  ASSUME NEW S \in SUBSET Row, NEW k \in Nat \ {0}
  PROVE  /\ First(S, k) \subseteq S
         /\ \A r \in First(S, k), x \in S : x <= r => x \in First(S, k)
         /\ S # {} => First(S, k) # {}
<1> DEFINE Upto(r) == {x \in S : x <= r}
<1>1. \A r \in S : Upto(r) \in SUBSET Row
  OBVIOUS
<1>2. ASSUME NEW r \in First(S, k), NEW x \in S, x <= r PROVE x \in First(S, k)
  <2>1. r \in S /\ Cardinality(Upto(r)) <= k
    BY <1>2 DEF First
  <2>2. Upto(x) \in SUBSET Upto(r)
    <3>1. \A y \in S : y <= x => y <= r
      BY <1>2, <2>1, Ordered
    <3> QED BY <3>1
  <2>3. Cardinality(Upto(x)) <= Cardinality(Upto(r))
    BY <1>1, <2>1, <2>2, RowsFinite, FS_Subset
  <2>4. Cardinality(Upto(x)) \in Nat /\ Cardinality(Upto(r)) \in Nat
    BY <1>1, <2>1, RowsFinite
  <2>5. Cardinality(Upto(x)) <= k
    BY <2>1, <2>3, <2>4
  <2> QED BY <2>5 DEF First
<1>3. ASSUME S # {} PROVE First(S, k) # {}
  <2>1. PICK m \in S : \A x \in S : m <= x
    BY <1>3, LeastNumber, HistoryAssumption DEF Row
  <2>2. Upto(m) = {m}
    <3>1. \A y \in S : y <= m <=> y = m
      BY <2>1, Ordered
    <3> QED BY <3>1
  <2>3. Cardinality(Upto(m)) = 1
    BY <2>2, FS_Singleton
  <2>4. Cardinality(Upto(m)) <= k
    BY <2>3
  <2> QED BY <2>1, <2>4 DEF First
<1> QED BY <1>2, <1>3 DEF First

\* Rows of two parts are counted one part after the other.
LEMMA CountBoth ==
  ASSUME NEW S \in SUBSET Row, NEW T \in SUBSET Row, S \cap T = {}
  PROVE  Cardinality(S \cup T) = Cardinality(S) + Cardinality(T)
<1>1. Cardinality(S \cap T) = 0
  BY FS_EmptySet
<1>2. Cardinality(S \cup T) = Cardinality(S) + Cardinality(T) - Cardinality(S \cap T)
  BY RowsFinite, FS_Union
<1> QED BY <1>1, <1>2, RowsFinite

-----------------------------------------------------------------------------
(* The control of replay, with the import beside it *)

\* A step of the worker leaves the control, and the databases, as they are.
LEMMA StepIsInside == Step => InStep
BY DEF Step, Begin, Inspect, ReadSeal, ReadRows, ReadAgain, HandOver, Yield, Settle, Checkpoint,
       Verify, BeginRecovery, Recover

\* Every step is one of the control, or leaves it as it is.
LEMMA NextIsControl == [Next]_vars => [ControlNext]_controlVars
<1> SUFFICES ASSUME [Next]_vars PROVE [ControlNext]_controlVars
  OBVIOUS
<1>1. CASE Review \/ Start \/ Refuse
  BY <1>1 DEF Review, Start, Refuse
<1>2. CASE Step
  BY <1>2, StepIsInside DEF InStep
<1>3. CASE \E r \in Row : Attempt(r) \/ Confirm(r) \/ Reject(r)
  BY <1>3 DEF Attempt, Confirm, Reject
<1>4. CASE Apply \/ Change \/ Turn \/ Close
  BY <1>4 DEF Apply, Change, Turn, Close
<1>5. CASE Die
  BY <1>5 DEF Die, ControlNext
<1>6. CASE Boots
  BY <1>6 DEF Boots, ControlNext
<1>7. CASE Control
  BY <1>7 DEF Control, ControlNext
<1>8. CASE UNCHANGED vars
  BY <1>8 DEF vars, controlVars
<1> QED BY <1>1, <1>2, <1>3, <1>4, <1>5, <1>6, <1>7, <1>8 DEF Next

\* The import implements the control of replay, so what the control promises holds
\* with the import beside it, across its stops and starts.
THEOREM ImportKeepsControl == Spec => ControlSpec /\ [](ControlTypeOK /\ ControlPromise)
<1>1. Init => ControlInit
  BY DEF Init
<1> QED BY <1>1, NextIsControl, ControlKept, PTL DEF Spec, ControlSpec

-----------------------------------------------------------------------------
(* The inductive invariant *)

\* What a job that is blocked was blocked for
Cause(j) == seal # j.seal \/ contract # j.contract \/ foreign

Passed(j) == {r \in Reviewed(j) : r <= j.cursor}

\* What was reviewed is not newer than what there is, and stays what it is.
JobInv ==
  /\ job = NoJob => stored = {} /\ sources = {}
  /\ job # NoJob =>
       /\ job.seal <= seal /\ job.contract <= contract
       /\ job.recorded => job.state = "completed"
       /\ job.state = "blocked" => Cause(job)
       /\ sources = IF job.recorded THEN {TopicOf[r] : r \in stored} ELSE {}

\* The journal holds rows of the job only, and of those the cursor has passed no more
\* than the receipts the job remembers.
EntryInv ==
  \A r \in Row : entry[r] # "none" =>
    /\ job # NoJob /\ job.state # "completed" /\ r \in Reviewed(job)
    /\ entry[r] = "confirmed" => r \in stored
    /\ r <= job.cursor => entry[r] = "confirmed" /\ r \in job.receipts

Exact ==
  /\ Earlier =>
       /\ stored \in {Reviewed(job), {}} /\ job.written = Cardinality(Reviewed(job))
       /\ job.cursor = N
  /\ job # NoJob /\ ~Earlier =>
       /\ stored \subseteq Reviewed(job) /\ Passed(job) \subseteq stored
       /\ job.written = Cardinality(Passed(job))
       /\ job.state = "completed" => stored = Reviewed(job) /\ visible = stored

\* What the worker may find, and what it is at
WorkerInv ==
  /\ timer => phase = "idle" /\ job # NoJob /\ (job.state = "completed" => Earlier)
  /\ review # NoReview => job = NoJob /\ review.seal <= seal /\ review.contract <= contract
  /\ phase = "recover" => Earlier
  /\ phase \notin {"idle", "recover"} =>
       job # NoJob /\ job.state = "running" /\ job.receipts = {}

\* The page is that part of the reviewed source that follows the cursor; what is not to
\* be written any more is confirmed.
HeldPage ==
  /\ page # {} /\ page \subseteq SourceRows(job.seal)
  /\ \A r \in page : r > job.cursor
  /\ \A r \in SourceRows(job.seal), p \in page : r > job.cursor /\ r <= p => r \in page
  /\ todo \subseteq Mapped(page) /\ slice \subseteq todo
  /\ \A r \in Mapped(page) \ todo : entry[r] = "confirmed"

PageInv ==
  /\ readSeal <= seal
  /\ phase \notin {"slice", "refused"} => slice = {}
  /\ phase \in {"rows", "reseal"} => job.seal <= readSeal
  /\ phase = "reseal" /\ readSeal = seal => page = NextPage
  /\ phase \in {"write", "slice", "refused"} => HeldPage
  /\ phase = "refused" => contract # job.contract
  /\ phase = "verify" => Reviewed(job) = Passed(job)

ImportInv == JobInv /\ EntryInv /\ Exact /\ WorkerInv /\ PageInv

-----------------------------------------------------------------------------
(* Parts of steps *)

\* The rows that a job imports are rows.
LEMMA ReviewedRows ==
  ASSUME NEW s
  PROVE  SourceRows(s) \subseteq Row /\ Mapped(SourceRows(s)) \subseteq Row
BY DEF SourceRows, Mapped

\* A job that goes on, or is blocked, and a journal that has not more of it
LEMMA JobKept ==
  ASSUME ImportTypeOK, ImportInv, job # NoJob, job.state = "running",
         job' \in Job, job'.state \in {"running", "blocked"},
         job'.seal = job.seal, job'.contract = job.contract, job'.cursor = job.cursor,
         job'.written = job.written, job'.recorded = job.recorded,
         job'.state = "blocked" => Cause(job),
         UNCHANGED <<sources, databases>>,
         \A r \in Row : entry'[r] \in {entry[r], "none"},
         \A r \in Row : entry'[r] # "none" /\ r <= job.cursor => r \in job'.receipts
  PROVE  JobInv' /\ EntryInv' /\ Exact'
<1>1. job' # NoJob
  BY HistoryAssumption
<1>2. UNCHANGED <<stored, visible, seal, contract, foreign, sources>>
  BY DEF databases
<1>3. JobInv'
  BY <1>1, <1>2 DEF ImportInv, JobInv, Cause
<1>4. Reviewed(job)' = Reviewed(job) /\ Passed(job)' = Passed(job)
  BY DEF Reviewed, Passed
<1>5. EntryInv'
  BY <1>1, <1>2, <1>4 DEF ImportInv, EntryInv
<1>6. ~Earlier /\ ~Earlier'
  BY DEF Earlier
<1>7. Exact'
  BY <1>1, <1>2, <1>4, <1>6 DEF ImportInv, Exact
<1> QED BY <1>3, <1>5, <1>7

\* The worker rests.
LEMMA RestsHolds ==
  ASSUME Rests, seal' \in 0..1,
         timer' => job' # NoJob /\ (job'.state = "completed" => Earlier'),
         review' # NoReview =>
           job' = NoJob /\ review'.seal <= seal' /\ review'.contract <= contract'
  PROVE  WorkerInv' /\ PageInv'
BY DEF Rests, WorkerInv, PageInv

\* A step that fails
LEMMA FailsHolds ==
  ASSUME ImportTypeOK, ImportInv, job # NoJob, job.state = "running",
         NEW j \in Job, j \in {job, [job EXCEPT !.receipts = {}]},
         NEW state \in {"running", "blocked"}, NEW n \in 0..1, Fails(j, state, n),
         state = "blocked" => Cause(job),
         InStep, UNCHANGED sources, entry' \in [Row -> {"none", "pending", "writing", "confirmed"}],
         \A r \in Row : entry'[r] \in {entry[r], "none"},
         \A r \in Row : entry'[r] # "none" /\ r <= job.cursor => r \in j.receipts
  PROVE  ImportTypeOK' /\ ImportInv'
<1>1. job \in Job
  BY DEF ImportTypeOK
<1>2. /\ [j EXCEPT !.state = state] \in Job
      /\ j.receipts \subseteq job.receipts
      /\ j.seal = job.seal /\ j.contract = job.contract /\ j.cursor = job.cursor
      /\ j.written = job.written /\ j.recorded = job.recorded
  BY <1>1 DEF Job
<1>3. job' \in {job, [j EXCEPT !.state = state]} /\ Rests /\ UNCHANGED <<stopped, review>>
        /\ faults' \in 0..MaxFaults /\ faulted' \in BOOLEAN /\ timer' \in BOOLEAN
        /\ unrecorded' = unrecorded /\ admitted' \in BOOLEAN
  <2>1. MaxFaults \in Nat /\ faults \in 0..MaxFaults /\ faulted \in BOOLEAN /\ admitted \in BOOLEAN
    BY HistoryAssumption DEF ImportTypeOK
  <2>2. (~stopped /\ Kicks([j EXCEPT !.state = state], unrecorded)) \in BOOLEAN
    OBVIOUS
  <2>3. CASE /\ faults + n <= MaxFaults /\ faults' = faults + n
             /\ Ended([j EXCEPT !.state = state], unrecorded)
             /\ admitted' = FALSE
    <3>1. faults' \in 0..MaxFaults
      BY <2>1, <2>3
    <3>2. timer' \in BOOLEAN
      BY <2>2, <2>3 DEF Ended
    <3> QED BY <2>1, <2>3, <3>1, <3>2 DEF Ended
  <2>4. CASE /\ faults + n < MaxFaults /\ faults' = faults + n + 1
             /\ faulted' = TRUE /\ timer' = FALSE
             /\ Rests
             /\ UNCHANGED <<job, unrecorded, admitted, stopped, review>>
    <3>1. faults' \in 0..MaxFaults
      BY <2>1, <2>4
    <3> QED BY <2>1, <2>4, <3>1
  <2> QED BY <2>3, <2>4 DEF Fails
<1>4. /\ job' \in Job /\ job'.state \in {"running", "blocked"}
      /\ job'.seal = job.seal /\ job'.contract = job.contract /\ job'.cursor = job.cursor
      /\ job'.written = job.written /\ job'.recorded = job.recorded
      /\ job'.state = "blocked" => state = "blocked"
      /\ j.receipts \subseteq job'.receipts
  BY <1>1, <1>2, <1>3 DEF Job
<1>5. UNCHANGED databases /\ UNCHANGED healthy
  BY DEF InStep
<1>6. JobInv' /\ EntryInv' /\ Exact'
  BY <1>4, <1>5, JobKept
<1>7. review = NoReview
  BY DEF ImportInv, WorkerInv
<1>8. WorkerInv' /\ PageInv'
  <2>1. job' # NoJob /\ job'.state # "completed"
    BY <1>4, HistoryAssumption
  <2>2. seal' \in 0..1
    BY <1>5 DEF databases, ImportTypeOK
  <2> QED BY <1>3, <1>7, <2>1, <2>2, RestsHolds
<1>9. ImportTypeOK'
  BY <1>3, <1>4, <1>5 DEF ImportTypeOK, Rests, databases
<1> QED BY <1>6, <1>8, <1>9 DEF ImportInv

-----------------------------------------------------------------------------
(* Every action keeps the invariant *)

\* Init establishes it.
LEMMA ImportInitHolds == Init => ImportTypeOK /\ ImportInv
<1> SUFFICES ASSUME Init PROVE ImportTypeOK /\ ImportInv
  OBVIOUS
<1>0. N \in 0..N /\ 0 \in 0..MaxFaults /\ NoJob \notin Job
  BY HistoryAssumption
<1>1. /\ sources = {} /\ entry = [r \in Row |-> "none"]
      /\ seal = 0 /\ contract = 0 /\ foreign = FALSE
      /\ healthy = TRUE /\ stopped = FALSE /\ faulted = FALSE /\ timer = FALSE
      /\ review = NoReview /\ unrecorded = FALSE
      /\ admitted = FALSE /\ phase = "idle" /\ readSeal = 0
      /\ page = {} /\ todo = {} /\ slice = {}
      /\ faults = 0 /\ visible \subseteq stored
  BY DEF Init
<1>types. ASSUME job \in Job \cup {NoJob}, stored \subseteq Row PROVE ImportTypeOK
  <2>1. entry \in [Row -> {"none", "pending", "writing", "confirmed"}]
    BY <1>1
  <2>2. faults \in 0..MaxFaults /\ seal \in 0..1 /\ contract \in 0..1 /\ readSeal \in 0..1
    BY <1>0, <1>1
  <2>3. sources \subseteq Topic /\ visible \subseteq stored /\ review \in Reviewing \cup {NoReview}
          /\ page \subseteq Row /\ todo \subseteq Row /\ slice \subseteq Row
    BY <1>1
  <2> QED BY <1>1, <1>types, <2>1, <2>2, <2>3 DEF ImportTypeOK
<1>2. CASE job = NoJob /\ stored = {}
  <2>1. ImportTypeOK
    BY <1>2, <1>types
  <2>2. ImportInv
    BY <1>1, <1>2 DEF ImportInv, JobInv, EntryInv, Exact, WorkerInv, PageInv, Earlier
  <2> QED BY <2>1, <2>2
<1>3. CASE job = EarlierJob /\ stored \in {Reviewed(job), {}}
  <2>1. Mapped(SourceRows(0)) \in SUBSET Row
    BY ReviewedRows
  <2>2. Cardinality(Mapped(SourceRows(0))) \in Nat
    BY <2>1, RowsFinite
  <2>3. job = [state |-> "completed", cursor |-> N, written |-> Cardinality(Mapped(SourceRows(0))),
               receipts |-> {}, seal |-> 0, contract |-> 0, recorded |-> FALSE]
    BY <1>3 DEF EarlierJob, NewJob
  <2>4. job \in Job /\ job # NoJob
    <3>1. job \in Job
      BY <1>0, <2>2, <2>3 DEF Job
    <3> QED BY <1>0, <3>1
  <2>5. Reviewed(job) = Mapped(SourceRows(0)) /\ Earlier
    BY <2>3, <2>4 DEF Reviewed, Earlier
  <2>6. ImportTypeOK
    <3>1. stored \subseteq Row
      BY <1>3, <2>1, <2>5
    <3> QED BY <1>types, <2>4, <3>1
  <2>7. JobInv /\ EntryInv /\ WorkerInv /\ PageInv
    BY <1>1, <2>3, <2>4 DEF JobInv, EntryInv, WorkerInv, PageInv
  <2>8. Exact
    BY <1>3, <2>3, <2>5 DEF Exact
  <2> QED BY <2>6, <2>7, <2>8 DEF ImportInv
<1> QED BY <1>2, <1>3 DEF Init

\* A review begins, or is given up.
LEMMA ReviewHolds == ImportTypeOK /\ ImportInv /\ (Review \/ Refuse) => ImportTypeOK' /\ ImportInv'
<1> SUFFICES ASSUME ImportTypeOK, ImportInv, Review \/ Refuse
             PROVE  ImportTypeOK' /\ ImportInv'
  OBVIOUS
<1>1. /\ UNCHANGED <<durable, databases, healthy, stopped, faulted, timer, unrecorded, worker, faults>>
      /\ review' = NoReview \/ (review' = [seal |-> seal, contract |-> contract] /\ job = NoJob)
  BY DEF Review, Refuse
<1>2. review' \in Reviewing \cup {NoReview}
  BY <1>1 DEF ImportTypeOK, Reviewing
<1>3. ImportTypeOK'
  BY <1>1, <1>2 DEF ImportTypeOK, durable, databases, worker
<1>4. JobInv' /\ EntryInv' /\ Exact'
  BY <1>1 DEF ImportInv, JobInv, EntryInv, Exact, durable, databases, Cause, Earlier, Passed, Reviewed
<1>5. WorkerInv'
  BY <1>1 DEF ImportInv, WorkerInv, durable, databases, worker, Earlier, ImportTypeOK
<1>6. PageInv'
  BY <1>1 DEF ImportInv, PageInv, HeldPage, durable, databases, worker, Passed, Reviewed, NextPage
<1> QED BY <1>3, <1>4, <1>5, <1>6 DEF ImportInv

\* A job is stored.
LEMMA StartHolds == ImportTypeOK /\ ImportInv /\ Start => ImportTypeOK' /\ ImportInv'
<1> SUFFICES ASSUME ImportTypeOK, ImportInv, Start PROVE ImportTypeOK' /\ ImportInv'
  OBVIOUS
<1>1. job = NoJob /\ review \in Reviewing /\ review.seal <= seal /\ contract = review.contract
  BY DEF Start, ImportInv, WorkerInv, ImportTypeOK
<1>2. /\ job' = [state |-> "running", cursor |-> 0, written |-> 0, receipts |-> {},
                 seal |-> review.seal, contract |-> review.contract, recorded |-> FALSE]
      /\ review' = NoReview /\ timer' = TRUE
      /\ UNCHANGED <<sources, entry, databases, healthy, stopped, faulted, unrecorded, worker, faults>>
  BY DEF Start, NewJob
<1>3. job' \in Job /\ job' # NoJob
  <2>1. 0 \in 0..N /\ 0 \in Nat /\ {} \in SUBSET Row /\ NoJob \notin Job
    BY HistoryAssumption
  <2>2. job' \in Job
    BY <1>1, <1>2, <2>1 DEF Job, Reviewing
  <2> QED BY <2>1, <2>2
<1>4. stored = {} /\ sources = {} /\ phase = "idle" /\ \A r \in Row : entry[r] = "none"
  <2>1. stored = {} /\ sources = {}
    BY <1>1 DEF ImportInv, JobInv
  <2>2. \A r \in Row : entry[r] = "none"
    BY <1>1 DEF ImportInv, EntryInv
  <2>3. phase = "idle"
    BY <1>1 DEF ImportInv, WorkerInv, Earlier
  <2> QED BY <2>1, <2>2, <2>3
<1>5. ImportTypeOK'
  BY <1>2, <1>3 DEF ImportTypeOK, databases, worker
<1>6. JobInv'
  <2>1. /\ job'.seal = review.seal /\ job'.contract = review.contract
        /\ job'.state = "running" /\ ~job'.recorded
        /\ sources' = {} /\ seal' = seal /\ contract' = contract /\ contract <= contract
    BY <1>2, <1>4 DEF databases, ImportTypeOK
  <2> QED BY <1>1, <1>3, <2>1 DEF JobInv
<1>7. EntryInv'
  BY <1>2, <1>4 DEF EntryInv
<1>8. Exact'
  <2>1. Passed(job') = {}
    BY <1>2, ReviewedRows, Ordered, HistoryAssumption DEF Passed, Reviewed, Row
  <2>2. stored' = {} /\ ~Earlier' /\ job'.state = "running" /\ job'.written = 0
    BY <1>2, <1>4 DEF databases, Earlier
  <2>3. Passed(job)' = {}
    BY <2>1 DEF Passed, Reviewed
  <2> QED BY <2>2, <2>3, FS_EmptySet DEF Exact
<1>9. WorkerInv' /\ PageInv'
  <2>1. phase' = "idle" /\ review' = NoReview /\ job'.state = "running" /\ readSeal' <= seal'
          /\ slice' = {}
    BY <1>2, <1>4 DEF worker, databases, ImportInv, PageInv
  <2> QED BY <1>3, <2>1 DEF WorkerInv, PageInv
<1> QED BY <1>5, <1>6, <1>7, <1>8, <1>9 DEF ImportInv

\* What the job, its rows and its sources are does not change.
LEMMA DurableKept ==
  ASSUME ImportInv, UNCHANGED <<job, sources, entry, databases>>
  PROVE  JobInv' /\ EntryInv' /\ Exact'
BY DEF ImportInv, JobInv, EntryInv, Exact, databases, Cause, Earlier, Passed, Reviewed

\* The step under way has failed.
LEMMA StepFails ==
  ASSUME ImportTypeOK, ImportInv, phase \notin {"idle", "recover"},
         NEW state \in {"running", "blocked"}, NEW n \in 0..1, Fails(job, state, n),
         state = "blocked" => Cause(job),
         InStep, UNCHANGED <<sources, entry>>
  PROVE  ImportTypeOK' /\ ImportInv'
<1>1. job # NoJob /\ job.state = "running"
  BY DEF ImportInv, WorkerInv
<1>2. job \in Job
  BY <1>1 DEF ImportTypeOK
<1>3. entry' \in [Row -> {"none", "pending", "writing", "confirmed"}]
  BY DEF ImportTypeOK
<1>4. \A r \in Row : entry'[r] # "none" /\ r <= job.cursor => r \in job.receipts
  BY DEF ImportInv, EntryInv
<1> QED BY <1>1, <1>2, <1>3, <1>4, FailsHolds

\* The step under way goes on.
LEMMA StepGoes ==
  ASSUME ImportTypeOK, ImportInv, phase \notin {"idle", "recover"},
         phase' \notin {"idle", "recover"},
         UNCHANGED <<job, manager, sources, entry, databases>>
  PROVE  JobInv' /\ EntryInv' /\ Exact' /\ WorkerInv'
<1>1. JobInv' /\ EntryInv' /\ Exact'
  BY DurableKept
<1>2. job # NoJob /\ job.state = "running" /\ job.receipts = {} /\ ~timer /\ review = NoReview
  BY DEF ImportInv, WorkerInv
<1> QED BY <1>1, <1>2 DEF WorkerInv, manager

\* clearReceipts() and prepare()
LEMMA BeginHolds == ImportTypeOK /\ ImportInv /\ Begin => ImportTypeOK' /\ ImportInv'
<1> SUFFICES ASSUME ImportTypeOK, ImportInv, Begin PROVE ImportTypeOK' /\ ImportInv'
  OBVIOUS
<1>1. timer /\ job # NoJob /\ job \in Job /\ job.state = "running" /\ phase = "idle"
        /\ review = NoReview /\ InStep /\ UNCHANGED sources
  BY DEF Begin, ImportInv, WorkerInv, ImportTypeOK
<1>2. PICK R \in SUBSET job.receipts :
        LET j == IF R = job.receipts THEN [job EXCEPT !.receipts = {}] ELSE job
        IN  /\ entry' = Acknowledged(R)
            /\ \/ /\ R = job.receipts /\ contract = job.contract
                  /\ job' = j
                  /\ phase' = IF admitted THEN "seal" ELSE "inspect"
                  /\ timer' = FALSE
                  /\ UNCHANGED <<stopped, faulted, review, unrecorded, admitted, faults,
                                 readSeal, page, todo, slice>>
               \/ R = job.receipts /\ contract # job.contract /\ Fails(j, "blocked", 0)
               \/ Fails(j, "running", 1)
  BY DEF Begin
<1> DEFINE j == IF R = job.receipts THEN [job EXCEPT !.receipts = {}] ELSE job
<1>3. /\ j \in Job /\ j \in {job, [job EXCEPT !.receipts = {}]}
      /\ j.state = "running" /\ j.seal = job.seal /\ j.contract = job.contract
      /\ j.cursor = job.cursor /\ j.written = job.written /\ j.recorded = job.recorded
      /\ R = job.receipts => j.receipts = {}
      /\ R # job.receipts => j.receipts = job.receipts
  BY <1>1 DEF Job
<1>4. /\ entry' \in [Row -> {"none", "pending", "writing", "confirmed"}]
      /\ \A r \in Row : entry'[r] \in {entry[r], "none"}
  BY <1>2 DEF Acknowledged, ImportTypeOK
<1>5. \A r \in Row : entry'[r] # "none" /\ r <= job.cursor => r \in j.receipts
  BY <1>2, <1>3 DEF Acknowledged, ImportInv, EntryInv
<1> HIDE DEF j
<1>6. CASE R = job.receipts /\ contract # job.contract /\ Fails(j, "blocked", 0)
  <2>1. Cause(job)
    BY <1>6 DEF Cause
  <2> QED BY <1>1, <1>3, <1>4, <1>5, <1>6, <2>1, FailsHolds
<1>7. CASE Fails(j, "running", 1)
  BY <1>1, <1>3, <1>4, <1>5, <1>7, FailsHolds
<1>8. CASE /\ R = job.receipts /\ contract = job.contract
           /\ job' = j
           /\ phase' = IF admitted THEN "seal" ELSE "inspect"
           /\ timer' = FALSE
           /\ UNCHANGED <<stopped, faulted, review, unrecorded, admitted, faults,
                          readSeal, page, todo, slice>>
  <2>1. UNCHANGED <<stored, visible, seal, contract, foreign, healthy>>
    BY <1>1 DEF InStep, databases
  <2>2. JobInv' /\ EntryInv' /\ Exact'
    BY <1>1, <1>3, <1>4, <1>5, <1>8, <2>1, JobKept DEF databases
  <2>3. WorkerInv' /\ PageInv'
    BY <1>1, <1>3, <1>8, <2>1, HistoryAssumption DEF WorkerInv, PageInv, ImportInv
  <2>4. ImportTypeOK'
    BY <1>1, <1>3, <1>4, <1>8, <2>1 DEF ImportTypeOK
  <2> QED BY <2>2, <2>3, <2>4 DEF ImportInv
<1> QED BY <1>2, <1>6, <1>7, <1>8 DEF j

\* The target is inspected.
LEMMA InspectHolds == ImportTypeOK /\ ImportInv /\ Inspect => ImportTypeOK' /\ ImportInv'
<1> SUFFICES ASSUME ImportTypeOK, ImportInv, Inspect PROVE ImportTypeOK' /\ ImportInv'
  OBVIOUS
<1>1. phase = "inspect" /\ InStep /\ UNCHANGED <<sources, entry>>
  BY DEF Inspect
<1>2. CASE /\ phase' = "seal" /\ admitted' = TRUE
           /\ UNCHANGED <<job, manager, faults, readSeal, page, todo, slice>>
  <2>1. JobInv' /\ EntryInv' /\ Exact' /\ WorkerInv'
    BY <1>1, <1>2, StepGoes DEF InStep
  <2>2. PageInv'
    BY <1>1, <1>2 DEF InStep, databases, ImportInv, PageInv
  <2>3. ImportTypeOK'
    BY <1>1, <1>2 DEF InStep, databases, ImportTypeOK, manager
  <2> QED BY <2>1, <2>2, <2>3 DEF ImportInv
<1>3. CASE Overlap /\ Fails(job, "blocked", 0)
  BY <1>1, <1>3, StepFails DEF Overlap, Cause
<1>4. CASE Fails(job, "running", 0) \/ Fails(job, "running", 1)
  BY <1>1, <1>4, StepFails
<1> QED BY <1>2, <1>3, <1>4 DEF Inspect

\* The seal, the page, and the seal again: read()
LEMMA ReadHolds ==
  ImportTypeOK /\ ImportInv /\ (ReadSeal \/ ReadRows \/ ReadAgain) => ImportTypeOK' /\ ImportInv'
<1> SUFFICES ASSUME ImportTypeOK, ImportInv, ReadSeal \/ ReadRows \/ ReadAgain
             PROVE  ImportTypeOK' /\ ImportInv'
  OBVIOUS
<1>1. phase \in {"seal", "rows", "reseal"} /\ InStep /\ UNCHANGED <<sources, entry>>
  BY DEF ReadSeal, ReadRows, ReadAgain
<1>2. job # NoJob /\ job \in Job /\ job.seal \in 0..1 /\ job.seal <= seal
  BY <1>1 DEF ImportInv, WorkerInv, JobInv, ImportTypeOK, Job
<1>3. NextPage \in SUBSET Row /\ Mapped(page) \in SUBSET Row
  BY ReviewedRows DEF NextPage, First, Mapped, ImportTypeOK
<1>4. CASE Fails(job, "running", 1)
  BY <1>1, <1>4, StepFails
<1>5. CASE phase = "reseal" /\ ~Sealed /\ Fails(job, "blocked", 0)
  <2>1. job.seal <= readSeal /\ readSeal <= seal /\ readSeal \in 0..1 /\ seal \in 0..1
    BY <1>5 DEF ImportInv, PageInv, ImportTypeOK
  <2>2. Cause(job)
    BY <1>2, <1>5, <2>1 DEF Sealed, Cause
  <2> QED BY <1>1, <1>5, <2>2, StepFails
<1>6. CASE phase = "seal" /\ readSeal' = seal /\ Goes("rows") /\ UNCHANGED <<page, todo, slice>>
  <2>1. JobInv' /\ EntryInv' /\ Exact' /\ WorkerInv'
    BY <1>1, <1>6, StepGoes DEF InStep, Goes
  <2>2. PageInv'
    BY <1>1, <1>2, <1>6 DEF InStep, databases, ImportInv, PageInv, Goes, ImportTypeOK
  <2>3. ImportTypeOK'
    BY <1>1, <1>6 DEF InStep, databases, ImportTypeOK, manager, Goes
  <2> QED BY <2>1, <2>2, <2>3 DEF ImportInv
<1>7. CASE /\ phase = "rows" /\ page' = NextPage /\ Goes("reseal")
           /\ UNCHANGED <<readSeal, todo, slice>>
  <2>1. JobInv' /\ EntryInv' /\ Exact' /\ WorkerInv'
    BY <1>1, <1>7, StepGoes DEF InStep, Goes
  <2>2. NextPage' = NextPage
    BY <1>1, <1>7 DEF InStep, databases, Goes, NextPage
  <2>3. PageInv'
    BY <1>1, <1>2, <1>7, <2>2 DEF InStep, databases, ImportInv, PageInv, Goes
  <2>4. ImportTypeOK'
    BY <1>1, <1>3, <1>7 DEF InStep, databases, ImportTypeOK, manager, Goes
  <2> QED BY <2>1, <2>3, <2>4 DEF ImportInv
<1>8. CASE /\ phase = "reseal" /\ Sealed
           /\ Goes(IF page = {} THEN "verify" ELSE "write")
           /\ todo' = Mapped(page)
           /\ UNCHANGED <<readSeal, page, slice>>
  <2>1. JobInv' /\ EntryInv' /\ Exact' /\ WorkerInv'
    BY <1>1, <1>8, StepGoes DEF InStep, Goes
  <2>2. page = First({r \in SourceRows(job.seal) : r > job.cursor}, PageSize)
    BY <1>8 DEF ImportInv, PageInv, Sealed, NextPage
  <2> DEFINE rest == {r \in SourceRows(job.seal) : r > job.cursor}
  <2>3. rest \in SUBSET Row
    BY ReviewedRows
  <2>4. page \subseteq rest /\ (rest # {} => page # {})
          /\ \A r \in page, x \in rest : x <= r => x \in page
    BY <2>2, <2>3, FirstIsInitial, HistoryAssumption
  <2>5. ImportTypeOK'
    BY <1>1, <1>3, <1>8 DEF InStep, databases, ImportTypeOK, manager, Goes
  <2>6. UNCHANGED <<job, page, readSeal, seal, entry>> /\ todo' = Mapped(page) /\ slice' = slice
    BY <1>1, <1>8 DEF InStep, databases, Goes
  <2>empty. slice = {}
    BY <1>8 DEF ImportInv, PageInv
  <2>7. CASE page = {}
    <3>1. rest = {} /\ phase' = "verify"
      BY <1>8, <2>4, <2>7 DEF Goes
    <3>2. \A r \in Reviewed(job) : r <= job.cursor
      BY <1>2, <3>1, Ordered, ReviewedRows DEF Reviewed, Mapped, Job, Row
    <3>3. Reviewed(job)' = Passed(job)'
      BY <2>6, <3>2 DEF Passed, Reviewed
    <3> QED BY <2>1, <2>5, <2>6, <2>empty, <3>1, <3>3 DEF ImportInv, PageInv
  <2>8. CASE page # {}
    <3>1. phase' = "write"
      BY <1>8, <2>8 DEF Goes
    <3>2. HeldPage'
      BY <2>4, <2>6, <2>8, <2>empty DEF HeldPage
    <3> QED BY <2>1, <2>5, <2>6, <2>empty, <3>1, <3>2 DEF ImportInv, PageInv
  <2> QED BY <2>7, <2>8
<1> QED BY <1>4, <1>5, <1>6, <1>7, <1>8 DEF ReadSeal, ReadRows, ReadAgain

\* A slice is handed over.
LEMMA HandOverHolds == ImportTypeOK /\ ImportInv /\ HandOver => ImportTypeOK' /\ ImportInv'
<1> SUFFICES ASSUME ImportTypeOK, ImportInv, HandOver PROVE ImportTypeOK' /\ ImportInv'
  OBVIOUS
<1>1. PICK taken \in SUBSET slice', started \in SUBSET slice' :
        /\ \/ phase' = "slice" /\ UNCHANGED faults
           \/ phase' = "refused" /\ contract # job.contract /\ UNCHANGED faults
           \/ phase' = "slice" /\ Fault
        /\ entry' = [r \in Row |-> IF r \notin taken \/ entry[r] \in {"confirmed", "writing"}
                                   THEN entry[r]
                                   ELSE IF r \in started THEN "writing" ELSE "pending"]
  BY DEF HandOver
<1>2. /\ phase = "write" /\ slice' = First(todo, SliceSize)
      /\ UNCHANGED <<job, sources, manager, admitted, readSeal, page, todo, databases, healthy>>
  BY DEF HandOver, InStep
<1>3. job # NoJob /\ job.state = "running" /\ HeldPage
  BY <1>2 DEF ImportInv, WorkerInv, PageInv
<1>4. slice' \subseteq todo /\ todo \subseteq Mapped(page) /\ todo \subseteq Row
  BY <1>2, <1>3, FirstIsInitial, HistoryAssumption DEF HeldPage, ImportTypeOK
<1>5. \A r \in taken : r \in Row /\ r \in Reviewed(job) /\ ~(r <= job.cursor)
  <2>1. job.cursor \in Nat
    BY <1>3, HistoryAssumption DEF ImportTypeOK, Job
  <2> QED BY <1>3, <1>4, <2>1, Ordered DEF HeldPage, Mapped, Reviewed
<1>6. ImportTypeOK'
  <2>1. faults' \in 0..MaxFaults
    BY <1>1, HistoryAssumption DEF Fault, ImportTypeOK
  <2>2. entry' \in [Row -> {"none", "pending", "writing", "confirmed"}]
    BY <1>1 DEF ImportTypeOK
  <2> QED BY <1>1, <1>2, <1>4, <2>1, <2>2 DEF ImportTypeOK, databases, manager
<1>7. \A r \in Row : /\ entry[r] = "confirmed" <=> entry'[r] = "confirmed"
                     /\ entry'[r] # "none" => entry[r] # "none" \/ r \in taken
  BY <1>1 DEF ImportTypeOK
<1>8. EntryInv'
  <2> SUFFICES ASSUME NEW r \in Row, entry'[r] # "none"
               PROVE  /\ job # NoJob /\ job.state # "completed" /\ r \in Reviewed(job)
                      /\ entry'[r] = "confirmed" => r \in stored
                      /\ r <= job.cursor => entry'[r] = "confirmed" /\ r \in job.receipts
    BY <1>2 DEF EntryInv, databases, Reviewed
  <2> QED BY <1>3, <1>5, <1>7 DEF ImportInv, EntryInv
<1>9. JobInv' /\ Exact' /\ WorkerInv'
  <2>1. JobInv' /\ Exact'
    BY <1>2 DEF ImportInv, JobInv, Exact, databases, Cause, Earlier, Passed, Reviewed
  <2>2. phase' \notin {"idle", "recover"}
    BY <1>1
  <2>3. WorkerInv'
    BY <1>2, <2>2 DEF ImportInv, WorkerInv, manager, databases
  <2> QED BY <2>1, <2>3
<1>10. HeldPage'
  BY <1>2, <1>3, <1>4, <1>7 DEF HeldPage, Mapped, ImportTypeOK
<1>11. PageInv'
  BY <1>1, <1>2, <1>10 DEF ImportInv, PageInv, databases
<1> QED BY <1>6, <1>8, <1>9, <1>11 DEF ImportInv

\* The step ends between two slices.
LEMMA YieldHolds == ImportTypeOK /\ ImportInv /\ Yield => ImportTypeOK' /\ ImportInv'
<1> SUFFICES ASSUME ImportTypeOK, ImportInv, Yield PROVE ImportTypeOK' /\ ImportInv'
  OBVIOUS
<1>1. /\ phase = "write" /\ Rests /\ timer' = (~stopped /\ Kicks(job, unrecorded))
      /\ UNCHANGED <<job, sources, entry, databases, healthy, stopped, faulted, review,
                     unrecorded, admitted, faults>>
  BY DEF Yield, Ended, InStep
<1>2. job # NoJob /\ job.state = "running" /\ review = NoReview
  BY <1>1 DEF ImportInv, WorkerInv
<1>3. JobInv' /\ EntryInv' /\ Exact'
  BY <1>1, DurableKept
<1>4. WorkerInv' /\ PageInv'
  BY <1>1, <1>2, RestsHolds DEF databases, ImportTypeOK
<1>5. timer' \in BOOLEAN
  BY <1>1
<1>6. ImportTypeOK'
  BY <1>1, <1>5 DEF ImportTypeOK, Rests, databases
<1> QED BY <1>3, <1>4, <1>6 DEF ImportInv

\* The writes of a slice have settled.
LEMMA SettleHolds == ImportTypeOK /\ ImportInv /\ Settle => ImportTypeOK' /\ ImportInv'
<1> SUFFICES ASSUME ImportTypeOK, ImportInv, Settle PROVE ImportTypeOK' /\ ImportInv'
  OBVIOUS
<1>1. phase \in {"slice", "refused"} /\ InStep /\ UNCHANGED <<sources, entry>>
  BY DEF Settle
<1>2. HeldPage /\ (phase = "refused" => Cause(job))
  BY <1>1 DEF ImportInv, PageInv, Cause
<1>3. CASE Fails(job, "running", 0)
  BY <1>1, <1>3, StepFails
<1>4. CASE phase = "refused" /\ Fails(job, "blocked", 0)
  BY <1>1, <1>2, <1>4, StepFails
<1>5. CASE /\ \A r \in slice : entry[r] = "confirmed"
           /\ todo' = todo \ slice /\ slice' = {}
           /\ Goes("write")
           /\ UNCHANGED <<readSeal, page>>
  <2>1. UNCHANGED <<job, manager, sources, entry, databases, healthy, admitted, faults, readSeal, page>>
          /\ phase' = "write" /\ todo' = todo \ slice /\ slice' = {}
    BY <1>1, <1>5 DEF Goes, InStep
  <2>2. JobInv' /\ EntryInv' /\ Exact' /\ WorkerInv'
    BY <1>1, <2>1, StepGoes
  <2>3. HeldPage'
    BY <1>2, <1>5, <2>1 DEF HeldPage, Mapped
  <2>4. PageInv'
    BY <2>1, <2>3 DEF ImportInv, PageInv, databases
  <2>5. ImportTypeOK'
    BY <2>1 DEF ImportTypeOK, databases, manager
  <2> QED BY <2>2, <2>4, <2>5 DEF ImportInv
<1> QED BY <1>3, <1>4, <1>5 DEF Settle

\* The cursor moves over the page.
LEMMA CheckpointHolds == ImportTypeOK /\ ImportInv /\ Checkpoint => ImportTypeOK' /\ ImportInv'
<1> SUFFICES ASSUME ImportTypeOK, ImportInv, Checkpoint PROVE ImportTypeOK' /\ ImportInv'
  OBVIOUS
<1>1. phase = "write" /\ todo = {} /\ InStep /\ UNCHANGED <<sources, entry>>
  BY DEF Checkpoint
<1>2. CASE Fails(job, "running", 1)
  BY <1>1, <1>2, StepFails
<1>3. CASE Ended(Advanced(job), unrecorded) /\ UNCHANGED <<admitted, faults>>
  <2> DEFINE last == Last(page)
             done == Mapped(page)
  <2>1. job # NoJob /\ job \in Job /\ job.state = "running" /\ job.receipts = {} /\ review = NoReview
          /\ HeldPage /\ ~Earlier
    BY <1>1 DEF ImportInv, WorkerInv, PageInv, ImportTypeOK, Earlier
  <2>2. /\ last \in page /\ last \in Row /\ \A r \in page : r <= last
        /\ done \in SUBSET Row /\ page \subseteq Row
    BY <2>1, LastRow DEF HeldPage, ImportTypeOK, Mapped
  <2>3. Cardinality(done) \in Nat
    BY <2>2, RowsFinite
  <2>4. /\ job' = [job EXCEPT !.cursor = last, !.written = @ + Cardinality(done), !.receipts = done]
        /\ Rests /\ timer' = (~stopped /\ Kicks(job', unrecorded))
        /\ UNCHANGED <<stopped, faulted, review, unrecorded, admitted, faults, sources, entry,
                       stored, visible, seal, contract, foreign, healthy>>
    BY <1>1, <1>3 DEF Ended, Advanced, InStep, databases
  <2> HIDE DEF last, done
  <2>5. last \in 0..N
    BY <2>2, HistoryAssumption DEF Row
  <2>6. /\ job' \in Job
        /\ job'.cursor = last /\ job'.written = job.written + Cardinality(done)
        /\ job'.receipts = done /\ job'.state = "running"
        /\ job'.seal = job.seal /\ job'.contract = job.contract /\ job'.recorded = job.recorded
    <3>1. job.written \in Nat
      BY <2>1 DEF Job
    <3>2. job.written + Cardinality(done) \in Nat
      BY <2>3, <3>1
    <3> DEFINE count == job.written + Cardinality(done)
    <3>3. job' = [job EXCEPT !.cursor = last, !.written = count, !.receipts = done]
      BY <2>1, <2>4 DEF Job
    <3> HIDE DEF count
    <3>4. count \in Nat
      BY <3>2 DEF count
    <3>5. /\ job' \in Job
          /\ job'.cursor = last /\ job'.written = count
          /\ job'.receipts = done /\ job'.state = "running"
          /\ job'.seal = job.seal /\ job'.contract = job.contract /\ job'.recorded = job.recorded
      BY <2>1, <2>2, <2>5, <3>3, <3>4 DEF Job
    <3> QED BY <3>5 DEF count
  <2>7. job' # NoJob
    BY <2>6, HistoryAssumption
  <2>8. Reviewed(job') = Reviewed(job) /\ Reviewed(job) \in SUBSET Row
    BY <2>6, ReviewedRows DEF Reviewed
  <2>9. ASSUME NEW r \in Row, r \in Reviewed(job), r <= last
        PROVE  r <= job.cursor \/ r \in done
    <3>1. job.cursor \in Nat /\ r \in Nat
      BY <2>1, HistoryAssumption DEF Job, Row
    <3>2. r > job.cursor \/ r <= job.cursor
      BY <3>1
    <3>3. r > job.cursor => r \in page
      BY <2>1, <2>2, <2>9 DEF HeldPage, Reviewed, Mapped
    <3> QED BY <2>9, <3>2, <3>3 DEF done, Reviewed, Mapped
  <2>10. \A r \in done : entry[r] = "confirmed" /\ r \in Reviewed(job) /\ r <= last /\ ~(r <= job.cursor)
    <3>1. job.cursor \in Nat
      BY <2>1, HistoryAssumption DEF Job
    <3> QED BY <1>1, <2>1, <2>2, <3>1, Ordered DEF HeldPage, done, Mapped, Reviewed
  <2>11. \A r \in Row : r <= job.cursor => r <= last
    <3>1. job.cursor \in Nat /\ last \in Nat /\ last > job.cursor /\ Row \subseteq Nat
      BY <2>1, <2>2, HistoryAssumption, Ordered DEF HeldPage, Job
    <3> QED BY <3>1
  <2>12. Passed(job') = Passed(job) \cup done
    BY <2>2, <2>6, <2>8, <2>9, <2>10, <2>11 DEF Passed
  <2>13. Passed(job) \cap done = {}
    BY <2>10 DEF Passed
  <2>14. job'.written = Cardinality(Passed(job'))
    <3>1. Passed(job) \in SUBSET Row
      BY <2>8 DEF Passed
    <3>2. job.written = Cardinality(Passed(job))
      BY <2>1 DEF ImportInv, Exact
    <3> QED BY <2>2, <2>6, <2>12, <2>13, <3>1, <3>2, CountBoth
  <2>15. \A r \in done : r \in stored
    BY <2>2, <2>10 DEF ImportInv, EntryInv
  <2>16. Exact'
    <3>1. stored \subseteq Reviewed(job) /\ Passed(job) \subseteq stored
      BY <2>1 DEF ImportInv, Exact
    <3>2. stored' = stored /\ Reviewed(job)' = Reviewed(job') /\ Passed(job)' = Passed(job')
      BY <2>4 DEF Reviewed, Passed
    <3>3. ~Earlier'
      BY <2>6 DEF Earlier
    <3> QED BY <2>6, <2>8, <2>12, <2>14, <2>15, <3>1, <3>2, <3>3 DEF Exact
  <2>17. EntryInv'
    <3> SUFFICES ASSUME NEW r \in Row, entry[r] # "none"
                 PROVE  /\ job'.state # "completed" /\ r \in Reviewed(job')
                        /\ entry[r] = "confirmed" => r \in stored
                        /\ r <= job'.cursor => entry[r] = "confirmed" /\ r \in job'.receipts
      BY <2>4, <2>7 DEF EntryInv, Reviewed
    <3>1. r \in Reviewed(job) /\ (entry[r] = "confirmed" => r \in stored)
            /\ ~(r <= job.cursor)
      BY <2>1 DEF ImportInv, EntryInv
    <3> QED BY <2>6, <2>8, <2>9, <2>10, <3>1
  <2>18. JobInv'
    BY <2>1, <2>4, <2>6, <2>7 DEF ImportInv, JobInv
  <2>19. WorkerInv' /\ PageInv'
    BY <2>1, <2>4, <2>6, <2>7, RestsHolds DEF ImportTypeOK
  <2>20. ImportTypeOK'
    <3>1. timer' \in BOOLEAN
      BY <2>4
    <3> QED BY <2>4, <2>6, <3>1 DEF ImportTypeOK, Rests
  <2> QED BY <2>16, <2>17, <2>18, <2>19, <2>20 DEF ImportInv
<1> QED BY <1>2, <1>3 DEF Checkpoint

\* When no row is left, the target holds the rows of the job, and their count is right.
LEMMA AllPassed ==
  ASSUME ImportTypeOK, ImportInv, phase = "verify", Applied
  PROVE  stored = Reviewed(job) /\ Passed(job) = Reviewed(job) /\ Counted(job)
<1>1. job # NoJob /\ ~Earlier
  BY DEF ImportInv, WorkerInv, Earlier
<1>2. stored \subseteq Reviewed(job) /\ Passed(job) \subseteq stored
        /\ job.written = Cardinality(Passed(job)) /\ Reviewed(job) = Passed(job)
  BY <1>1 DEF ImportInv, Exact, PageInv
<1> QED BY <1>2 DEF Applied, Counted

\* complete()
LEMMA CompletesHolds ==
  ASSUME ImportTypeOK, ImportInv, phase \in {"verify", "recover"}, Applied, Counted(job),
         Completes, InStep, UNCHANGED <<entry, admitted, faults>>
  PROVE  ImportTypeOK' /\ ImportInv'
<1>1. job # NoJob /\ job \in Job /\ review = NoReview
        /\ (phase = "verify" => job.state = "running" /\ ~Earlier /\ job.receipts = {})
        /\ (phase = "recover" => Earlier)
  BY DEF ImportInv, WorkerInv, ImportTypeOK, Earlier
<1>2. Reviewed(job) \in SUBSET Row
  BY ReviewedRows DEF Reviewed
<1>3. stored = Reviewed(job) /\ Passed(job) = Reviewed(job) /\ job.written = Cardinality(Reviewed(job))
  <2>1. CASE phase = "verify"
    BY <1>1, <2>1, AllPassed DEF ImportInv, Exact
  <2>2. CASE phase = "recover"
    <3>1. stored \in {Reviewed(job), {}} /\ job.written = Cardinality(Reviewed(job)) /\ job.cursor = N
      BY <1>1, <2>2 DEF ImportInv, Exact
    <3>2. Cardinality(stored) = Cardinality(Reviewed(job))
      BY <3>1 DEF Applied, Counted
    <3>3. stored = {} => Reviewed(job) = {}
      BY <1>2, <3>2, RowsFinite, FS_EmptySet
    <3>4. \A r \in Row : r <= job.cursor
      BY <3>1, HistoryAssumption DEF Row
    <3>5. Passed(job) = Reviewed(job)
      BY <1>2, <3>4 DEF Passed
    <3> QED BY <3>1, <3>3, <3>5
  <2> QED BY <2>1, <2>2
<1>4. \A r \in Row : entry[r] = "none"
  <2> SUFFICES ASSUME NEW r \in Row, entry[r] # "none" PROVE FALSE
    OBVIOUS
  <2>1. r \in Reviewed(job) /\ job.state # "completed" /\ (r <= job.cursor => r \in job.receipts)
    BY DEF ImportInv, EntryInv
  <2>2. phase = "verify"
    BY <1>1, <2>1 DEF Earlier
  <2>3. r <= job.cursor
    BY <1>3, <2>1 DEF Passed
  <2> QED BY <1>1, <2>1, <2>2, <2>3
<1>5. /\ job' = [job EXCEPT !.state = "completed", !.recorded = TRUE]
      /\ sources' = sources \cup {TopicOf[r] : r \in visible}
      /\ Rests /\ timer' = FALSE /\ unrecorded' = FALSE
      /\ UNCHANGED <<stopped, faulted, review, admitted, faults, entry,
                     stored, visible, seal, contract, foreign, healthy>>
  <2>1. ~Kicks(Completed(job), FALSE)
    BY <1>1 DEF Kicks, Completed, Job
  <2> QED BY <2>1 DEF Completes, Ended, Completed, InStep, databases
<1>6. /\ job' \in Job /\ job'.state = "completed" /\ job'.recorded
      /\ job'.seal = job.seal /\ job'.contract = job.contract /\ job'.cursor = job.cursor
      /\ job'.written = job.written
  BY <1>1, <1>5 DEF Job
<1>7. job' # NoJob /\ ~Earlier'
  BY <1>6, HistoryAssumption DEF Earlier
<1>8. Reviewed(job)' = Reviewed(job) /\ Passed(job)' = Passed(job)
  BY <1>6 DEF Reviewed, Passed
<1>9. sources = {}
  <2>1. ~job.recorded
    BY <1>1 DEF ImportInv, JobInv, Earlier
  <2> QED BY <1>1, <2>1 DEF ImportInv, JobInv
<1>10. sources' = {TopicOf[r] : r \in stored'}
  BY <1>5, <1>9 DEF Applied
<1>11. sources' \subseteq Topic
  BY <1>2, <1>3, <1>5, <1>10, HistoryAssumption
<1>12. JobInv'
  <2>1. job.seal <= seal /\ job.contract <= contract
    BY <1>1 DEF ImportInv, JobInv
  <2> QED BY <1>5, <1>6, <1>7, <1>10, <2>1 DEF JobInv
<1>13. Exact'
  BY <1>3, <1>5, <1>6, <1>7, <1>8 DEF Exact, Applied
<1>14. EntryInv'
  BY <1>4, <1>5 DEF EntryInv
<1>15. WorkerInv' /\ PageInv'
  BY <1>1, <1>5, RestsHolds DEF ImportTypeOK
<1>16. ImportTypeOK'
  <2>1. /\ Rests /\ timer' = FALSE /\ unrecorded' = FALSE
        /\ UNCHANGED <<stopped, faulted, review, admitted, faults, entry,
                       stored, visible, seal, contract, foreign, healthy>>
    BY <1>5
  <2>2. phase' = "idle" /\ readSeal' \in 0..1
          /\ page' \subseteq Row /\ todo' \subseteq Row /\ slice' \subseteq Row
    BY <2>1 DEF Rests
  <2>3. timer' \in BOOLEAN /\ unrecorded' \in BOOLEAN
    BY <2>1
  <2> QED BY <1>6, <1>11, <2>1, <2>2, <2>3 DEF ImportTypeOK
<1> QED BY <1>12, <1>13, <1>14, <1>15, <1>16 DEF ImportInv

\* No row is left.
LEMMA VerifyHolds == ImportTypeOK /\ ImportInv /\ Verify => ImportTypeOK' /\ ImportInv'
<1> SUFFICES ASSUME ImportTypeOK, ImportInv, Verify PROVE ImportTypeOK' /\ ImportInv'
  OBVIOUS
<1>1. phase = "verify" /\ InStep /\ UNCHANGED entry
  BY DEF Verify
<1>2. CASE Applied /\ Counted(job) /\ Completes /\ UNCHANGED <<admitted, faults>>
  BY <1>1, <1>2, CompletesHolds
<1>3. CASE Applied /\ ~Counted(job)
  BY <1>1, <1>3, AllPassed
<1>4. CASE (Fails(job, "running", 0) \/ Fails(job, "running", 1)) /\ UNCHANGED sources
  BY <1>1, <1>4, StepFails
<1> QED BY <1>2, <1>3, <1>4 DEF Verify

\* recoverCompletedSources()
LEMMA RecoveryHolds ==
  ImportTypeOK /\ ImportInv /\ (BeginRecovery \/ Recover) => ImportTypeOK' /\ ImportInv'
<1> SUFFICES ASSUME ImportTypeOK, ImportInv, BeginRecovery \/ Recover
             PROVE  ImportTypeOK' /\ ImportInv'
  OBVIOUS
<1>1. job # NoJob /\ Earlier /\ InStep /\ UNCHANGED <<entry, admitted>> /\ review = NoReview
  BY DEF BeginRecovery, Recover, ImportInv, WorkerInv, Earlier
<1>2. ASSUME NEW pending \in BOOLEAN, Ended(job, pending), UNCHANGED sources, faults' \in 0..MaxFaults
      PROVE  ImportTypeOK' /\ ImportInv'
  <2>1. /\ Rests /\ timer' \in BOOLEAN /\ unrecorded' \in BOOLEAN
        /\ UNCHANGED <<job, stopped, faulted, review, sources, entry, admitted, databases, healthy>>
    BY <1>1, <1>2 DEF Ended, InStep
  <2>2. JobInv' /\ EntryInv' /\ Exact'
    BY <2>1, DurableKept
  <2>3. Earlier' /\ seal' \in 0..1
    BY <1>1, <2>1 DEF Earlier, databases, ImportTypeOK
  <2>4. WorkerInv' /\ PageInv'
    BY <1>1, <2>1, <2>3, RestsHolds
  <2>5. ImportTypeOK'
    BY <1>2, <2>1 DEF ImportTypeOK, Rests, databases
  <2> QED BY <2>2, <2>4, <2>5 DEF ImportInv
<1>3. faults \in 0..MaxFaults /\ (Fault => faults' \in 0..MaxFaults)
  <2>1. MaxFaults \in Nat /\ faults \in 0..MaxFaults
    BY HistoryAssumption DEF ImportTypeOK
  <2> QED BY <2>1 DEF Fault
<1>4. CASE BeginRecovery
  <2>1. CASE contract # job.contract
    BY <1>2, <1>3, <1>4, <2>1 DEF BeginRecovery
  <2>2. CASE contract = job.contract
    <3>1. /\ phase' = "recover" /\ unrecorded' = FALSE /\ timer' = FALSE
          /\ UNCHANGED <<job, sources, entry, databases, healthy, stopped, faulted, review, admitted,
                         faults, readSeal, page, todo, slice>>
      BY <1>4, <2>2 DEF BeginRecovery, InStep
    <3>2. phase = "idle"
      BY <1>4 DEF BeginRecovery, ImportInv, WorkerInv
    <3>3. JobInv' /\ EntryInv' /\ Exact'
      BY <3>1, DurableKept
    <3>4. WorkerInv' /\ PageInv'
      BY <1>1, <3>1, <3>2 DEF WorkerInv, PageInv, ImportInv, Earlier, databases
    <3>5. ImportTypeOK'
      BY <3>1 DEF ImportTypeOK, databases
    <3> QED BY <3>3, <3>4, <3>5 DEF ImportInv
  <2> QED BY <2>1, <2>2
<1>5. CASE Recover
  <2>1. CASE Applied /\ Counted(job) /\ Completes /\ UNCHANGED faults
    BY <1>1, <1>5, <2>1, CompletesHolds DEF Recover
  <2>2. CASE Ended(job, FALSE) /\ UNCHANGED <<sources, faults>>
    BY <1>2, <1>3, <2>2
  <2>3. CASE Ended(job, TRUE) /\ UNCHANGED sources /\ (UNCHANGED faults \/ Fault)
    BY <1>2, <1>3, <2>3
  <2> QED BY <1>5, <2>1, <2>2, <2>3 DEF Recover
<1> QED BY <1>4, <1>5

\* The journal tries a row, and its write is answered, or fails.
LEMMA JournalHolds ==
  ASSUME ImportTypeOK, ImportInv, NEW r \in Row, Attempt(r) \/ Confirm(r) \/ Reject(r)
  PROVE  ImportTypeOK' /\ ImportInv'
<1>1. /\ UNCHANGED <<job, sources, visible, seal, contract, foreign, healthy, manager, worker>>
      /\ entry[r] \in {"pending", "writing"}
      /\ \E to \in {"pending", "writing", "confirmed"} :
           /\ entry' = [entry EXCEPT ![r] = to]
           /\ to = "confirmed" => r \in stored'
      /\ stored' \in {stored, stored \cup {r}} /\ faults' \in 0..MaxFaults
  <2>1. MaxFaults \in Nat /\ faults \in 0..MaxFaults /\ (Fault => faults' \in 0..MaxFaults)
    <3>1. MaxFaults \in Nat /\ faults \in 0..MaxFaults
      BY HistoryAssumption DEF ImportTypeOK
    <3> QED BY <3>1 DEF Fault
  <2> QED BY <2>1 DEF Attempt, Confirm, Reject, databases
<1>2. job # NoJob /\ job.state # "completed" /\ r \in Reviewed(job) /\ ~(r <= job.cursor)
  BY <1>1 DEF ImportInv, EntryInv
<1>3. \A x \in Row : /\ entry'[x] # "none" <=> entry[x] # "none"
                     /\ x # r => entry'[x] = entry[x]
                     /\ entry[x] = "confirmed" => x # r
                     /\ x = r => (entry'[x] = "confirmed" => x \in stored')
  BY <1>1 DEF ImportTypeOK
<1>4. Reviewed(job)' = Reviewed(job) /\ Passed(job)' = Passed(job) /\ ~Earlier /\ ~Earlier'
  BY <1>1, <1>2 DEF Reviewed, Passed, Earlier
<1>5. EntryInv'
  <2> SUFFICES ASSUME NEW x \in Row, entry'[x] # "none"
               PROVE  /\ job # NoJob /\ job.state # "completed" /\ x \in Reviewed(job)
                      /\ entry'[x] = "confirmed" => x \in stored'
                      /\ x <= job.cursor => entry'[x] = "confirmed" /\ x \in job.receipts
    BY <1>1, <1>4 DEF EntryInv
  <2> QED BY <1>1, <1>2, <1>3 DEF ImportInv, EntryInv
<1>6. JobInv'
  <2>1. ~job.recorded /\ sources = {}
    BY <1>2 DEF ImportInv, JobInv
  <2> QED BY <1>1, <1>2, <2>1 DEF ImportInv, JobInv, Cause
<1>7. Exact'
  BY <1>1, <1>2, <1>4 DEF ImportInv, Exact
<1>8. WorkerInv'
  BY <1>1, <1>4 DEF ImportInv, WorkerInv, manager, worker
<1>9. HeldPage => HeldPage'
  BY <1>1, <1>3 DEF HeldPage, worker, Mapped, ImportTypeOK
<1>10. PageInv'
  <2>1. NextPage' = NextPage
    BY <1>1 DEF NextPage
  <2> QED BY <1>1, <1>4, <1>9, <2>1 DEF ImportInv, PageInv, worker
<1>11. ImportTypeOK'
  <2>1. entry' \in [Row -> {"none", "pending", "writing", "confirmed"}]
    BY <1>1 DEF ImportTypeOK
  <2> QED BY <1>1, <2>1 DEF ImportTypeOK, manager, worker
<1> QED BY <1>5, <1>6, <1>7, <1>8, <1>10, <1>11 DEF ImportInv

\* QuestDB applies what it has, and what was reviewed changes.
LEMMA ChangeHolds == ImportTypeOK /\ ImportInv /\ (Apply \/ Change) => ImportTypeOK' /\ ImportInv'
<1> SUFFICES ASSUME ImportTypeOK, ImportInv, Apply \/ Change PROVE ImportTypeOK' /\ ImportInv'
  OBVIOUS
<1>1. /\ UNCHANGED <<job, sources, entry, stored, healthy, manager, worker, faults>>
      /\ seal' \in {seal, 1} /\ contract' \in {contract, 1}
      /\ foreign' \in BOOLEAN /\ (foreign => foreign')
      /\ visible' \in {visible, stored}
  <2>1. foreign \in BOOLEAN
    BY DEF ImportTypeOK
  <2>2. CASE Apply
    BY <2>1, <2>2 DEF Apply, durable
  <2>3. CASE Change
    <3>1. /\ UNCHANGED <<job, sources, entry, stored, healthy, manager, worker, faults, visible>>
          /\ \/ seal' = 1 /\ UNCHANGED <<contract, foreign>>
             \/ contract' = 1 /\ UNCHANGED <<seal, foreign>>
             \/ foreign' = TRUE /\ UNCHANGED <<seal, contract>>
      BY <2>3 DEF Change, durable
    <3> QED BY <2>1, <3>1
  <2> QED BY <2>2, <2>3
<1>2. seal \in 0..1 /\ contract \in 0..1 /\ seal' \in 0..1 /\ contract' \in 0..1
        /\ seal <= seal' /\ contract <= contract'
  BY <1>1 DEF ImportTypeOK
<1>3. job # NoJob => job.seal \in 0..1 /\ job.contract \in 0..1
        /\ job.seal <= seal /\ job.contract <= contract
  BY DEF ImportTypeOK, Job, ImportInv, JobInv
<1>4. ImportTypeOK'
  <2>1. visible' \subseteq stored
    BY <1>1 DEF ImportTypeOK
  <2> QED BY <1>1, <1>2, <2>1 DEF ImportTypeOK, manager, worker
<1>5. JobInv'
  <2>1. job # NoJob /\ Cause(job) => Cause(job)'
    BY <1>1, <1>2, <1>3 DEF Cause
  <2> QED BY <1>1, <1>2, <1>3, <2>1 DEF ImportInv, JobInv
<1>6. EntryInv' /\ Exact'
  BY <1>1 DEF ImportInv, EntryInv, Exact, Earlier, Passed, Reviewed
<1>7. WorkerInv'
  <2>1. review # NoReview => review.seal <= seal' /\ review.contract <= contract'
    <3>1. review # NoReview => review.seal \in 0..1 /\ review.contract \in 0..1
      BY DEF ImportTypeOK, Reviewing
    <3>2. review # NoReview => review.seal <= seal /\ review.contract <= contract
      BY DEF ImportInv, WorkerInv
    <3> QED BY <1>2, <3>1, <3>2
  <2> QED BY <1>1, <2>1 DEF ImportInv, WorkerInv, manager, worker, Earlier
<1>8. PageInv'
  <2>1. readSeal \in 0..1 /\ readSeal <= seal /\ readSeal' = readSeal
    BY <1>1 DEF ImportInv, PageInv, ImportTypeOK, worker
  <2>2. readSeal' <= seal' /\ (readSeal' = seal' => seal = seal')
    BY <1>2, <2>1
  <2>3. seal = seal' => NextPage' = NextPage
    BY <1>1 DEF NextPage
  <2>4. HeldPage => HeldPage'
    BY <1>1 DEF HeldPage, worker
  <2>5. phase = "refused" => contract' # job.contract
    <3>1. phase = "refused" => job # NoJob /\ contract # job.contract
      BY DEF ImportInv, WorkerInv, PageInv
    <3> QED BY <1>2, <1>3, <3>1
  <2>6. Reviewed(job)' = Reviewed(job) /\ Passed(job)' = Passed(job)
    BY <1>1 DEF Reviewed, Passed
  <2> QED BY <1>1, <2>1, <2>2, <2>3, <2>4, <2>5, <2>6 DEF ImportInv, PageInv, worker
<1> QED BY <1>4, <1>5, <1>6, <1>7, <1>8 DEF ImportInv

\* The health of the databases turns, the process closes, or the control moves.
LEMMA TurnHolds ==
  ImportTypeOK /\ ImportInv /\ (Turn \/ Close \/ Control \/ UNCHANGED vars)
    => ImportTypeOK' /\ ImportInv'
<1> SUFFICES ASSUME ImportTypeOK, ImportInv, Turn \/ Close \/ Control \/ UNCHANGED vars
             PROVE  ImportTypeOK' /\ ImportInv'
  OBVIOUS
<1>1. /\ UNCHANGED <<durable, databases, faulted, review, unrecorded, worker, faults>>
      /\ healthy' \in BOOLEAN /\ stopped' \in BOOLEAN /\ timer' \in BOOLEAN
      /\ timer' => timer
  <2>1. healthy \in BOOLEAN /\ stopped \in BOOLEAN /\ timer \in BOOLEAN
    BY DEF ImportTypeOK
  <2>2. CASE Turn
    BY <2>1, <2>2 DEF Turn, manager
  <2>3. CASE Close
    BY <2>1, <2>3 DEF Close
  <2>4. CASE Control \/ UNCHANGED vars
    BY <2>1, <2>4 DEF Control, vars, manager
  <2> QED BY <2>2, <2>3, <2>4
<1>2. ImportTypeOK'
  BY <1>1 DEF ImportTypeOK, durable, databases, worker
<1>3. JobInv' /\ EntryInv' /\ Exact'
  BY <1>1, DurableKept DEF durable
<1>4. WorkerInv'
  BY <1>1 DEF ImportInv, WorkerInv, durable, databases, worker, Earlier, ImportTypeOK
<1>5. PageInv'
  BY <1>1 DEF ImportInv, PageInv, HeldPage, durable, databases, worker, Passed, Reviewed, NextPage
<1> QED BY <1>2, <1>3, <1>4, <1>5 DEF ImportInv

\* The process ends, and starts again.
LEMMA ProcessHolds == ImportTypeOK /\ ImportInv /\ (Die \/ Boots) => ImportTypeOK' /\ ImportInv'
<1> SUFFICES ASSUME ImportTypeOK, ImportInv, Die \/ Boots PROVE ImportTypeOK' /\ ImportInv'
  OBVIOUS
<1>1. /\ UNCHANGED <<job, sources, visible, seal, contract, foreign, faults>>
      /\ Forgets
      /\ timer' => job # NoJob /\ (job.state = "completed" => Earlier)
      /\ timer' \in BOOLEAN /\ unrecorded' \in BOOLEAN
  <2>1. CASE Die
    BY <2>1 DEF Die
  <2>2. CASE Boots
    <3>1. Kicks(job, Unrecorded) => job # NoJob /\ (job.state = "completed" => Earlier)
      BY DEF Kicks, Unrecorded, Earlier
    <3>2. Kicks(job, Unrecorded) \in BOOLEAN /\ Unrecorded \in BOOLEAN
      BY DEF Kicks, Unrecorded
    <3> QED BY <2>2, <3>1, <3>2 DEF Boots, durable, databases
  <2> QED BY <2>1, <2>2
<1>2. \E R \in SUBSET Writing :
        /\ stored' = stored \cup R
        /\ \/ entry' = entry /\ R = {}
           \/ entry' = [r \in Row |-> IF entry[r] = "writing" THEN "pending" ELSE entry[r]]
  <2>1. CASE Die
    BY <2>1 DEF Die
  <2>2. CASE Boots
    BY <2>2 DEF Boots, durable, databases
  <2> QED BY <2>1, <2>2
<1>3. PICK R \in SUBSET Writing :
        /\ stored' = stored \cup R
        /\ \/ entry' = entry /\ R = {}
           \/ entry' = [r \in Row |-> IF entry[r] = "writing" THEN "pending" ELSE entry[r]]
  BY <1>2
<1>4. \A r \in R : r \in Row /\ r \in Reviewed(job) /\ job # NoJob /\ job.state # "completed"
  BY DEF Writing, ImportInv, EntryInv
<1>5. \A r \in Row : /\ entry'[r] # "none" <=> entry[r] # "none"
                     /\ entry'[r] = "confirmed" <=> entry[r] = "confirmed"
  BY <1>3 DEF ImportTypeOK
<1>6. Reviewed(job)' = Reviewed(job) /\ Passed(job)' = Passed(job) /\ Earlier' = Earlier
  BY <1>1 DEF Reviewed, Passed, Earlier
<1>7. job = NoJob \/ job.state = "completed" => stored' = stored
  BY <1>3, <1>4
<1>8. JobInv'
  BY <1>1, <1>7 DEF ImportInv, JobInv, Cause
<1>9. EntryInv'
  BY <1>1, <1>3, <1>5, <1>6 DEF ImportInv, EntryInv
<1>10. Exact'
  BY <1>1, <1>3, <1>4, <1>6, <1>7 DEF ImportInv, Exact, Earlier
<1>11. WorkerInv' /\ PageInv'
  BY <1>1, <1>6, RestsHolds DEF Forgets, ImportTypeOK
<1>12. ImportTypeOK'
  <2>1. entry' \in [Row -> {"none", "pending", "writing", "confirmed"}]
    BY <1>3 DEF ImportTypeOK
  <2>2. stored' \subseteq Row /\ visible' \subseteq stored'
    BY <1>1, <1>3, <1>4 DEF ImportTypeOK
  <2>3. /\ healthy' \in BOOLEAN /\ stopped' \in BOOLEAN /\ faulted' \in BOOLEAN
        /\ admitted' \in BOOLEAN /\ review' = NoReview
        /\ phase' = "idle" /\ readSeal' = 0 /\ page' = {} /\ todo' = {} /\ slice' = {}
    BY <1>1 DEF Forgets, Rests
  <2>4. readSeal' \in 0..1 /\ page' \subseteq Row /\ todo' \subseteq Row /\ slice' \subseteq Row
    BY <2>3
  <2> QED BY <1>1, <2>1, <2>2, <2>3, <2>4 DEF ImportTypeOK
<1> QED BY <1>8, <1>9, <1>10, <1>11, <1>12 DEF ImportInv

\* Every step keeps the invariant.
LEMMA ImportNextHolds == ImportTypeOK /\ ImportInv /\ [Next]_vars => ImportTypeOK' /\ ImportInv'
<1> SUFFICES ASSUME ImportTypeOK, ImportInv, [Next]_vars PROVE ImportTypeOK' /\ ImportInv'
  OBVIOUS
<1>1. CASE Review \/ Start \/ Refuse
  BY <1>1, ReviewHolds, StartHolds
<1>2. CASE Step
  BY <1>2, BeginHolds, InspectHolds, ReadHolds, HandOverHolds, YieldHolds, SettleHolds,
     CheckpointHolds, VerifyHolds, RecoveryHolds DEF Step
<1>3. CASE \E r \in Row : Attempt(r) \/ Confirm(r) \/ Reject(r)
  BY <1>3, JournalHolds
<1>4. CASE Apply \/ Change
  BY <1>4, ChangeHolds
<1>5. CASE Turn \/ Close \/ Control \/ UNCHANGED vars
  BY <1>5, TurnHolds
<1>6. CASE Die \/ Boots
  BY <1>6, ProcessHolds
<1> QED BY <1>1, <1>2, <1>3, <1>4, <1>5, <1>6 DEF Next

\* The invariant says what the import promises.
LEMMA InvImpliesExact == ImportTypeOK /\ ImportInv => ImportIsExact /\ BlockedForCause
<1> SUFFICES ASSUME ImportTypeOK, ImportInv PROVE ImportIsExact /\ BlockedForCause
  OBVIOUS
<1>1. BlockedForCause
  BY DEF ImportInv, JobInv, BlockedForCause, Cause
<1>2. ASSUME job # NoJob, ~Earlier
      PROVE  LET passed == {r \in Reviewed(job) : r <= job.cursor}
             IN  /\ stored \subseteq Reviewed(job) /\ passed \subseteq stored
                 /\ job.written = Cardinality(passed)
                 /\ job.state = "completed" => stored = Reviewed(job) /\ Applied
  BY <1>2 DEF ImportInv, Exact, Passed, Applied
<1>3. sources = IF job # NoJob /\ job.recorded THEN {TopicOf[r] : r \in stored} ELSE {}
  BY DEF ImportInv, JobInv
<1>4. HandoverReady => \A r \in Row : entry[r] = "none"
  BY DEF HandoverReady, Active, ImportInv, EntryInv
<1> QED BY <1>1, <1>2, <1>3, <1>4 DEF ImportIsExact

\* The invariant holds always.
LEMMA ImportInvariant == Spec => [](ImportTypeOK /\ ImportInv)
<1>1. ImportTypeOK /\ ImportInv /\ [Next]_vars => (ImportTypeOK /\ ImportInv)'
  BY ImportNextHolds
<1> QED BY ImportInitHolds, <1>1, PTL DEF Spec

\* Every variable has its type, also after the arithmetic of cursors and counts.
THEOREM ImportTypes == Spec => []TypeOK
<1>1. ControlTypeOK /\ ImportTypeOK => TypeOK
  BY DEF TypeOK
<1> QED BY <1>1, ImportInvariant, ImportKeepsControl, PTL

\* Whatever fails, is repeated, or changes meanwhile, the target holds rows of the
\* reviewed source only, all that the cursor has passed, as many as the job counts, and
\* all when it is completed: step(), complete(), clearReceipts().
THEOREM ImportKept == Spec => []ImportIsExact
<1> QED BY ImportInvariant, InvImpliesExact, PTL

\* A job is blocked only where its source, its contract or its target is not as
\* reviewed; no count, retry or late answer blocks it: the catch of step().
THEOREM BlockedHasCause == Spec => []BlockedForCause
<1> QED BY ImportInvariant, InvImpliesExact, PTL

-----------------------------------------------------------------------------
(* The pause *)

\* A step from a boundary writes nothing, and leaves it only with the pause.
LEMMA BoundaryStep ==
  ASSUME [Next]_vars, AtBoundary
  PROVE  stored' = stored /\ (running' /\ Paused' => AtBoundary')
<1>1. running /\ Paused /\ Writing = {} /\ phase = "idle" /\ ~CanWrite /\ ~CanReplay
  BY DEF AtBoundary, Stepping, CanWrite, CanReplay
<1>2. ASSUME stored' = stored, entry' = entry, phase' = phase
      PROVE  stored' = stored /\ (running' /\ Paused' => AtBoundary')
  <2>1. Writing' = {}
    BY <1>1, <1>2 DEF Writing
  <2> QED BY <1>1, <1>2, <2>1 DEF AtBoundary, Stepping
<1>3. CASE Review \/ Start \/ Refuse
  BY <1>2, <1>3 DEF Review, Start, Refuse, durable, databases, worker
<1>4. CASE Step
  BY <1>1, <1>4 DEF Step, Begin, Inspect, ReadSeal, ReadRows, ReadAgain, HandOver, Yield, Settle,
     Checkpoint, Verify, BeginRecovery, Recover
<1>5. CASE \E r \in Row : Attempt(r) \/ Confirm(r) \/ Reject(r)
  BY <1>1, <1>5 DEF Attempt, Confirm, Reject, Writing
<1>6. CASE Apply \/ Change \/ Turn \/ Close \/ UNCHANGED vars
  BY <1>2, <1>6 DEF Apply, Change, Turn, Close, durable, databases, worker, vars
<1>7. CASE Control \/ Boots
  <2>1. CASE Control
    BY <1>2, <2>1 DEF Control, durable, databases, worker
  <2>2. CASE Boots
    BY <1>1, <2>2 DEF Boots, Boot
  <2> QED BY <1>7, <2>1, <2>2
<1>8. CASE Die
  BY <1>1, <1>8 DEF Die, Ends
<1> QED BY <1>3, <1>4, <1>5, <1>6, <1>7, <1>8 DEF Next

\* At a paused boundary nothing is written until the pause has ended, whoever would
\* write: the journal, a step under way, or one about to begin (canWrite(), replay()).
THEOREM PauseIsHeld == Spec => PauseIsABoundary
<1>1. [Next]_vars => [AtBoundary => stored' = stored /\ (running' /\ Paused' => AtBoundary')]_vars
  BY BoundaryStep
<1> QED BY <1>1, PTL DEF Spec, PauseIsABoundary

=============================================================================
