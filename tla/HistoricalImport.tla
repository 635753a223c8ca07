---------------------------- MODULE HistoricalImport ----------------------------
(***************************************************************************)
(* The import of a historical database (src/historical-import.ts, its      *)
(* source reader and its target checks, and its wiring in src/index.ts):   *)
(* an operator starts a job after a review; a worker reads the source page *)
(* by page, writes each row through the target journal, and moves the      *)
(* cursor of the job in SQLite once all rows of the page are confirmed; a  *)
(* receipt of the journal is dropped only then.  When no row is left, the  *)
(* rows in the target are counted, and the job is completed together with  *)
(* the record of its topics as history sources.                            *)
(*                                                                         *)
(* The worker honours the durable pause of ReplayControl, which this       *)
(* module extends.  The journal is what TargetJournal shows of it: it      *)
(* takes a row, tries it, and keeps it until it is confirmed and           *)
(* acknowledged.  Rows are numbered in the order of the cursor; the event  *)
(* id of a row is a function of job and row, so a row is its own id, and   *)
(* the deduplication of the target makes its content a set.                *)
(***************************************************************************)
EXTENDS ReplayControl, FiniteSets

CONSTANTS
  N,                  \* rows of the source in the range of the job
  Late,               \* those that appear after the review, if the source changes
  Skipped,            \* those after the cutoff of their mapping
  Topic, TopicOf,     \* [1..N -> Topic]
  PageSize,           \* MAX_PAGE_ROWS (128)
  SliceSize,          \* rows handed over at once (8)
  MaxFaults,          \* bound: failures of the databases
  MaxChanges,         \* bound: changes of source, contract, or target
  NoJob, NoReview     \* sentinels

Row == 1..N

Job ==
  [state : {"running", "blocked", "completed"}, cursor : 0..N, written : Nat,
   receipts : SUBSET Row, seal : 0..1, contract : 0..1, recorded : BOOLEAN]

Reviewing == [seal : 0..1, contract : 0..1]

ASSUME HistoryAssumption ==
  /\ N \in Nat /\ Late \subseteq Row /\ Skipped \subseteq Row
  /\ TopicOf \in [Row -> Topic]
  /\ PageSize \in Nat \ {0} /\ SliceSize \in Nat \ {0}
  /\ MaxFaults \in Nat /\ MaxChanges \in Nat
  /\ NoJob \notin Job /\ NoReview \notin Reviewing

VARIABLES
  \* The job store (SQLite), the journal, and the databases
  job,        \* the job, or NoJob
  sources,    \* topics in history_sources
  entry,      \* the journal: [Row -> {"none", "pending", "writing", "confirmed"}]
  stored,     \* rows QuestDB has taken
  visible,    \* those its WAL has applied
  seal,       \* the transaction of the source table: 0, or 1 after a change
  contract,   \* source, profile and targets as configured: 0, or 1 after a change
  foreign,    \* the target holds rows of others in the range
  \* The process
  healthy,    \* the other conditions of canWrite
  stopped, faulted, timer,
  review,     \* the review start() waits for: what it saw, or NoReview
  unrecorded, \* the completed job is in unrecordedSources
  admitted,   \* admittedContract
  phase,      \* of the step under way
  readSeal, page, todo, slice,
  faults      \* failures so far

durable == <<job, sources, entry>>
databases == <<stored, visible, seal, contract, foreign>>
manager == <<stopped, faulted, timer, review, unrecorded>>
worker == <<admitted, phase, readSeal, page, todo, slice>>
vars == <<durable, databases, healthy, manager, worker, faults, controlVars>>

-----------------------------------------------------------------------------
SourceRows(s) == IF s = 0 THEN Row \ Late ELSE Row

\* mapRows(): rows at or after the cutoff are skipped
Mapped(rows) == rows \ Skipped

\* The rows a job imports: those of the source it was reviewed with
Reviewed(j) == Mapped(SourceRows(j.seal))

\* The first k members of a set of rows
First(rows, k) == {r \in rows : Cardinality({x \in rows : x <= r}) <= k}

Last(rows) == CHOOSE r \in rows : \A x \in rows : x <= r

Active == job # NoJob /\ job.state # "completed"
Stepping == phase # "idle"
Writing == {r \in Row : entry[r] = "writing"}

CanWrite == running /\ ~stopped /\ healthy /\ ~Paused
\* mutated: the journal does not look at the pause of replay
CanReplayPaused == running /\ ~stopped

CanReplay == running /\ ~stopped /\ ~Paused

\* kick(): there is work to do
Kicks(j, pending) == (j # NoJob /\ j.state = "running") \/ pending

\* mutated: the rows of the job count as those of others
OverlapOwn == foreign \/ visible # {}

\* inspectHistoricalTargets() leaves out the rows of the job itself.
Overlap == foreign

\* historicalWalTransaction(): all that was written is applied
Applied == visible = stored

\* verifyHistoricalVisibility(): rows and distinct ids of the job are counted.
Counted(j) == Cardinality(visible) = j.written

-----------------------------------------------------------------------------
(* The end of a step *)

\* A database fails, or the disk.
Fault == faults < MaxFaults /\ faults' = faults + 1

Rests == phase' = "idle" /\ readSeal' = 0 /\ page' = {} /\ todo' = {} /\ slice' = {}

\* The step ends with job j in the store, and kick() looks for more work.
Ended(j, pending) ==
  /\ job' = j /\ unrecorded' = pending
  /\ timer' = (~stopped /\ Kicks(j, pending))
  /\ Rests
  /\ UNCHANGED <<stopped, faulted, review>>

\* The catch of step(), after n failures of a database: the job is kept, to be
\* retried (its state "running") or blocked.  When that cannot be stored either, the
\* manager is faulted.
Fails(j, state, n) ==
  \/ /\ faults + n <= MaxFaults /\ faults' = faults + n
     /\ Ended([j EXCEPT !.state = state], unrecorded)
     /\ admitted' = FALSE
  \/ /\ faults + n < MaxFaults /\ faults' = faults + n + 1
     /\ faulted' = TRUE /\ timer' = FALSE
     /\ Rests
     /\ UNCHANGED <<job, unrecorded, admitted, stopped, review>>

\* The step goes on after an await.
Goes(to) == phase' = to /\ UNCHANGED <<job, manager, admitted, faults>>

InStep == UNCHANGED <<databases, healthy, controlVars>>

-----------------------------------------------------------------------------
(* start() *)

NewJob(seen) ==
  [state |-> "running", cursor |-> 0, written |-> 0, receipts |-> {},
   seal |-> seen.seal, contract |-> seen.contract, recorded |-> FALSE]

Review ==
  /\ CanWrite /\ ~faulted /\ job = NoJob /\ review = NoReview
  /\ review' = [seal |-> seal, contract |-> contract]
  /\ UNCHANGED <<durable, databases, healthy, stopped, faulted, timer, unrecorded, worker,
                 faults, controlVars>>

\* The targets have been inspected, the last await of the review: the contract is
\* compared again, the job stored.
Start ==
  /\ review # NoReview
  /\ CanWrite /\ ~Overlap /\ contract = review.contract
  /\ job' = NewJob(review)
  /\ review' = NoReview /\ timer' = TRUE
  /\ UNCHANGED <<sources, entry, databases, healthy, stopped, faulted, unrecorded, worker,
                 faults, controlVars>>

\* An error, or the digest the operator gave is stale.
Refuse ==
  /\ review # NoReview
  /\ review' = NoReview
  /\ UNCHANGED <<durable, databases, healthy, stopped, faulted, timer, unrecorded, worker,
                 faults, controlVars>>

-----------------------------------------------------------------------------
(* step() *)

\* acknowledgeLegacy() of the rows of R
Acknowledged(R) ==
  [r \in Row |-> IF r \in R /\ entry[r] = "confirmed" THEN "none" ELSE entry[r]]

\* clearReceipts() and prepare(); a failure may come after any acknowledgement.
Begin ==
  /\ timer /\ CanWrite
  /\ job.state = "running"
  /\ \E R \in SUBSET job.receipts :
       LET j == IF R = job.receipts THEN [job EXCEPT !.receipts = {}] ELSE job
       IN  /\ entry' = Acknowledged(R)
           /\ \/ /\ R = job.receipts /\ contract = job.contract
                 /\ job' = j
                 /\ phase' = IF admitted THEN "seal" ELSE "inspect"
                 /\ timer' = FALSE
                 /\ UNCHANGED <<stopped, faulted, review, unrecorded, admitted, faults,
                                readSeal, page, todo, slice>>
              \/ R = job.receipts /\ contract # job.contract /\ Fails(j, "blocked", 0)
              \/ Fails(j, "running", 1)
  /\ InStep /\ UNCHANGED sources

\* The targets are inspected by the first step for the job in this process, and after a failure.
Inspect ==
  /\ phase = "inspect"
  /\ \/ /\ Applied /\ ~Overlap
        /\ phase' = "seal" /\ admitted' = TRUE
        /\ UNCHANGED <<job, manager, faults, readSeal, page, todo, slice>>
     \/ Applied /\ Overlap /\ Fails(job, "blocked", 0)
     \/ ~Applied /\ Fails(job, "running", 0)
     \/ Fails(job, "running", 1)
  /\ InStep /\ UNCHANGED <<sources, entry>>

\* HistoricalReader.read(): the seal, the page, and the seal again
ReadSeal ==
  /\ phase = "seal"
  /\ \/ readSeal' = seal /\ Goes("rows") /\ UNCHANGED <<page, todo, slice>>
     \/ Fails(job, "running", 1)
  /\ InStep /\ UNCHANGED <<sources, entry>>

NextPage == First({r \in SourceRows(seal) : r > job.cursor}, PageSize)

ReadRows ==
  /\ phase = "rows"
  /\ \/ page' = NextPage /\ Goes("reseal") /\ UNCHANGED <<readSeal, todo, slice>>
     \/ Fails(job, "running", 1)
  /\ InStep /\ UNCHANGED <<sources, entry>>

\* mutated: the seal is not read again after the page
SealedFirst == readSeal = job.seal

\* The page belongs to the source as reviewed.
Sealed == readSeal = seal /\ readSeal = job.seal

ReadAgain ==
  /\ phase = "reseal"
  /\ \/ /\ Sealed
        /\ Goes(IF page = {} THEN "verify" ELSE "write")
        /\ todo' = Mapped(page)
        /\ UNCHANGED <<readSeal, page, slice>>
     \/ ~Sealed /\ Fails(job, "blocked", 0)
     \/ Fails(job, "running", 1)
  /\ InStep /\ UNCHANGED <<sources, entry>>

\* A slice is handed over.  Each row is taken by the journal, which starts it or keeps
\* it for later, unless its target is not the reviewed one any more, or its identity
\* cannot be resolved, or the journal refuses it.
HandOver ==
  /\ phase = "write" /\ todo # {} /\ CanWrite
  /\ slice' = First(todo, SliceSize)
  /\ \E taken, started \in SUBSET slice' :
       /\ started \subseteq taken
       /\ \/ taken = slice' /\ phase' = "slice" /\ UNCHANGED faults
          \/ taken # slice' /\ phase' = "refused" /\ contract # job.contract /\ UNCHANGED faults
          \/ taken # slice' /\ phase' = "slice" /\ Fault
       /\ entry' = [r \in Row |-> IF r \notin taken \/ entry[r] \in {"confirmed", "writing"}
                                  THEN entry[r]
                                  ELSE IF r \in started THEN "writing" ELSE "pending"]
  /\ InStep /\ UNCHANGED <<job, sources, manager, admitted, readSeal, page, todo>>

\* A pause, a stop or an unhealthy database between two slices ends the step; what
\* was written of the page is written again.
Yield ==
  /\ phase = "write" /\ todo # {}
  /\ ~CanWrite
  /\ Ended(job, unrecorded)
  /\ InStep /\ UNCHANGED <<sources, entry, admitted, faults>>

\* All writes of the slice have settled.  One that was kept back is an error, which the
\* first rejected write decides.
Settle ==
  /\ phase \in {"slice", "refused"}
  /\ slice \cap Writing = {}
  /\ IF phase = "slice" /\ \A r \in slice : entry[r] = "confirmed"
     THEN /\ todo' = todo \ slice /\ slice' = {}
          /\ Goes("write")
          /\ UNCHANGED <<readSeal, page>>
     ELSE \/ Fails(job, "running", 0)
          \/ phase = "refused" /\ Fails(job, "blocked", 0)
  /\ InStep /\ UNCHANGED <<sources, entry>>

\* mutated: the cursor is that of the row after the page
AdvancedPast(j) ==
  [j EXCEPT !.cursor = Last(page) + 1, !.written = @ + Cardinality(Mapped(page)),
            !.receipts = Mapped(page)]

Advanced(j) ==
  [j EXCEPT !.cursor = Last(page), !.written = @ + Cardinality(Mapped(page)),
            !.receipts = Mapped(page)]

Checkpoint ==
  /\ phase = "write" /\ todo = {}
  /\ \/ Ended(Advanced(job), unrecorded) /\ UNCHANGED <<admitted, faults>>
     \/ Fails(job, "running", 1)
  /\ InStep /\ UNCHANGED <<sources, entry>>

Completed(j) == [j EXCEPT !.state = "completed", !.recorded = TRUE]

\* complete(): the job and its history sources in one transaction
Completes ==
  /\ Ended(Completed(job), FALSE)
  /\ sources' = sources \cup {TopicOf[r] : r \in visible}

\* No row is left: what the target holds is counted.
Verify ==
  /\ phase = "verify"
  /\ \/ Applied /\ Counted(job) /\ Completes /\ UNCHANGED <<admitted, faults>>
     \/ Applied /\ ~Counted(job) /\ Fails(job, "blocked", 0) /\ UNCHANGED sources
     \/ ~Applied /\ Fails(job, "running", 0) /\ UNCHANGED sources
     \/ Fails(job, "running", 1) /\ UNCHANGED sources
  /\ InStep /\ UNCHANGED entry

\* recoverCompletedSources(): a job that an earlier version completed gets its sources
\* if the rows are still there under the same contract.
BeginRecovery ==
  /\ timer /\ CanWrite
  /\ job.state = "completed"
  /\ IF contract # job.contract
     THEN Ended(job, FALSE)
     ELSE /\ phase' = "recover" /\ unrecorded' = FALSE /\ timer' = FALSE
          /\ UNCHANGED <<job, stopped, faulted, review, readSeal, page, todo, slice>>
  /\ InStep /\ UNCHANGED <<sources, entry, admitted, faults>>

Recover ==
  /\ phase = "recover"
  /\ \/ Applied /\ Counted(job) /\ Completes /\ UNCHANGED faults
     \/ Applied /\ ~Counted(job) /\ Ended(job, FALSE) /\ UNCHANGED <<sources, faults>>
     \/ ~Applied /\ Ended(job, TRUE) /\ UNCHANGED <<sources, faults>>
     \/ Fault /\ Ended(job, TRUE) /\ UNCHANGED sources
  /\ InStep /\ UNCHANGED <<entry, admitted>>

Step ==
  \/ Begin \/ Inspect \/ ReadSeal \/ ReadRows \/ ReadAgain
  \/ HandOver \/ Yield \/ Settle \/ Checkpoint
  \/ Verify \/ BeginRecovery \/ Recover

-----------------------------------------------------------------------------
(* The journal and the databases *)

Attempt(r) ==
  /\ CanReplay /\ entry[r] = "pending"
  /\ entry' = [entry EXCEPT ![r] = "writing"]
  /\ UNCHANGED <<job, sources, databases, healthy, manager, worker, faults, controlVars>>

Confirm(r) ==
  /\ entry[r] = "writing"
  /\ entry' = [entry EXCEPT ![r] = "confirmed"]
  /\ stored' = stored \cup {r}
  /\ UNCHANGED <<job, sources, visible, seal, contract, foreign, healthy, manager, worker,
                 faults, controlVars>>

\* The write fails, or only its answer is lost.
Reject(r) ==
  /\ entry[r] = "writing"
  /\ Fault
  /\ entry' = [entry EXCEPT ![r] = "pending"]
  /\ stored' \in {stored, stored \cup {r}}
  /\ UNCHANGED <<job, sources, visible, seal, contract, foreign, healthy, manager, worker,
                 controlVars>>

Apply ==
  /\ ~Applied
  /\ visible' = stored
  /\ UNCHANGED <<durable, stored, seal, contract, foreign, healthy, manager, worker, faults,
                 controlVars>>

\* The source is written to, the configuration or the identity of a target changes, or
\* someone else writes to the target.
Change ==
  /\ seal + contract + (IF foreign THEN 1 ELSE 0) < MaxChanges
  /\ \/ seal = 0 /\ seal' = 1 /\ UNCHANGED <<contract, foreign>>
     \/ contract = 0 /\ contract' = 1 /\ UNCHANGED <<seal, foreign>>
     \/ ~foreign /\ foreign' = TRUE /\ UNCHANGED <<seal, contract>>
  /\ UNCHANGED <<durable, stored, visible, healthy, manager, worker, faults, controlVars>>

Turn ==
  /\ running
  /\ healthy' = ~healthy
  /\ UNCHANGED <<durable, databases, manager, worker, faults, controlVars>>

-----------------------------------------------------------------------------
(* The process *)

Forgets ==
  /\ healthy' = TRUE /\ stopped' = FALSE /\ faulted' = FALSE /\ review' = NoReview
  /\ admitted' = FALSE
  /\ Rests

\* close(): no timer any more; the step and the review under way are waited for.
Close ==
  /\ running /\ ~stopped
  /\ stopped' = TRUE /\ timer' = FALSE
  /\ UNCHANGED <<durable, databases, healthy, faulted, review, unrecorded, worker, faults,
                 controlVars>>

\* The process ends, closed or not.  Of the writes under way QuestDB has some.
Die ==
  /\ Ends
  /\ \E R \in SUBSET Writing : stored' = stored \cup R
  /\ entry' = [r \in Row |-> IF entry[r] = "writing" THEN "pending" ELSE entry[r]]
  /\ Forgets /\ timer' = FALSE /\ unrecorded' = FALSE
  /\ UNCHANGED <<job, sources, visible, seal, contract, foreign, faults>>

Earlier == job # NoJob /\ job.state = "completed" /\ ~job.recorded

Unrecorded == Earlier /\ job.written > 0

\* mutated: the worker is not started with the process
BootsIdle ==
  /\ Boot
  /\ unrecorded' = Unrecorded
  /\ timer' = FALSE
  /\ Forgets
  /\ UNCHANGED <<durable, databases, faults>>

\* The replay control is read, then the job store, and kick() starts the worker.
Boots ==
  /\ Boot
  /\ unrecorded' = Unrecorded
  /\ timer' = Kicks(job, Unrecorded)
  /\ Forgets
  /\ UNCHANGED <<durable, databases, faults>>

Control ==
  /\ Operate \/ Bind \/ BootFails
  /\ UNCHANGED <<durable, databases, healthy, manager, worker, faults>>

-----------------------------------------------------------------------------
\* A job that an earlier version completed, without its sources; its rows may be gone.
EarlierJob ==
  [NewJob([seal |-> 0, contract |-> 0]) EXCEPT
     !.state = "completed", !.cursor = N, !.written = Cardinality(Mapped(SourceRows(0)))]

Init ==
  /\ ControlInit
  /\ \/ job = NoJob /\ stored = {}
     \/ job = EarlierJob /\ stored \in {Reviewed(job), {}}
  /\ visible \in {stored, {}}
  /\ sources = {} /\ entry = [r \in Row |-> "none"]
  /\ seal = 0 /\ contract = 0 /\ foreign = FALSE
  /\ healthy = TRUE /\ stopped = FALSE /\ faulted = FALSE /\ timer = FALSE
  /\ review = NoReview /\ unrecorded = FALSE
  /\ admitted = FALSE /\ phase = "idle" /\ readSeal = 0
  /\ page = {} /\ todo = {} /\ slice = {}
  /\ faults = 0

Next ==
  \/ Review \/ Start \/ Refuse
  \/ Step
  \/ \E r \in Row : Attempt(r) \/ Confirm(r) \/ Reject(r)
  \/ Apply \/ Change \/ Turn
  \/ Close \/ Die \/ Boots \/ Control

Spec == Init /\ [][Next]_vars

\* The worker goes on, the journal tries what it holds, a write is answered, QuestDB
\* applies its WAL.
Fairness ==
  /\ WF_vars(Step) /\ WF_vars(Apply)
  /\ \A r \in Row : WF_vars(Attempt(r)) /\ WF_vars(Confirm(r))

FairSpec == Spec /\ Fairness

-----------------------------------------------------------------------------
ImportTypeOK ==
  /\ job \in Job \cup {NoJob} /\ sources \subseteq Topic
  /\ entry \in [Row -> {"none", "pending", "writing", "confirmed"}]
  /\ stored \subseteq Row /\ visible \subseteq stored
  /\ seal \in 0..1 /\ contract \in 0..1 /\ foreign \in BOOLEAN
  /\ healthy \in BOOLEAN /\ stopped \in BOOLEAN /\ faulted \in BOOLEAN /\ timer \in BOOLEAN
  /\ review \in Reviewing \cup {NoReview}
  /\ unrecorded \in BOOLEAN /\ admitted \in BOOLEAN
  /\ phase \in {"idle", "inspect", "seal", "rows", "reseal", "write", "slice",
                "refused", "verify", "recover"}
  /\ readSeal \in 0..1
  /\ page \subseteq Row /\ todo \subseteq Row /\ slice \subseteq Row
  /\ faults \in 0..MaxFaults

TypeOK == ControlTypeOK /\ ImportTypeOK

\* assertHandoverReady()
HandoverReady == ~faulted /\ review = NoReview /\ ~Active

\* Whatever is repeated after a crash, a pause, a lost answer or a fault: the target
\* holds rows of the reviewed source only, every one that the cursor has passed, and
\* as many as the job counted; the job is completed when it holds all, and the topics
\* published as history sources are those of the rows it holds (step(), complete(),
\* historical-database-import.md: "The SQLite cursor advances after QuestDB
\* acknowledgement").  An Archiver that may be handed over leaves no row or receipt of
\* the import in its journal (clearReceipts(), assertHandoverReady()).
ImportIsExact ==
  /\ job # NoJob /\ ~Earlier =>
       LET passed == {r \in Reviewed(job) : r <= job.cursor}
       IN  /\ stored \subseteq Reviewed(job) /\ passed \subseteq stored
           /\ job.written = Cardinality(passed)
           /\ job.state = "completed" => stored = Reviewed(job) /\ Applied
  /\ sources = IF job # NoJob /\ job.recorded THEN {TopicOf[r] : r \in stored} ELSE {}
  /\ running /\ HandoverReady => \A r \in Row : entry[r] = "none"

\* A job is blocked for a cause only: its source, its contract, or the target of the
\* job is not what was reviewed.  No crash, retry, lost answer or delayed WAL blocks
\* it, which could not be undone (catch of step(), inspectHistoricalTargets(),
\* verifyHistoricalVisibility()).
BlockedForCause ==
  job # NoJob /\ job.state = "blocked" =>
    seal # job.seal \/ contract # job.contract \/ foreign

\* boundary.phase of the status is "paused": inFlight counts the writes of the journal
\* and the step of this import.
AtBoundary == running /\ Paused /\ Writing = {} /\ ~Stepping

\* At a paused boundary nothing is written, nor is the worker about to, until the pause
\* has ended (replay-maintenance.md: "Already accepted writes finish; read
\* replay.status until boundary.phase is paused and inFlight is zero").
PauseIsABoundary ==
  [][AtBoundary => stored' = stored /\ (running' /\ Paused' => AtBoundary')]_vars

\* The process stays up, and may write
Steady == <>[](CanWrite)

Importing == job # NoJob /\ job.state = "running"

\* A running job comes to its end, across retries, pauses and restarts, unless the job
\* store failed (the catch of step(), kick()).
ImportEnds == Steady => (Importing ~> faulted \/ ~Importing)

=============================================================================
