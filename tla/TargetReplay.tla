----------------------------- MODULE TargetReplay -----------------------------
(***************************************************************************)
(* The scheduling of the durable journal's writes (src/target-journal.ts): *)
(* a timer starts a replay pass when none runs; the pass gives every table *)
(* with pending rows a turn, in the order of their names from the cursor   *)
(* on, a few tables at a time; a turn starts the head rows of its table    *)
(* and waits for them.  submit() starts the head of its table beside it.   *)
(*                                                                         *)
(* Rows, failures and the pause policy are those of TargetJournal; storage *)
(* faults and crashes are left to that module.  A row is rejected when the *)
(* writer throws NonRetryableError for it whenever it is tried             *)
(* (writers/questDbWriter.ts).                                             *)
(***************************************************************************)
EXTENDS Integers, Sequences, FiniteSets, SequencesExt

CONSTANTS
  Row,            \* accepted packet parts
  Table,          \* final tables, numbered in the order of their names
  TableOf,        \* [Row -> Table]
  Rejected,       \* rows the writer can never write
  MaxInFlight,    \* maxInFlight
  Batch,          \* replayBatch
  Concurrency     \* replayConcurrency

ASSUME ReplayAssumption ==
  /\ Table \subseteq Nat \ {0} /\ IsFiniteSet(Table)
  /\ TableOf \in [Row -> Table] /\ Rejected \subseteq Row
  /\ MaxInFlight \in Nat \ {0} /\ Batch \in Nat \ {0} /\ Concurrency \in Nat \ {0}

VARIABLES
  accepted,   \* rows submitted so far
  queue,      \* per table, its pending rows by seq
  confirmed,  \* rows written
  jobs,       \* rows with a write outstanding
  delayed,    \* rows whose retry_at is in the future
  paused,     \* tables held by a rule
  canReplay,  \* the archiver is active and nothing is paused as a whole
  passing,    \* a replay pass runs
  todo,       \* tables of the pass whose turn has not come
  share,      \* rows of a turn
  turns,      \* tables whose turn is on
  awaits,     \* per table, the rows its turn waits for
  cursor,     \* the table whose turn began last
  status      \* "up", "closing", "closed"

rowVars == <<accepted, queue, confirmed, jobs, delayed>>
passVars == <<passing, todo, share, turns, awaits, cursor>>
vars == <<rowVars, paused, canReplay, passVars, status>>

-----------------------------------------------------------------------------
Lesser(a, b) == IF a < b THEN a ELSE b

\* ORDER BY target: the tables of S in the order of their names
InOrder(S) ==
  CHOOSE s \in [1..Cardinality(S) -> S] : \A i, j \in 1..Cardinality(S) : i < j => s[i] < s[j]

\* tryHead(): the places of a queue whose rows have no job, up to the first that has to wait
Ready(q) ==
  LET free == {i \in DOMAIN q : q[i] \notin jobs}
  IN  {i \in free : \A j \in free : j <= i => q[j] \notin delayed}

\* tryHead(): the rows it starts, the first of those for which there is room
Heads(q, t, n) ==
  LET room == Lesser(n, MaxInFlight - Cardinality(jobs))
  IN  {q[i] : i \in {k \in Ready(q) : /\ status = "up" /\ canReplay /\ t \notin paused
                                     /\ Cardinality({j \in Ready(q) : j < k}) < room}}

Targets == {t \in Table : queue[t] # <<>> /\ t \notin paused}

\* mutated replayPass(): always from the first table
FromTheFirst == InOrder(Targets)

\* replayPass(): the tables after the cursor, then the others
Fair ==
  InOrder({t \in Targets : t > cursor}) \o InOrder({t \in Targets : t <= cursor})

-----------------------------------------------------------------------------
\* submit(): the row is queued, and the head of its table tried
Accept(r) ==
  /\ status = "up" /\ r \notin accepted
  /\ accepted' = accepted \cup {r}
  /\ queue' = [queue EXCEPT ![TableOf[r]] = Append(@, r)]
  /\ jobs' = jobs \cup Heads(queue'[TableOf[r]], TableOf[r], 1)
  /\ UNCHANGED <<confirmed, delayed, paused, canReplay, passVars, status>>

\* The interval timer: replay() joins a pass that runs; a new one fixes its
\* tables and their share of the batch
Tick ==
  /\ status = "up" /\ canReplay /\ ~passing
  /\ Targets # {}
  /\ LET count == Lesser(Batch, Cardinality(Targets))
     IN  /\ todo' = SubSeq(Fair, 1, count)
         /\ share' = Batch \div count
  /\ passing' = TRUE
  /\ UNCHANGED <<rowVars, paused, canReplay, turns, awaits, cursor, status>>

\* replayPass(): a free worker takes the next table
Turn ==
  /\ todo # <<>> /\ Cardinality(turns) < Concurrency
  /\ LET t == Head(todo)
         S == Heads(queue[t], t, share)
     IN  /\ cursor' = t
         /\ jobs' = jobs \cup S
         /\ turns' = turns \cup {t}
         /\ awaits' = [awaits EXCEPT ![t] = S]
  /\ todo' = Tail(todo)
  /\ UNCHANGED <<accepted, queue, confirmed, delayed, paused, canReplay, passing, share, status>>

\* The writes of a turn have settled
TurnEnds(t) ==
  /\ t \in turns /\ awaits[t] \cap jobs = {}
  /\ turns' = turns \ {t}
  /\ awaits' = [awaits EXCEPT ![t] = {}]
  /\ UNCHANGED <<rowVars, paused, canReplay, passing, todo, share, cursor, status>>

PassEnds ==
  /\ passing /\ todo = <<>> /\ turns = {}
  /\ passing' = FALSE
  /\ UNCHANGED <<rowVars, paused, canReplay, todo, share, turns, awaits, cursor, status>>

WriteSucceeds(r) ==
  /\ r \in jobs \ Rejected
  /\ jobs' = jobs \ {r}
  /\ queue' = [queue EXCEPT ![TableOf[r]] = RemoveAt(@, CHOOSE i \in DOMAIN @ : @[i] = r)]
  /\ confirmed' = confirmed \cup {r}
  /\ UNCHANGED <<accepted, delayed, paused, canReplay, passVars, status>>

\* mutated startWrite(): the job of a failed write is not removed
WriteFailsKept(r) ==
  /\ r \in jobs
  /\ delayed' = delayed \cup {r}
  /\ UNCHANGED <<accepted, queue, confirmed, jobs, paused, canReplay, passVars, status>>

\* startWrite(): every failure is retried, also one that cannot succeed
WriteFails(r) ==
  /\ r \in jobs
  /\ jobs' = jobs \ {r}
  /\ delayed' = delayed \cup {r}
  /\ UNCHANGED <<accepted, queue, confirmed, paused, canReplay, passVars, status>>

RetryDue(r) ==
  /\ r \in delayed
  /\ delayed' = delayed \ {r}
  /\ UNCHANGED <<accepted, queue, confirmed, jobs, paused, canReplay, passVars, status>>

\* command(): a rule is added or removed
SetPaused(t) ==
  /\ status = "up"
  /\ paused' = IF t \in paused THEN paused \ {t} ELSE paused \cup {t}
  /\ UNCHANGED <<rowVars, canReplay, passVars, status>>

\* The options' canReplay(): activation, the global pause, replay control
SetCanReplay ==
  /\ status = "up"
  /\ canReplay' = ~canReplay
  /\ UNCHANGED <<rowVars, paused, passVars, status>>

Close ==
  /\ status = "up"
  /\ status' = "closing"
  /\ UNCHANGED <<rowVars, paused, canReplay, passVars>>

\* mutated close(): it waits for a replay pass with nothing pending
ClosedEmpty ==
  /\ status = "closing" /\ ~passing /\ jobs = {} /\ \A t \in Table : queue[t] = <<>>
  /\ status' = "closed"
  /\ UNCHANGED <<rowVars, paused, canReplay, passVars>>

\* closeJournal(): the pass and the writes have ended
Closed ==
  /\ status = "closing" /\ ~passing /\ jobs = {}
  /\ status' = "closed"
  /\ UNCHANGED <<rowVars, paused, canReplay, passVars>>

Init ==
  /\ accepted = {} /\ queue = [t \in Table |-> <<>>] /\ confirmed = {}
  /\ jobs = {} /\ delayed = {} /\ paused = {} /\ canReplay \in BOOLEAN
  /\ passing = FALSE /\ todo = <<>> /\ share = 0 /\ turns = {}
  /\ awaits = [t \in Table |-> {}] /\ cursor = 0
  /\ status = "up"

Next ==
  \/ \E r \in Row : Accept(r) \/ WriteSucceeds(r) \/ WriteFails(r) \/ RetryDue(r)
  \/ \E t \in Table : TurnEnds(t) \/ SetPaused(t)
  \/ Tick \/ Turn \/ PassEnds
  \/ SetCanReplay
  \/ Close \/ Closed

\* The interval and the retry delays elapse, awaited calls settle, and a row that
\* is tried again and again is written once the database answers.  Nobody has to
\* submit, pause or close.
Fairness ==
  /\ WF_vars(Tick) /\ WF_vars(Turn) /\ WF_vars(PassEnds) /\ WF_vars(Closed)
  /\ \A t \in Table : WF_vars(TurnEnds(t))
  /\ \A r \in Row :
       /\ WF_vars(WriteSucceeds(r) \/ WriteFails(r)) /\ SF_vars(WriteSucceeds(r))
       /\ WF_vars(RetryDue(r))

Spec == Init /\ [][Next]_vars /\ Fairness

-----------------------------------------------------------------------------
TypeOK ==
  /\ accepted \subseteq Row /\ confirmed \subseteq accepted
  /\ \A t \in Table : ToSet(queue[t]) = {r \in accepted \ confirmed : TableOf[r] = t}
  /\ jobs \subseteq accepted \ confirmed /\ delayed \subseteq accepted \ (confirmed \cup jobs)
  /\ Cardinality(jobs) <= MaxInFlight
  /\ paused \subseteq Table /\ canReplay \in BOOLEAN /\ passing \in BOOLEAN
  /\ ToSet(todo) \subseteq Table /\ share \in 0..Batch
  /\ turns \subseteq Table /\ Cardinality(turns) <= Concurrency
  /\ awaits \in [Table -> SUBSET Row] /\ cursor \in Table \cup {0}
  /\ status \in {"up", "closing", "closed"}

\* The table t may go on: from some moment it is neither paused nor is replay
\* stopped
Running(t) == <>[](status = "up" /\ canReplay /\ t \notin paused)

HasRejected(t) == \E r \in Rejected : TableOf[r] = t

\* A table with a row that fails for ever, or that is paused, takes no turn away
\* from another: every row of a running table that holds no rejected row is
\* written (the README's "healthy tables continue"; cursor, share and the workers
\* of replayPass(), the room of tryHead()).
HealthyTablesContinue ==
  \A r \in Row :
    Running(TableOf[r]) /\ ~HasRejected(TableOf[r]) => (r \in accepted ~> r \in confirmed)

\* close() returns, although rows stay pending and a pass may be waiting.
CloseReturns == status = "closing" ~> status = "closed"
=============================================================================
