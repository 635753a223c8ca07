------------------------------- MODULE IlpWriter -------------------------------
(***************************************************************************)
(* The path of a row into QuestDB: the setup chain of its table            *)
(* (QuestDBWriter.runWithTable), the shared batcher                        *)
(* (writers/questdb-ilp-batcher.ts), the retries and the circuit breaker   *)
(* of a flush (resilience.ts) and the one mutable buffer of the sender.    *)
(* A row is one call of runWithTable; a retry of the journal is a new row. *)
(*                                                                         *)
(* Deadlines are compared and never measured: a timer that is armed may    *)
(* fire at any time.                                                       *)
(***************************************************************************)
EXTENDS Integers, Sequences, SequencesExt

CONSTANTS
  Row,              \* rows handed to the writer
  Table,            \* QuestDB tables
  TableOf,          \* [Row -> Table]
  Deadline,         \* instants a row may have to be flushed at, Nat
  Config,           \* batch configurations: [maxRows, maxPendingRows]
  Attempts,         \* attempts of withRetry
  FailureThreshold, \* failures that open the circuit
  NoTimer           \* no timer is armed

ASSUME WriterAssumption ==
  /\ TableOf \in [Row -> Table]
  /\ Deadline \subseteq Nat /\ NoTimer \notin Nat
  /\ Config \subseteq [maxRows : Nat \ {0}, maxPendingRows : Nat \ {0}]
  /\ \A c \in Config : c.maxRows <= c.maxPendingRows
  /\ Attempts \in Nat \ {0} /\ FailureThreshold \in Nat \ {0}

VARIABLES
  arrived,    \* the calls of runWithTable, in order
  setup,      \* per table, rows whose setup is outstanding: pendingWrites
  config,     \* the batcher's configuration
  pending,    \* rows waiting for a batch
  flushAt,    \* their deadlines, 0 for other rows
  timer,      \* timerDueAt, or NoTimer
  batch,      \* rows of the batch in progress that are not rejected
  flushing,   \* flushingRows: its size when it started
  phase,      \* "idle", "append", "flush", "wait" for a retry, or "settled"
  attempt,    \* attempt of withRetry
  buffer,     \* rows in the sender's buffer
  circuit,    \* "closed" or "open"; it is half open only while its one probe runs
  failures,   \* failureCount
  cooled,     \* openMs have passed since the circuit opened
  status,     \* "open", "closing", "closed"
  outcome,    \* per row, how its promise settled
  inDb        \* rows QuestDB has applied

setupVars == <<arrived, setup>>
queueVars == <<pending, flushAt, timer>>
flushVars == <<batch, flushing, phase, attempt, buffer>>
circuitVars == <<circuit, failures, cooled>>
vars == <<setupVars, config, queueVars, flushVars, circuitVars, status, outcome, inDb>>

-----------------------------------------------------------------------------
Rows(s) == ToSet(s)

Settle(S, how) == outcome' = [r \in Row |-> IF r \in S THEN how ELSE outcome[r]]

\* pendingFlushAt
Earliest(p, due) == CHOOSE d \in {due[r] : r \in Rows(p)} : \A r \in Rows(p) : d <= due[r]

\* mutated scheduleFlush(): an armed timer is never brought forward
ArmedAlready(p, due, now) == IF now # NoTimer THEN now ELSE Earliest(p, due)

\* scheduleFlush(): the timer for pending rows that do not fill a batch
Armed(p, due, now) ==
  IF now # NoTimer /\ now <= Earliest(p, due) THEN now ELSE Earliest(p, due)

\* flushPending(), no flush in progress: the oldest rows are taken
Begin(p, due, n) ==
  LET k == IF Len(p) < n THEN Len(p) ELSE n
  IN  /\ batch' = SubSeq(p, 1, k)
      /\ pending' = SubSeq(p, k + 1, Len(p))
      /\ flushing' = k
      /\ phase' = "append" /\ attempt' = 1 /\ buffer' = <<>>
      /\ timer' = NoTimer
      /\ flushAt' = [r \in Row |-> IF r \in Rows(batch') THEN 0 ELSE due[r]]

\* scheduleFlush(), for pending rows p with deadlines due and a timer at now
Schedule(p, due, n, now) ==
  \/ /\ p = <<>>
     /\ pending' = p /\ timer' = now /\ flushAt' = due
     /\ UNCHANGED flushVars
  \/ /\ p # <<>> /\ Len(p) < n
     /\ pending' = p /\ timer' = Armed(p, due, now) /\ flushAt' = due
     /\ UNCHANGED flushVars
  \/ /\ Len(p) >= n
     /\ IF phase = "idle" THEN Begin(p, due, n)
        ELSE pending' = p /\ timer' = now /\ flushAt' = due /\ UNCHANGED flushVars

-----------------------------------------------------------------------------
\* mutated runWithTable(): a row does not wait for the previous one
WriteUnchained(r) ==
  /\ r \notin Rows(arrived)
  /\ arrived' = Append(arrived, r)
  /\ setup' = [setup EXCEPT ![TableOf[r]] = <<r>> \o @]
  /\ UNCHANGED <<config, queueVars, flushVars, circuitVars, status, outcome, inDb>>

\* runWithTable(): setup is chained behind the table's previous row
Write(r) ==
  /\ r \notin Rows(arrived)
  /\ arrived' = Append(arrived, r)
  /\ setup' = [setup EXCEPT ![TableOf[r]] = Append(@, r)]
  /\ UNCHANGED <<config, queueVars, flushVars, circuitVars, status, outcome, inDb>>

\* prepare() or ensureTable() threw: the chain goes on with the next row
SetupFails(t) ==
  /\ setup[t] # <<>>
  /\ setup' = [setup EXCEPT ![t] = Tail(@)]
  /\ Settle({Head(setup[t])}, "rejected")
  /\ UNCHANGED <<arrived, config, queueVars, flushVars, circuitVars, status, inDb>>

\* The table exists: enqueue(), with the deadline of the interval or of the
\* caller's wait hint.  A closed or full batcher rejects the row.
SetupDone(t) ==
  /\ setup[t] # <<>>
  /\ setup' = [setup EXCEPT ![t] = Tail(@)]
  /\ LET r == Head(setup[t])
     IN  IF status = "open" /\ Len(pending) + flushing < config.maxPendingRows
           THEN /\ \E d \in Deadline :
                     Schedule(Append(pending, r), [flushAt EXCEPT ![r] = d], config.maxRows, timer)
                /\ UNCHANGED outcome
           ELSE /\ Settle({r}, "rejected")
                /\ UNCHANGED <<queueVars, flushVars>>
  /\ UNCHANGED <<arrived, config, circuitVars, status, inDb>>

\* configure(): a shorter interval brings waiting rows forward, a longer one
\* leaves their deadlines
Configure(c) ==
  /\ config' = c
  /\ \E d \in Deadline :
       Schedule(pending, [r \in Row |-> IF d < flushAt[r] THEN d ELSE flushAt[r]], c.maxRows, NoTimer)
  /\ UNCHANGED <<setupVars, circuitVars, status, outcome, inDb>>

\* The timer of scheduleFlush()
TimerFires ==
  /\ timer # NoTimer
  /\ IF phase = "idle" /\ pending # <<>> THEN Begin(pending, flushAt, config.maxRows)
     ELSE timer' = NoTimer /\ UNCHANGED <<pending, flushAt, flushVars>>
  /\ UNCHANGED <<setupVars, config, circuitVars, status, outcome, inDb>>

-----------------------------------------------------------------------------
\* appendRows(): the function of the next row adds it, column by column, to the
\* sender's buffer
AppendRow ==
  /\ phase = "append" /\ Len(buffer) < Len(batch)
  /\ buffer' = Append(buffer, batch[Len(buffer) + 1])
  /\ UNCHANGED <<setupVars, config, queueVars, batch, flushing, phase, attempt, circuitVars,
                 status, outcome, inDb>>

\* mutated appendRows(): the failed row is not rejected
AppendFailsSilently ==
  /\ phase = "append" /\ Len(buffer) < Len(batch)
  /\ batch' = RemoveAt(batch, Len(buffer) + 1)
  /\ buffer' = <<>>
  /\ UNCHANGED <<setupVars, config, queueVars, flushing, phase, attempt, circuitVars, status,
                 outcome, inDb>>

\* appendRows(): a row that cannot be built is rejected, and the buffer rebuilt
\* from the remaining ones
AppendFails ==
  /\ phase = "append" /\ Len(buffer) < Len(batch)
  /\ batch' = RemoveAt(batch, Len(buffer) + 1)
  /\ Settle({batch[Len(buffer) + 1]}, "rejected")
  /\ buffer' = <<>>
  /\ UNCHANGED <<setupVars, config, queueVars, flushing, phase, attempt, circuitVars, status, inDb>>

\* flushBatch(): every row is built, or none is left
Appended ==
  /\ phase = "append" /\ Len(buffer) = Len(batch)
  /\ phase' = IF batch = <<>> THEN "settled" ELSE "flush"
  /\ UNCHANGED <<setupVars, config, queueVars, batch, flushing, attempt, buffer, circuitVars,
                 status, outcome, inDb>>

\* mutated withRetry(): an attempt too many
AttemptFailsLate(retryable) ==
  IF retryable /\ attempt <= Attempts
    THEN phase' = "wait" /\ UNCHANGED outcome
    ELSE phase' = "settled" /\ Settle(Rows(batch), "rejected")

\* withRetry() after a failed attempt
AttemptFails(retryable) ==
  IF retryable /\ attempt < Attempts
    THEN phase' = "wait" /\ UNCHANGED outcome
    ELSE phase' = "settled" /\ Settle(Rows(batch), "rejected")

\* CircuitBreaker.execute() refuses.  The message of the error says "Retry after",
\* which isRetryableIlpError() takes for a retryable one.
FlushRefused ==
  /\ phase = "flush"
  /\ circuit = "open" /\ ~cooled
  /\ AttemptFails(TRUE)
  /\ UNCHANGED <<setupVars, config, queueVars, batch, flushing, attempt, buffer, circuitVars,
                 status, inDb>>

Admitted == phase = "flush" /\ (circuit = "open" => cooled)

\* Sender.flush() resolved: onSuccess()
FlushDone ==
  /\ Admitted
  /\ circuit' = "closed" /\ failures' = 0 /\ cooled' = FALSE
  /\ inDb' = inDb \cup Rows(buffer)
  /\ Settle(Rows(batch), "resolved")
  /\ phase' = "settled" /\ buffer' = <<>>
  /\ UNCHANGED <<setupVars, config, queueVars, batch, flushing, attempt, status>>

\* Sender.flush() threw: onFailure().  QuestDB may have applied any of the rows.
FlushFails(retryable) ==
  /\ Admitted
  /\ IF circuit = "open" \/ failures + 1 >= FailureThreshold
       THEN circuit' = "open" /\ failures' = FailureThreshold /\ cooled' = FALSE
       ELSE failures' = failures + 1 /\ UNCHANGED <<circuit, cooled>>
  /\ \E S \in SUBSET Rows(buffer) : inDb' = inDb \cup S
  /\ AttemptFails(retryable)
  /\ UNCHANGED <<setupVars, config, queueVars, batch, flushing, attempt, buffer, status>>

\* mutated flushBatch(): flush() came back without sending, and counts as sent
FlushEmptyResolves ==
  /\ Admitted
  /\ circuit' = "closed" /\ failures' = 0 /\ cooled' = FALSE
  /\ Settle(Rows(batch), "resolved")
  /\ phase' = "settled"
  /\ UNCHANGED <<setupVars, config, queueVars, batch, flushing, attempt, buffer, status, inDb>>

\* flushBatch(): flush() answered false, which the circuit takes for a success
\* and the batch for an error that is not retried
FlushEmpty ==
  /\ Admitted
  /\ circuit' = "closed" /\ failures' = 0 /\ cooled' = FALSE
  /\ Settle(Rows(batch), "rejected")
  /\ phase' = "settled"
  /\ UNCHANGED <<setupVars, config, queueVars, batch, flushing, attempt, buffer, status, inDb>>

\* mutated appendRows(): the buffer of the failed attempt is kept
RetryUnreset ==
  /\ phase = "wait"
  /\ attempt' = attempt + 1
  /\ phase' = "flush" /\ buffer' = buffer \o batch
  /\ UNCHANGED <<setupVars, config, queueVars, batch, flushing, circuitVars, status, outcome, inDb>>

\* withRetry(), the delay is over: the buffer is rebuilt from the start
Retry ==
  /\ phase = "wait"
  /\ attempt' = attempt + 1
  /\ phase' = "append" /\ buffer' = <<>>
  /\ UNCHANGED <<setupVars, config, queueVars, batch, flushing, circuitVars, status, outcome, inDb>>

\* The finally of flushPending(): what came meanwhile is scheduled
Finish ==
  /\ phase = "settled"
  /\ \/ /\ Len(pending) >= config.maxRows
        /\ Begin(pending, flushAt, config.maxRows)
     \/ /\ Len(pending) < config.maxRows
        /\ batch' = <<>> /\ flushing' = 0 /\ attempt' = 0 /\ phase' = "idle"
        /\ timer' = IF pending = <<>> THEN timer ELSE Armed(pending, flushAt, timer)
        /\ UNCHANGED <<pending, flushAt, buffer>>
  /\ UNCHANGED <<setupVars, config, circuitVars, status, outcome, inDb>>

CoolsDown ==
  /\ circuit = "open" /\ ~cooled
  /\ cooled' = TRUE
  /\ UNCHANGED <<setupVars, config, queueVars, flushVars, circuit, failures, status, outcome, inDb>>

-----------------------------------------------------------------------------
\* close(): nothing more is admitted
Close ==
  /\ status = "open"
  /\ status' = "closing" /\ timer' = NoTimer
  /\ UNCHANGED <<setupVars, config, pending, flushAt, flushVars, circuitVars, outcome, inDb>>

\* mutated close(): a partial batch is left to the timer
CloseDrainsFull ==
  /\ status = "closing" /\ phase = "idle" /\ Len(pending) >= config.maxRows
  /\ Begin(pending, flushAt, config.maxRows)
  /\ UNCHANGED <<setupVars, config, circuitVars, status, outcome, inDb>>

\* close(): its loop flushes what is pending
CloseDrains ==
  /\ status = "closing" /\ phase = "idle" /\ pending # <<>>
  /\ Begin(pending, flushAt, config.maxRows)
  /\ UNCHANGED <<setupVars, config, circuitVars, status, outcome, inDb>>

\* close(): QuestDBWriter.close() resets and closes the sender
Closed ==
  /\ status = "closing" /\ phase = "idle" /\ pending = <<>>
  /\ status' = "closed" /\ buffer' = <<>>
  /\ UNCHANGED <<setupVars, config, queueVars, batch, flushing, phase, attempt, circuitVars,
                 outcome, inDb>>

Init ==
  /\ arrived = <<>> /\ setup = [t \in Table |-> <<>>]
  /\ config \in Config
  /\ pending = <<>> /\ flushAt = [r \in Row |-> 0] /\ timer = NoTimer
  /\ batch = <<>> /\ flushing = 0 /\ phase = "idle" /\ attempt = 0 /\ buffer = <<>>
  /\ circuit = "closed" /\ failures = 0 /\ cooled = FALSE
  /\ status = "open"
  /\ outcome = [r \in Row |-> "none"] /\ inDb = {}

FlushStep ==
  \/ AppendRow \/ AppendFails \/ Appended
  \/ FlushRefused \/ FlushDone \/ FlushEmpty \/ \E b \in BOOLEAN : FlushFails(b)
  \/ Retry \/ Finish

Next ==
  \/ \E r \in Row : Write(r)
  \/ \E t \in Table : SetupDone(t) \/ SetupFails(t)
  \/ \E c \in Config : Configure(c)
  \/ TimerFires
  \/ FlushStep
  \/ CoolsDown
  \/ Close \/ CloseDrains \/ Closed

\* An awaited call settles and a timer fires, and close() loops.  Nobody has to
\* call close() or configure(), and the database may stay down.
Fairness ==
  /\ \A t \in Table : WF_vars(SetupDone(t) \/ SetupFails(t))
  /\ WF_vars(TimerFires)
  /\ WF_vars(FlushStep)
  /\ WF_vars(CloseDrains) /\ WF_vars(Closed)

Spec == Init /\ [][Next]_vars
FairSpec == Spec /\ Fairness

-----------------------------------------------------------------------------
TypeOK ==
  /\ arrived \in Seq(Row) /\ setup \in [Table -> Seq(Row)]
  /\ config \in Config
  /\ pending \in Seq(Row) /\ batch \in Seq(Row) /\ buffer \in Seq(Row)
  /\ flushAt \in [Row -> Nat] /\ timer \in Nat \cup {NoTimer}
  /\ flushing \in Nat /\ Len(batch) <= flushing
  /\ phase \in {"idle", "append", "flush", "wait", "settled"}
  /\ attempt \in 0..Attempts
  /\ circuit \in {"closed", "open"}
  /\ failures \in 0..FailureThreshold /\ cooled \in BOOLEAN
  /\ status \in {"open", "closing", "closed"}
  /\ outcome \in [Row -> {"none", "resolved", "rejected"}]
  /\ inDb \subseteq Row

\* What is sent is exactly the batch whose promises the answer settles: nothing
\* left in the shared buffer by a failed attempt or a rejected row, nothing
\* twice, in order (reset() in appendRows()).
FlushSendsTheBatch == phase = "flush" => buffer = batch

\* A write that was acknowledged is in QuestDB, and each row of a batch still
\* waits for its answer (flushBatch()); the journal deletes what is acknowledged.
AckMeansStored ==
  /\ \A r \in Row : outcome[r] = "resolved" => r \in inDb
  /\ \A r \in Rows(pending) \cup (IF phase = "settled" THEN {} ELSE Rows(batch)) :
       outcome[r] = "none"

\* No wake-up is lost: rows that wait while no flush runs have a timer, and it is
\* due by the earliest of their deadlines; enough for a batch never wait
\* (scheduleFlush(), configure(), the finally of flushPending()).
TimerCovers ==
  phase = "idle" /\ status = "open" /\ pending # <<>> =>
    /\ timer # NoTimer /\ \A r \in Rows(pending) : timer <= flushAt[r]
    /\ Len(pending) < config.maxRows

\* Rows of one table are sent in the order they were handed over, whatever batch
\* they end up in (runWithTable(), flushPending()).
TableOrder ==
  LET line == batch \o pending
  IN  \A i, j \in 1..Len(line) :
        i < j /\ TableOf[line[i]] = TableOf[line[j]] =>
          \E m, n \in 1..Len(arrived) : m < n /\ arrived[m] = line[i] /\ arrived[n] = line[j]

\* Every write settles, whether or not the database answers, also when the
\* writer is closed meanwhile: the journal waits for it.
EveryRowSettles ==
  \A r \in Row : r \in Rows(arrived) ~> outcome[r] # "none"

\* close() returns.
CloseReturns == status = "closing" ~> status = "closed"
=============================================================================
