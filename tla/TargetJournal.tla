---------------------------- MODULE TargetJournal ----------------------------
(***************************************************************************)
(* The durable per-table write queue of the archiver                       *)
(* (src/target-journal.ts).  Every part of an accepted packet is a row of  *)
(* an SQLite table until QuestDB has confirmed it; operators pause single  *)
(* tables, by name or by topic filter, and the pause policy is kept in     *)
(* SQLite with a derived "portable" file beside it.                        *)
(*                                                                         *)
(* Synchronous code is one action.  A promise that is awaited splits a     *)
(* handler in two.  A crash may fall between any two actions and loses the *)
(* variables of the process; a crash inside a handler, between its SQLite  *)
(* transaction and the portable file, leaves the same disk as the file     *)
(* write failing and the crash following.                                  *)
(***************************************************************************)
EXTENDS Integers, FiniteSets

CONSTANTS
  Part,         \* entries of submit(), named by their id
  Target,       \* final tables
  Topic,        \* MQTT topics
  TargetOf,     \* [Part -> Target]
  TopicOf,      \* [Part -> Topic]
  Packet,       \* sets of parts submitted together
  LegacyPart,   \* parts that carry a legacyKey
  Selector,     \* selectors an operator may pause
  Request,      \* requestIds of operator commands
  Issued,       \* requestIds of rules that came in the portable file
  Incoming,     \* policies another owner may hand over
  InitialFile,  \* what the portable file may hold before the first start
  MaxPending,   \* maxPendingPerTarget
  MaxInFlight,  \* maxInFlight; the byte bound of a pass is abstracted into it
  Batch,        \* replayBatch
  MaxRevision,  \* bound: revisions of the policy
  NoFile,       \* the portable file does not exist
  NoPolicy,     \* the meta table holds no policy yet
  NoRevision    \* the command was never recorded

\* "since" stands for the time of a rule, and its place in the list: the revision
\* that added it
Rule == [id : Request \cup Issued, sel : Selector, tables : SUBSET Target, since : Nat]
Policy == [revision : Nat, rules : SUBSET Rule]
EmptyPolicy == [revision |-> 0, rules |-> {}]

ASSUME PartsAssumption ==
  /\ IsFiniteSet(Part) /\ IsFiniteSet(Target)
  /\ TargetOf \in [Part -> Target]
  /\ TopicOf \in [Part -> Topic]
  /\ LegacyPart \subseteq Part
  \* resolvePacketTargets gives each part of a packet a table of its own
  /\ Packet \subseteq SUBSET Part
  /\ \A p \in Packet : \A i, j \in p : i # j => TargetOf[i] # TargetOf[j]

ASSUME PolicyAssumption ==
  \* a selector names tables, or a filter given by the topics it matches
  /\ Selector \subseteq [tables : SUBSET Target, topics : SUBSET Topic]
  /\ Incoming \subseteq [revision : Nat, rules : {{}}]
  /\ InitialFile \subseteq Policy \cup {NoFile}
  /\ NoFile \notin Policy /\ NoPolicy \notin Policy /\ NoRevision \notin Nat

ASSUME BoundsAssumption ==
  /\ MaxPending \in Nat \ {0} /\ MaxInFlight \in Nat \ {0} /\ Batch \in Nat \ {0}
  /\ MaxRevision \in Nat

-----------------------------------------------------------------------------
VARIABLES
  \* SQLite, kept over a crash
  queued,       \* rows in state 'pending'
  confirmed,    \* rows in state 'confirmed': the receipts
  ahead,        \* per pending row, the pending rows of its table with a smaller seq
  attempted,    \* pending rows with attempts > 0
  inWrite,      \* rows with in_write = 1
  delayed,      \* pending rows whose retry_at is in the future
  pending,      \* totals.pending per target
  retrying,     \* totals.retrying per target
  observed,     \* the observations table: <<topic, target>> pairs
  stored,       \* the policy of the meta table
  commands,     \* per requestId, the revision its recorded response names
  mirror,       \* the portable policy file
  \* the process, lost in a crash
  status,       \* "down", "up", "closing", "closed", or "refused" at start
  policy,       \* this.policy
  fault,        \* storageError is set
  globalPaused, \* archiving as a whole is paused
  scheduled,    \* jobs whose promise is installed, write not begun
  writing,      \* jobs whose write is outstanding
  snapshot,     \* jobs whose row was read with attempts > 0
  busy,         \* policyBusy: a pause waits for the writes it found
  drained,      \* closedDrained
  \* what has happened to the policy
  torn,         \* a ROLLBACK threw and left a policy in memory that was not stored
  \* QuestDB, and what a part's bytes have done
  sent,         \* handed to QuestDB since the row was inserted
  inDb          \* applied by QuestDB since the row was inserted

rowVars == <<queued, confirmed, ahead, attempted, inWrite, delayed, pending, retrying>>
policyVars == <<observed, stored, commands, mirror, policy, torn>>
jobVars == <<scheduled, writing, snapshot>>
lifeVars == <<status, globalPaused, busy, drained>>
dbVars == <<sent, inDb>>
vars == <<rowVars, policyVars, jobVars, lifeVars, dbVars, fault>>

-----------------------------------------------------------------------------
Jobs == scheduled \cup writing

At(S, t) == {i \in S : TargetOf[i] = t}

Lesser(a, b) == IF a < b THEN a ELSE b

\* isPaused()
PausedBy(pol, t) == \E r \in pol.rules : t \in r.tables
Paused(t) == PausedBy(policy, t)

\* mutated preview(): a topic filter is not resolved against the observations
PreviewUnresolved(sel) == sel.tables

\* preview(): the tables a selector stands for now
Preview(sel) ==
  sel.tables \cup {t \in Target : \E x \in sel.topics : <<x, t>> \in observed}

\* mirrorPolicy(): what the portable file should hold
MirrorOf(pol, g) == IF ~g /\ pol.rules = {} THEN NoFile ELSE pol

\* mutated boundary(): a job counts once its write has begun
InFlightBegun == {i \in writing : Paused(TargetOf[i])}

\* boundary()
InFlight == {i \in Jobs : Paused(TargetOf[i])}
Boundary ==
  IF policy.rules = {} THEN "running"
  ELSE IF InFlight # {} THEN "draining"
  ELSE IF \E t \in Target : Paused(t) /\ retrying[t] > 0 THEN "write-outcome-uncertain"
  ELSE "paused"

\* retainedWritesBlockPolicy(), exportPolicy()
RetainedWritesBlock(preflight) ==
  \/ fault
  \/ ~preflight /\ Jobs # {}
  \/ \E i \in queued : preflight => (i \notin inWrite \/ i \in attempted)

ExportAllowed(preflight) ==
  /\ ~globalPaused
  /\ policy.rules = {}
  /\ CASE status = "up" -> ~RetainedWritesBlock(preflight)
       [] status \in {"closing", "closed"} -> drained /\ ~fault
       [] OTHER -> FALSE

-----------------------------------------------------------------------------
\* mutated tryHead(): a row that waits for its retry is passed over
StartablePassing(q, a, t) == At(q, t) \ (Jobs \cup delayed)

\* tryHead(): the prefix of a table's pending rows, in seq order and leaving out
\* those with a job, before the first one that waits for its retry time
Startable(q, a, t) ==
  LET free == At(q, t) \ Jobs
  IN  {i \in free : i \notin delayed /\ a[i] \cap free \cap delayed = {}}

\* tryHead(): its first n rows
Heads(q, a, t, n) ==
  LET ready == Startable(q, a, t)
  IN  {i \in ready : Cardinality(a[i] \cap ready) < n}

Room == MaxInFlight - Cardinality(Jobs)

\* startWrite(): the promise is installed with the row as read now
Start(S) ==
  /\ scheduled' = scheduled \cup S
  /\ snapshot' = snapshot \cup (S \cap attempted)
  /\ UNCHANGED writing

\* observe(): topic rules take in the tables of newly observed pairs; the
\* revision stays
Extended(pol, pairs) ==
  [pol EXCEPT !.rules =
     {[r EXCEPT !.tables = @ \cup {t \in Target : \E x \in r.sel.topics : <<x, t>> \in pairs}]
        : r \in pol.rules}]

-----------------------------------------------------------------------------
\* A file write, or a transaction that changes no policy, failed and left the disk as
\* it was: fault().  After close() every use of the database fails.
StorageFails ==
  /\ status \in {"up", "closing", "closed"}
  /\ fault' = TRUE
  /\ UNCHANGED <<rowVars, policyVars, jobVars, lifeVars, dbVars>>

\* transaction(), when it fails: what was stored stays.  Memory is restored after the
\* ROLLBACK; but a full disk, an I/O error or a failed COMMIT has ended the
\* transaction already, the ROLLBACK throws, and memory keeps what savePolicy() put
\* there, one of the policies in saves.
RolledBack(saves) ==
  /\ policy' \in {policy} \cup saves
  /\ torn' = (torn \/ policy' # policy)
  /\ fault' = TRUE
  /\ UNCHANGED <<observed, stored, commands>>

Fits(new) == \A t \in Target : pending[t] + Cardinality(At(new, t)) <= MaxPending

\* observe() of the parts of a packet
Pairs(p) == {<<TopicOf[i], TargetOf[i]>> : i \in p}
Observing(p) == Extended(policy, Pairs(p) \ observed)

\* mutated transaction(): the policy in memory is not restored
SubmitRejectedUnrestored(p) ==
  /\ status = "up"
  /\ policy' = Observing(p)
  /\ fault' = TRUE
  /\ UNCHANGED <<rowVars, observed, stored, commands, mirror, torn, jobVars, lifeVars, dbVars>>

\* submit(), when the parts do not fit or the disk refuses them: every part is rolled
\* back.  Some parts were observed before.
SubmitRejected(p) ==
  /\ status = "up"
  /\ RolledBack({Observing(s) : s \in SUBSET p})
  /\ UNCHANGED <<rowVars, mirror, jobVars, lifeVars, dbVars>>

\* submit(), the transaction committed.  A policy the portable file could not
\* follow fails the call, and its rows stay.  Otherwise a fault is cleared and
\* the head of each table is started.
Submit(p) ==
  LET new   == p \ (queued \cup confirmed)
      np    == Observing(p)
      q     == queued \cup new
      a     == [i \in Part |-> IF i \in new THEN At(queued, TargetOf[i]) ELSE ahead[i]]
      heads == UNION {Heads(q, a, t, 1) : t \in {u \in Target : At(p, u) # {} /\ ~PausedBy(np, u)}}
  IN  /\ status = "up"
      /\ Fits(new)
      /\ queued' = q
      /\ ahead' = a
      /\ pending' = [t \in Target |-> pending[t] + Cardinality(At(new, t))]
      /\ observed' = observed \cup Pairs(p)
      /\ policy' = np
      /\ stored' = IF np # policy THEN np ELSE stored
      /\ sent' = sent \ new
      /\ inDb' = inDb \ new
      /\ \/ /\ np # policy
            /\ fault' = TRUE
            /\ UNCHANGED <<mirror, jobVars>>
         \/ /\ mirror' = IF np # policy THEN MirrorOf(np, globalPaused) ELSE mirror
            /\ fault' = FALSE
            /\ \/ UNCHANGED jobVars   \* canReplay() is false
               \/ /\ ~globalPaused
                  /\ \E S \in SUBSET heads :
                       /\ Cardinality(S) = Lesser(Cardinality(heads), Room)
                       /\ Start(S)
      /\ UNCHANGED <<confirmed, attempted, inWrite, delayed, retrying, commands, torn, lifeVars>>

\* tryHead() from a replay pass
Replay(t) ==
  /\ status = "up" /\ ~fault /\ ~globalPaused /\ ~Paused(t)
  /\ \E n \in 1..Batch :
       LET S == Heads(queued, ahead, t, Lesser(n, Room))
       IN  S # {} /\ Start(S)
  /\ UNCHANGED <<rowVars, policyVars, lifeVars, dbVars, fault>>

\* mutated startWrite(): the write is called before the row is marked
BeginWriteUnmarked(i) ==
  /\ i \in scheduled
  /\ scheduled' = scheduled \ {i}
  /\ writing' = writing \cup {i}
  /\ sent' = sent \cup {i}
  /\ UNCHANGED <<rowVars, policyVars, lifeVars, inDb, snapshot, fault>>

\* startWrite(), its first microtask: in_write is set and the write called.
\* When the update fails the job ends with the row as it was.
BeginWrite(i) ==
  /\ i \in scheduled
  /\ scheduled' = scheduled \ {i}
  /\ \/ /\ writing' = writing \cup {i}
        /\ inWrite' = inWrite \cup {i}
        /\ sent' = sent \cup {i}
        /\ UNCHANGED <<snapshot, fault>>
     \/ /\ snapshot' = snapshot \ {i}
        /\ fault' = TRUE
        /\ UNCHANGED <<writing, inWrite, sent>>
  /\ UNCHANGED <<queued, confirmed, ahead, attempted, delayed, pending, retrying,
                 policyVars, lifeVars, inDb>>

\* QuestDB applies what it was sent: before the answer, after a lost answer, or
\* after the archiver died
Apply(i) ==
  /\ i \in sent
  /\ inDb' = inDb \cup {i}
  /\ UNCHANGED <<rowVars, policyVars, jobVars, lifeVars, sent, fault>>

\* the finally of startWrite()
EndJob(i) ==
  /\ writing' = writing \ {i}
  /\ snapshot' = snapshot \ {i}
  /\ UNCHANGED scheduled

\* mutated startWrite(): every failure counts a retrying row
WriteFailsCounting(i) ==
  /\ i \in writing
  /\ EndJob(i)
  /\ attempted' = attempted \cup {i}
  /\ delayed' = delayed \cup {i}
  /\ inWrite' = inWrite \ {i}
  /\ retrying' = [retrying EXCEPT ![TargetOf[i]] = @ + 1]
  /\ UNCHANGED <<queued, confirmed, ahead, pending, policyVars, lifeVars, dbVars, fault>>

\* mutated startWrite(): an answer that did not come counts as an acknowledgement
WriteFailsConfirming(i) ==
  /\ i \in writing
  /\ EndJob(i)
  /\ queued' = queued \ {i}
  /\ confirmed' = confirmed \cup {i}
  /\ UNCHANGED <<ahead, attempted, inWrite, delayed, pending, retrying,
                 policyVars, lifeVars, dbVars, fault>>

\* startWrite(), the write threw: the row is retried after a delay
WriteFails(i) ==
  /\ i \in writing
  /\ EndJob(i)
  /\ attempted' = attempted \cup {i}
  /\ delayed' = delayed \cup {i}
  /\ inWrite' = inWrite \ {i}
  /\ retrying' = [retrying EXCEPT ![TargetOf[i]] = @ + (IF i \in snapshot THEN 0 ELSE 1)]
  /\ UNCHANGED <<queued, confirmed, ahead, pending, policyVars, lifeVars, dbVars, fault>>

\* mutated startWrite(): the receipt keeps in_write
WriteConfirmedMarked(i) ==
  /\ i \in writing /\ i \in inDb
  /\ EndJob(i)
  /\ queued' = queued \ {i}
  /\ confirmed' = confirmed \cup {i}
  /\ ahead' = [j \in Part |-> IF j = i THEN {} ELSE ahead[j] \ {i}]
  /\ attempted' = attempted \ {i}
  /\ pending' = [pending EXCEPT ![TargetOf[i]] = @ - 1]
  /\ retrying' = [retrying EXCEPT ![TargetOf[i]] = @ - (IF i \in snapshot THEN 1 ELSE 0)]
  /\ UNCHANGED <<inWrite, delayed, policyVars, lifeVars, dbVars, fault>>

\* startWrite(), the write was acknowledged: the row becomes a receipt
WriteConfirmed(i) ==
  /\ i \in writing /\ i \in inDb
  /\ EndJob(i)
  /\ queued' = queued \ {i}
  /\ confirmed' = confirmed \cup {i}
  /\ ahead' = [j \in Part |-> IF j = i THEN {} ELSE ahead[j] \ {i}]
  /\ attempted' = attempted \ {i}
  /\ inWrite' = inWrite \ {i}
  /\ pending' = [pending EXCEPT ![TargetOf[i]] = @ - 1]
  /\ retrying' = [retrying EXCEPT ![TargetOf[i]] = @ - (IF i \in snapshot THEN 1 ELSE 0)]
  /\ UNCHANGED <<delayed, policyVars, lifeVars, dbVars, fault>>

\* startWrite(), the transaction that records either outcome fails
SettleFails(i) ==
  /\ i \in writing
  /\ EndJob(i)
  /\ fault' = TRUE
  /\ UNCHANGED <<rowVars, policyVars, lifeVars, dbVars>>

RetryDue(i) ==
  /\ i \in delayed
  /\ delayed' = delayed \ {i}
  /\ UNCHANGED <<queued, confirmed, ahead, attempted, inWrite, pending, retrying,
                 policyVars, jobVars, lifeVars, dbVars, fault>>

\* acknowledge() after a packet's submit(), and the bounding of live receipts by
\* a replay pass; acknowledgeLegacy() once the source file is deleted
DropReceipts(S) ==
  /\ status \in {"up", "closing"} /\ S # {}
  /\ confirmed' = confirmed \ S
  /\ UNCHANGED <<queued, ahead, attempted, inWrite, delayed, pending, retrying,
                 policyVars, jobVars, lifeVars, dbVars, fault>>

Acknowledge(p) == DropReceipts((p \cap confirmed) \ LegacyPart)
AcknowledgeLegacy(p) == DropReceipts(p \cap confirmed \cap LegacyPart)

-----------------------------------------------------------------------------
\* command() first probes a faulted journal: a control write and the portable
\* file.  When they succeed the fault is cleared, whatever the command's fate.
Probed == IF fault THEN MirrorOf(policy, globalPaused) ELSE mirror

\* A refused command (409, 404), or the retry of a recorded one
CommandAnswered ==
  /\ status = "up" /\ fault
  /\ mirror' = Probed
  /\ fault' = FALSE
  /\ UNCHANGED <<rowVars, observed, stored, commands, policy, torn, jobVars, lifeVars, dbVars>>

\* The common end of pause and resume: the transaction that records the command
\* with the policy, then the portable file.  Either may fail.
Record(r, rules, waits) ==
  LET np == [revision |-> policy.revision + 1, rules |-> rules]
  IN  /\ status = "up" /\ ~busy
      /\ commands[r] = NoRevision
      /\ policy.revision < MaxRevision
      /\ \/ /\ RolledBack({np})
            /\ mirror' = Probed
            /\ UNCHANGED busy
         \/ /\ policy' = np
            /\ stored' = np
            /\ commands' = [commands EXCEPT ![r] = np.revision]
            /\ UNCHANGED <<observed, torn>>
            /\ \/ mirror' = Probed /\ fault' = TRUE /\ busy' = FALSE
               \/ mirror' = MirrorOf(np, globalPaused) /\ fault' = FALSE /\ busy' = waits
      /\ UNCHANGED <<rowVars, jobVars, status, globalPaused, drained, dbVars>>

Added(r, sel) ==
  [id |-> r, sel |-> sel, tables |-> Preview(sel), since |-> policy.revision + 1]

\* command({action: "pause"}): the policy is in force before the writes in
\* flight are waited for
Pause(r, sel) ==
  Record(r, policy.rules \cup {Added(r, sel)}, TRUE)

\* The writes settled or the wait timed out; the answer carries Boundary, which
\* a journal closed meanwhile can no longer compute
PauseReturns ==
  /\ busy
  /\ busy' = FALSE
  /\ fault' = (fault \/ status = "closed")
  /\ UNCHANGED <<rowVars, policyVars, jobVars, status, globalPaused, drained, dbVars>>

\* command({action: "resume"}): no write may be in flight to any paused table,
\* and an uncertain outcome has to be confirmed by the operator.  A pause that failed
\* and was repeated may be there twice: the first of the id goes.
Resume(r, rule, confirmUnknown) ==
  /\ rule \in policy.rules
  /\ \A other \in policy.rules : other.id = rule.id => rule.since <= other.since
  /\ InFlight = {}
  /\ Boundary = "write-outcome-uncertain" => confirmUnknown
  /\ Record(r, policy.rules \ {rule}, FALSE)

\* setGlobalPaused(): a file that cannot be written restores the flag
SetGlobalPaused(paused) ==
  /\ status = "up"
  /\ globalPaused' = paused
  /\ mirror' = MirrorOf(policy, paused)
  /\ UNCHANGED <<rowVars, observed, stored, commands, policy, torn, jobVars, status, busy,
                 drained, dbVars, fault>>

\* importPolicy(): only an unrestricted policy, over a fresh or equal one, and
\* with nothing retained
ImportPolicy(pol) ==
  /\ status = "up" /\ ~globalPaused
  /\ policy.rules = {}
  /\ pol = policy \/ policy.revision = 0
  /\ ~RetainedWritesBlock(FALSE)
  /\ policy' = pol
  /\ stored' = pol
  /\ \/ mirror' = MirrorOf(pol, FALSE) /\ UNCHANGED fault
     \/ fault' = TRUE /\ UNCHANGED mirror
  /\ UNCHANGED <<rowVars, observed, commands, torn, jobVars, lifeVars, dbVars>>

-----------------------------------------------------------------------------
\* close(): admission, commands and new writes end at once
Close ==
  /\ status = "up"
  /\ status' = "closing"
  /\ UNCHANGED <<rowVars, policyVars, jobVars, globalPaused, busy, drained, dbVars, fault>>

\* mutated close(): only the writes in flight are judged
ClosedUnjudged ==
  /\ status = "closing" /\ Jobs = {}
  /\ status' = "closed"
  /\ drained' = (Jobs = {})
  /\ UNCHANGED <<rowVars, policyVars, jobVars, globalPaused, busy, dbVars, fault>>

\* close(), every job has settled: the queue is judged for a handover
Closed ==
  /\ status = "closing" /\ Jobs = {}
  /\ status' = "closed"
  /\ drained' = (queued = {})
  /\ UNCHANGED <<rowVars, policyVars, jobVars, globalPaused, busy, dbVars, fault>>

\* The process ends, killed or after close()
Crash ==
  /\ status \notin {"down", "refused"}
  /\ status' = "down"
  /\ policy' = EmptyPolicy
  /\ scheduled' = {} /\ writing' = {} /\ snapshot' = {}
  /\ fault' = FALSE /\ globalPaused' = FALSE /\ busy' = FALSE /\ drained' = FALSE
  /\ UNCHANGED <<rowVars, observed, stored, commands, mirror, torn, dbVars>>

\* mutated constructor: the portable file is preferred
LoadedPortable ==
  IF mirror # NoFile THEN mirror ELSE IF stored # NoPolicy THEN stored ELSE EmptyPolicy

\* constructor: the stored policy is loaded, or the portable file adopted by a
\* fresh journal
Loaded ==
  IF stored # NoPolicy THEN stored ELSE IF mirror # NoFile THEN mirror ELSE EmptyPolicy

\* constructor: a portable file that is newer than the stored policy, or differs
\* at the same revision, stops the start
Conflict ==
  /\ stored # NoPolicy /\ mirror # NoFile
  /\ \/ mirror.revision > stored.revision
     \/ mirror.revision = stored.revision /\ mirror # stored

\* constructor: writes interrupted by the crash become uncertain, whatever comes
\* of the policy
Restart ==
  LET found == inWrite \ attempted
      pol   == Loaded
  IN  /\ status \in {"down", "refused"}
      /\ retrying' = [t \in Target |-> retrying[t] + Cardinality(At(found, t))]
      /\ attempted' = attempted \cup inWrite
      /\ inWrite' = {}
      /\ IF Conflict
           THEN status' = "refused" /\ UNCHANGED <<policy, stored, mirror>>
           ELSE /\ stored' = pol
                /\ \/ status' = "up" /\ policy' = pol /\ mirror' = MirrorOf(pol, FALSE)
                   \/ UNCHANGED <<status, policy, mirror>>   \* mirrorPolicy() failed
      /\ UNCHANGED <<queued, confirmed, ahead, delayed, pending, observed, commands,
                     torn, jobVars, globalPaused, busy, drained, dbVars, fault>>

-----------------------------------------------------------------------------
Init ==
  /\ queued = {} /\ confirmed = {} /\ attempted = {} /\ inWrite = {} /\ delayed = {}
  /\ ahead = [i \in Part |-> {}]
  /\ pending = [t \in Target |-> 0]
  /\ retrying = [t \in Target |-> 0]
  /\ observed = {}
  /\ stored = NoPolicy
  /\ commands = [r \in Request |-> NoRevision]
  /\ mirror \in InitialFile
  /\ status = "down"
  /\ policy = EmptyPolicy /\ torn = FALSE
  /\ fault = FALSE /\ globalPaused = FALSE /\ busy = FALSE /\ drained = FALSE
  /\ scheduled = {} /\ writing = {} /\ snapshot = {}
  /\ sent = {} /\ inDb = {}

PacketNext == \E p \in Packet :
  Submit(p) \/ SubmitRejected(p) \/ Acknowledge(p) \/ AcknowledgeLegacy(p)

RowNext == \E i \in Part :
  \/ BeginWrite(i) \/ Apply(i) \/ WriteFails(i) \/ WriteConfirmed(i) \/ SettleFails(i)
  \/ RetryDue(i)

ControlNext ==
  \/ \E r \in Request :
       \/ \E sel \in Selector : Pause(r, sel)
       \/ \E rule \in policy.rules, c \in BOOLEAN : Resume(r, rule, c)
  \/ PauseReturns
  \/ CommandAnswered
  \/ \E b \in BOOLEAN : SetGlobalPaused(b)
  \/ \E pol \in Incoming : ImportPolicy(pol)

LifeNext == Close \/ Closed \/ Crash \/ Restart

Next ==
  \/ PacketNext
  \/ RowNext
  \/ \E t \in Target : Replay(t)
  \/ StorageFails
  \/ ControlNext
  \/ LifeNext

Spec == Init /\ [][Next]_vars

-----------------------------------------------------------------------------
TypeOK ==
  /\ queued \subseteq Part /\ confirmed \subseteq Part /\ queued \cap confirmed = {}
  /\ ahead \in [Part -> SUBSET Part]
  /\ attempted \subseteq queued /\ inWrite \subseteq queued /\ delayed \subseteq attempted
  /\ pending \in [Target -> Nat] /\ retrying \in [Target -> Nat]
  /\ observed \subseteq Topic \X Target
  /\ stored \in Policy \cup {NoPolicy}
  /\ commands \in [Request -> Nat \cup {NoRevision}]
  /\ mirror \in Policy \cup {NoFile}
  /\ status \in {"down", "up", "closing", "closed", "refused"}
  /\ policy \in Policy /\ torn \in BOOLEAN
  /\ fault \in BOOLEAN /\ globalPaused \in BOOLEAN /\ busy \in BOOLEAN /\ drained \in BOOLEAN
  /\ scheduled \subseteq queued /\ writing \subseteq queued /\ scheduled \cap writing = {}
  /\ snapshot \subseteq Jobs
  /\ sent \subseteq Part /\ inDb \subseteq sent

\* The per-table totals, updated by differences over many handlers, failures and
\* restarts, still count the rows: pending the pending ones, retrying those
\* whose outcome an operator must treat as uncertain (the totals statements of
\* submit(), startWrite() and the constructor).  A job always holds the current
\* attempts of its row.
CountersAgree ==
  /\ \A t \in Target : pending[t] = Cardinality(At(queued, t)) /\ pending[t] <= MaxPending
  /\ \A t \in Target : retrying[t] = Cardinality(At(attempted, t))
  /\ snapshot = Jobs \cap attempted

\* A pending part that QuestDB may already hold stays marked, so that a restart
\* or a pause reports its outcome as uncertain (in_write and attempts of
\* startWrite(), the constructor's recovery).
UncertainLeavesTrace == queued \cap sent \subseteq attempted \cup inWrite

Running == status \in {"up", "closing", "closed"}

\* What an operator has stopped stays so.  As long as no ROLLBACK threw, the policy in
\* force is the one on disk, over failed transactions, files, crashes and imports, and
\* the portable file is never ahead of it.  If one did, the policy in force is not
\* older than the stored one, and pauses every table that one pauses, except after a
\* command that failed and raised the revision (transaction(), command()).
PolicyDurable ==
  /\ Running =>
       /\ stored.revision <= policy.revision
       /\ stored.revision = policy.revision =>
            \A t \in Target : PausedBy(stored, t) => Paused(t)
  /\ ~torn => /\ Running => policy = stored
              /\ stored # NoPolicy /\ mirror # NoFile => mirror.revision <= stored.revision

\* A topic rule covers every table its topics were seen to write to.
Covers(pol) ==
  \A r \in pol.rules, x \in Topic, t \in Target :
    x \in r.sel.topics /\ <<x, t>> \in observed => t \in r.tables

\* Whatever order topics were observed in, rules were added and submits were rolled
\* back, topic rules cover, in memory and on disk, what was observed; only a ROLLBACK
\* that threw can undo it (observe(), preview()).
TopicRulesCover == ~torn => Covers(policy) /\ (stored # NoPolicy => Covers(stored))

\* No two operator commands end at the same policy revision, over crashes and
\* failed portable files: expectedRevision protects a later command.
RevisionsNotReused ==
  \A r, q \in Request :
    /\ commands[r] # NoRevision => stored # NoPolicy /\ commands[r] <= stored.revision
    /\ r # q /\ commands[r] = commands[q] => commands[r] = NoRevision

\* The state is handed to another owner only when no accepted part would stay
\* behind and no pause in force would be lost, also by a journal that is closed
\* (exportPolicy(), closeJournal()).
ExportOnlyDrained ==
  ExportAllowed(FALSE) => queued = {} /\ ~\E t \in Target : Paused(t)

\* Once the boundary reads "paused", nothing more is sent to a paused table, and
\* a pause that came late, or a rule a new topic extends, admits no new write.
PauseIsABarrier ==
  [][/\ \A i \in Jobs' \ Jobs : ~Paused(TargetOf[i])'
     /\ Boundary = "paused" => \A i \in sent' \ sent : ~Paused(TargetOf[i])]_vars

\* A part is written only when every older part of its table is confirmed or
\* being written: a failed part holds the table back until its retry
\* (the break in tryHead()).
HeadOfLine ==
  [][\A i \in Jobs' \ Jobs : ahead'[i] \subseteq Jobs']_vars

\* Every accepted part is held until QuestDB has it (DurableQueue).
Queue == INSTANCE DurableQueue WITH held <- queued, delivered <- inDb
ImplementsQueue == Queue!DQSpec

\* The boundary reads "paused" only when no write outcome of a paused table is
\* in doubt, also when no ROLLBACK ever threw: what the README says of boundary.phase.
PausedMeansSettled ==
  ~torn /\ Boundary = "paused" =>
    \A i \in queued \cap sent : ~Paused(TargetOf[i])

\* A journal whose files nobody else touches opens again after a stop or crash, also
\* when no ROLLBACK ever threw: the README's "ordinary stop/start preserves the
\* selective policy".
RestartNotRefused == status = "refused" => torn

\* A topic rule covers every table its topics write to, always: the README's "a branch
\* rule also pauses newly observed matching dataGroups".
BranchRulesCover == Covers(policy)
=============================================================================
