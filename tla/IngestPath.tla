------------------------------ MODULE IngestPath ------------------------------
(***************************************************************************)
(* The way of a received event into the journal (src/index.ts,             *)
(* src/bounded-ingest-queue.ts, src/stored-event-replay.ts,                *)
(* src/durable-event-file.ts): the bounded live queue and its workers, the *)
(* buffer of inactive topics, the spool of <id>.event files, and the       *)
(* replay of that spool under <id>.event.<pid>.processing locks.  Both     *)
(* ways meet in processEvent().                                            *)
(*                                                                         *)
(* An event is one occurrence: its id is made when it is received.  The    *)
(* journal is what TargetJournal shows of it here: it refuses an event, or *)
(* accepts it and faults afterwards, or accepts it; acknowledge() drops    *)
(* the receipt of a confirmed one.                                         *)
(***************************************************************************)
EXTENDS Integers, Sequences, FiniteSets, SequencesExt

CONSTANTS
  Event,              \* received occurrences
  Foreign,            \* those without a storage rule
  Invalid,            \* those that hold no data or table packet
  Spilled,            \* those an earlier release may have left in the spool, their topic
                      \* inactive for too long
  Topic, TopicOf,     \* [Event -> Topic]
  MaxPending,         \* ingestQueueMaxEvents
  Concurrency,        \* ingestConcurrency
  Batch, Workers,     \* the limits of the stored replay
  BufferMax,          \* inactiveBufferMax
  Pid,                \* process ids
  MaxStops            \* bound: ends of the process, by crash or after a shutdown

ASSUME IngestAssumption ==
  /\ Foreign \subseteq Event /\ Invalid \subseteq Event /\ Spilled \subseteq Event
  /\ TopicOf \in [Event -> Topic]
  /\ MaxPending \in Nat \ {0} /\ Concurrency \in Nat \ {0}
  /\ Batch \in Nat \ {0} /\ Workers \in 1..Batch
  /\ BufferMax \in Nat \ {0} /\ Pid # {} /\ MaxStops \in Nat

VARIABLES
  live,       \* per event, where its live copy is
  queue,      \* the queued events, oldest first
  stored,     \* per event, its stage in the running replay pass
  passing,    \* a replay pass runs
  ahead,      \* names the directory cursor has still to give
  inflight,   \* inflightEventIds
  processed,  \* processedEventIds
  file,       \* events with an .event file
  lock,       \* per event, the pids of its .processing files
  journal,    \* per event: "none", "row" (a row or a receipt), "acked"
  lost,       \* events given up for a cause the program names
  marked,     \* events whose file names that release's bufferReason; no step changes it
  active,     \* activeTopicSet
  paused,     \* ingestionPaused
  status,     \* "up", "releasing", "draining", "closing", "closed", "down"
  pid,        \* the process id
  stops

vars == <<live, queue, stored, passing, ahead, inflight, processed, file, lock, journal,
          lost, marked, active, paused, status, pid, stops>>
liveVars == <<live, queue>>
passVars == <<stored, passing, ahead>>
memory == <<inflight, processed>>
disk == <<file, lock>>
control == <<marked, active, paused, status, pid, stops>>

-----------------------------------------------------------------------------
Running == status \in {"up", "releasing", "draining", "closing"}
ShuttingDown == status \notin {"up", "down"}

InMemory == {"queued", "buffered", "resolving", "writing", "refused"}
AtWork == {"resolving", "writing"}
Slots == {e \in Event : live[e] \in AtWork \cup {"refused"}}
Buffered == {e \in Event : live[e] = "buffered"}
Pending == Len(queue) + Cardinality(Slots)

LockedStages == {"locked", "reading", "resolving", "writing", "delete", "requeue"}
Busy == {e \in Event : stored[e] \in LockedStages \ {"locked"}}

Lesser(a, b) == IF a < b THEN a ELSE b

\* hasStoredReplayLiveHeadroom(): a quarter of the live queue is kept free
Reserve == Lesser(MaxPending - 1, (MaxPending + 3) \div 4)
Headroom == Pending < MaxPending - Reserve

\* run()'s and runOnce()'s checks.  Replay control and a passive input hold the
\* stored replay too, as a live queue without headroom does
StoredMayRun == ~ShuttingDown /\ ~paused /\ Headroom

\* processEvent(): nothing of the event is to be stored, and it can go
Unarchived(e) == e \in Foreign \/ (e \in Invalid /\ TopicOf[e] \in active)

\* isInactiveBufferSpill(): given up once, and its topic is still inactive
GivenUp(e) == e \in marked /\ TopicOf[e] \notin active

Admitted(e) == ~paused /\ e \notin processed \cup inflight /\ ~Unarchived(e)

OnDisk(e) == e \in file \/ lock[e] # {}

-----------------------------------------------------------------------------
\* saveEventToFileSync(): the events of S become durable files, or are reported lost
Save(S) ==
  \/ file' = file \cup S /\ UNCHANGED lost
  \/ S # {} /\ lost' = lost \cup S /\ UNCHANGED file

\* enqueue() of some events at once: the queue takes what it has room for
Enqueued(S) ==
  LET order == SetToSeq(S)
      room == Lesser(Len(order), MaxPending - Pending)
      taken == SubSeq(order, 1, room)
  IN  /\ queue' = queue \o taken
      /\ live' = [e \in Event |-> IF e \notin S THEN live[e]
                                  ELSE IF e \in ToSet(taken) THEN "queued" ELSE "gone"]
      /\ Save(S \ ToSet(taken))

\* The MQTT input handler
Receive(e) ==
  /\ status \in {"up", "releasing"} /\ live[e] = "none"
  /\ Enqueued({e})
  /\ UNCHANGED <<passVars, memory, lock, journal, control>>

\* A live worker takes the oldest event: what processEvent() does up to its first
\* await.  drain() runs in the handlers that make room; here a worker may be late.
Taken(e) ==
  /\ Running /\ queue # <<>> /\ e = Head(queue) /\ Cardinality(Slots) < Concurrency
  /\ queue' = Tail(queue)

TakePaused(e) ==
  /\ Taken(e) /\ paused
  /\ Save({e})
  /\ live' = [live EXCEPT ![e] = "gone"]
  /\ UNCHANGED <<passVars, memory, lock, journal, control>>

TakeDropped(e) ==
  /\ Taken(e) /\ ~paused
  /\ e \in processed \cup inflight \/ Unarchived(e)
  /\ live' = [live EXCEPT ![e] = "gone"]
  /\ lost' = IF Unarchived(e) THEN lost \cup {e} ELSE lost
  /\ UNCHANGED <<passVars, memory, disk, journal, control>>

\* bufferInactiveEvent(): the packet waits for its topic; expired ones, and the
\* oldest above the limit, are discarded
TakeInactive(e) ==
  /\ Taken(e) /\ Admitted(e) /\ TopicOf[e] \notin active
  /\ \E D \in SUBSET Buffered :
       /\ Cardinality(Buffered \ D) < BufferMax
       /\ live' = [x \in Event |->
                      IF x = e THEN "buffered" ELSE IF x \in D THEN "gone" ELSE live[x]]
       /\ lost' = lost \cup D
  /\ UNCHANGED <<passVars, memory, disk, journal, control>>

TakeActive(e) ==
  /\ Taken(e) /\ Admitted(e) /\ TopicOf[e] \in active
  /\ live' = [live EXCEPT ![e] = "resolving"]
  /\ inflight' = inflight \cup {e}
  /\ UNCHANGED <<passVars, processed, disk, journal, lost, control>>

-----------------------------------------------------------------------------
\* mutated processEvent(): an identity retry of a live event is not saved
LiveRetryUnsaved(e) ==
  /\ live[e] = "resolving"
  /\ live' = [live EXCEPT ![e] = "gone"]
  /\ inflight' = inflight \ {e}
  /\ UNCHANGED <<queue, passVars, processed, disk, journal, lost, control>>

\* The rest of processEvent() for a live event.  resolveEntityIdentityForWrite()
\* asks for a retry: the event goes to the spool
LiveRetry(e) ==
  /\ live[e] = "resolving"
  /\ live' = [live EXCEPT ![e] = "gone"]
  /\ inflight' = inflight \ {e}
  /\ Save({e})
  /\ UNCHANGED <<queue, passVars, processed, lock, journal, control>>

\* submit() has committed, and waits for the write
LiveSubmit(e) ==
  /\ live[e] = "resolving"
  /\ live' = [live EXCEPT ![e] = "writing"]
  /\ journal' = [journal EXCEPT ![e] = "row"]
  /\ UNCHANGED <<queue, passVars, memory, disk, lost, control>>

\* submit() or acknowledge() throws TargetStorageError, submit() before or after
\* its commit; processEvent() throws it on to the queue
LiveRefused(e) ==
  /\ live[e] \in AtWork
  /\ live' = [live EXCEPT ![e] = "refused"]
  /\ inflight' = inflight \ {e}
  /\ journal' \in {journal, [journal EXCEPT ![e] = "row"]}
  /\ UNCHANGED <<queue, passVars, processed, disk, lost, control>>

\* process(): the event whose processing failed is spilled
LiveSpill(e) ==
  /\ live[e] = "refused"
  /\ live' = [live EXCEPT ![e] = "gone"]
  /\ Save({e})
  /\ UNCHANGED <<queue, passVars, memory, lock, journal, control>>

\* mutated processEvent(): a written event stays in flight
LiveWrittenInFlight(e) ==
  /\ live[e] = "writing"
  /\ live' = [live EXCEPT ![e] = "gone"]
  /\ processed' = processed \cup {e}
  /\ journal' \in {journal, [journal EXCEPT ![e] = "acked"]}
  /\ UNCHANGED <<queue, passVars, inflight, disk, lost, control>>

\* writeUnsPacket() returns; the receipt of a confirmed event is dropped
LiveWritten(e) ==
  /\ live[e] = "writing"
  /\ live' = [live EXCEPT ![e] = "gone"]
  /\ processed' = processed \cup {e} /\ inflight' = inflight \ {e}
  /\ journal' \in {journal, [journal EXCEPT ![e] = "acked"]}
  /\ UNCHANGED <<queue, passVars, disk, lost, control>>

\* mutated flushInactiveBuffer(): also during the shutdown
FlushLate ==
  /\ Running
  /\ LET S == {e \in Buffered : TopicOf[e] \in active}
     IN  S # {} /\ Enqueued(S)
  /\ UNCHANGED <<passVars, memory, lock, journal, control>>

\* mutated transferActiveBufferedEvents(): what the queue spills stays buffered
FlushKeeps ==
  /\ Running /\ ~ShuttingDown
  /\ \E e \in Buffered : TopicOf[e] \in active /\ Pending >= MaxPending /\ Save({e})
  /\ UNCHANGED <<liveVars, passVars, memory, lock, journal, control>>

\* flushInactiveBuffer(), called by refreshActiveTopics()
Flush ==
  /\ Running /\ ~ShuttingDown
  /\ LET S == {e \in Buffered : TopicOf[e] \in active}
     IN  S # {} /\ Enqueued(S)
  /\ UNCHANGED <<passVars, memory, lock, journal, control>>

-----------------------------------------------------------------------------
\* StoredEventReplay.run(): a pass reads on in the directory, a batch at most
StartPass ==
  /\ Running /\ ~passing /\ StoredMayRun
  /\ LET names == IF ahead = {} THEN file ELSE ahead
     IN  \E S \in SUBSET names :
           /\ S # {} /\ Cardinality(S) <= Batch
           /\ ahead' = names \ S
           /\ stored' = [e \in Event |-> IF e \in S THEN "picked" ELSE stored[e]]
  /\ passing' = TRUE
  /\ UNCHANGED <<liveVars, memory, disk, journal, lost, control>>

\* lock(): the file is renamed; one that is gone is passed over
Lock(e) ==
  /\ stored[e] = "picked" /\ StoredMayRun
  /\ IF e \in file
     THEN /\ file' = file \ {e}
          /\ lock' = [lock EXCEPT ![e] = @ \cup {pid}]
          /\ stored' = [stored EXCEPT ![e] = "locked"]
     ELSE stored' = [stored EXCEPT ![e] = "none"] /\ UNCHANGED disk
  /\ UNCHANGED <<liveVars, passing, ahead, memory, journal, lost, control>>

\* runOnce(): a stop, or a full live queue, ends the locking
LockNoMore ==
  /\ \E e \in Event : stored[e] = "picked"
  /\ ~StoredMayRun
  /\ stored' = [e \in Event |-> IF stored[e] = "picked" THEN "none" ELSE stored[e]]
  /\ UNCHANGED <<liveVars, passing, ahead, memory, disk, journal, lost, control>>

\* A worker of the pass takes a locked event: to process it, or to give it back
Work(e) ==
  /\ stored[e] = "locked" /\ \A x \in Event : stored[x] # "picked"
  /\ Cardinality(Busy) < Workers
  /\ stored' = [stored EXCEPT ![e] = IF StoredMayRun THEN "reading" ELSE "requeue"]
  /\ UNCHANGED <<liveVars, passing, ahead, memory, disk, journal, lost, control>>

\* mutated processEvent(): paused, a stored event counts as saved
StoredPausedUnsaved(e) ==
  /\ stored[e] = "reading" /\ paused
  /\ stored' = [stored EXCEPT ![e] = "delete"]
  /\ UNCHANGED <<liveVars, passing, ahead, memory, disk, journal, lost, control>>

\* processEvent(event, true) up to its first await.  Paused: a new file is written,
\* and the lock can go
StoredPaused(e) ==
  /\ stored[e] = "reading" /\ paused
  /\ \/ file' = file \cup {e} /\ stored' = [stored EXCEPT ![e] = "delete"]
     \/ UNCHANGED file /\ stored' = [stored EXCEPT ![e] = "requeue"]
  /\ UNCHANGED <<liveVars, passing, ahead, memory, lock, journal, lost, control>>

\* Known as written, or not to be stored: the lock can go
StoredDropped(e) ==
  /\ stored[e] = "reading" /\ ~paused
  /\ e \in processed \/ (e \notin inflight /\ (Unarchived(e) \/ GivenUp(e)))
  /\ stored' = [stored EXCEPT ![e] = "delete"]
  /\ lost' = IF e \in processed THEN lost ELSE lost \cup {e}
  /\ UNCHANGED <<liveVars, passing, ahead, memory, disk, journal, control>>

\* An event in flight, or of an inactive topic, stays in the spool
StoredDeferred(e) ==
  /\ stored[e] = "reading" /\ ~paused /\ e \notin processed
  /\ e \in inflight \/ (e \notin Foreign \cup marked /\ TopicOf[e] \notin active)
  /\ stored' = [stored EXCEPT ![e] = "requeue"]
  /\ UNCHANGED <<liveVars, passing, ahead, memory, disk, journal, lost, control>>

StoredActive(e) ==
  /\ stored[e] = "reading" /\ Admitted(e) /\ TopicOf[e] \in active
  /\ stored' = [stored EXCEPT ![e] = "resolving"]
  /\ inflight' = inflight \cup {e}
  /\ UNCHANGED <<liveVars, passing, ahead, processed, disk, journal, lost, control>>

\* mutated processEvent(): a failed event stays in flight
StoredFailsInFlight(e) ==
  /\ stored[e] \in AtWork
  /\ stored' = [stored EXCEPT ![e] = "requeue"]
  /\ journal' \in {journal, [journal EXCEPT ![e] = "row"]}
  /\ UNCHANGED <<liveVars, passing, ahead, memory, disk, lost, control>>

\* An identity retry, or any error: processEvent() returns false or throws
StoredFails(e) ==
  /\ stored[e] \in AtWork
  /\ stored' = [stored EXCEPT ![e] = "requeue"]
  /\ inflight' = inflight \ {e}
  /\ journal' \in {journal, [journal EXCEPT ![e] = "row"]}
  /\ UNCHANGED <<liveVars, passing, ahead, processed, disk, lost, control>>

StoredSubmit(e) ==
  /\ stored[e] = "resolving"
  /\ stored' = [stored EXCEPT ![e] = "writing"]
  /\ journal' = [journal EXCEPT ![e] = "row"]
  /\ UNCHANGED <<liveVars, passing, ahead, memory, disk, lost, control>>

\* mutated processEvent(): a written event is not remembered
StoredWrittenForgotten(e) ==
  /\ stored[e] = "writing"
  /\ stored' = [stored EXCEPT ![e] = "delete"]
  /\ inflight' = inflight \ {e}
  /\ journal' \in {journal, [journal EXCEPT ![e] = "acked"]}
  /\ UNCHANGED <<liveVars, passing, ahead, processed, disk, lost, control>>

StoredWritten(e) ==
  /\ stored[e] = "writing"
  /\ stored' = [stored EXCEPT ![e] = "delete"]
  /\ processed' = processed \cup {e} /\ inflight' = inflight \ {e}
  /\ journal' \in {journal, [journal EXCEPT ![e] = "acked"]}
  /\ UNCHANGED <<liveVars, passing, ahead, disk, lost, control>>

\* unlink() of the lock; if that fails it is put back
Delete(e) ==
  /\ stored[e] = "delete"
  /\ \/ lock' = [lock EXCEPT ![e] = @ \ {pid}] /\ stored' = [stored EXCEPT ![e] = "none"]
     \/ UNCHANGED lock /\ stored' = [stored EXCEPT ![e] = "requeue"]
  /\ UNCHANGED <<liveVars, passing, ahead, memory, file, journal, lost, control>>

\* requeueLocked(): renamed back, unless there is such a file or the rename fails
Requeue(e) ==
  /\ stored[e] = "requeue"
  /\ stored' = [stored EXCEPT ![e] = "none"]
  /\ \/ /\ e \notin file
        /\ file' = file \cup {e} /\ lock' = [lock EXCEPT ![e] = @ \ {pid}]
     \/ UNCHANGED disk
  /\ UNCHANGED <<liveVars, passing, ahead, memory, journal, lost, control>>

EndPass ==
  /\ passing /\ \A e \in Event : stored[e] = "none"
  /\ passing' = FALSE
  /\ UNCHANGED <<liveVars, stored, ahead, memory, disk, journal, lost, control>>

\* recoverProcessingPass(): the lock of a dead process is renamed back, unless
\* there is such a file
Recover(e, p) ==
  /\ Running /\ status # "closing" /\ p \in lock[e] \ {pid} /\ e \notin file
  /\ file' = file \cup {e} /\ lock' = [lock EXCEPT ![e] = @ \ {p}]
  /\ UNCHANGED <<liveVars, passVars, memory, journal, lost, control>>

-----------------------------------------------------------------------------
\* refreshActiveTopics()
Refresh(S) ==
  /\ Running /\ ~ShuttingDown /\ S # active
  /\ active' = S
  /\ UNCHANGED <<liveVars, passVars, memory, disk, journal, lost, marked, paused, status, pid,
                 stops>>

\* storedReplayControlStatus()
SetPaused ==
  /\ Running /\ paused' = ~paused
  /\ UNCHANGED <<liveVars, passVars, memory, disk, journal, lost, marked, active, status, pid,
                 stops>>

Becomes(s) ==
  /\ status' = s
  /\ UNCHANGED <<liveVars, passVars, memory, disk, journal, lost, marked, active, paused, pid,
                 stops>>

\* createArchiverShutdown(): admission is released, the input stopped, live work and
\* then stored work waited for
Release == status = "up" /\ Becomes("releasing")
StopMqtt == status = "releasing" /\ Becomes("draining")
LiveIdle == status = "draining" /\ queue = <<>> /\ Slots = {} /\ Becomes("closing")
StoredIdle == status = "closing" /\ ~passing /\ Becomes("closed")

\* The process ends: after its shutdown, or in a crash
Stop ==
  /\ status # "down" /\ stops < MaxStops
  /\ status' = "down" /\ stops' = stops + 1
  /\ live' = [e \in Event |-> IF live[e] \in InMemory THEN "gone" ELSE live[e]]
  /\ lost' = lost \cup {e \in Event : live[e] \in InMemory /\ journal[e] = "none"}
  /\ queue' = <<>> /\ inflight' = {} /\ processed' = {}
  /\ stored' = [e \in Event |-> "none"] /\ passing' = FALSE /\ ahead' = {}
  /\ active' = {} /\ paused' = FALSE
  /\ UNCHANGED <<disk, journal, marked, pid>>

Start(p) ==
  /\ status = "down"
  /\ status' = "up" /\ pid' = p
  /\ UNCHANGED <<liveVars, passVars, memory, disk, journal, lost, marked, active, paused, stops>>

\* The spool is empty, or holds files of an earlier release
Init ==
  /\ marked \in SUBSET Spilled /\ file = marked
  /\ live = [e \in Event |-> IF e \in marked THEN "gone" ELSE "none"] /\ queue = <<>>
  /\ stored = [e \in Event |-> "none"] /\ passing = FALSE /\ ahead = {}
  /\ inflight = {} /\ processed = {}
  /\ lock = [e \in Event |-> {}]
  /\ journal = [e \in Event |-> "none"] /\ lost = {}
  /\ active = {} /\ paused = FALSE
  /\ status = "up" /\ pid = (CHOOSE p \in Pid : TRUE) /\ stops = 0

LiveStep(e) ==
  \/ TakePaused(e) \/ TakeDropped(e) \/ TakeInactive(e) \/ TakeActive(e)
  \/ LiveRetry(e) \/ LiveSubmit(e) \/ LiveRefused(e) \/ LiveSpill(e) \/ LiveWritten(e)

StoredStep(e) ==
  \/ Lock(e) \/ Work(e)
  \/ StoredPaused(e) \/ StoredDropped(e) \/ StoredDeferred(e) \/ StoredActive(e)
  \/ StoredFails(e) \/ StoredSubmit(e) \/ StoredWritten(e)
  \/ Delete(e) \/ Requeue(e)

Next ==
  \/ \E e \in Event : Receive(e) \/ LiveStep(e) \/ StoredStep(e)
  \/ \E e \in Event, p \in Pid : Recover(e, p)
  \/ Flush \/ StartPass \/ LockNoMore \/ EndPass
  \/ \E S \in SUBSET Topic : Refresh(S)
  \/ SetPaused
  \/ Release \/ StopMqtt \/ LiveIdle \/ StoredIdle
  \/ Stop \/ \E p \in Pid : Start(p)

\* Timers fire, disk and database calls settle, and the process goes on with what
\* it has taken up; an event that is submitted again and again is accepted once.
\* Nobody has to send, pause, stop or refresh.
Fairness ==
  /\ \A e \in Event : WF_vars(LiveStep(e)) /\ WF_vars(StoredStep(e)) /\ SF_vars(StoredSubmit(e))
  /\ \A e \in Event, p \in Pid : WF_vars(Recover(e, p))
  /\ WF_vars(StartPass) /\ WF_vars(LockNoMore) /\ WF_vars(EndPass)
  /\ WF_vars(StopMqtt) /\ WF_vars(LiveIdle) /\ WF_vars(StoredIdle)
  /\ WF_vars(\E p \in Pid : Start(p))

Spec == Init /\ [][Next]_vars /\ Fairness

-----------------------------------------------------------------------------
Archivable == Event \ (Foreign \cup Invalid)

LiveStages == InMemory \cup {"none", "gone"}
StoredStages == LockedStages \cup {"none", "picked"}

TypeOK ==
  /\ live \in [Event -> LiveStages] /\ stored \in [Event -> StoredStages]
  /\ IsInjective(queue) /\ ToSet(queue) = {e \in Event : live[e] = "queued"}
  /\ Pending <= MaxPending /\ Cardinality(Slots) <= Concurrency
  /\ Cardinality(Buffered) <= BufferMax /\ Cardinality(Busy) <= Workers
  /\ passing \in BOOLEAN /\ ahead \subseteq Event
  /\ \A e \in Event : stored[e] # "none" => passing /\ live[e] \in {"none", "gone"}
  /\ \A e \in Event : stored[e] \in LockedStages => pid \in lock[e]
  /\ inflight = {e \in Event : live[e] \in AtWork} \cup {e \in Event : stored[e] \in AtWork}
  /\ processed \subseteq Event /\ file \subseteq Event /\ lock \in [Event -> SUBSET Pid]
  /\ journal \in [Event -> {"none", "row", "acked"}] /\ lost \subseteq Event
  /\ marked \subseteq Spilled
  /\ active \subseteq Topic /\ paused \in BOOLEAN
  /\ status \in {"up", "releasing", "draining", "closing", "closed", "down"}
  /\ pid \in Pid /\ stops \in 0..MaxStops

\* A received event is in the memory of the process, in the spool, or in the
\* journal; else its loss has a cause the program names: it was not to be stored,
\* its topic stayed inactive, the disk failed, or the process ended while it was
\* only in memory (enqueue, spill, processEvent, bufferInactiveEvent).
Accounted ==
  \A e \in Event :
    live[e] = "none" \/ live[e] \in InMemory \/ OnDisk(e) \/ journal[e] # "none"
      \/ e \in lost

\* An event has one keeper: once it is in the spool no live worker, queue or buffer
\* holds it, so both ways of processEvent() never work on the same occurrence.
OneKeeper == \A e \in Event : OnDisk(e) => live[e] = "gone"

\* The last file of a spooled event goes only when the journal has accepted the
\* event, or the event is not to be stored, whatever is paused, stopped, or fails
\* (README: "Stored replay removes its original only after the target journal
\* accepts it durably").  What an earlier release gave up may be dropped.
SpoolKept ==
  [][\A e \in Archivable :
       OnDisk(e) /\ ~OnDisk(e)' => journal[e] # "none" \/ (e \in marked /\ e \in lost)]_vars

\* A process puts no event into the journal again once its receipt is dropped,
\* though a file of it may remain when its unlink fails (processedEventIds).
WrittenOnce ==
  [][\A e \in Event :
       journal[e] = "acked" /\ journal'[e] = "row" => e \notin processed /\ stops > 0]_vars

\* The process goes on running, unpaused, with the topic of e active
Steady(e) == <>[](status = "up" /\ ~paused /\ TopicOf[e] \in active)

\* A spooled event reaches the journal, across deferrals, failures, restarts and
\* locks of dead processes.  The exception is a lock with the pid of this very
\* process that could not be put back, or that an earlier process of the same pid
\* left (the README leaves PID reuse open).  What an earlier release gave up may be
\* dropped before its topic becomes active.
SpoolDrains ==
  \A e \in Archivable : Steady(e) =>
    (OnDisk(e) ~>
       \/ journal[e] # "none"
       \/ pid \in lock[e] /\ stored[e] = "none"
       \/ e \in marked /\ ~OnDisk(e))

\* A shutdown that was begun reaches its end, nothing waits for ever, and when the
\* journal closes there is nobody left who submits to it: no event queued, no worker or
\* pass under way (drainArchiverForShutdown).
ShutdownEnds ==
  status = "releasing" ~>
    \/ status = "down"
    \/ status = "closed" /\ queue = <<>> /\ Slots = {} /\ ~passing /\ inflight = {}

\* An event whose acceptance the journal refused is not put into the spool, which
\* has no bound ("Never bypass a bounded target-journal failure with an unbounded
\* file fallback", processEvent).
RefusalNotSpooled == [][\A e \in Event : live[e] = "refused" => ~OnDisk(e)']_vars
=============================================================================
