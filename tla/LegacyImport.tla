----------------------------- MODULE LegacyImport -----------------------------
(***************************************************************************)
(* The import of the spool an old archiver left behind                     *)
(* (src/legacy-import.ts, src/legacy-import-writer.ts).  Archivers on one  *)
(* host share the source directory, which holds the event files, and in a  *)
(* directory of the importers the claim (lock/owner.json, with             *)
(* lock/recovery as a mutex), the checkpoint of the job, and what was      *)
(* quarantined.  Each archiver has its own memory and its own journal.     *)
(*                                                                         *)
(* Operators send commands to any of them.  A command runs beside the      *)
(* background pass, which a command other than pause waits for.  Files do  *)
(* not change, as operators confirm when they start an import, and a load  *)
(* of the checkpoint is one step.                                          *)
(***************************************************************************)
EXTENDS Integers, FiniteSets

CONSTANTS
  File,          \* the event files of the source
  Bad,           \* those that belong into quarantine
  Window,        \* those whose storage rule replaces a window of the table
  Proc,          \* archivers; one that ended does not come back under its name
  Former,        \* an archiver that is dead from the beginning
  NoOwner,       \* lock/owner.json does not exist
  NoJob,         \* there is no checkpoint, or none in memory
  BatchSize, Concurrency,
  MaxCalls,      \* bound: commands
  MaxFaults      \* bound: I/O errors, refusals and delays

ASSUME ImportAssumption ==
  /\ IsFiniteSet(File) /\ Bad \subseteq File /\ Window \subseteq File \ Bad
  /\ Former \notin Proc /\ NoOwner \notin Proc \cup {Former}
  /\ BatchSize \in Nat \ {0} /\ Concurrency \in Nat \ {0} /\ MaxCalls \in Nat /\ MaxFaults \in Nat

VARIABLES
  \* the source directory
  source,      \* event files in it
  kept,        \* files with an entry in the quarantine directory
  checkpoint,  \* checkpoint.json
  lock,        \* the lock directory exists
  mutex,       \* lock/recovery exists
  owner,       \* lock/owner.json
  \* per archiver, its job
  status,      \* "up", "closing", "closed", "dead"
  token,       \* archivers with a lockToken
  loaded,      \* those that have loaded the checkpoint
  job,         \* runtime.job
  \* its command
  call,        \* "start" (also resume), "pause", "cancel", "close", or "none"
  at,          \* how far it is
  expected,    \* expectedRevision
  calls,       \* commands so far
  \* its pass
  pass,        \* how far it is
  stage,       \* per file of the selection
  open,        \* archivers whose directory cursor is open
  ahead,       \* names the cursor has still to give
  missed,      \* sweepRemaining > 0
  ended,       \* the scan of this pass reached the end of the directory
  verifying,   \* a verification is under way
  unseen,      \* names its cursor has still to give
  found,       \* verificationRemaining > 0
  \* journals and database
  receipt,     \* archivers whose journal holds a row or receipt of a file
  inDb,        \* files whose write was confirmed
  faults       \* what has gone wrong so far

sourceVars == <<source, kept>>
lockVars == <<lock, mutex, owner>>
jobVars == <<token, loaded, job>>
callVars == <<call, at, expected, calls, status>>
scanVars == <<open, ahead, missed, ended>>
verifyVars == <<verifying, unseen, found>>
passVars == <<pass, stage, scanVars, verifyVars>>
dbVars == <<receipt, inDb>>
vars == <<sourceVars, checkpoint, lockVars, jobVars, callVars, passVars, dbVars, faults>>

-----------------------------------------------------------------------------
Alive(p) == p \in Proc /\ status[p] \in {"up", "closing", "closed"}

State(p) == IF job[p] = NoJob THEN "none" ELSE job[p].state
Revision(j) == IF j = NoJob THEN 0 ELSE j.revision

\* assertOwner()
Owns(p) == p \in token /\ owner = p

\* load(): an import that was running when its archiver ended waits for a review
Loaded ==
  IF checkpoint # NoJob /\ checkpoint.state = "running"
  THEN [checkpoint EXCEPT !.state = "paused"] ELSE checkpoint

\* mayAdmit(); headroom and canWrite() are among what may go wrong
MayAdmit(p) == status[p] = "up" /\ at[p] = "none" /\ State(p) = "running"

InHand(p) == {f \in File : stage[p][f] \notin {"none", "selected"}}
Selected(p) == {f \in File : stage[p][f] # "none"}

-----------------------------------------------------------------------------
\* A step of the command of p leads to the next one, or ends it
Goes(p, s) == at' = [at EXCEPT ![p] = s] /\ UNCHANGED <<call, expected, calls, status>>
Returns(p) ==
  /\ at' = [at EXCEPT ![p] = "none"] /\ call' = [call EXCEPT ![p] = "none"]
  /\ expected' = [expected EXCEPT ![p] = 0]
  /\ status' = IF call[p] = "close" THEN [status EXCEPT ![p] = "closed"] ELSE status
  /\ UNCHANGED calls

\* command(): queued behind the one before it
Command(p, c) ==
  /\ status[p] = "up" /\ at[p] = "none" /\ calls < MaxCalls
  /\ at' = [at EXCEPT ![p] = "wait"] /\ call' = [call EXCEPT ![p] = c]
  /\ calls' = calls + 1
  /\ UNCHANGED <<sourceVars, checkpoint, lockVars, jobVars, expected, status, passVars, dbVars>>

\* applyCommand() up to claim(): a running pass is waited for, except by a pause
Enter(p) ==
  /\ at[p] = "wait" /\ (call[p] = "pause" \/ pass[p] = "idle")
  /\ LET j == IF p \in loaded THEN job[p] ELSE Loaded
         s == IF j = NoJob THEN "none" ELSE j.state
     IN  IF status[p] = "up" /\ s \notin (IF call[p] = "start" THEN {"completed", "running"}
                                          ELSE {"completed", "none"})
         THEN /\ at' = [at EXCEPT ![p] = "claim"]
              /\ expected' = [expected EXCEPT ![p] = Revision(j)]
              /\ UNCHANGED <<call, calls, status>>
         ELSE Returns(p)
  /\ loaded' = loaded \cup {p}
  /\ job' = IF p \in loaded THEN job ELSE [job EXCEPT ![p] = Loaded]
  /\ UNCHANGED <<sourceVars, checkpoint, lockVars, token, passVars, dbVars>>

\* claim(): an owner goes on; else the lock directory is made
Claim(p) ==
  /\ at[p] = "claim"
  /\ IF p \in token
     THEN (IF Owns(p) THEN Goes(p, "apply") ELSE Returns(p)) /\ UNCHANGED lock
     ELSE Goes(p, IF lock THEN "mutex" ELSE "own") /\ lock' = TRUE
  /\ UNCHANGED <<sourceVars, checkpoint, mutex, owner, jobVars, passVars, dbVars>>

\* owner.json is written into the new lock directory
Own(p) ==
  /\ at[p] = "own"
  /\ owner' = p /\ Goes(p, "claimed")
  /\ UNCHANGED <<sourceVars, checkpoint, lock, mutex, jobVars, passVars, dbVars>>

\* or not, and the lock directory stays without an owner
OwnFails(p) ==
  /\ at[p] = "own" /\ Returns(p)
  /\ UNCHANGED <<sourceVars, checkpoint, lockVars, jobVars, passVars, dbVars>>

\* mutated claim(): no recovery mutex
MutexAbsent(p) ==
  /\ at[p] = "mutex"
  /\ IF lock THEN mutex' = TRUE /\ Goes(p, "judge") ELSE UNCHANGED mutex /\ Returns(p)
  /\ UNCHANGED <<sourceVars, checkpoint, lock, owner, jobVars, passVars, dbVars>>

\* The recovery mutex is made inside the lock directory
Mutex(p) ==
  /\ at[p] = "mutex"
  /\ IF lock /\ ~mutex THEN mutex' = TRUE /\ Goes(p, "judge")
                       ELSE UNCHANGED mutex /\ Returns(p)
  /\ UNCHANGED <<sourceVars, checkpoint, lock, owner, jobVars, passVars, dbVars>>

\* Only a dead owner is replaced
Judge(p) ==
  /\ at[p] = "judge"
  /\ Goes(p, IF owner = NoOwner \/ Alive(owner) THEN "giveup" ELSE "takeover")
  /\ UNCHANGED <<sourceVars, checkpoint, lockVars, jobVars, passVars, dbVars>>

Takeover(p) ==
  /\ at[p] = "takeover"
  /\ owner' = p /\ Goes(p, "unmutex")
  /\ UNCHANGED <<sourceVars, checkpoint, lock, mutex, jobVars, passVars, dbVars>>

TakeoverFails(p) ==
  /\ at[p] = "takeover" /\ Goes(p, "giveup")
  /\ UNCHANGED <<sourceVars, checkpoint, lockVars, jobVars, passVars, dbVars>>

Unmutex(p) ==
  /\ at[p] \in {"unmutex", "giveup"}
  /\ mutex' = FALSE
  /\ IF at[p] = "unmutex" THEN Goes(p, "claimed") ELSE Returns(p)
  /\ UNCHANGED <<sourceVars, checkpoint, lock, owner, jobVars, passVars, dbVars>>

\* The latest checkpoint is loaded once the claim is exclusive
Claimed(p) ==
  /\ at[p] = "claimed"
  /\ token' = token \cup {p} /\ job' = [job EXCEPT ![p] = Loaded]
  /\ Goes(p, "apply")
  /\ UNCHANGED <<sourceVars, checkpoint, lockVars, loaded, passVars, dbVars>>

\* It cannot be read: the claim stays, and the job of before
LoadFails(p) ==
  /\ at[p] = "claimed" /\ Returns(p)
  /\ token' = token \cup {p} /\ loaded' = loaded \ {p}
  /\ UNCHANGED <<sourceVars, checkpoint, lockVars, job, passVars, dbVars>>

\* The rest of applyCommand() changes the job, unless the importer stops, the
\* revision or (start) the storage policy is another
Apply(p) ==
  /\ at[p] = "apply"
  /\ \/ /\ status[p] = "up" /\ Revision(job[p]) = expected[p]
        /\ call[p] = "start" \/ job[p] # NoJob
        /\ job' = [job EXCEPT ![p] =
             [state |-> CASE call[p] = "start" -> "running"
                          [] call[p] = "pause" -> "paused"
                          [] OTHER -> "cancelled",
              revision |-> expected[p] + 1,
              quarantined |-> @ # NoJob /\ @.quarantined]]
        /\ Goes(p, "checkpoint")
     \/ /\ status[p] # "up" \/ Revision(job[p]) # expected[p] \/ call[p] = "start"
              \/ job[p] = NoJob
        /\ UNCHANGED job /\ Returns(p)
  /\ UNCHANGED <<sourceVars, checkpoint, lockVars, token, loaded, passVars, dbVars>>

\* checkpoint(), one at a time: the owner is asserted, then the file written
Checkpoint(p) ==
  /\ at[p] = "checkpoint" /\ pass[p] # "save"
  /\ IF Owns(p) THEN Goes(p, "save") ELSE Returns(p)
  /\ UNCHANGED <<sourceVars, checkpoint, lockVars, jobVars, passVars, dbVars>>

Save(p) ==
  /\ at[p] = "save"
  /\ checkpoint' = job[p]
  /\ IF call[p] \in {"cancel", "close"} THEN Goes(p, "unlock") ELSE Returns(p)
  /\ UNCHANGED <<sourceVars, lockVars, jobVars, passVars, dbVars>>

SaveFails(p) ==
  /\ at[p] = "save" /\ Returns(p)
  /\ UNCHANGED <<sourceVars, checkpoint, lockVars, jobVars, passVars, dbVars>>

\* release(): owner.json goes first, then the directory if it is empty
Unlock(p) ==
  /\ at[p] = "unlock"
  /\ IF Owns(p) THEN owner' = NoOwner /\ Goes(p, "rmdir") ELSE UNCHANGED owner /\ Returns(p)
  /\ UNCHANGED <<sourceVars, checkpoint, lock, mutex, jobVars, passVars, dbVars>>

\* mutated release(): the directory goes with what is in it
RmdirAll(p) ==
  /\ at[p] = "rmdir"
  /\ lock' = FALSE /\ token' = token \ {p}
  /\ Returns(p)
  /\ UNCHANGED <<sourceVars, checkpoint, mutex, owner, loaded, job, passVars, dbVars>>

Rmdir(p) ==
  /\ at[p] = "rmdir"
  /\ IF mutex THEN UNCHANGED <<lock, token>> ELSE lock' = FALSE /\ token' = token \ {p}
  /\ Returns(p)
  /\ UNCHANGED <<sourceVars, checkpoint, mutex, owner, loaded, job, passVars, dbVars>>

\* close(): admission ends; what runs is waited for
Close(p) ==
  /\ status[p] = "up"
  /\ status' = [status EXCEPT ![p] = "closing"]
  /\ UNCHANGED <<sourceVars, checkpoint, lockVars, jobVars, call, at, expected, calls,
                 passVars, dbVars>>

CloseSource(p) ==
  /\ status[p] = "closing" /\ at[p] = "none" /\ pass[p] = "idle"
  /\ IF p \in token
     THEN /\ call' = [call EXCEPT ![p] = "close"]
          /\ at' = [at EXCEPT ![p] = IF job[p] = NoJob THEN "unlock" ELSE "checkpoint"]
          /\ job' = IF State(p) = "running" THEN [job EXCEPT ![p].state = "paused"] ELSE job
          /\ UNCHANGED status
     ELSE status' = [status EXCEPT ![p] = "closed"] /\ UNCHANGED <<call, at, job>>
  /\ UNCHANGED <<sourceVars, checkpoint, lockVars, token, loaded, expected, calls,
                 passVars, dbVars>>

-----------------------------------------------------------------------------
PassGoes(p, s) == pass' = [pass EXCEPT ![p] = s]

Sets(p, f, s) == stage' = [stage EXCEPT ![p][f] = s]

\* work(): the checkpoint is loaded at the first tick
Load(p) ==
  /\ status[p] = "up" /\ at[p] = "none" /\ p \notin loaded
  /\ loaded' = loaded \cup {p} /\ job' = [job EXCEPT ![p] = Loaded]
  /\ UNCHANGED <<sourceVars, checkpoint, lockVars, token, callVars, passVars, dbVars>>

\* replayPass(): a directory cursor is opened where none is; a verification goes on
Begin(p) ==
  /\ pass[p] = "idle" /\ p \in loaded /\ MayAdmit(p) /\ Owns(p)
  /\ IF p \in verifying
     THEN PassGoes(p, "verify") /\ UNCHANGED <<open, ahead>>
     ELSE /\ PassGoes(p, "scan") /\ open' = open \cup {p}
          /\ ahead' = IF p \in open THEN ahead ELSE [ahead EXCEPT ![p] = source]
  /\ ended' = ended \ {p}
  /\ UNCHANGED <<sourceVars, checkpoint, lockVars, jobVars, callVars, stage, missed,
                 verifyVars, dbVars>>

\* quarantine(): its description is written, then the file moved
Quarantine(p, f) ==
  /\ source' = source \ {f} /\ kept' = kept \cup {f}
  /\ job' = [job EXCEPT ![p].quarantined = TRUE]

\* The scan visits an entry: it is no event file, or is selected.  Names of entries
\* that are gone are passed over.
Scan(p, f) ==
  /\ pass[p] = "scan" /\ f \in ahead[p] \cap source /\ MayAdmit(p)
  /\ Cardinality(Selected(p)) < BatchSize
  /\ ahead' = [ahead EXCEPT ![p] = @ \ {f}]
  /\ \/ f \in Bad /\ Quarantine(p, f) /\ UNCHANGED stage
     \/ Sets(p, f, "selected") /\ UNCHANGED <<sourceVars, job>>
  /\ UNCHANGED <<checkpoint, lockVars, token, loaded, callVars, pass, open, missed, ended,
                 verifyVars, dbVars>>

\* The scan takes too long
ScanBreaks(p) ==
  /\ pass[p] = "scan"
  /\ PassGoes(p, "write")
  /\ UNCHANGED <<sourceVars, checkpoint, lockVars, jobVars, callVars, stage, scanVars,
                 verifyVars, dbVars>>

\* or stops at its limit, or because nothing may be admitted
ScanStops(p) == (~MayAdmit(p) \/ Cardinality(Selected(p)) = BatchSize) /\ ScanBreaks(p)

ScanEnds(p) ==
  /\ pass[p] = "scan" /\ MayAdmit(p) /\ Cardinality(Selected(p)) < BatchSize
  /\ ahead[p] \cap source = {}
  /\ PassGoes(p, "write")
  /\ ended' = ended \cup {p} /\ open' = open \ {p} /\ ahead' = [ahead EXCEPT ![p] = {}]
  /\ UNCHANGED <<sourceVars, checkpoint, lockVars, jobVars, callVars, stage, missed,
                 verifyVars, dbVars>>

\* prepareChunk(), writePrepared(): a selected file cannot be read, or the storage
\* policy has changed; it stays for the next sweep
ReadFails(p, f) ==
  /\ pass[p] = "write" /\ stage[p][f] = "selected"
  /\ Sets(p, f, "none") /\ missed' = missed \cup {p}
  /\ UNCHANGED <<sourceVars, checkpoint, lockVars, jobVars, callVars, pass, open, ahead, ended,
                 verifyVars, dbVars>>

\* mutated writePrepared(): what may not be admitted waits until it may be
SkipWaiting(p, f) == MayAdmit(p) /\ ReadFails(p, f)

\* writePrepared(): so does a file that may not be admitted
Skip(p, f) == ~MayAdmit(p) /\ ReadFails(p, f)

\* The event is handed over
Admit(p, f) ==
  /\ pass[p] = "write" /\ stage[p][f] = "selected" /\ MayAdmit(p) /\ Owns(p)
  /\ Cardinality(InHand(p)) < Concurrency
  /\ Sets(p, f, "writing")
  /\ UNCHANGED <<sourceVars, checkpoint, lockVars, jobVars, callVars, pass, scanVars,
                 verifyVars, dbVars>>

\* writeLegacyEvent(): written, or known as written by its receipt
Written(p, f) ==
  /\ stage[p][f] = "writing" /\ f \notin Bad \cup Window
  /\ Sets(p, f, "written")
  /\ inDb' = inDb \cup {f} /\ receipt' = receipt \cup {<<p, f>>}
  /\ UNCHANGED <<sourceVars, checkpoint, lockVars, jobVars, callVars, pass, scanVars, verifyVars>>

\* mutated writeLegacyEvent(): a row the journal retains counts as written
DefersAsWritten(p, f) ==
  /\ stage[p][f] = "writing" /\ f \notin Bad \cup Window
  /\ Sets(p, f, "written")
  /\ receipt' \in {receipt, receipt \cup {<<p, f>>}}
  /\ UNCHANGED <<sourceVars, checkpoint, lockVars, jobVars, callVars, pass, scanVars, verifyVars,
                 inDb>>

\* Deferred: the journal may retain its rows
Defers(p, f) ==
  /\ stage[p][f] = "writing" /\ f \notin Bad \cup Window
  /\ Sets(p, f, "none") /\ missed' = missed \cup {p}
  /\ receipt' \in {receipt, receipt \cup {<<p, f>>}}
  /\ UNCHANGED <<sourceVars, checkpoint, lockVars, jobVars, callVars, pass, open, ahead, ended,
                 verifyVars, inDb>>

\* Deferred for a review in every sweep: it might delete newer rows
Withheld(p, f) ==
  /\ stage[p][f] = "writing" /\ f \in Window
  /\ Sets(p, f, "none") /\ missed' = missed \cup {p}
  /\ UNCHANGED <<sourceVars, checkpoint, lockVars, jobVars, callVars, pass, open, ahead, ended,
                 verifyVars, dbVars>>

Rejected(p, f) ==
  /\ stage[p][f] = "writing" /\ f \in Bad
  /\ Sets(p, f, "bad")
  /\ UNCHANGED <<sourceVars, checkpoint, lockVars, jobVars, callVars, pass, scanVars, verifyVars,
                 dbVars>>

\* After the write: owner and file are as before, and the file goes
Unlink(p, f) ==
  /\ stage[p][f] = "written" /\ Owns(p)
  /\ source' = source \ {f} /\ Sets(p, f, "unlinked")
  /\ UNCHANGED <<kept, checkpoint, lockVars, jobVars, callVars, pass, scanVars, verifyVars, dbVars>>

\* mutated writePrepared(): the receipt is dropped in any case
UnlinkFailsAcknowledged(p, f) ==
  /\ stage[p][f] = "written"
  /\ Sets(p, f, "none") /\ missed' = missed \cup {p}
  /\ receipt' = receipt \ {<<p, f>>}
  /\ UNCHANGED <<sourceVars, checkpoint, lockVars, jobVars, callVars, pass, open, ahead, ended,
                 verifyVars, inDb>>

UnlinkFails(p, f) ==
  /\ stage[p][f] = "written"
  /\ Sets(p, f, "none") /\ missed' = missed \cup {p}
  /\ UNCHANGED <<sourceVars, checkpoint, lockVars, jobVars, callVars, pass, open, ahead, ended,
                 verifyVars, dbVars>>

\* acknowledgeLegacy(): the journal drops the receipt
Acknowledge(p, f) ==
  /\ stage[p][f] = "unlinked"
  /\ Sets(p, f, "none") /\ receipt' = receipt \ {<<p, f>>}
  /\ UNCHANGED <<sourceVars, checkpoint, lockVars, jobVars, callVars, pass, scanVars, verifyVars,
                 inDb>>

AcknowledgeFails(p, f) ==
  /\ stage[p][f] = "unlinked"
  /\ Sets(p, f, "none") /\ missed' = missed \cup {p}
  /\ UNCHANGED <<sourceVars, checkpoint, lockVars, jobVars, callVars, pass, open, ahead, ended,
                 verifyVars, dbVars>>

Preserve(p, f) ==
  /\ stage[p][f] = "bad" /\ Owns(p)
  /\ Quarantine(p, f) /\ Sets(p, f, "none")
  /\ UNCHANGED <<checkpoint, lockVars, token, loaded, callVars, pass, scanVars, verifyVars, dbVars>>

\* It fails, before or after the description is written
PreserveFails(p, f) ==
  /\ stage[p][f] = "bad"
  /\ kept' \in {kept, kept \cup {f}}
  /\ Sets(p, f, "none") /\ missed' = missed \cup {p}
  /\ UNCHANGED <<source, checkpoint, lockVars, jobVars, callVars, pass, open, ahead, ended,
                 verifyVars, dbVars>>

\* mutated replayPass(): a sweep that missed something is never over
SweptMissing(p) ==
  /\ pass[p] = "write" /\ Selected(p) = {}
  /\ IF p \in ended /\ MayAdmit(p) /\ p \notin missed
     THEN /\ PassGoes(p, "verify") /\ verifying' = verifying \cup {p}
          /\ unseen' = [unseen EXCEPT ![p] = source]
     ELSE PassGoes(p, "finish") /\ UNCHANGED <<verifying, unseen>>
  /\ UNCHANGED <<sourceVars, checkpoint, lockVars, jobVars, callVars, stage, open, ahead, ended,
                 missed, found, dbVars>>

\* All writes have settled.  After a sweep that missed nothing, a fresh traversal
\* has to find nothing
Swept(p) ==
  /\ pass[p] = "write" /\ Selected(p) = {}
  /\ LET over == p \in ended /\ MayAdmit(p)
     IN  /\ missed' = IF over THEN missed \ {p} ELSE missed
         /\ IF over /\ p \notin missed
            THEN /\ PassGoes(p, "verify") /\ verifying' = verifying \cup {p}
                 /\ unseen' = [unseen EXCEPT ![p] = source]
            ELSE PassGoes(p, "finish") /\ UNCHANGED <<verifying, unseen>>
  /\ UNCHANGED <<sourceVars, checkpoint, lockVars, jobVars, callVars, stage, open, ahead, ended,
                 found, dbVars>>

\* verifyEmptyPass(): all entries are visited
Verify(p) ==
  /\ pass[p] = "verify" /\ status[p] = "up" /\ at[p] = "none"
  /\ found' = IF unseen[p] = {} THEN found ELSE found \cup {p}
  /\ unseen' = [unseen EXCEPT ![p] = {}]
  /\ PassGoes(p, "judge") /\ verifying' = verifying \ {p}
  /\ UNCHANGED <<sourceVars, checkpoint, lockVars, jobVars, callVars, stage, scanVars, dbVars>>

\* It takes too long
VerifyBreaks(p) ==
  /\ pass[p] = "verify"
  /\ \E S \in SUBSET unseen[p] :
       /\ unseen' = [unseen EXCEPT ![p] = @ \ S]
       /\ found' = IF S = {} THEN found ELSE found \cup {p}
  /\ PassGoes(p, "finish")
  /\ UNCHANGED <<sourceVars, checkpoint, lockVars, jobVars, callVars, stage, scanVars, verifying,
                 dbVars>>

VerifyStops(p) == (status[p] # "up" \/ at[p] # "none") /\ VerifyBreaks(p)

\* mutated verifyEmptyPass(): the counter of the job is trusted
JudgedByCounter(p) ==
  /\ pass[p] = "judge"
  /\ PassGoes(p, "finish") /\ found' = found \ {p}
  /\ IF p \in found
     THEN open' = open \ {p} /\ UNCHANGED job
     ELSE /\ job' = [job EXCEPT ![p].state = IF job[p].quarantined THEN "blocked" ELSE "completed"]
          /\ UNCHANGED open
  /\ UNCHANGED <<sourceVars, checkpoint, lockVars, token, loaded, callVars, stage, ahead, missed,
                 ended, verifying, unseen, dbVars>>

\* Nothing was found: the import is over, or blocked by what is in quarantine.
\* A command may have changed the state meanwhile.
Judged(p) ==
  /\ pass[p] = "judge"
  /\ PassGoes(p, "finish") /\ found' = found \ {p}
  /\ IF p \in found
     THEN open' = open \ {p} /\ UNCHANGED job
     ELSE /\ job' = [job EXCEPT ![p].state =
                       IF kept # {} \/ job[p].quarantined THEN "blocked" ELSE "completed"]
          /\ UNCHANGED open
  /\ UNCHANGED <<sourceVars, checkpoint, lockVars, token, loaded, callVars, stage, ahead, missed,
                 ended, verifying, unseen, dbVars>>

\* finishPass(): checkpoint(), and release() of a completed source
Finish(p) ==
  /\ pass[p] = "finish" /\ at[p] # "save" /\ Owns(p)
  /\ PassGoes(p, "save")
  /\ UNCHANGED <<sourceVars, checkpoint, lockVars, jobVars, callVars, stage, scanVars, verifyVars,
                 dbVars>>

SavePass(p) ==
  /\ pass[p] = "save"
  /\ checkpoint' = job[p]
  /\ PassGoes(p, IF State(p) = "completed" THEN "unlock" ELSE "idle")
  /\ UNCHANGED <<sourceVars, lockVars, jobVars, callVars, stage, scanVars, verifyVars, dbVars>>

UnlockPass(p) ==
  /\ pass[p] = "unlock" /\ Owns(p)
  /\ owner' = NoOwner /\ PassGoes(p, "rmdir")
  /\ UNCHANGED <<sourceVars, checkpoint, lock, mutex, jobVars, callVars, stage, scanVars,
                 verifyVars, dbVars>>

RmdirPass(p) ==
  /\ pass[p] = "rmdir"
  /\ IF mutex THEN UNCHANGED <<lock, token>> ELSE lock' = FALSE /\ token' = token \ {p}
  /\ PassGoes(p, "idle")
  /\ UNCHANGED <<sourceVars, checkpoint, mutex, owner, loaded, job, callVars, stage, scanVars,
                 verifyVars, dbVars>>

\* work(): an error of the pass blocks a running import; what was selected and not
\* yet written stays, uncounted.  An error of the scan also closes the cursor, and
\* may leave the description of a file that was not moved.
PassFails(p) ==
  /\ pass[p] \in {"scan", "write", "verify", "judge", "finish", "save", "unlock"}
  /\ InHand(p) = {}
  /\ PassGoes(p, "idle") /\ stage' = [stage EXCEPT ![p] = [f \in File |-> "none"]]
  /\ IF pass[p] = "scan" THEN open' = open \ {p} /\ ahead' = [ahead EXCEPT ![p] = {}]
                         ELSE UNCHANGED <<open, ahead>>
  /\ job' = IF State(p) = "running" THEN [job EXCEPT ![p].state = "blocked"] ELSE job
  /\ \/ UNCHANGED checkpoint
     \/ State(p) = "running" /\ Owns(p) /\ at[p] # "save" /\ checkpoint' = job'[p]
  /\ kept' \in {kept} \cup
       IF pass[p] = "scan" THEN {kept \cup {f} : f \in ahead[p] \cap source \cap Bad} ELSE {}
  /\ UNCHANGED <<source, lockVars, token, loaded, callVars, missed, ended, verifyVars, dbVars>>

-----------------------------------------------------------------------------
\* The archiver exits, or dies
Die(p) ==
  /\ Alive(p)
  /\ status' = [status EXCEPT ![p] = "dead"]
  /\ call' = [call EXCEPT ![p] = "none"] /\ at' = [at EXCEPT ![p] = "none"]
  /\ expected' = [expected EXCEPT ![p] = 0]
  /\ token' = token \ {p} /\ loaded' = loaded \ {p} /\ job' = [job EXCEPT ![p] = NoJob]
  /\ pass' = [pass EXCEPT ![p] = "idle"]
  /\ stage' = [stage EXCEPT ![p] = [f \in File |-> "none"]]
  /\ open' = open \ {p} /\ ahead' = [ahead EXCEPT ![p] = {}]
  /\ missed' = missed \ {p} /\ ended' = ended \ {p}
  /\ verifying' = verifying \ {p} /\ unseen' = [unseen EXCEPT ![p] = {}] /\ found' = found \ {p}
  /\ UNCHANGED <<sourceVars, checkpoint, lockVars, calls, dbVars>>

\* The source is untouched, or an archiver died over it
Init ==
  /\ source \in {S \in SUBSET File : File \ (Bad \cup Window) \subseteq S}
  /\ kept = {} /\ mutex = FALSE
  /\ \/ owner = NoOwner /\ lock = FALSE /\ checkpoint = NoJob
     \/ /\ owner = Former /\ lock = TRUE
        /\ checkpoint = [state |-> "running", revision |-> 1, quarantined |-> FALSE]
  /\ status = [p \in Proc |-> "up"]
  /\ token = {} /\ loaded = {} /\ job = [p \in Proc |-> NoJob]
  /\ call = [p \in Proc |-> "none"] /\ at = [p \in Proc |-> "none"]
  /\ expected = [p \in Proc |-> 0] /\ calls = 0
  /\ pass = [p \in Proc |-> "idle"] /\ stage = [p \in Proc |-> [f \in File |-> "none"]]
  /\ open = {} /\ ahead = [p \in Proc |-> {}] /\ missed = {} /\ ended = {}
  /\ verifying = {} /\ unseen = [p \in Proc |-> {}] /\ found = {}
  /\ receipt = {} /\ inDb = {} /\ faults = 0

ClaimStep(p) == Claim(p) \/ Own(p) \/ Mutex(p) \/ Judge(p) \/ Takeover(p) \/ Unmutex(p) \/ Claimed(p)
CallStep(p) ==
  Enter(p) \/ ClaimStep(p) \/ Apply(p) \/ Checkpoint(p) \/ Save(p) \/ Unlock(p) \/ Rmdir(p)
FileStep(p, f) ==
  \/ Scan(p, f) \/ Skip(p, f) \/ Admit(p, f) \/ Written(p, f) \/ Withheld(p, f)
  \/ Rejected(p, f) \/ Unlink(p, f) \/ Acknowledge(p, f) \/ Preserve(p, f)
PassStep(p) ==
  \/ Begin(p) \/ ScanStops(p) \/ ScanEnds(p) \/ Swept(p) \/ Verify(p) \/ VerifyStops(p) \/ Judged(p)
  \/ Finish(p) \/ SavePass(p) \/ UnlockPass(p) \/ RmdirPass(p)
  \/ \E f \in File : FileStep(p, f)

Failure(p) ==
  \/ OwnFails(p) \/ TakeoverFails(p) \/ LoadFails(p) \/ SaveFails(p)
  \/ ScanBreaks(p) \/ VerifyBreaks(p) \/ PassFails(p)
  \/ \E f \in File :
       \/ ReadFails(p, f) \/ Defers(p, f) \/ UnlinkFails(p, f) \/ AcknowledgeFails(p, f)
       \/ PreserveFails(p, f)

Calls(p) == CallStep(p) /\ UNCHANGED faults
Works(p) == PassStep(p) /\ UNCHANGED faults
Closes(p) == CloseSource(p) /\ UNCHANGED faults
Asks(p) ==
  /\ Close(p) \/ Load(p) \/ Die(p) \/ \E c \in {"start", "pause", "cancel"} : Command(p, c)
  /\ UNCHANGED faults
Fails(p) == Failure(p) /\ faults < MaxFaults /\ faults' = faults + 1

Next == \E p \in Proc : Calls(p) \/ Works(p) \/ Closes(p) \/ Asks(p) \/ Fails(p)

\* What was begun goes on: awaited calls settle, and ticks come.  Nothing goes wrong
\* for ever.  Nobody has to send commands, and no archiver has to die.
Fairness == \A p \in Proc : WF_vars(Calls(p)) /\ WF_vars(Works(p)) /\ WF_vars(Closes(p))

Spec == Init /\ [][Next]_vars
FairSpec == Spec /\ Fairness

-----------------------------------------------------------------------------
Job == [state : {"running", "paused", "cancelled", "completed", "blocked"},
        revision : Nat, quarantined : BOOLEAN]

ASSUME NoJobAssumption == NoJob \notin Job

Steps == {"none", "wait", "claim", "own", "mutex", "judge", "takeover", "unmutex", "giveup",
          "claimed", "apply", "checkpoint", "save", "unlock", "rmdir"}
Phases == {"idle", "scan", "write", "verify", "judge", "finish", "save", "unlock", "rmdir"}
Stages == {"none", "selected", "writing", "written", "bad", "unlinked"}

TypeOK ==
  /\ source \subseteq File /\ kept \subseteq Bad
  /\ checkpoint \in Job \cup {NoJob}
  /\ lock \in BOOLEAN /\ mutex \in BOOLEAN /\ owner \in Proc \cup {Former, NoOwner}
  /\ (mutex \/ owner # NoOwner) => lock
  /\ status \in [Proc -> {"up", "closing", "closed", "dead"}]
  /\ token \subseteq Proc /\ loaded \subseteq Proc /\ job \in [Proc -> Job \cup {NoJob}]
  /\ call \in [Proc -> {"start", "pause", "cancel", "close", "none"}] /\ at \in [Proc -> Steps]
  /\ expected \in [Proc -> Nat] /\ calls \in 0..MaxCalls
  /\ pass \in [Proc -> Phases] /\ stage \in [Proc -> [File -> Stages]]
  /\ \A p \in Proc : /\ Cardinality(Selected(p)) <= BatchSize
                     /\ Cardinality(InHand(p)) <= Concurrency
                     /\ pass[p] \notin {"scan", "write"} => Selected(p) = {}
  /\ open \subseteq Proc /\ ahead \in [Proc -> SUBSET File]
  /\ missed \subseteq Proc /\ ended \subseteq Proc
  /\ verifying \subseteq Proc /\ unseen \in [Proc -> SUBSET File] /\ found \subseteq Proc
  /\ receipt \subseteq Proc \X File /\ inDb \subseteq File /\ faults \in 0..MaxFaults

\* Whatever archivers claim, take over, release or die: one that works on files of
\* the source, or whose import runs, is its owner, so there is one importer at most
\* (claim(), "An atomic recovery mutex prevents two claimants from replacing a dead
\* owner together").
OneImporter ==
  \A p \in Proc : InHand(p) # {} \/ State(p) = "running" => Owns(p)

\* A file leaves the source only when its write was confirmed, or with an entry in
\* quarantine, whatever was paused, closed or failed meanwhile (writePrepared(),
\* quarantine()).
SourceKept == [][source \ source' \subseteq inDb' \cup kept']_vars

\* The journal keeps the receipt of a file as long as the file is there: a file that
\* is imported again by the same archiver is known (eventKey, acknowledged()).
ReceiptOutlivesFile ==
  [][\A p \in Proc, f \in File : <<p, f>> \in receipt \ receipt' => f \notin source]_vars

\* A job is reported or recorded as completed only when nothing is left in the
\* source or in quarantine, also after counters were lost in a crash
\* (verifyEmptyPass()).
CompletedMeansDone ==
  (\E p \in Proc : State(p) = "completed") \/ (checkpoint # NoJob /\ checkpoint.state = "completed")
    => source = {} /\ kept = {}

\* Every command is answered, and close() returns, though commands wait for passes
\* and close() for both.
CommandsReturn ==
  \A p \in Proc :
    /\ at[p] # "none" ~> at[p] = "none"
    /\ status[p] = "closing" ~> status[p] # "closing"

\* No sweep is repeated for ever but for files that wait for a review: an import is
\* completed or needs one itself, or goes on with nothing else left in the source.
ImportEnds ==
  \A p \in Proc :
    State(p) = "running" ~> State(p) # "running" \/ (source # {} /\ source \subseteq Window)
=============================================================================
