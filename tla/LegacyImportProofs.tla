---------------------------- MODULE LegacyImportProofs ----------------------------
(***************************************************************************)
(* Proofs about LegacyImport, for any event files, archivers, limits, and  *)
(* number of commands and failures.                                        *)
(*                                                                         *)
(* The claim is a hand-over between archivers that may die at any step     *)
(* (LockOK): owner.json is absent exactly while one of them makes or       *)
(* removes the lock directory, or after one died there, and only the       *)
(* holder of the recovery mutex replaces an owner, who is dead then.  An   *)
(* archiver that has read its own name there relies on it while it starts  *)
(* an import, while one runs, and throughout a pass (OwnOK).  So a pass    *)
(* has the source for itself, and what it found about a file, or about     *)
(* the end of the directory, stays true until it acts on it (FileOK).      *)
(***************************************************************************)
EXTENDS LegacyImport, FiniteSetTheorems, TLAPS

-----------------------------------------------------------------------------
(* The inductive invariant *)

SourceOK ==
  /\ source \subseteq File /\ kept \subseteq Bad
  /\ receipt \subseteq Proc \X File /\ inDb \subseteq File

JobOK ==
  /\ checkpoint \in Job \cup {NoJob} /\ job \in [Proc -> Job \cup {NoJob}]
  /\ token \subseteq Proc /\ loaded \subseteq Proc

CallOK ==
  /\ status \in [Proc -> {"up", "closing", "closed", "dead"}]
  /\ call \in [Proc -> {"start", "pause", "cancel", "close", "none"}] /\ at \in [Proc -> Steps]
  /\ expected \in [Proc -> Nat] /\ calls \in 0..MaxCalls

PassAt(x) ==
  /\ Cardinality(Selected(x)) <= BatchSize /\ Cardinality(InHand(x)) <= Concurrency
  /\ pass[x] \notin {"scan", "write"} => Selected(x) = {}

PassTypes ==
  /\ pass \in [Proc -> Phases] /\ stage \in [Proc -> [File -> Stages]]
  /\ open \subseteq Proc /\ ahead \in [Proc -> SUBSET File]
  /\ missed \subseteq Proc /\ ended \subseteq Proc
  /\ verifying \subseteq Proc /\ unseen \in [Proc -> SUBSET File] /\ found \subseteq Proc

PassOK == PassTypes /\ \A x \in Proc : PassAt(x)

\* The steps between which owner.json is absent, those that hold the recovery mutex,
\* and all that lead to a claim.
Between == {"own", "rmdir"}
InMutex == {"judge", "takeover", "unmutex", "giveup"}
Claiming == {"own", "mutex", "claimed"} \cup InMutex

LockOK ==
  /\ lock \in BOOLEAN /\ mutex \in BOOLEAN /\ owner \in Proc \cup {Former, NoOwner}
  /\ (mutex \/ owner # NoOwner) => lock
  /\ \A x \in Proc : at[x] \in Between \/ pass[x] = "rmdir" => lock /\ owner = NoOwner
  /\ \A x, y \in Proc : at[x] \in Between /\ at[y] \in Between => x = y
  /\ \A x, y \in Proc : pass[x] = "rmdir" /\ pass[y] = "rmdir" => x = y
  /\ \A x, y \in Proc : ~(at[x] \in Between /\ pass[y] = "rmdir")
  /\ \A x \in Proc : at[x] \in InMutex => mutex
  /\ \A x, y \in Proc : at[x] \in InMutex /\ at[y] \in InMutex => x = y
  /\ \A x \in Proc : at[x] = "takeover" => owner # NoOwner /\ ~Alive(owner)
  /\ \A x \in Proc : at[x] \in Claiming => x \notin token

\* What an archiver does as the owner it knows it is.
Relies(x) ==
  \/ at[x] = "apply" /\ call[x] # "pause"
  \/ pass[x] \notin {"idle", "rmdir"}
  \/ State(x) = "running"

OwnAt(x) ==
  /\ at[x] \in {"unmutex", "claimed"} => owner = x
  /\ Relies(x) => Owns(x)
  /\ status[x] = "dead" => /\ at[x] = "none" /\ pass[x] = "idle"
                           /\ x \notin token /\ job[x] = NoJob
  /\ at[x] \notin {"none", "wait"} /\ call[x] # "pause" => pass[x] = "idle"
  /\ at[x] \in {"unlock", "rmdir"} => call[x] \in {"cancel", "close"}
  /\ at[x] \in {"checkpoint", "save", "unlock", "rmdir"} /\ call[x] \in {"cancel", "close"}
       => State(x) # "running"
  /\ pass[x] \in {"unlock", "rmdir"} => State(x) # "running"
  /\ pass[x] # "idle" => x \in token \cap loaded /\ job[x] # NoJob

OwnOK == \A x \in Proc : OwnAt(x)

\* A selected file that belongs into quarantine is still there; a written one is in the
\* database; and a verification that found nothing has overlooked nothing.
FileAt(x) ==
  /\ \A h \in File : /\ stage[x][h] # "none" => h \notin ahead[x] /\ (h \in Bad => h \in source)
                     /\ stage[x][h] \in {"written", "unlinked"} => h \in inDb \ Bad
                     /\ stage[x][h] = "unlinked" => h \notin source
                     /\ stage[x][h] = "bad" => h \in Bad
  /\ x \in verifying /\ x \notin found => source \subseteq unseen[x]
  /\ pass[x] = "judge" /\ x \notin found => source = {}
  /\ pass[x] = "verify" => x \in verifying
  /\ pass[x] = "judge" => x \notin verifying

Completed ==
  (\E x \in Proc : State(x) = "completed") \/ (checkpoint # NoJob /\ checkpoint.state = "completed")

FileOK == (\A x \in Proc : FileAt(x)) /\ (Completed => source = {} /\ kept = {})

Core == SourceOK /\ JobOK /\ CallOK /\ PassOK /\ LockOK /\ OwnOK /\ FileOK

IInv == Core /\ faults \in 0..MaxFaults

-----------------------------------------------------------------------------
(* What steps have in common *)

\* The claim is untouched.
LEMMA LockFrame ==
  ASSUME LockOK, UNCHANGED lockVars,
         \A x \in Proc : at'[x] \in Between \cup InMutex => at'[x] = at[x],
         \A x \in Proc : at'[x] \in Claiming => x \notin token',
         \A x \in Proc : pass'[x] = "rmdir" => pass[x] = "rmdir",
         ~Alive(owner) => ~Alive(owner)'
  PROVE  LockOK'
<1>1. /\ lock' \in BOOLEAN /\ mutex' \in BOOLEAN /\ owner' \in Proc \cup {Former, NoOwner}
      /\ (mutex' \/ owner' # NoOwner) => lock'
  BY DEF LockOK, lockVars
<1>2. \A x \in Proc : at'[x] \in Between \/ pass'[x] = "rmdir" => lock' /\ owner' = NoOwner
  BY DEF LockOK, lockVars
<1>3. /\ \A x, y \in Proc : at'[x] \in Between /\ at'[y] \in Between => x = y
      /\ \A x, y \in Proc : pass'[x] = "rmdir" /\ pass'[y] = "rmdir" => x = y
      /\ \A x, y \in Proc : ~(at'[x] \in Between /\ pass'[y] = "rmdir")
  BY DEF LockOK
<1>4. /\ \A x \in Proc : at'[x] \in InMutex => mutex'
      /\ \A x, y \in Proc : at'[x] \in InMutex /\ at'[y] \in InMutex => x = y
  BY DEF LockOK, lockVars
<1>5. \A x \in Proc : at'[x] = "takeover" => owner' # NoOwner /\ ~Alive(owner)'
  BY DEF LockOK, lockVars, InMutex
<1> QED BY <1>1, <1>2, <1>3, <1>4, <1>5 DEF LockOK

\* A step of one archiver that leaves owner.json alone.
LEMMA OwnFrame ==
  ASSUME OwnOK, NEW p \in Proc, owner' = owner,
         \A x \in Proc \ {p} : /\ at'[x] = at[x] /\ call'[x] = call[x] /\ pass'[x] = pass[x]
                               /\ status'[x] = status[x] /\ job'[x] = job[x]
                               /\ (x \in token' <=> x \in token)
                               /\ (x \in loaded' <=> x \in loaded),
         OwnAt(p)'
  PROVE  OwnOK'
<1> SUFFICES ASSUME NEW x \in Proc PROVE OwnAt(x)'
  BY DEF OwnOK
<1>1. CASE x = p
  BY <1>1
<1>2. CASE x # p
  <2>1. OwnAt(x) /\ (Relies(x)' <=> Relies(x)) /\ (Owns(x)' <=> Owns(x)) /\ State(x)' = State(x)
    BY <1>2 DEF OwnOK, Relies, Owns, State
  <2> QED BY <1>2, <2>1 DEF OwnAt
<1> QED BY <1>1, <1>2

\* Passes, files and journals are untouched.
LEMMA FilesFrame ==
  ASSUME Core, UNCHANGED <<source, kept, receipt, inDb, pass, stage, open, ahead, missed, ended,
                           verifying, unseen, found>>,
         Completed' => Completed
  PROVE  SourceOK' /\ PassOK' /\ FileOK'
<1>1. SourceOK'
  BY DEF Core, SourceOK
<1>2. PassOK'
  BY DEF Core, PassOK, PassTypes, PassAt, Selected, InHand
<1>3. FileOK'
  BY DEF Core, FileOK, FileAt
<1> QED BY <1>1, <1>2, <1>3

\* A loaded job does not run, and is completed only if the recorded one is.
LEMMA LoadedIs ==
  ASSUME JobOK
  PROVE  /\ Loaded \in Job \cup {NoJob}
         /\ Loaded # NoJob => Loaded.state # "running"
         /\ Loaded # NoJob /\ Loaded.state = "completed"
              => checkpoint # NoJob /\ checkpoint.state = "completed"
<1>1. CASE checkpoint \in Job /\ checkpoint # NoJob /\ checkpoint.state = "running"
  <2>1. Loaded = [checkpoint EXCEPT !.state = "paused"]
    BY <1>1 DEF Loaded
  <2>2. Loaded \in Job /\ Loaded.state = "paused"
    BY <1>1, <2>1 DEF Job
  <2> QED BY <2>2
<1>2. CASE ~(checkpoint # NoJob /\ checkpoint.state = "running")
  BY <1>2 DEF Loaded, JobOK
<1> QED BY <1>1, <1>2 DEF JobOK

\* No job becomes completed by a load, nor by another that is as completed as before.
LEMMA CompletedFrame ==
  ASSUME JobOK, checkpoint' = checkpoint,
         \A x \in Proc : State(x)' = "completed" =>
                           State(x) = "completed" \/ (job'[x] = Loaded /\ job'[x] # NoJob)
  PROVE  Completed' => Completed
<1>1. ASSUME NEW x \in Proc, State(x)' = "completed", job'[x] = Loaded, job'[x] # NoJob
      PROVE  Completed
  BY <1>1, LoadedIs DEF Completed, State
<1> QED BY <1>1 DEF Completed

\* A selection is as large as before.
LEMMA SameStage ==
  ASSUME NEW x \in Proc, stage'[x] = stage[x]
  PROVE  Selected(x)' = Selected(x) /\ InHand(x)' = InHand(x)
BY DEF Selected, InHand

\* A pass has the source for itself.
LEMMA PassAlone ==
  ASSUME Core, NEW p \in Proc, pass[p] \notin {"idle", "rmdir"}
  PROVE  /\ Owns(p) /\ p \in token \cap loaded /\ job[p] \in Job /\ status[p] # "dead"
         /\ \A x \in Proc \ {p} : pass[x] \in {"idle", "rmdir"} /\ Selected(x) = {}
         /\ \A x \in Proc \ {p} : \A h \in File : stage[x][h] = "none"
<1>1. /\ Owns(p) /\ p \in token \cap loaded /\ job[p] \in Job /\ status[p] # "dead"
  BY DEF Core, OwnOK, OwnAt, Relies, JobOK
<1>2. ASSUME NEW x \in Proc \ {p} PROVE pass[x] \in {"idle", "rmdir"} /\ Selected(x) = {}
  <2>1. pass[x] \in {"idle", "rmdir"}
    BY <1>1 DEF Core, OwnOK, OwnAt, Relies, Owns
  <2> QED BY <2>1 DEF Core, PassOK, PassTypes, PassAt
<1> QED BY <1>1, <1>2 DEF Selected

-----------------------------------------------------------------------------
(* Steps of a command *)

\* A step leads a command to the next one.
LEMMA GoesOn ==
  ASSUME CallOK, NEW p \in Proc, NEW s \in Steps, Goes(p, s)
  PROVE  /\ CallOK' /\ at'[p] = s /\ \A x \in Proc \ {p} : at'[x] = at[x]
         /\ call' = call /\ status' = status
BY DEF Goes, CallOK

\* A command ends, and with that of close() the archiver is closed.
LEMMA ReturnsTo ==
  ASSUME CallOK, NEW p \in Proc, Returns(p)
  PROVE  /\ CallOK' /\ at'[p] = "none" /\ call'[p] = "none" /\ status'[p] \in {status[p], "closed"}
         /\ \A x \in Proc \ {p} : at'[x] = at[x] /\ call'[x] = call[x] /\ status'[x] = status[x]
<1>1. /\ at' = [at EXCEPT ![p] = "none"] /\ call' = [call EXCEPT ![p] = "none"]
      /\ expected' = [expected EXCEPT ![p] = 0] /\ calls' = calls
      /\ status' = status \/ status' = [status EXCEPT ![p] = "closed"]
  BY DEF Returns
<1>2. /\ at' \in [Proc -> Steps] /\ call' \in [Proc -> {"start", "pause", "cancel", "close", "none"}]
      /\ expected' \in [Proc -> Nat] /\ calls' \in 0..MaxCalls
  BY <1>1 DEF CallOK, Steps
<1>3. status' \in [Proc -> {"up", "closing", "closed", "dead"}]
  BY <1>1 DEF CallOK
<1>4. /\ at'[p] = "none" /\ call'[p] = "none" /\ status'[p] \in {status[p], "closed"}
      /\ \A x \in Proc \ {p} : at'[x] = at[x] /\ call'[x] = call[x] /\ status'[x] = status[x]
  BY <1>1 DEF CallOK
<1> QED BY <1>2, <1>3, <1>4 DEF CallOK

\* A step of one archiver that leaves the claim and its pass alone.
LEMMA CallHolds ==
  ASSUME Core, NEW p \in Proc, CallOK', JobOK', Completed' => Completed, OwnAt(p)',
         UNCHANGED <<source, kept, receipt, inDb, pass, stage, open, ahead, missed, ended,
                     verifying, unseen, found, lock, mutex, owner>>,
         \A x \in Proc \ {p} : /\ at'[x] = at[x] /\ call'[x] = call[x] /\ status'[x] = status[x]
                               /\ job'[x] = job[x] /\ (x \in token' <=> x \in token)
                               /\ (x \in loaded' <=> x \in loaded),
         status[p] # "dead", status'[p] # "dead",
         at'[p] \notin Between \cup InMutex, at'[p] \in Claiming => p \notin token'
  PROVE  Core'
<1>1. SourceOK' /\ PassOK' /\ FileOK'
  BY FilesFrame
<1>2. OwnOK'
  BY OwnFrame DEF Core
<1>3. ~Alive(owner) => ~Alive(owner)'
  BY DEF Core, CallOK, Alive
<1>4. LockOK'
  <2>1. \A x \in Proc : at'[x] \in Between \cup InMutex => at'[x] = at[x]
    OBVIOUS
  <2>2. \A x \in Proc : at'[x] \in Claiming => x \notin token'
    BY DEF Core, LockOK
  <2>3. LockOK /\ UNCHANGED lockVars
    BY DEF Core, lockVars
  <2> QED BY <1>3, <2>1, <2>2, <2>3, LockFrame
<1> QED BY <1>1, <1>2, <1>4 DEF Core

\* A command arrives.
LEMMA CommandHolds ==
  ASSUME Core, NEW p \in Proc, NEW c \in {"start", "pause", "cancel"}, Command(p, c)
  PROVE  Core'
<1>1. /\ status[p] = "up" /\ at[p] = "none" /\ calls < MaxCalls /\ calls' = calls + 1
      /\ at' = [at EXCEPT ![p] = "wait"] /\ call' = [call EXCEPT ![p] = c]
      /\ UNCHANGED <<source, kept, receipt, inDb, pass, stage, open, ahead, missed, ended,
                     verifying, unseen, found, lock, mutex, owner, checkpoint, token, loaded, job,
                     expected, status>>
  BY DEF Command, sourceVars, lockVars, jobVars, passVars, scanVars, verifyVars, dbVars
<1>2. CallOK' /\ at'[p] = "wait" /\ \A x \in Proc \ {p} : at'[x] = at[x] /\ call'[x] = call[x]
  <2>1. calls' \in 0..MaxCalls
    BY <1>1, ImportAssumption DEF Core, CallOK
  <2>2. at' \in [Proc -> Steps] /\ call' \in [Proc -> {"start", "pause", "cancel", "close", "none"}]
    BY <1>1 DEF Core, CallOK, Steps
  <2> QED BY <1>1, <2>1, <2>2 DEF Core, CallOK
<1>3. JobOK' /\ (Completed' => Completed)
  BY <1>1 DEF Core, JobOK, Completed, State
<1>4. OwnAt(p)'
  BY <1>1, <1>2 DEF Core, OwnOK, OwnAt, Relies, Owns, State
<1>5. at'[p] \notin Between \cup InMutex /\ at'[p] \notin Claiming
  BY <1>2 DEF Between, InMutex, Claiming
<1> QED BY <1>1, <1>2, <1>3, <1>4, <1>5, CallHolds

\* A command begins: the job is loaded if it was not.
LEMMA EnterHolds == ASSUME Core, NEW p \in Proc, Enter(p) PROVE Core'
<1>1. /\ at[p] = "wait" /\ (call[p] = "pause" \/ pass[p] = "idle")
      /\ loaded' = loaded \cup {p} /\ job' = IF p \in loaded THEN job ELSE [job EXCEPT ![p] = Loaded]
      /\ UNCHANGED <<source, kept, receipt, inDb, pass, stage, open, ahead, missed, ended,
                     verifying, unseen, found, lock, mutex, owner, checkpoint, token>>
  BY DEF Enter, sourceVars, lockVars, passVars, scanVars, verifyVars, dbVars
<1>2. /\ CallOK' /\ status'[p] \in {status[p], "closed"}
      /\ (at'[p] = "claim" /\ call'[p] = call[p]) \/ at'[p] = "none"
      /\ \A x \in Proc \ {p} : at'[x] = at[x] /\ call'[x] = call[x] /\ status'[x] = status[x]
  <2>1. CASE Returns(p)
    BY <2>1, ReturnsTo DEF Core
  <2>2. CASE ~Returns(p)
    <3> DEFINE j == IF p \in loaded THEN job[p] ELSE Loaded
    <3>1. /\ at' = [at EXCEPT ![p] = "claim"] /\ expected' = [expected EXCEPT ![p] = Revision(j)]
          /\ UNCHANGED <<call, calls, status>>
      BY <2>2 DEF Enter
    <3>2. j \in Job \cup {NoJob}
      BY LoadedIs DEF Core, JobOK
    <3>3. Revision(j) \in Nat
      BY <3>2 DEF Revision, Job
    <3> HIDE DEF j
    <3>4. expected' \in [Proc -> Nat]
      BY <3>1, <3>3 DEF Core, CallOK
    <3>5. at' \in [Proc -> Steps]
      BY <3>1 DEF Core, CallOK, Steps
    <3>6. CallOK'
      BY <3>1, <3>4, <3>5 DEF Core, CallOK
    <3> QED BY <3>1, <3>6 DEF Core, CallOK
  <2> QED BY <2>1, <2>2
<1>3. Loaded \in Job \cup {NoJob} /\ (Loaded # NoJob => Loaded.state # "running")
  BY LoadedIs DEF Core
<1>4. job'[p] = (IF p \in loaded THEN job[p] ELSE Loaded) /\ \A x \in Proc \ {p} : job'[x] = job[x]
  BY <1>1 DEF Core, JobOK
<1>5. JobOK'
  BY <1>1, <1>3 DEF Core, JobOK
<1>6. Completed' => Completed
  BY <1>1, <1>4, CompletedFrame DEF Core, State
<1>7. status[p] # "dead"
  BY <1>1 DEF Core, OwnOK, OwnAt
<1>8. CASE p \in loaded
  <2>1. OwnAt(p)'
    BY <1>1, <1>2, <1>4, <1>7, <1>8 DEF Core, OwnOK, OwnAt, Relies, Owns, State
  <2> QED BY <1>1, <1>2, <1>4, <1>5, <1>6, <1>7, <2>1, CallHolds DEF Between, InMutex, Claiming
<1>9. CASE p \notin loaded
  <2>1. pass[p] = "idle" /\ State(p)' # "running"
    BY <1>3, <1>4, <1>9 DEF Core, OwnOK, OwnAt, State
  <2>2. OwnAt(p)'
    BY <1>1, <1>2, <1>7, <2>1 DEF OwnAt, Relies
  <2> QED BY <1>1, <1>2, <1>4, <1>5, <1>6, <1>7, <2>2, CallHolds DEF Between, InMutex, Claiming
<1> QED BY <1>8, <1>9

\* The claim cannot be loaded, or cannot be made: the command ends.
LEMMA ReturnsHolds ==
  ASSUME Core, NEW p \in Proc, at[p] # "none", Returns(p),
         UNCHANGED <<source, kept, receipt, inDb, pass, stage, open, ahead, missed, ended,
                     verifying, unseen, found, lock, mutex, owner, checkpoint, token, loaded, job>>
  PROVE  Core'
<1>1. /\ CallOK' /\ at'[p] = "none" /\ call'[p] = "none" /\ status'[p] \in {status[p], "closed"}
      /\ \A x \in Proc \ {p} : at'[x] = at[x] /\ call'[x] = call[x] /\ status'[x] = status[x]
  BY ReturnsTo DEF Core
<1>2. status[p] # "dead"
  BY DEF Core, OwnOK, OwnAt
<1>3. JobOK' /\ (Completed' => Completed)
  BY DEF Core, JobOK, Completed, State
<1>4. OwnAt(p)'
  BY <1>1, <1>2 DEF Core, OwnOK, OwnAt, Relies, Owns, State
<1> QED BY <1>1, <1>2, <1>3, <1>4, CallHolds DEF Between, InMutex, Claiming

\* A command goes on: it does not become one that its archiver relies on a claim for.
LEMMA GoesHolds ==
  ASSUME Core, NEW p \in Proc, at[p] \notin {"none", "wait"},
         NEW s \in {"apply", "checkpoint", "save", "unlock", "mutex"}, Goes(p, s),
         s = "apply" => Owns(p), s = "mutex" => p \notin token,
         s = "unlock" => call[p] \in {"cancel", "close"},
         s \in {"checkpoint", "save", "unlock"} /\ call[p] \in {"cancel", "close"}
           => State(p) # "running",
         UNCHANGED <<source, kept, receipt, inDb, pass, stage, open, ahead, missed, ended,
                     verifying, unseen, found, lock, mutex, owner, checkpoint, token, loaded, job>>
  PROVE  Core'
<1>1. /\ CallOK' /\ at'[p] = s /\ \A x \in Proc \ {p} : at'[x] = at[x]
      /\ call' = call /\ status' = status
  BY GoesOn DEF Core, Steps
<1>2. status[p] # "dead"
  BY DEF Core, OwnOK, OwnAt
<1>3. JobOK' /\ (Completed' => Completed)
  BY DEF Core, JobOK, Completed, State
<1>4. OwnAt(p)'
  BY <1>1, <1>2 DEF Core, OwnOK, OwnAt, Relies, Owns, State
<1> QED BY <1>1, <1>2, <1>3, <1>4, CallHolds DEF Between, InMutex, Claiming

\* A step of the claim changes neither jobs nor passes.
LEMMA ClaimFrame ==
  ASSUME Core, CallOK', LockOK', OwnOK', token' \subseteq token,
         UNCHANGED <<source, kept, receipt, inDb, pass, stage, open, ahead, missed, ended,
                     verifying, unseen, found, checkpoint, loaded, job>>
  PROVE  Core'
<1>1. JobOK' /\ (Completed' => Completed)
  BY DEF Core, JobOK, Completed, State
<1> QED BY <1>1, FilesFrame DEF Core

\* An owner goes on; else the lock directory is made, or is there.
LEMMA ClaimHolds == ASSUME Core, NEW p \in Proc, Claim(p) PROVE Core'
<1>1. /\ at[p] = "claim"
      /\ UNCHANGED <<source, kept, receipt, inDb, pass, stage, open, ahead, missed, ended,
                     verifying, unseen, found, mutex, owner, checkpoint, token, loaded, job>>
  BY DEF Claim, sourceVars, jobVars, passVars, scanVars, verifyVars, dbVars
<1>2. CASE p \in token /\ Owns(p)
  <2>1. Goes(p, "apply") /\ lock' = lock
    BY <1>2 DEF Claim
  <2> QED BY <1>1, <1>2, <2>1, GoesHolds
<1>3. CASE p \in token /\ ~Owns(p)
  <2>1. Returns(p) /\ lock' = lock
    BY <1>3 DEF Claim
  <2> QED BY <1>1, <2>1, ReturnsHolds
<1>4. CASE p \notin token /\ lock
  <2>1. Goes(p, "mutex") /\ lock' = lock
    BY <1>4 DEF Claim, Core, LockOK
  <2> QED BY <1>1, <1>4, <2>1, GoesHolds
<1>5. CASE p \notin token /\ ~lock
  <2>1. Goes(p, "own") /\ lock' = TRUE
    BY <1>5 DEF Claim
  <2>2. /\ CallOK' /\ at'[p] = "own" /\ \A x \in Proc \ {p} : at'[x] = at[x]
        /\ call' = call /\ status' = status
    BY <2>1, GoesOn DEF Core, Steps
  <2>3. /\ owner = NoOwner /\ ~mutex
        /\ \A x \in Proc : at[x] \notin Between /\ pass[x] # "rmdir" /\ at[x] \notin InMutex
    BY <1>5 DEF Core, LockOK
  <2>4. LockOK'
    <3>1. /\ lock' \in BOOLEAN /\ mutex' \in BOOLEAN /\ owner' \in Proc \cup {Former, NoOwner} /\ lock'
          /\ \A x \in Proc : at'[x] \in Between \/ pass'[x] = "rmdir" => lock' /\ owner' = NoOwner
      BY <1>1, <2>1, <2>3 DEF Core, LockOK
    <3>2. \A x \in Proc : at'[x] \in Between => x = p
      BY <2>2, <2>3
    <3>3. \A x \in Proc : pass'[x] # "rmdir" /\ at'[x] \notin InMutex
      BY <1>1, <2>2, <2>3 DEF InMutex
    <3>4. \A x \in Proc : at'[x] \in Claiming => x \notin token'
      BY <1>1, <1>5, <2>2 DEF Core, LockOK
    <3> QED BY <3>1, <3>2, <3>3, <3>4 DEF LockOK, InMutex
  <2>5. OwnAt(p)'
    BY <1>1, <2>2 DEF Core, OwnOK, OwnAt, Relies, Owns, State
  <2>6. OwnOK'
    BY <1>1, <2>2, <2>5, OwnFrame DEF Core
  <2> QED BY <1>1, <2>2, <2>4, <2>6, ClaimFrame
<1> QED BY <1>2, <1>3, <1>4, <1>5

\* While owner.json is absent nobody relies on it.
LEMMA NobodyOwns ==
  ASSUME Core, owner = NoOwner \/ ~Alive(owner)
  PROVE  \A x \in Proc : ~Relies(x) /\ ~Owns(x) /\ at[x] \notin {"unmutex", "claimed"}
<1> SUFFICES ASSUME NEW x \in Proc PROVE ~Relies(x) /\ ~Owns(x) /\ at[x] \notin {"unmutex", "claimed"}
  OBVIOUS
<1>1. ASSUME owner = x PROVE at[x] = "none" /\ x \notin token
  <2>1. ~Alive(x) /\ x \in Proc
    BY <1>1, ImportAssumption
  <2>2. status[x] = "dead"
    BY <2>1 DEF Alive, Core, CallOK
  <2> QED BY <2>2 DEF Core, OwnOK, OwnAt
<1>2. ~Owns(x)
  BY <1>1 DEF Owns
<1> QED BY <1>1, <1>2 DEF Core, OwnOK, OwnAt

\* owner.json is written into the new lock directory.
LEMMA OwnHolds == ASSUME Core, NEW p \in Proc, Own(p) PROVE Core'
<1>1. /\ at[p] = "own" /\ owner' = p /\ Goes(p, "claimed")
      /\ UNCHANGED <<source, kept, receipt, inDb, pass, stage, open, ahead, missed, ended,
                     verifying, unseen, found, lock, mutex, checkpoint, token, loaded, job>>
  BY DEF Own, sourceVars, jobVars, passVars, scanVars, verifyVars, dbVars
<1>2. /\ CallOK' /\ at'[p] = "claimed" /\ \A x \in Proc \ {p} : at'[x] = at[x]
      /\ call' = call /\ status' = status
  BY <1>1, GoesOn DEF Core, Steps
<1>3. /\ lock /\ owner = NoOwner /\ p \notin token
      /\ \A x \in Proc \ {p} : at[x] \notin Between
      /\ \A x \in Proc : pass[x] # "rmdir" /\ at[x] # "takeover"
  BY <1>1 DEF Core, LockOK, Between, Claiming
<1>4. LockOK'
  <2>1. \A x \in Proc : at'[x] \notin Between /\ pass'[x] # "rmdir" /\ at'[x] # "takeover"
    BY <1>1, <1>2, <1>3 DEF Between
  <2>2. \A x \in Proc : at'[x] \in InMutex => at[x] \in InMutex
    BY <1>2 DEF InMutex
  <2>3. \A x \in Proc : at'[x] \in Claiming => x \notin token'
    BY <1>1, <1>2, <1>3 DEF Core, LockOK
  <2> QED BY <1>1, <1>3, <2>1, <2>2, <2>3 DEF Core, LockOK
<1>5. OwnOK'
  <2>1. \A x \in Proc : ~Relies(x) /\ at[x] \notin {"unmutex", "claimed"}
    BY <1>3, NobodyOwns
  <2> SUFFICES ASSUME NEW x \in Proc PROVE OwnAt(x)'
    BY DEF OwnOK
  <2>2. ~Relies(x)'
    BY <1>1, <1>2, <2>1 DEF Relies, State
  <2>3. at'[x] \in {"unmutex", "claimed"} => owner' = x
    BY <1>1, <1>2, <2>1
  <2> QED BY <1>1, <1>2, <2>2, <2>3 DEF Core, OwnOK, OwnAt, State
<1> QED BY <1>1, <1>2, <1>4, <1>5, ClaimFrame

\* The recovery mutex is made, if it is not there.
LEMMA MutexHolds == ASSUME Core, NEW p \in Proc, Mutex(p) PROVE Core'
<1>1. /\ at[p] = "mutex"
      /\ UNCHANGED <<source, kept, receipt, inDb, pass, stage, open, ahead, missed, ended,
                     verifying, unseen, found, lock, owner, checkpoint, token, loaded, job>>
  BY DEF Mutex, sourceVars, jobVars, passVars, scanVars, verifyVars, dbVars
<1>2. CASE lock /\ ~mutex
  <2>1. mutex' = TRUE /\ Goes(p, "judge")
    BY <1>2 DEF Mutex
  <2>2. /\ CallOK' /\ at'[p] = "judge" /\ \A x \in Proc \ {p} : at'[x] = at[x]
        /\ call' = call /\ status' = status
    BY <2>1, GoesOn DEF Core, Steps
  <2>3. p \notin token /\ \A x \in Proc : at[x] \notin InMutex
    BY <1>1, <1>2 DEF Core, LockOK, Claiming
  <2>4. LockOK'
    <3>1. \A x \in Proc : at'[x] \in InMutex => x = p
      BY <2>2, <2>3
    <3>2. \A x \in Proc : (at'[x] \in Between => at[x] \in Between) /\ at'[x] # "takeover"
      BY <2>2, <2>3 DEF Between, InMutex
    <3>3. \A x \in Proc : at'[x] \in Claiming => x \notin token'
      BY <1>1, <2>2, <2>3 DEF Core, LockOK
    <3> QED BY <1>1, <1>2, <2>1, <3>1, <3>2, <3>3 DEF Core, LockOK
  <2>5. OwnAt(p)'
    BY <1>1, <2>2 DEF Core, OwnOK, OwnAt, Relies, Owns, State
  <2>6. OwnOK'
    BY <1>1, <2>2, <2>5, OwnFrame DEF Core
  <2> QED BY <1>1, <2>2, <2>4, <2>6, ClaimFrame
<1>3. CASE ~(lock /\ ~mutex)
  <2>1. mutex' = mutex /\ Returns(p)
    BY <1>3 DEF Mutex
  <2> QED BY <1>1, <2>1, ReturnsHolds
<1> QED BY <1>2, <1>3

\* The holder of the mutex goes on with it.
LEMMA MutexKept ==
  ASSUME Core, NEW p \in Proc, at[p] \in {"judge", "takeover"},
         NEW s \in {"takeover", "giveup"}, Goes(p, s),
         s = "takeover" => owner # NoOwner /\ ~Alive(owner),
         UNCHANGED <<source, kept, receipt, inDb, pass, stage, open, ahead, missed, ended,
                     verifying, unseen, found, lock, mutex, owner, checkpoint, token, loaded, job>>
  PROVE  Core'
<1>1. /\ CallOK' /\ at'[p] = s /\ \A x \in Proc \ {p} : at'[x] = at[x]
      /\ call' = call /\ status' = status
  BY GoesOn DEF Core, Steps
<1>2. at[p] \in InMutex /\ at[p] \in Claiming /\ s \in InMutex /\ s \notin Between
  BY DEF InMutex, Claiming, Between
<1>3. LockOK'
  <2>1. /\ \A x \in Proc : at'[x] \in InMutex => at[x] \in InMutex
        /\ \A x \in Proc : at'[x] \in Between => at[x] \in Between
    BY <1>1, <1>2
  <2>2. \A x \in Proc : at'[x] = "takeover" => owner' # NoOwner /\ ~Alive(owner)'
    BY <1>1 DEF Core, LockOK, Alive
  <2>3. \A x \in Proc : at'[x] \in Claiming => x \notin token'
    BY <1>1, <1>2 DEF Core, LockOK
  <2> QED BY <2>1, <2>2, <2>3 DEF Core, LockOK
<1>4. OwnAt(p)'
  BY <1>1 DEF Core, OwnOK, OwnAt, Relies, Owns, State
<1>5. OwnOK'
  BY <1>1, <1>4, OwnFrame DEF Core
<1> QED BY <1>1, <1>3, <1>5, ClaimFrame

\* Only a dead owner is replaced.
LEMMA JudgeHolds == ASSUME Core, NEW p \in Proc, Judge(p) PROVE Core'
<1>1. /\ at[p] = "judge" /\ Goes(p, IF owner = NoOwner \/ Alive(owner) THEN "giveup" ELSE "takeover")
      /\ UNCHANGED <<source, kept, receipt, inDb, pass, stage, open, ahead, missed, ended,
                     verifying, unseen, found, lock, mutex, owner, checkpoint, token, loaded, job>>
  BY DEF Judge, sourceVars, lockVars, jobVars, passVars, scanVars, verifyVars, dbVars
<1> QED BY <1>1, MutexKept

\* The new owner cannot be written.
LEMMA TakeoverFailsHolds == ASSUME Core, NEW p \in Proc, TakeoverFails(p) PROVE Core'
<1>1. /\ at[p] = "takeover" /\ Goes(p, "giveup")
      /\ UNCHANGED <<source, kept, receipt, inDb, pass, stage, open, ahead, missed, ended,
                     verifying, unseen, found, lock, mutex, owner, checkpoint, token, loaded, job>>
  BY DEF TakeoverFails, sourceVars, lockVars, jobVars, passVars, scanVars, verifyVars, dbVars
<1> QED BY <1>1, MutexKept

\* A dead owner is replaced.
LEMMA TakeoverHolds == ASSUME Core, NEW p \in Proc, Takeover(p) PROVE Core'
<1>1. /\ at[p] = "takeover" /\ owner' = p /\ Goes(p, "unmutex")
      /\ UNCHANGED <<source, kept, receipt, inDb, pass, stage, open, ahead, missed, ended,
                     verifying, unseen, found, lock, mutex, checkpoint, token, loaded, job>>
  BY DEF Takeover, sourceVars, jobVars, passVars, scanVars, verifyVars, dbVars
<1>2. /\ CallOK' /\ at'[p] = "unmutex" /\ \A x \in Proc \ {p} : at'[x] = at[x]
      /\ call' = call /\ status' = status
  BY <1>1, GoesOn DEF Core, Steps
<1>3. /\ owner # NoOwner /\ ~Alive(owner) /\ at[p] \in InMutex /\ p \notin token /\ lock
      /\ \A x \in Proc : at[x] \notin Between /\ pass[x] # "rmdir"
      /\ \A x \in Proc \ {p} : at[x] \notin InMutex
  BY <1>1 DEF Core, LockOK, InMutex, Claiming
<1>4. LockOK'
  <2>1. \A x \in Proc : at'[x] \notin Between /\ pass'[x] # "rmdir" /\ at'[x] # "takeover"
    BY <1>1, <1>2, <1>3 DEF Between, InMutex
  <2>2. \A x \in Proc : at'[x] \in InMutex => at[x] \in InMutex /\ x = p
    BY <1>2, <1>3 DEF InMutex
  <2>3. \A x \in Proc : at'[x] \in Claiming => x \notin token'
    BY <1>1, <1>2, <1>3 DEF Core, LockOK
  <2> QED BY <1>1, <1>3, <2>1, <2>2, <2>3 DEF Core, LockOK
<1>5. OwnOK'
  <2>1. \A x \in Proc : ~Relies(x) /\ at[x] \notin {"unmutex", "claimed"}
    BY <1>3, NobodyOwns
  <2> SUFFICES ASSUME NEW x \in Proc PROVE OwnAt(x)'
    BY DEF OwnOK
  <2>2. ~Relies(x)'
    BY <1>1, <1>2, <2>1 DEF Relies, State
  <2>3. at'[x] \in {"unmutex", "claimed"} => owner' = x
    BY <1>1, <1>2, <2>1
  <2> QED BY <1>1, <1>2, <2>2, <2>3 DEF Core, OwnOK, OwnAt, State
<1> QED BY <1>1, <1>2, <1>4, <1>5, ClaimFrame

\* The mutex goes, for a new owner and for a claim that is given up.
LEMMA UnmutexHolds == ASSUME Core, NEW p \in Proc, Unmutex(p) PROVE Core'
<1>1. /\ at[p] \in {"unmutex", "giveup"} /\ mutex' = FALSE
      /\ UNCHANGED <<source, kept, receipt, inDb, pass, stage, open, ahead, missed, ended,
                     verifying, unseen, found, lock, owner, checkpoint, token, loaded, job>>
  BY DEF Unmutex, sourceVars, jobVars, passVars, scanVars, verifyVars, dbVars
<1>2. /\ CallOK' /\ status'[p] \in {status[p], "closed"}
      /\ (at[p] = "unmutex" /\ at'[p] = "claimed" /\ call'[p] = call[p]) \/ at'[p] = "none"
      /\ \A x \in Proc \ {p} : at'[x] = at[x] /\ call'[x] = call[x] /\ status'[x] = status[x]
  <2>1. CASE at[p] = "unmutex"
    BY <2>1, GoesOn DEF Unmutex, Core, Steps
  <2>2. CASE at[p] # "unmutex"
    BY <2>2, ReturnsTo DEF Unmutex, Core
  <2> QED BY <2>1, <2>2
<1>3. /\ at[p] \in InMutex /\ p \notin token /\ status[p] # "dead"
      /\ \A x \in Proc \ {p} : at[x] \notin InMutex
  BY <1>1 DEF Core, LockOK, InMutex, Claiming, OwnOK, OwnAt
<1>4. LockOK'
  <2>1. \A x \in Proc : at'[x] \notin InMutex /\ (at'[x] \in Between => at[x] \in Between)
    BY <1>2, <1>3 DEF InMutex, Between
  <2>2. \A x \in Proc : at'[x] \in Claiming => x \notin token'
    BY <1>1, <1>2, <1>3 DEF Core, LockOK
  <2> QED BY <1>1, <2>1, <2>2 DEF Core, LockOK, InMutex
<1>5. OwnAt(p)'
  BY <1>1, <1>2, <1>3 DEF Core, OwnOK, OwnAt, Relies, Owns, State
<1>6. OwnOK'
  BY <1>1, <1>2, <1>5, OwnFrame DEF Core
<1> QED BY <1>1, <1>2, <1>4, <1>6, ClaimFrame

\* The owner cannot be written, and the lock directory stays without one.
LEMMA OwnFailsHolds == ASSUME Core, NEW p \in Proc, OwnFails(p) PROVE Core'
<1>1. /\ at[p] = "own" /\ Returns(p)
      /\ UNCHANGED <<source, kept, receipt, inDb, pass, stage, open, ahead, missed, ended,
                     verifying, unseen, found, lock, mutex, owner, checkpoint, token, loaded, job>>
  BY DEF OwnFails, sourceVars, lockVars, jobVars, passVars, scanVars, verifyVars, dbVars
<1> QED BY <1>1, ReturnsHolds

\* The new owner loads the checkpoint.
LEMMA ClaimedHolds == ASSUME Core, NEW p \in Proc, Claimed(p) PROVE Core'
<1>1. /\ at[p] = "claimed" /\ token' = token \cup {p} /\ job' = [job EXCEPT ![p] = Loaded]
      /\ Goes(p, "apply")
      /\ UNCHANGED <<source, kept, receipt, inDb, pass, stage, open, ahead, missed, ended,
                     verifying, unseen, found, lock, mutex, owner, checkpoint, loaded>>
  BY DEF Claimed, sourceVars, lockVars, passVars, scanVars, verifyVars, dbVars
<1>2. /\ CallOK' /\ at'[p] = "apply" /\ \A x \in Proc \ {p} : at'[x] = at[x]
      /\ call' = call /\ status' = status
  BY <1>1, GoesOn DEF Core, Steps
<1>3. /\ p \notin token /\ owner = p /\ status[p] # "dead" /\ pass[p] = "idle"
  BY <1>1 DEF Core, LockOK, Claiming, OwnOK, OwnAt
<1>4. Loaded \in Job \cup {NoJob} /\ (Loaded # NoJob => Loaded.state # "running")
  BY LoadedIs DEF Core
<1>5. job'[p] = Loaded /\ \A x \in Proc \ {p} : job'[x] = job[x]
  BY <1>1 DEF Core, JobOK
<1>6. JobOK'
  BY <1>1, <1>4 DEF Core, JobOK
<1>7. Completed' => Completed
  BY <1>1, <1>5, CompletedFrame DEF Core, State
<1>8. OwnAt(p)'
  BY <1>1, <1>2, <1>3, <1>4, <1>5 DEF OwnAt, Relies, Owns, State
<1> QED BY <1>1, <1>2, <1>3, <1>5, <1>6, <1>7, <1>8, CallHolds DEF Between, InMutex, Claiming

\* It cannot be loaded: the claim stays.
LEMMA LoadFailsHolds == ASSUME Core, NEW p \in Proc, LoadFails(p) PROVE Core'
<1>1. /\ at[p] = "claimed" /\ Returns(p) /\ token' = token \cup {p} /\ loaded' = loaded \ {p}
      /\ UNCHANGED <<source, kept, receipt, inDb, pass, stage, open, ahead, missed, ended,
                     verifying, unseen, found, lock, mutex, owner, checkpoint, job>>
  BY DEF LoadFails, sourceVars, lockVars, passVars, scanVars, verifyVars, dbVars
<1>2. /\ CallOK' /\ at'[p] = "none" /\ call'[p] = "none" /\ status'[p] \in {status[p], "closed"}
      /\ \A x \in Proc \ {p} : at'[x] = at[x] /\ call'[x] = call[x] /\ status'[x] = status[x]
  BY <1>1, ReturnsTo DEF Core
<1>3. /\ p \notin token /\ status[p] # "dead" /\ pass[p] = "idle" /\ State(p) # "running"
  BY <1>1 DEF Core, LockOK, Claiming, OwnOK, OwnAt, Relies, Owns
<1>4. JobOK' /\ (Completed' => Completed)
  BY <1>1 DEF Core, JobOK, Completed, State
<1>5. OwnAt(p)'
  BY <1>1, <1>2, <1>3 DEF OwnAt, Relies, State
<1> QED BY <1>1, <1>2, <1>3, <1>4, <1>5, CallHolds DEF Between, InMutex, Claiming

\* The job is changed as the command asks, or refuses it.
LEMMA ApplyHolds == ASSUME Core, NEW p \in Proc, Apply(p) PROVE Core'
<1>1. /\ at[p] = "apply"
      /\ UNCHANGED <<source, kept, receipt, inDb, pass, stage, open, ahead, missed, ended,
                     verifying, unseen, found, lock, mutex, owner, checkpoint, token, loaded>>
  BY DEF Apply, sourceVars, lockVars, passVars, scanVars, verifyVars, dbVars
<1>2. CASE job' = job /\ Returns(p)
  BY <1>1, <1>2, ReturnsHolds
<1>3. CASE ~(job' = job /\ Returns(p))
  <2> DEFINE s == CASE call[p] = "start" -> "running" [] call[p] = "pause" -> "paused"
                    [] OTHER -> "cancelled"
             j == [state |-> s, revision |-> expected[p] + 1,
                   quarantined |-> job[p] # NoJob /\ job[p].quarantined]
  <2>1. job' = [job EXCEPT ![p] = j] /\ Goes(p, "checkpoint")
    BY <1>3 DEF Apply, Core, JobOK
  <2>2. /\ s \in {"running", "paused", "cancelled"} /\ (s = "running" <=> call[p] = "start")
    OBVIOUS
  <2>3. (job[p] # NoJob /\ job[p].quarantined) \in BOOLEAN
    BY DEF Core, JobOK, Job
  <2>4. expected[p] + 1 \in Nat
    BY DEF Core, CallOK
  <2>5. j \in Job /\ j.state = s
    BY <2>2, <2>3, <2>4 DEF Job
  <2>6. j # NoJob
    BY <2>5, NoJobAssumption
  <2> HIDE DEF s, j
  <2>7. job'[p] = j /\ State(p)' = s /\ \A x \in Proc \ {p} : job'[x] = job[x]
    BY <2>1, <2>5, <2>6 DEF Core, JobOK, State
  <2>8. JobOK'
    BY <1>1, <2>1, <2>5 DEF Core, JobOK
  <2>9. Completed' => Completed
    BY <1>1, <2>2, <2>7, CompletedFrame DEF Core, State
  <2>10. /\ CallOK' /\ at'[p] = "checkpoint" /\ \A x \in Proc \ {p} : at'[x] = at[x]
         /\ call' = call /\ status' = status
    BY <2>1, GoesOn DEF Core, Steps
  <2>11. status[p] # "dead" /\ (call[p] # "pause" => Owns(p) /\ pass[p] = "idle")
    BY <1>1 DEF Core, OwnOK, OwnAt, Relies
  <2>12. Owns(p)' <=> Owns(p)
    BY <1>1 DEF Owns
  <2>13. OwnAt(p)'
    BY <1>1, <2>2, <2>6, <2>7, <2>10, <2>11, <2>12 DEF Core, OwnOK, OwnAt, Relies
  <2> QED BY <1>1, <2>7, <2>8, <2>9, <2>10, <2>11, <2>13, CallHolds DEF Between, InMutex, Claiming
<1> QED BY <1>2, <1>3

\* The owner is asserted before the checkpoint is written.
LEMMA CheckpointHolds == ASSUME Core, NEW p \in Proc, Checkpoint(p) PROVE Core'
<1>1. /\ at[p] = "checkpoint" /\ (Goes(p, "save") \/ Returns(p))
      /\ UNCHANGED <<source, kept, receipt, inDb, pass, stage, open, ahead, missed, ended,
                     verifying, unseen, found, lock, mutex, owner, checkpoint, token, loaded, job>>
  BY DEF Checkpoint, sourceVars, lockVars, jobVars, passVars, scanVars, verifyVars, dbVars
<1>2. call[p] \in {"cancel", "close"} => State(p) # "running"
  BY <1>1 DEF Core, OwnOK, OwnAt
<1> QED BY <1>1, <1>2, GoesHolds, ReturnsHolds

\* The job is recorded.
LEMMA SaveHolds == ASSUME Core, NEW p \in Proc, Save(p) PROVE Core'
<1>1. /\ at[p] = "save" /\ checkpoint' = job[p]
      /\ (call[p] \in {"cancel", "close"} /\ Goes(p, "unlock")) \/ Returns(p)
      /\ UNCHANGED <<source, kept, receipt, inDb, pass, stage, open, ahead, missed, ended,
                     verifying, unseen, found, lock, mutex, owner, token, loaded, job>>
  BY DEF Save, sourceVars, lockVars, jobVars, passVars, scanVars, verifyVars, dbVars
<1>2. /\ CallOK' /\ status'[p] \in {status[p], "closed"}
      /\ (at'[p] = "unlock" /\ call'[p] = call[p] /\ call[p] \in {"cancel", "close"}) \/ at'[p] = "none"
      /\ \A x \in Proc \ {p} : at'[x] = at[x] /\ call'[x] = call[x] /\ status'[x] = status[x]
  BY <1>1, GoesOn, ReturnsTo DEF Core, Steps
<1>3. JobOK' /\ (Completed' => Completed)
  BY <1>1 DEF Core, JobOK, Completed, State
<1>4. status[p] # "dead"
  BY <1>1 DEF Core, OwnOK, OwnAt
<1>5. OwnAt(p)'
  BY <1>1, <1>2, <1>4 DEF Core, OwnOK, OwnAt, Relies, Owns, State
<1> QED BY <1>1, <1>2, <1>3, <1>4, <1>5, CallHolds DEF Between, InMutex, Claiming

\* It cannot be recorded.
LEMMA SaveFailsHolds == ASSUME Core, NEW p \in Proc, SaveFails(p) PROVE Core'
<1>1. /\ at[p] = "save" /\ Returns(p)
      /\ UNCHANGED <<source, kept, receipt, inDb, pass, stage, open, ahead, missed, ended,
                     verifying, unseen, found, lock, mutex, owner, checkpoint, token, loaded, job>>
  BY DEF SaveFails, sourceVars, lockVars, jobVars, passVars, scanVars, verifyVars, dbVars
<1> QED BY <1>1, ReturnsHolds

\* release() takes owner.json away.
LEMMA UnlockHolds == ASSUME Core, NEW p \in Proc, Unlock(p) PROVE Core'
<1>1. /\ at[p] = "unlock"
      /\ UNCHANGED <<source, kept, receipt, inDb, pass, stage, open, ahead, missed, ended,
                     verifying, unseen, found, lock, mutex, checkpoint, token, loaded, job>>
  BY DEF Unlock, sourceVars, jobVars, passVars, scanVars, verifyVars, dbVars
<1>2. CASE ~Owns(p)
  <2>1. owner' = owner /\ Returns(p)
    BY <1>2 DEF Unlock
  <2> QED BY <1>1, <2>1, ReturnsHolds
<1>3. CASE Owns(p)
  <2>1. owner' = NoOwner /\ Goes(p, "rmdir") /\ owner = p /\ p \in token /\ p # NoOwner
    BY <1>3, ImportAssumption DEF Unlock, Owns
  <2>2. /\ CallOK' /\ at'[p] = "rmdir" /\ \A x \in Proc \ {p} : at'[x] = at[x]
        /\ call' = call /\ status' = status
    BY <2>1, GoesOn DEF Core, Steps
  <2>3. /\ call[p] \in {"cancel", "close"} /\ State(p) # "running" /\ pass[p] = "idle"
        /\ status[p] # "dead"
    BY <1>1 DEF Core, OwnOK, OwnAt
  <2>4. /\ lock /\ Alive(owner)
        /\ \A x \in Proc : at[x] \notin Between /\ pass[x] # "rmdir" /\ at[x] # "takeover"
    BY <2>1, <2>3 DEF Core, LockOK, CallOK, Alive
  <2>5. LockOK'
    <3>1. \A x \in Proc : at'[x] \in Between => x = p
      BY <2>2, <2>4
    <3>2. /\ \A x \in Proc : pass'[x] # "rmdir" /\ at'[x] # "takeover"
          /\ \A x \in Proc : at'[x] \in InMutex => at[x] \in InMutex
      BY <1>1, <2>2, <2>4 DEF InMutex
    <3>3. \A x \in Proc : at'[x] \in Claiming => x \notin token'
      BY <1>1, <2>2 DEF Core, LockOK, Claiming, InMutex
    <3> QED BY <1>1, <2>1, <2>4, <3>1, <3>2, <3>3 DEF Core, LockOK
  <2>6. OwnOK'
    <3> SUFFICES ASSUME NEW x \in Proc PROVE OwnAt(x)'
      BY DEF OwnOK
    <3>1. CASE x = p
      BY <1>1, <2>2, <2>3, <3>1 DEF OwnAt, Relies, State
    <3>2. CASE x # p
      <4>1. ~Relies(x) /\ at[x] \notin {"unmutex", "claimed"}
        BY <2>1, <3>2 DEF Core, OwnOK, OwnAt, Owns
      <4>2. ~Relies(x)' /\ at'[x] = at[x]
        BY <1>1, <2>2, <3>2, <4>1 DEF Relies, State
      <4> QED BY <1>1, <2>2, <4>1, <4>2 DEF Core, OwnOK, OwnAt, State
    <3> QED BY <3>1, <3>2
  <2> QED BY <1>1, <2>2, <2>5, <2>6, ClaimFrame
<1> QED BY <1>2, <1>3

\* The lock directory goes next, unless a claimant has put the mutex into it.
LEMMA RmdirHolds == ASSUME Core, NEW p \in Proc, Rmdir(p) PROVE Core'
<1>1. /\ at[p] = "rmdir" /\ Returns(p)
      /\ (UNCHANGED <<lock, token>> \/ (~mutex /\ lock' = FALSE /\ token' = token \ {p}))
      /\ UNCHANGED <<source, kept, receipt, inDb, pass, stage, open, ahead, missed, ended,
                     verifying, unseen, found, mutex, owner, checkpoint, loaded, job>>
  BY DEF Rmdir, sourceVars, passVars, scanVars, verifyVars, dbVars
<1>2. /\ CallOK' /\ at'[p] = "none" /\ call'[p] = "none" /\ status'[p] \in {status[p], "closed"}
      /\ \A x \in Proc \ {p} : at'[x] = at[x] /\ call'[x] = call[x] /\ status'[x] = status[x]
  BY <1>1, ReturnsTo DEF Core
<1>3. CASE UNCHANGED <<lock, token>>
  BY <1>1, <1>3, ReturnsHolds
<1>4. CASE ~mutex /\ lock' = FALSE /\ token' = token \ {p}
  <2>1. /\ owner = NoOwner /\ \A x \in Proc \ {p} : at[x] \notin Between
        /\ \A x \in Proc : pass[x] # "rmdir" /\ at[x] \notin InMutex
    BY <1>1, <1>4 DEF Core, LockOK, Between
  <2>2. LockOK'
    <3>1. \A x \in Proc : at'[x] \notin Between /\ pass'[x] # "rmdir" /\ at'[x] \notin InMutex
      BY <1>1, <1>2, <2>1 DEF Between, InMutex
    <3>2. \A x \in Proc : at'[x] \in Claiming => x \notin token'
      BY <1>2, <1>4 DEF Core, LockOK, Claiming, InMutex
    <3> QED BY <1>1, <1>4, <2>1, <3>1, <3>2 DEF Core, LockOK, InMutex
  <2>3. ~Relies(p) /\ status[p] # "dead" /\ pass[p] = "idle"
    <3>1. ~Relies(p)
      BY <2>1, NobodyOwns
    <3>2. call[p] \in {"cancel", "close"}
      BY <1>1 DEF Core, OwnOK, OwnAt
    <3> QED BY <1>1, <3>1, <3>2 DEF Core, OwnOK, OwnAt
  <2>4. OwnAt(p)'
    BY <1>1, <1>2, <2>3 DEF OwnAt, Relies, State
  <2>5. OwnOK'
    BY <1>1, <1>2, <1>4, <2>4, OwnFrame DEF Core
  <2> QED BY <1>1, <1>2, <1>4, <2>2, <2>5, ClaimFrame
<1> QED BY <1>1, <1>3, <1>4

\* close() ends the admission.
LEMMA CloseHolds == ASSUME Core, NEW p \in Proc, Close(p) PROVE Core'
<1>1. /\ status[p] = "up" /\ status' = [status EXCEPT ![p] = "closing"]
      /\ UNCHANGED <<source, kept, receipt, inDb, pass, stage, open, ahead, missed, ended,
                     verifying, unseen, found, lock, mutex, owner, checkpoint, token, loaded, job,
                     call, at, expected, calls>>
  BY DEF Close, sourceVars, lockVars, jobVars, passVars, scanVars, verifyVars, dbVars
<1>2. CallOK' /\ status'[p] = "closing" /\ \A x \in Proc \ {p} : status'[x] = status[x]
  BY <1>1 DEF Core, CallOK
<1>3. OwnOK'
  <2>1. OwnAt(p)'
    BY <1>1, <1>2 DEF Core, OwnOK, OwnAt, Relies, Owns, State
  <2> QED BY <1>1, <1>2, <2>1, OwnFrame DEF Core
<1>4. LockOK'
  <2>1. ~Alive(owner) => ~Alive(owner)'
    BY <1>1, <1>2 DEF Alive
  <2>2. \A x \in Proc : at'[x] \in Claiming => x \notin token'
    BY <1>1 DEF Core, LockOK
  <2> QED BY <1>1, <2>1, <2>2, LockFrame DEF Core, lockVars
<1> QED BY <1>1, <1>2, <1>3, <1>4, ClaimFrame

\* close() records the job and releases the claim, if there is one.
LEMMA CloseSourceHolds == ASSUME Core, NEW p \in Proc, CloseSource(p) PROVE Core'
<1>1. /\ status[p] = "closing" /\ at[p] = "none" /\ pass[p] = "idle"
      /\ UNCHANGED <<source, kept, receipt, inDb, pass, stage, open, ahead, missed, ended,
                     verifying, unseen, found, lock, mutex, owner, checkpoint, token, loaded,
                     expected, calls>>
  BY DEF CloseSource, sourceVars, lockVars, passVars, scanVars, verifyVars, dbVars
<1>2. CASE p \in token
  <2>1. PICK s \in {"unlock", "checkpoint"} :
          /\ call' = [call EXCEPT ![p] = "close"] /\ at' = [at EXCEPT ![p] = s] /\ status' = status
    BY <1>2 DEF CloseSource
  <2>2. job' = IF State(p) = "running" THEN [job EXCEPT ![p].state = "paused"] ELSE job
    BY <1>2 DEF CloseSource
  <2>3. CallOK' /\ at'[p] = s /\ call'[p] = "close"
        /\ \A x \in Proc \ {p} : at'[x] = at[x] /\ call'[x] = call[x] /\ status'[x] = status[x]
    <3>1. at' \in [Proc -> Steps] /\ call' \in [Proc -> {"start", "pause", "cancel", "close", "none"}]
      BY <2>1 DEF Core, CallOK, Steps
    <3> QED BY <1>1, <2>1, <3>1 DEF Core, CallOK
  <2>4. /\ JobOK' /\ State(p)' # "running" /\ \A x \in Proc \ {p} : job'[x] = job[x]
        /\ State(p)' = "completed" => State(p) = "completed"
    <3>1. CASE State(p) = "running"
      <4>1. job[p] \in Job /\ job[p] # NoJob
        BY <3>1 DEF Core, JobOK, State
      <4>2. /\ [job[p] EXCEPT !.state = "paused"] \in Job
            /\ [job[p] EXCEPT !.state = "paused"].state = "paused"
        BY <4>1 DEF Job
      <4>3. job' = [job EXCEPT ![p] = [job[p] EXCEPT !.state = "paused"]]
        BY <2>2, <3>1 DEF Core, JobOK
      <4>4. job' \in [Proc -> Job \cup {NoJob}] /\ job'[p] = [job[p] EXCEPT !.state = "paused"]
            /\ \A x \in Proc \ {p} : job'[x] = job[x]
        BY <4>2, <4>3 DEF Core, JobOK
      <4>5. State(p)' # "running" /\ State(p)' # "completed"
        BY <4>2, <4>4 DEF State
      <4> QED BY <1>1, <4>4, <4>5 DEF Core, JobOK
    <3>2. CASE State(p) # "running"
      <4>1. job' = job
        BY <2>2, <3>2
      <4> QED BY <1>1, <3>2, <4>1 DEF Core, JobOK, State
    <3> QED BY <3>1, <3>2
  <2>5. Completed' => Completed
    BY <1>1, <2>4, CompletedFrame DEF Core, State
  <2>6. OwnAt(p)'
    BY <1>1, <2>1, <2>3, <2>4 DEF OwnAt, Relies
  <2> QED BY <1>1, <2>1, <2>3, <2>4, <2>5, <2>6, CallHolds
          DEF Between, InMutex, Claiming, Core, OwnOK, OwnAt
<1>3. CASE p \notin token
  <2>1. status' = [status EXCEPT ![p] = "closed"] /\ UNCHANGED <<call, at, job>>
    BY <1>3 DEF CloseSource
  <2>2. CallOK' /\ status'[p] = "closed" /\ \A x \in Proc \ {p} : status'[x] = status[x]
    BY <1>1, <2>1 DEF Core, CallOK
  <2>3. OwnAt(p)'
    BY <1>1, <2>1, <2>2 DEF Core, OwnOK, OwnAt, Relies, Owns, State
  <2>4. JobOK' /\ (Completed' => Completed)
    BY <1>1, <2>1 DEF Core, JobOK, Completed, State
  <2> QED BY <1>1, <2>1, <2>2, <2>3, <2>4, CallHolds DEF Between, InMutex, Claiming
<1> QED BY <1>2, <1>3

\* The checkpoint is loaded at the first tick.
LEMMA LoadHolds == ASSUME Core, NEW p \in Proc, Load(p) PROVE Core'
<1>1. /\ status[p] = "up" /\ at[p] = "none" /\ p \notin loaded
      /\ loaded' = loaded \cup {p} /\ job' = [job EXCEPT ![p] = Loaded]
      /\ UNCHANGED <<source, kept, receipt, inDb, pass, stage, open, ahead, missed, ended,
                     verifying, unseen, found, lock, mutex, owner, checkpoint, token, call, at,
                     expected, calls, status>>
  BY DEF Load, sourceVars, lockVars, callVars, passVars, scanVars, verifyVars, dbVars
<1>2. Loaded \in Job \cup {NoJob} /\ (Loaded # NoJob => Loaded.state # "running")
  BY LoadedIs DEF Core
<1>3. job'[p] = Loaded /\ \A x \in Proc \ {p} : job'[x] = job[x]
  BY <1>1 DEF Core, JobOK
<1>4. JobOK' /\ CallOK'
  BY <1>1, <1>2 DEF Core, JobOK, CallOK
<1>5. Completed' => Completed
  BY <1>1, <1>3, CompletedFrame DEF Core, State
<1>6. pass[p] = "idle" /\ State(p)' # "running"
  BY <1>1, <1>2, <1>3 DEF Core, OwnOK, OwnAt, State
<1>7. OwnAt(p)'
  BY <1>1, <1>6 DEF OwnAt, Relies
<1> QED BY <1>1, <1>3, <1>4, <1>5, <1>7, CallHolds DEF Between, InMutex, Claiming

\* No file is selected.
LEMMA NothingSelected ==
  ASSUME NEW p \in Proc, stage' \in [Proc -> [File -> Stages]], \A h \in File : stage'[p][h] = "none"
  PROVE  Selected(p)' = {} /\ PassAt(p)'
<1>1. Selected(p)' = {} /\ InHand(p)' = {}
  BY DEF Selected, InHand
<1>2. Cardinality({}) = 0 /\ 0 <= BatchSize /\ 0 <= Concurrency
  BY FS_EmptySet, ImportAssumption
<1> QED BY <1>1, <1>2 DEF PassAt

\* An archiver dies: what it had in memory is gone, its claim stays.
LEMMA DieHolds == ASSUME Core, NEW p \in Proc, Die(p) PROVE Core'
<1>1. /\ status' = [status EXCEPT ![p] = "dead"]
      /\ call' = [call EXCEPT ![p] = "none"] /\ at' = [at EXCEPT ![p] = "none"]
      /\ expected' = [expected EXCEPT ![p] = 0]
      /\ token' = token \ {p} /\ loaded' = loaded \ {p} /\ job' = [job EXCEPT ![p] = NoJob]
      /\ pass' = [pass EXCEPT ![p] = "idle"]
      /\ stage' = [stage EXCEPT ![p] = [f \in File |-> "none"]]
      /\ open' = open \ {p} /\ ahead' = [ahead EXCEPT ![p] = {}]
      /\ missed' = missed \ {p} /\ ended' = ended \ {p}
      /\ verifying' = verifying \ {p} /\ unseen' = [unseen EXCEPT ![p] = {}] /\ found' = found \ {p}
      /\ UNCHANGED <<source, kept, checkpoint, lock, mutex, owner, calls, receipt, inDb>>
  BY DEF Die, sourceVars, lockVars, dbVars
<1>2. CallOK' /\ at'[p] = "none" /\ call'[p] = "none" /\ status'[p] = "dead"
      /\ \A x \in Proc \ {p} : at'[x] = at[x] /\ call'[x] = call[x] /\ status'[x] = status[x]
  <2>1. at' \in [Proc -> Steps] /\ call' \in [Proc -> {"start", "pause", "cancel", "close", "none"}]
    BY <1>1 DEF Core, CallOK, Steps
  <2>2. status' \in [Proc -> {"up", "closing", "closed", "dead"}] /\ expected' \in [Proc -> Nat]
    BY <1>1 DEF Core, CallOK
  <2> QED BY <1>1, <2>1, <2>2 DEF Core, CallOK
<1>3. job'[p] = NoJob /\ \A x \in Proc \ {p} : job'[x] = job[x]
  BY <1>1 DEF Core, JobOK
<1>4. JobOK' /\ SourceOK'
  BY <1>1 DEF Core, JobOK, SourceOK
<1>5. /\ stage' \in [Proc -> [File -> Stages]] /\ \A h \in File : stage'[p][h] = "none"
      /\ \A x \in Proc \ {p} : stage'[x] = stage[x]
  BY <1>1 DEF Core, PassOK, PassTypes, Stages
<1>6. /\ pass' \in [Proc -> Phases] /\ pass'[p] = "idle" /\ \A x \in Proc \ {p} : pass'[x] = pass[x]
      /\ ahead' \in [Proc -> SUBSET File] /\ \A x \in Proc \ {p} : ahead'[x] = ahead[x]
      /\ unseen' \in [Proc -> SUBSET File] /\ \A x \in Proc \ {p} : unseen'[x] = unseen[x]
  BY <1>1 DEF Core, PassOK, PassTypes, Phases
<1>7. PassOK'
  <2>1. ASSUME NEW x \in Proc PROVE PassAt(x)'
    <3>1. CASE x = p
      BY <1>5, <3>1, NothingSelected
    <3>2. CASE x # p
      <4>1. PassAt(x) /\ pass'[x] = pass[x] /\ stage'[x] = stage[x]
        BY <1>5, <1>6, <3>2 DEF Core, PassOK
      <4> QED BY <4>1, SameStage DEF PassAt
    <3> QED BY <3>1, <3>2
  <2> QED BY <1>1, <1>5, <1>6, <2>1 DEF Core, PassOK, PassTypes
<1>8. FileOK'
  <2>1. FileAt(p)'
    BY <1>1, <1>5, <1>6 DEF FileAt
  <2>2. ASSUME NEW x \in Proc \ {p} PROVE FileAt(x)'
    BY <1>1, <1>5, <1>6 DEF Core, FileOK, FileAt
  <2>3. Completed' => Completed
    BY <1>1, <1>3, CompletedFrame DEF Core, State
  <2> QED BY <1>1, <2>1, <2>2, <2>3 DEF Core, FileOK
<1>9. OwnOK'
  <2>1. OwnAt(p)'
    BY <1>1, <1>2, <1>3, <1>6 DEF OwnAt, Relies, State
  <2> QED BY <1>1, <1>2, <1>3, <1>6, <2>1, OwnFrame DEF Core
<1>10. LockOK'
  <2>1. ~Alive(owner) => ~Alive(owner)'
    BY <1>1, <1>2 DEF Alive
  <2>2. \A x \in Proc : at'[x] \in Between \cup InMutex => at'[x] = at[x]
    BY <1>2 DEF Between, InMutex
  <2>3. \A x \in Proc : at'[x] \in Claiming => x \notin token'
    BY <1>1, <1>2 DEF Core, LockOK, Claiming, InMutex
  <2> QED BY <1>1, <1>6, <2>1, <2>2, <2>3, LockFrame DEF Core, lockVars
<1> QED BY <1>2, <1>4, <1>7, <1>8, <1>9, <1>10 DEF Core

-----------------------------------------------------------------------------
(* Steps of a pass *)

\* A job with another state.
LEMMA JobState ==
  ASSUME JobOK, NEW p \in Proc, job[p] \in Job, NEW s \in {"paused", "blocked", "completed"},
         job' = [job EXCEPT ![p].state = s]
  PROVE  /\ job' \in [Proc -> Job \cup {NoJob}] /\ job'[p] # NoJob /\ job'[p] \in Job
         /\ State(p)' = s /\ \A x \in Proc \ {p} : job'[x] = job[x]
<1> DEFINE j == [job[p] EXCEPT !.state = s]
<1>1. j \in Job /\ j.state = s
  BY DEF Job
<1>2. job' = [job EXCEPT ![p] = j]
  BY DEF JobOK
<1>3. j # NoJob
  BY <1>1, NoJobAssumption
<1> HIDE DEF j
<1>4. job'[p] = j /\ job' \in [Proc -> Job \cup {NoJob}] /\ \A x \in Proc \ {p} : job'[x] = job[x]
  BY <1>1, <1>2 DEF JobOK
<1> QED BY <1>1, <1>3, <1>4 DEF State

\* A job with the note that something is in quarantine.
LEMMA JobNoted ==
  ASSUME JobOK, NEW p \in Proc, job[p] \in Job, job' = [job EXCEPT ![p].quarantined = TRUE]
  PROVE  /\ job' \in [Proc -> Job \cup {NoJob}] /\ job'[p] # NoJob /\ job'[p] \in Job
         /\ State(p)' = State(p) /\ \A x \in Proc \ {p} : job'[x] = job[x]
<1> DEFINE j == [job[p] EXCEPT !.quarantined = TRUE]
<1>1. j \in Job /\ j.state = job[p].state
  BY DEF Job
<1>2. job' = [job EXCEPT ![p] = j]
  BY DEF JobOK
<1>3. j # NoJob /\ job[p] # NoJob
  BY <1>1, NoJobAssumption
<1> HIDE DEF j
<1>4. job'[p] = j /\ job' \in [Proc -> Job \cup {NoJob}] /\ \A x \in Proc \ {p} : job'[x] = job[x]
  BY <1>1, <1>2 DEF JobOK
<1> QED BY <1>1, <1>3, <1>4 DEF State

\* A step of the pass of one archiver, which has the source for itself.
LEMMA PassHolds ==
  ASSUME Core, NEW p \in Proc, pass[p] \notin {"idle", "rmdir"},
         UNCHANGED <<lock, mutex, owner, token, loaded, call, at, expected, calls, status>>,
         SourceOK', JobOK', PassTypes', PassAt(p)', FileAt(p)', pass'[p] # "rmdir",
         source' \subseteq source, inDb \subseteq inDb',
         \A x \in Proc \ {p} : /\ pass'[x] = pass[x] /\ stage'[x] = stage[x] /\ job'[x] = job[x]
                               /\ ahead'[x] = ahead[x] /\ unseen'[x] = unseen[x]
                               /\ (x \in verifying' <=> x \in verifying)
                               /\ (x \in found' <=> x \in found),
         job'[p] # NoJob, State(p)' = "running" => State(p) = "running",
         pass'[p] = "unlock" => State(p)' # "running",
         Completed' => source' = {} /\ kept' = {}
  PROVE  Core'
<1>1. /\ Owns(p) /\ p \in token \cap loaded /\ status[p] # "dead"
      /\ \A x \in Proc \ {p} : pass[x] \in {"idle", "rmdir"} /\ \A h \in File : stage[x][h] = "none"
  BY PassAlone
<1>2. CallOK'
  BY DEF Core, CallOK
<1>3. PassOK'
  <2>1. ASSUME NEW x \in Proc \ {p} PROVE PassAt(x)'
    <3>1. PassAt(x) /\ pass'[x] = pass[x] /\ stage'[x] = stage[x]
      BY DEF Core, PassOK
    <3> QED BY <3>1, SameStage DEF PassAt
  <2> QED BY <2>1 DEF PassOK
<1>4. LockOK'
  <2>1. \A x \in Proc : pass'[x] = "rmdir" => pass[x] = "rmdir"
    OBVIOUS
  <2>2. ~Alive(owner) => ~Alive(owner)'
    BY DEF Alive
  <2>3. \A x \in Proc : at'[x] \in Claiming => x \notin token'
    BY DEF Core, LockOK
  <2> QED BY <2>1, <2>2, <2>3, LockFrame DEF Core, lockVars
<1>5. OwnOK'
  <2>1. OwnAt(p) /\ (Owns(p)' <=> Owns(p))
    BY DEF Core, OwnOK, Owns
  <2>2. OwnAt(p)'
    BY <1>1, <2>1 DEF OwnAt
  <2> QED BY <2>2, OwnFrame DEF Core
<1>6. FileOK'
  <2>1. ASSUME NEW x \in Proc \ {p} PROVE FileAt(x)'
    BY <1>1 DEF Core, FileOK, FileAt
  <2> QED BY <2>1 DEF FileOK
<1> QED BY <1>2, <1>3, <1>4, <1>5, <1>6 DEF Core

\* The selection is as before.
LEMMA StageKept ==
  ASSUME Core, NEW p \in Proc, stage' = stage,
         pass'[p] \in {"scan", "write"} \/ Selected(p) = {}
  PROVE  PassAt(p)'
<1>1. PassAt(p) /\ Selected(p)' = Selected(p) /\ InHand(p)' = InHand(p)
  BY SameStage DEF Core, PassOK
<1> QED BY <1>1 DEF PassAt

\* The selection belongs to the two phases that make it and work it off.
LEMMA SelectedInPass ==
  ASSUME Core, NEW p \in Proc, NEW f \in File, stage[p][f] # "none"
  PROVE  pass[p] \in {"scan", "write"}
BY DEF Core, PassOK, PassAt, Selected

\* A selected file takes up no worker, or keeps the one it has.
LEMMA SetsStage ==
  ASSUME Core, NEW p \in Proc, NEW f \in File, stage[p][f] # "none", NEW s \in Stages, Sets(p, f, s),
         pass' = pass, s \in {"none", "selected"} \/ stage[p][f] # "selected"
  PROVE  /\ stage' \in [Proc -> [File -> Stages]] /\ stage'[p][f] = s /\ PassAt(p)'
         /\ \A h \in File \ {f} : stage'[p][h] = stage[p][h]
         /\ \A x \in Proc \ {p} : stage'[x] = stage[x]
<1>1. /\ stage' \in [Proc -> [File -> Stages]] /\ stage'[p][f] = s
      /\ \A h \in File \ {f} : stage'[p][h] = stage[p][h]
      /\ \A x \in Proc \ {p} : stage'[x] = stage[x]
  BY DEF Core, PassOK, PassTypes, Sets
<1>2. Selected(p)' \in SUBSET Selected(p) /\ InHand(p)' \in SUBSET InHand(p)
  BY <1>1 DEF Selected, InHand
<1>3. Selected(p) \in SUBSET File /\ InHand(p) \in SUBSET File
  BY DEF Selected, InHand
<1>4. /\ IsFiniteSet(Selected(p)) /\ IsFiniteSet(InHand(p))
      /\ Cardinality(Selected(p)) \in Nat /\ Cardinality(InHand(p)) \in Nat
  BY <1>3, ImportAssumption, FS_Subset, FS_CardinalityType
<1>5. /\ Cardinality(Selected(p)') <= Cardinality(Selected(p)) /\ Cardinality(Selected(p)') \in Nat
      /\ Cardinality(InHand(p)') <= Cardinality(InHand(p)) /\ Cardinality(InHand(p)') \in Nat
  BY <1>2, <1>4, FS_Subset, FS_CardinalityType
<1>6. Cardinality(Selected(p)') <= BatchSize /\ Cardinality(InHand(p)') <= Concurrency
  BY <1>4, <1>5, ImportAssumption DEF Core, PassOK, PassAt
<1>7. pass'[p] \in {"scan", "write"}
  BY SelectedInPass
<1> QED BY <1>1, <1>6, <1>7 DEF PassAt

\* A step with one selected file.
LEMMA FileMoves ==
  ASSUME Core, NEW p \in Proc, NEW f \in File, stage[p][f] # "none", NEW s \in Stages, Sets(p, f, s),
         s \in {"none", "selected"} \/ stage[p][f] # "selected",
         UNCHANGED <<checkpoint, lock, mutex, owner, token, loaded, call, at, expected, calls,
                     status, pass, open, ahead, ended, verifying, unseen, found>>,
         missed' \in {missed, missed \cup {p}},
         job' = job \/ job' = [job EXCEPT ![p].quarantined = TRUE],
         source' \in {source, source \ {f}}, kept' = kept \/ (kept' = kept \cup {f} /\ f \in Bad),
         receipt' \subseteq receipt \cup {<<p, f>>}, inDb' \in {inDb, inDb \cup {f}},
         s # "none" /\ f \in Bad => f \in source', s \in {"written", "unlinked"} => f \in inDb' \ Bad,
         s = "unlinked" => f \notin source', s = "bad" => f \in Bad
  PROVE  Core'
<1>1. pass[p] \in {"scan", "write"}
  BY SelectedInPass
<1>2. p \in token \cap loaded /\ job[p] \in Job /\ job[p] # NoJob
  BY <1>1, PassAlone, NoJobAssumption
<1>3. /\ stage' \in [Proc -> [File -> Stages]] /\ stage'[p][f] = s /\ PassAt(p)'
      /\ \A h \in File \ {f} : stage'[p][h] = stage[p][h]
      /\ \A x \in Proc \ {p} : stage'[x] = stage[x]
  BY SetsStage
<1>4. /\ job' \in [Proc -> Job \cup {NoJob}] /\ job'[p] # NoJob
      /\ State(p)' = State(p) /\ \A x \in Proc \ {p} : job'[x] = job[x]
  <2>1. CASE job' = job
    BY <1>2, <2>1 DEF Core, JobOK, State
  <2>2. CASE job' = [job EXCEPT ![p].quarantined = TRUE]
    BY <1>2, <2>2, JobNoted DEF Core
  <2> QED BY <2>1, <2>2
<1>5. JobOK'
  BY <1>4 DEF Core, JobOK
<1>6. SourceOK' /\ source' \subseteq source /\ inDb \subseteq inDb'
  BY DEF Core, SourceOK
<1>7. PassTypes'
  BY <1>3 DEF Core, PassOK, PassTypes
<1>8. FileAt(p)'
  <2>1. ASSUME NEW h \in File
        PROVE  /\ stage'[p][h] # "none" => h \notin ahead'[p] /\ (h \in Bad => h \in source')
               /\ stage'[p][h] \in {"written", "unlinked"} => h \in inDb' \ Bad
               /\ stage'[p][h] = "unlinked" => h \notin source'
               /\ stage'[p][h] = "bad" => h \in Bad
    <3>1. CASE h = f
      BY <1>3, <3>1 DEF Core, FileOK, FileAt
    <3>2. CASE h # f
      BY <1>3, <3>2 DEF Core, FileOK, FileAt
    <3> QED BY <3>1, <3>2
  <2>2. pass'[p] \notin {"judge", "verify"}
    BY <1>1
  <2>3. p \in verifying' /\ p \notin found' => source' \subseteq unseen'[p]
    BY <1>6 DEF Core, FileOK, FileAt
  <2> QED BY <2>1, <2>2, <2>3 DEF FileAt
<1>9. Completed' => source' = {} /\ kept' = {}
  <2>1. Completed' => Completed
    BY <1>4, CompletedFrame DEF Core, State
  <2>2. f \in Bad => f \in source
    BY DEF Core, FileOK, FileAt
  <2> QED BY <1>6, <2>1, <2>2 DEF Core, FileOK
<1> QED BY <1>1, <1>3, <1>4, <1>5, <1>6, <1>7, <1>8, <1>9, PassHolds

\* A selected file is not read, or not admitted.
LEMMA ReadFailsHolds == ASSUME Core, NEW p \in Proc, NEW f \in File, ReadFails(p, f) PROVE Core'
<1>1. /\ stage[p][f] = "selected" /\ Sets(p, f, "none") /\ missed' = missed \cup {p}
      /\ UNCHANGED <<source, kept, checkpoint, lock, mutex, owner, token, loaded, job, call, at,
                     expected, calls, status, pass, open, ahead, ended, verifying, unseen, found,
                     receipt, inDb>>
  BY DEF ReadFails, sourceVars, lockVars, jobVars, callVars, verifyVars, dbVars
<1> QED BY <1>1, FileMoves DEF Stages

\* An event is written, or known as written.
LEMMA WrittenHolds == ASSUME Core, NEW p \in Proc, NEW f \in File, Written(p, f) PROVE Core'
<1>1. /\ stage[p][f] = "writing" /\ f \notin Bad /\ Sets(p, f, "written")
      /\ inDb' = inDb \cup {f} /\ receipt' = receipt \cup {<<p, f>>}
      /\ UNCHANGED <<source, kept, checkpoint, lock, mutex, owner, token, loaded, job, call, at,
                     expected, calls, status, pass, open, ahead, missed, ended, verifying, unseen,
                     found>>
  BY DEF Written, sourceVars, lockVars, jobVars, callVars, scanVars, verifyVars
<1> QED BY <1>1, FileMoves DEF Stages

\* A write is deferred.
LEMMA DefersHolds == ASSUME Core, NEW p \in Proc, NEW f \in File, Defers(p, f) PROVE Core'
<1>1. /\ stage[p][f] = "writing" /\ f \notin Bad /\ Sets(p, f, "none") /\ missed' = missed \cup {p}
      /\ receipt' \subseteq receipt \cup {<<p, f>>}
      /\ UNCHANGED <<source, kept, checkpoint, lock, mutex, owner, token, loaded, job, call, at,
                     expected, calls, status, pass, open, ahead, ended, verifying, unseen, found,
                     inDb>>
  BY DEF Defers, sourceVars, lockVars, jobVars, callVars, verifyVars
<1> QED BY <1>1, FileMoves DEF Stages

\* A file waits for a review.
LEMMA WithheldHolds == ASSUME Core, NEW p \in Proc, NEW f \in File, Withheld(p, f) PROVE Core'
<1>1. /\ stage[p][f] = "writing" /\ f \notin Bad /\ Sets(p, f, "none") /\ missed' = missed \cup {p}
      /\ UNCHANGED <<source, kept, checkpoint, lock, mutex, owner, token, loaded, job, call, at,
                     expected, calls, status, pass, open, ahead, ended, verifying, unseen, found,
                     receipt, inDb>>
  BY ImportAssumption
  DEF Withheld, sourceVars, lockVars, jobVars, callVars, verifyVars, dbVars
<1> QED BY <1>1, FileMoves DEF Stages

\* A write is rejected.
LEMMA RejectedHolds == ASSUME Core, NEW p \in Proc, NEW f \in File, Rejected(p, f) PROVE Core'
<1>1. /\ stage[p][f] = "writing" /\ f \in Bad /\ Sets(p, f, "bad")
      /\ UNCHANGED <<source, kept, checkpoint, lock, mutex, owner, token, loaded, job, call, at,
                     expected, calls, status, pass, open, ahead, missed, ended, verifying, unseen,
                     found, receipt, inDb>>
  BY DEF Rejected, sourceVars, lockVars, jobVars, callVars, scanVars, verifyVars, dbVars
<1>2. f \in source
  BY <1>1 DEF Core, FileOK, FileAt
<1> QED BY <1>1, <1>2, FileMoves DEF Stages

\* A written file goes.
LEMMA UnlinkHolds == ASSUME Core, NEW p \in Proc, NEW f \in File, Unlink(p, f) PROVE Core'
<1>1. /\ stage[p][f] = "written" /\ source' = source \ {f} /\ Sets(p, f, "unlinked")
      /\ UNCHANGED <<kept, checkpoint, lock, mutex, owner, token, loaded, job, call, at, expected,
                     calls, status, pass, open, ahead, missed, ended, verifying, unseen, found,
                     receipt, inDb>>
  BY DEF Unlink, lockVars, jobVars, callVars, scanVars, verifyVars, dbVars
<1>2. f \in inDb \ Bad
  BY <1>1 DEF Core, FileOK, FileAt
<1> QED BY <1>1, <1>2, FileMoves DEF Stages

\* It is not unlinked.
LEMMA UnlinkFailsHolds == ASSUME Core, NEW p \in Proc, NEW f \in File, UnlinkFails(p, f) PROVE Core'
<1>1. /\ stage[p][f] = "written" /\ Sets(p, f, "none") /\ missed' = missed \cup {p}
      /\ UNCHANGED <<source, kept, checkpoint, lock, mutex, owner, token, loaded, job, call, at,
                     expected, calls, status, pass, open, ahead, ended, verifying, unseen, found,
                     receipt, inDb>>
  BY DEF UnlinkFails, sourceVars, lockVars, jobVars, callVars, verifyVars, dbVars
<1> QED BY <1>1, FileMoves DEF Stages

\* The receipt is dropped.
LEMMA AcknowledgeHolds == ASSUME Core, NEW p \in Proc, NEW f \in File, Acknowledge(p, f) PROVE Core'
<1>1. /\ stage[p][f] = "unlinked" /\ Sets(p, f, "none") /\ receipt' = receipt \ {<<p, f>>}
      /\ UNCHANGED <<source, kept, checkpoint, lock, mutex, owner, token, loaded, job, call, at,
                     expected, calls, status, pass, open, ahead, missed, ended, verifying, unseen,
                     found, inDb>>
  BY DEF Acknowledge, sourceVars, lockVars, jobVars, callVars, scanVars, verifyVars
<1> QED BY <1>1, FileMoves DEF Stages

\* It stays.
LEMMA AcknowledgeFailsHolds ==
  ASSUME Core, NEW p \in Proc, NEW f \in File, AcknowledgeFails(p, f) PROVE Core'
<1>1. /\ stage[p][f] = "unlinked" /\ Sets(p, f, "none") /\ missed' = missed \cup {p}
      /\ UNCHANGED <<source, kept, checkpoint, lock, mutex, owner, token, loaded, job, call, at,
                     expected, calls, status, pass, open, ahead, ended, verifying, unseen, found,
                     receipt, inDb>>
  BY DEF AcknowledgeFails, sourceVars, lockVars, jobVars, callVars, verifyVars, dbVars
<1> QED BY <1>1, FileMoves DEF Stages

\* A rejected file moves into quarantine.
LEMMA PreserveHolds == ASSUME Core, NEW p \in Proc, NEW f \in File, Preserve(p, f) PROVE Core'
<1>1. /\ stage[p][f] = "bad" /\ Sets(p, f, "none")
      /\ source' = source \ {f} /\ kept' = kept \cup {f}
      /\ job' = [job EXCEPT ![p].quarantined = TRUE]
      /\ UNCHANGED <<checkpoint, lock, mutex, owner, token, loaded, call, at, expected, calls,
                     status, pass, open, ahead, missed, ended, verifying, unseen, found, receipt,
                     inDb>>
  BY DEF Preserve, Quarantine, lockVars, callVars, scanVars, verifyVars, dbVars
<1>2. f \in Bad
  BY <1>1 DEF Core, FileOK, FileAt
<1> QED BY <1>1, <1>2, FileMoves DEF Stages

\* It stays, with or without a description in quarantine.
LEMMA PreserveFailsHolds == ASSUME Core, NEW p \in Proc, NEW f \in File, PreserveFails(p, f) PROVE Core'
<1>1. /\ stage[p][f] = "bad" /\ Sets(p, f, "none") /\ missed' = missed \cup {p}
      /\ kept' \in {kept, kept \cup {f}}
      /\ UNCHANGED <<source, checkpoint, lock, mutex, owner, token, loaded, job, call, at, expected,
                     calls, status, pass, open, ahead, ended, verifying, unseen, found, receipt,
                     inDb>>
  BY DEF PreserveFails, lockVars, jobVars, callVars, verifyVars, dbVars
<1>2. f \in Bad
  BY <1>1 DEF Core, FileOK, FileAt
<1> QED BY <1>1, <1>2, FileMoves DEF Stages

\* A file is handed over if a worker is free.
LEMMA AdmitHolds == ASSUME Core, NEW p \in Proc, NEW f \in File, Admit(p, f) PROVE Core'
<1>1. /\ pass[p] = "write" /\ stage[p][f] = "selected" /\ Cardinality(InHand(p)) < Concurrency
      /\ Sets(p, f, "writing")
      /\ UNCHANGED <<source, kept, checkpoint, lock, mutex, owner, token, loaded, job, call, at,
                     expected, calls, status, pass, open, ahead, missed, ended, verifying, unseen,
                     found, receipt, inDb>>
  BY DEF Admit, sourceVars, lockVars, jobVars, callVars, scanVars, verifyVars, dbVars
<1>2. /\ stage' \in [Proc -> [File -> Stages]] /\ stage'[p][f] = "writing"
      /\ \A h \in File \ {f} : stage'[p][h] = stage[p][h]
      /\ \A x \in Proc \ {p} : stage'[x] = stage[x]
  BY <1>1 DEF Core, PassOK, PassTypes, Sets, Stages
<1>3. PassAt(p)'
  <2>1. Selected(p)' = Selected(p) /\ InHand(p)' = InHand(p) \cup {f}
    BY <1>1, <1>2 DEF Selected, InHand
  <2>2. InHand(p) \in SUBSET File /\ f \notin InHand(p)
    BY <1>1 DEF InHand
  <2>3. IsFiniteSet(InHand(p)) /\ Cardinality(InHand(p)) \in Nat
    BY <2>2, ImportAssumption, FS_Subset, FS_CardinalityType
  <2>4. Cardinality(InHand(p)') = Cardinality(InHand(p)) + 1
    BY <2>1, <2>2, <2>3, FS_AddElement
  <2>5. Cardinality(InHand(p)') <= Concurrency
    BY <1>1, <2>3, <2>4, ImportAssumption
  <2>6. PassAt(p)
    BY DEF Core, PassOK
  <2> QED BY <1>1, <2>1, <2>5, <2>6 DEF PassAt
<1>4. p \in token \cap loaded /\ job[p] \in Job /\ job[p] # NoJob
  BY <1>1, PassAlone, NoJobAssumption
<1>5. FileAt(p)'
  BY <1>1, <1>2 DEF Core, FileOK, FileAt
<1>6. PassTypes' /\ SourceOK' /\ JobOK'
  BY <1>1, <1>2 DEF Core, PassOK, PassTypes, SourceOK, JobOK
<1>7. Completed' => source' = {} /\ kept' = {}
  BY <1>1 DEF Core, FileOK, Completed, State
<1> QED BY <1>1, <1>2, <1>3, <1>4, <1>5, <1>6, <1>7, PassHolds DEF State

\* The scan selects an event file, or moves what is none into quarantine.
LEMMA ScanHolds == ASSUME Core, NEW p \in Proc, NEW f \in File, Scan(p, f) PROVE Core'
<1>1. /\ pass[p] = "scan" /\ f \in ahead[p] \cap source /\ Cardinality(Selected(p)) < BatchSize
      /\ ahead' = [ahead EXCEPT ![p] = @ \ {f}]
      /\ \/ /\ f \in Bad /\ source' = source \ {f} /\ kept' = kept \cup {f}
            /\ job' = [job EXCEPT ![p].quarantined = TRUE] /\ stage' = stage
         \/ Sets(p, f, "selected") /\ UNCHANGED <<source, kept, job>>
      /\ UNCHANGED <<checkpoint, lock, mutex, owner, token, loaded, call, at, expected, calls,
                     status, pass, open, missed, ended, verifying, unseen, found, receipt, inDb>>
  BY DEF Scan, Quarantine, sourceVars, lockVars, callVars, verifyVars, dbVars
<1>2. /\ ahead' \in [Proc -> SUBSET File] /\ ahead'[p] = ahead[p] \ {f}
      /\ \A x \in Proc \ {p} : ahead'[x] = ahead[x]
  BY <1>1 DEF Core, PassOK, PassTypes
<1>3. p \in token \cap loaded /\ job[p] \in Job /\ job[p] # NoJob /\ ~Completed
  BY <1>1, PassAlone, NoJobAssumption DEF Core, FileOK
<1>4. stage[p][f] = "none"
  BY <1>1 DEF Core, FileOK, FileAt
<1>5. CASE /\ f \in Bad /\ source' = source \ {f} /\ kept' = kept \cup {f}
           /\ job' = [job EXCEPT ![p].quarantined = TRUE] /\ stage' = stage
  <2>1. /\ job' \in [Proc -> Job \cup {NoJob}] /\ job'[p] # NoJob
        /\ State(p)' = State(p) /\ \A x \in Proc \ {p} : job'[x] = job[x]
    BY <1>3, <1>5, JobNoted DEF Core
  <2>2. PassTypes' /\ SourceOK' /\ JobOK'
    BY <1>1, <1>2, <1>5, <2>1 DEF Core, PassOK, PassTypes, SourceOK, JobOK
  <2>3. FileAt(p)'
    <3>1. ASSUME NEW h \in File, stage[p][h] # "none" PROVE h # f
      BY <1>4, <3>1
    <3> QED BY <1>1, <1>2, <1>5, <3>1 DEF Core, FileOK, FileAt
  <2>4. PassAt(p)'
    BY <1>1, <1>5, StageKept
  <2>5. ~Completed'
    BY <1>1, <1>3, <2>1, CompletedFrame DEF Core, State
  <2> QED BY <1>1, <1>2, <1>5, <2>1, <2>2, <2>3, <2>4, <2>5, PassHolds
<1>6. CASE Sets(p, f, "selected") /\ UNCHANGED <<source, kept, job>>
  <2>1. /\ stage' \in [Proc -> [File -> Stages]] /\ stage'[p][f] = "selected"
        /\ \A h \in File \ {f} : stage'[p][h] = stage[p][h]
        /\ \A x \in Proc \ {p} : stage'[x] = stage[x]
    BY <1>6 DEF Core, PassOK, PassTypes, Sets, Stages
  <2>2. PassAt(p)'
    <3>1. Selected(p)' = Selected(p) \cup {f} /\ InHand(p)' = InHand(p)
      BY <1>4, <2>1 DEF Selected, InHand
    <3>2. Selected(p) \in SUBSET File /\ f \notin Selected(p)
      BY <1>4 DEF Selected
    <3>3. IsFiniteSet(Selected(p)) /\ Cardinality(Selected(p)) \in Nat
      BY <3>2, ImportAssumption, FS_Subset, FS_CardinalityType
    <3>4. Cardinality(Selected(p)') = Cardinality(Selected(p)) + 1
      BY <3>1, <3>2, <3>3, FS_AddElement
    <3>5. Cardinality(Selected(p)') <= BatchSize
      BY <1>1, <3>3, <3>4, ImportAssumption
    <3>6. PassAt(p)
      BY DEF Core, PassOK
    <3> QED BY <1>1, <3>1, <3>5, <3>6 DEF PassAt
  <2>3. PassTypes' /\ SourceOK' /\ JobOK'
    BY <1>1, <1>2, <1>6, <2>1 DEF Core, PassOK, PassTypes, SourceOK, JobOK
  <2>4. FileAt(p)'
    BY <1>1, <1>2, <1>6, <2>1 DEF Core, FileOK, FileAt
  <2>5. ~Completed' /\ State(p)' = State(p)
    BY <1>1, <1>3, <1>6 DEF Completed, State
  <2> QED BY <1>1, <1>2, <1>3, <1>6, <2>1, <2>2, <2>3, <2>4, <2>5, PassHolds
<1> QED BY <1>1, <1>5, <1>6

\* A pass goes on to another phase, and jobs and files are as before.
LEMMA PhaseHolds ==
  ASSUME Core, NEW p \in Proc, NEW s \in Phases, PassGoes(p, s), pass[p] \notin {"idle", "rmdir"},
         UNCHANGED <<source, kept, checkpoint, lock, mutex, owner, token, loaded, job, call, at,
                     expected, calls, status, stage, receipt, inDb>>,
         s \notin {"rmdir", "unlock", "idle"}, s = "write" \/ Selected(p) = {},
         open' \subseteq Proc, missed' \subseteq Proc, ended' \subseteq Proc,
         ahead' = ahead \/ ahead' = [ahead EXCEPT ![p] = {}],
         verifying' \in {verifying \cup {p}, verifying \ {p}, verifying},
         NEW S \in SUBSET File, unseen' \in {unseen, [unseen EXCEPT ![p] = S]},
         found' \in {found \cup {p}, found},
         p \in verifying' /\ p \notin found' => source \subseteq unseen'[p],
         s = "verify" => p \in verifying',
         s = "judge" => p \notin verifying' /\ (p \notin found' => source = {})
  PROVE  Core'
<1>1. pass' \in [Proc -> Phases] /\ pass'[p] = s /\ \A x \in Proc \ {p} : pass'[x] = pass[x]
  BY DEF Core, PassOK, PassTypes, PassGoes
<1>2. /\ ahead' \in [Proc -> SUBSET File] /\ ahead'[p] \subseteq ahead[p]
      /\ \A x \in Proc \ {p} : ahead'[x] = ahead[x]
  BY DEF Core, PassOK, PassTypes
<1>3. unseen' \in [Proc -> SUBSET File] /\ \A x \in Proc \ {p} : unseen'[x] = unseen[x]
  BY DEF Core, PassOK, PassTypes
<1>4. verifying' \subseteq Proc /\ found' \subseteq Proc
  BY DEF Core, PassOK, PassTypes
<1>5. PassTypes' /\ SourceOK' /\ JobOK'
  BY <1>1, <1>2, <1>3, <1>4 DEF Core, PassOK, PassTypes, SourceOK, JobOK
<1>6. PassAt(p)'
  BY <1>1, StageKept
<1>7. FileAt(p)'
  BY <1>1, <1>2 DEF Core, FileOK, FileAt
<1>8. (Completed' => source' = {} /\ kept' = {}) /\ State(p)' = State(p)
  BY DEF Core, FileOK, Completed, State
<1>9. job[p] # NoJob
  BY PassAlone, NoJobAssumption
<1> QED BY <1>1, <1>2, <1>3, <1>5, <1>6, <1>7, <1>8, <1>9, PassHolds

\* The scan stops.
LEMMA ScanBreaksHolds == ASSUME Core, NEW p \in Proc, ScanBreaks(p) PROVE Core'
<1>1. /\ pass[p] = "scan" /\ PassGoes(p, "write")
      /\ UNCHANGED <<source, kept, checkpoint, lock, mutex, owner, token, loaded, job, call, at,
                     expected, calls, status, stage, open, ahead, missed, ended, verifying, unseen,
                     found, receipt, inDb>>
  BY DEF ScanBreaks, sourceVars, lockVars, jobVars, callVars, scanVars, verifyVars, dbVars
<1>2. /\ open' \subseteq Proc /\ missed' \subseteq Proc /\ ended' \subseteq Proc
      /\ (p \in verifying /\ p \notin found => source \subseteq unseen[p])
  BY <1>1 DEF Core, PassOK, PassTypes, FileOK, FileAt
<1> QED BY <1>1, <1>2, PhaseHolds DEF Phases

\* The scan reaches the end of the directory.
LEMMA ScanEndsHolds == ASSUME Core, NEW p \in Proc, ScanEnds(p) PROVE Core'
<1>1. /\ pass[p] = "scan" /\ PassGoes(p, "write")
      /\ ended' = ended \cup {p} /\ open' = open \ {p} /\ ahead' = [ahead EXCEPT ![p] = {}]
      /\ UNCHANGED <<source, kept, checkpoint, lock, mutex, owner, token, loaded, job, call, at,
                     expected, calls, status, stage, missed, verifying, unseen, found, receipt, inDb>>
  BY DEF ScanEnds, sourceVars, lockVars, jobVars, callVars, verifyVars, dbVars
<1>2. /\ open' \subseteq Proc /\ missed' \subseteq Proc /\ ended' \subseteq Proc
      /\ (p \in verifying /\ p \notin found => source \subseteq unseen[p])
  BY <1>1 DEF Core, PassOK, PassTypes, FileOK, FileAt
<1> QED BY <1>1, <1>2, PhaseHolds DEF Phases

\* The sweep is over, or the pass.
LEMMA SweptHolds == ASSUME Core, NEW p \in Proc, Swept(p) PROVE Core'
<1>1. /\ pass[p] = "write" /\ Selected(p) = {} /\ missed' \in {missed, missed \ {p}}
      /\ \/ /\ PassGoes(p, "verify") /\ verifying' = verifying \cup {p}
            /\ unseen' = [unseen EXCEPT ![p] = source]
         \/ PassGoes(p, "finish") /\ UNCHANGED <<verifying, unseen>>
      /\ UNCHANGED <<source, kept, checkpoint, lock, mutex, owner, token, loaded, job, call, at,
                     expected, calls, status, stage, open, ahead, ended, found, receipt, inDb>>
  BY DEF Swept, sourceVars, lockVars, jobVars, callVars, dbVars
<1>2. /\ open' \subseteq Proc /\ missed' \subseteq Proc /\ ended' \subseteq Proc
      /\ source \in SUBSET File /\ (p \in verifying /\ p \notin found => source \subseteq unseen[p])
  BY <1>1 DEF Core, SourceOK, PassOK, PassTypes, FileOK, FileAt
<1>3. CASE /\ PassGoes(p, "verify") /\ verifying' = verifying \cup {p}
           /\ unseen' = [unseen EXCEPT ![p] = source]
  <2>1. unseen'[p] = source
    BY <1>3 DEF Core, PassOK, PassTypes
  <2> QED BY <1>1, <1>2, <1>3, <2>1, PhaseHolds DEF Phases
<1>4. CASE PassGoes(p, "finish") /\ UNCHANGED <<verifying, unseen>>
  BY <1>1, <1>2, <1>4, PhaseHolds DEF Phases
<1> QED BY <1>1, <1>3, <1>4

\* All entries are visited.
LEMMA VerifyHolds == ASSUME Core, NEW p \in Proc, Verify(p) PROVE Core'
<1>1. /\ pass[p] = "verify" /\ found' = (IF unseen[p] = {} THEN found ELSE found \cup {p})
      /\ unseen' = [unseen EXCEPT ![p] = {}] /\ PassGoes(p, "judge") /\ verifying' = verifying \ {p}
      /\ UNCHANGED <<source, kept, checkpoint, lock, mutex, owner, token, loaded, job, call, at,
                     expected, calls, status, stage, open, ahead, missed, ended, receipt, inDb>>
  BY DEF Verify, sourceVars, lockVars, jobVars, callVars, scanVars, dbVars
<1>2. /\ open' \subseteq Proc /\ missed' \subseteq Proc /\ ended' \subseteq Proc /\ Selected(p) = {}
      /\ p \in verifying /\ (p \notin found => source \subseteq unseen[p])
  BY <1>1 DEF Core, PassOK, PassTypes, PassAt, FileOK, FileAt
<1>3. p \notin found' => source = {}
  BY <1>1, <1>2
<1> QED BY <1>1, <1>2, <1>3, PhaseHolds DEF Phases

\* The verification stops on its way, and is remembered.
LEMMA VerifyBreaksHolds == ASSUME Core, NEW p \in Proc, VerifyBreaks(p) PROVE Core'
<1>1. /\ pass[p] = "verify" /\ PassGoes(p, "finish")
      /\ UNCHANGED <<source, kept, checkpoint, lock, mutex, owner, token, loaded, job, call, at,
                     expected, calls, status, stage, open, ahead, missed, ended, verifying, receipt,
                     inDb>>
  BY DEF VerifyBreaks, sourceVars, lockVars, jobVars, callVars, scanVars, dbVars
<1>2. PICK S \in SUBSET unseen[p] :
        /\ unseen' = [unseen EXCEPT ![p] = @ \ S]
        /\ found' = IF S = {} THEN found ELSE found \cup {p}
  BY DEF VerifyBreaks
<1>3. /\ open' \subseteq Proc /\ missed' \subseteq Proc /\ ended' \subseteq Proc /\ Selected(p) = {}
      /\ (p \in verifying /\ p \notin found => source \subseteq unseen[p])
      /\ unseen[p] \ S \in SUBSET File /\ unseen'[p] = unseen[p] \ S
  BY <1>1, <1>2 DEF Core, PassOK, PassTypes, PassAt, FileOK, FileAt
<1>4. p \in verifying' /\ p \notin found' => source \subseteq unseen'[p]
  BY <1>1, <1>2, <1>3
<1>5. unseen' = [unseen EXCEPT ![p] = unseen[p] \ S] /\ found' \in {found \cup {p}, found}
  BY <1>2
<1> QED BY <1>1, <1>3, <1>4, <1>5, PhaseHolds DEF Phases

\* The pass ends with a checkpoint.
LEMMA FinishHolds == ASSUME Core, NEW p \in Proc, Finish(p) PROVE Core'
<1>1. /\ pass[p] = "finish" /\ PassGoes(p, "save")
      /\ UNCHANGED <<source, kept, checkpoint, lock, mutex, owner, token, loaded, job, call, at,
                     expected, calls, status, stage, open, ahead, missed, ended, verifying, unseen,
                     found, receipt, inDb>>
  BY DEF Finish, sourceVars, lockVars, jobVars, callVars, scanVars, verifyVars, dbVars
<1>2. /\ open' \subseteq Proc /\ missed' \subseteq Proc /\ ended' \subseteq Proc /\ Selected(p) = {}
      /\ (p \in verifying /\ p \notin found => source \subseteq unseen[p])
  BY <1>1 DEF Core, PassOK, PassTypes, PassAt, FileOK, FileAt
<1> QED BY <1>1, <1>2, PhaseHolds DEF Phases

\* A verification has found something, or nothing.
LEMMA JudgedHolds == ASSUME Core, NEW p \in Proc, Judged(p) PROVE Core'
<1>1. /\ pass[p] = "judge" /\ PassGoes(p, "finish") /\ found' = found \ {p}
      /\ UNCHANGED <<source, kept, checkpoint, lock, mutex, owner, token, loaded, call, at,
                     expected, calls, status, stage, ahead, missed, ended, verifying, unseen,
                     receipt, inDb>>
  BY DEF Judged, sourceVars, lockVars, callVars, dbVars
<1>2. /\ Selected(p) = {} /\ p \notin verifying /\ (p \notin found => source = {})
      /\ p \in token \cap loaded /\ job[p] \in Job /\ job[p] # NoJob
  BY <1>1, PassAlone, NoJobAssumption DEF Core, PassOK, PassAt, FileOK, FileAt
<1>3. pass' \in [Proc -> Phases] /\ pass'[p] = "finish" /\ \A x \in Proc \ {p} : pass'[x] = pass[x]
  BY <1>1 DEF Core, PassOK, PassTypes, PassGoes, Phases
<1>4. PassAt(p)' /\ FileAt(p)'
  BY <1>1, <1>2, <1>3, StageKept DEF Core, FileOK, FileAt
<1>5. CASE p \in found
  <2>1. open' = open \ {p} /\ job' = job
    BY <1>5 DEF Judged
  <2>2. PassTypes' /\ SourceOK' /\ JobOK'
    BY <1>1, <1>3, <2>1 DEF Core, PassOK, PassTypes, SourceOK, JobOK
  <2>3. (Completed' => source' = {} /\ kept' = {}) /\ State(p)' = State(p)
    BY <1>1, <2>1 DEF Core, FileOK, Completed, State
  <2> QED BY <1>1, <1>2, <1>3, <1>4, <2>1, <2>2, <2>3, PassHolds
<1>6. CASE p \notin found
  <2>1. PICK s \in {"blocked", "completed"} :
          job' = [job EXCEPT ![p].state = s] /\ (s = "completed" => kept = {})
    <3> DEFINE s == IF kept # {} \/ job[p].quarantined THEN "blocked" ELSE "completed"
    <3>1. job' = [job EXCEPT ![p].state = s]
      BY <1>6 DEF Judged
    <3>2. s \in {"blocked", "completed"} /\ (s = "completed" => kept = {})
      OBVIOUS
    <3> QED BY <3>1, <3>2
  <2>2. open' = open
    BY <1>6 DEF Judged
  <2>3. /\ job' \in [Proc -> Job \cup {NoJob}] /\ job'[p] # NoJob
        /\ State(p)' = s /\ \A x \in Proc \ {p} : job'[x] = job[x]
    BY <1>2, <2>1, JobState DEF Core
  <2>4. PassTypes' /\ SourceOK' /\ JobOK'
    BY <1>1, <1>3, <2>2, <2>3 DEF Core, PassOK, PassTypes, SourceOK, JobOK
  <2>5. Completed' => source' = {} /\ kept' = {}
    <3>1. CASE s = "completed"
      BY <1>1, <1>2, <1>6, <2>1, <3>1
    <3>2. CASE s = "blocked"
      <4>1. Completed' => Completed
        BY <1>1, <2>3, <3>2, CompletedFrame DEF Core, State
      <4> QED BY <1>1, <4>1 DEF Core, FileOK
    <3> QED BY <3>1, <3>2
  <2> QED BY <1>1, <1>2, <1>3, <1>4, <2>3, <2>4, <2>5, PassHolds
<1> QED BY <1>5, <1>6

\* The job is recorded at the end of a pass.
LEMMA SavePassHolds == ASSUME Core, NEW p \in Proc, SavePass(p) PROVE Core'
<1>1. /\ pass[p] = "save" /\ checkpoint' = job[p]
      /\ PassGoes(p, IF State(p) = "completed" THEN "unlock" ELSE "idle")
      /\ UNCHANGED <<source, kept, lock, mutex, owner, token, loaded, job, call, at, expected,
                     calls, status, stage, open, ahead, missed, ended, verifying, unseen, found,
                     receipt, inDb>>
  BY DEF SavePass, sourceVars, lockVars, jobVars, callVars, scanVars, verifyVars, dbVars
<1>2. /\ Selected(p) = {} /\ p \in token \cap loaded /\ job[p] \in Job /\ job[p] # NoJob
  BY <1>1, PassAlone, NoJobAssumption DEF Core, PassOK, PassAt
<1>3. /\ pass' \in [Proc -> Phases] /\ pass'[p] = (IF State(p) = "completed" THEN "unlock" ELSE "idle")
      /\ \A x \in Proc \ {p} : pass'[x] = pass[x]
  BY <1>1 DEF Core, PassOK, PassTypes, PassGoes, Phases
<1>4. PassAt(p)' /\ FileAt(p)'
  BY <1>1, <1>2, <1>3, StageKept DEF Core, FileOK, FileAt
<1>5. PassTypes' /\ SourceOK' /\ JobOK'
  BY <1>1, <1>2, <1>3 DEF Core, PassOK, PassTypes, SourceOK, JobOK
<1>6. (Completed' => source' = {} /\ kept' = {}) /\ State(p)' = State(p)
  BY <1>1, <1>2 DEF Core, FileOK, Completed, State
<1> QED BY <1>1, <1>2, <1>3, <1>4, <1>5, <1>6, PassHolds

\* A pass that fails selects nothing, and what runs is blocked.
LEMMA PassFailsHolds == ASSUME Core, NEW p \in Proc, PassFails(p) PROVE Core'
<1>1. /\ pass[p] \in {"scan", "write", "verify", "judge", "finish", "save", "unlock"}
      /\ PassGoes(p, "idle") /\ stage' = [stage EXCEPT ![p] = [f \in File |-> "none"]]
      /\ open' \in {open, open \ {p}} /\ (ahead' = ahead \/ ahead' = [ahead EXCEPT ![p] = {}])
      /\ job' = IF State(p) = "running" THEN [job EXCEPT ![p].state = "blocked"] ELSE job
      /\ checkpoint' = checkpoint \/ (State(p) = "running" /\ checkpoint' = job'[p])
      /\ UNCHANGED <<source, lock, mutex, owner, token, loaded, call, at, expected, calls, status,
                     missed, ended, verifying, unseen, found, receipt, inDb>>
  BY DEF PassFails, lockVars, callVars, verifyVars, dbVars
<1>2. kept' = kept \/ (source # {} /\ kept' \subseteq Bad)
  <2>1. kept' \in {kept} \cup
          (IF pass[p] = "scan" THEN {kept \cup {f} : f \in ahead[p] \cap source \cap Bad} ELSE {})
    BY DEF PassFails
  <2>2. CASE kept' \in {kept \cup {f} : f \in ahead[p] \cap source \cap Bad}
    BY <2>2 DEF Core, SourceOK
  <2> QED BY <2>1, <2>2
<1>3. p \in token \cap loaded /\ job[p] \in Job /\ job[p] # NoJob
  BY <1>1, PassAlone, NoJobAssumption
<1>4. pass' \in [Proc -> Phases] /\ pass'[p] = "idle" /\ \A x \in Proc \ {p} : pass'[x] = pass[x]
  BY <1>1 DEF Core, PassOK, PassTypes, PassGoes, Phases
<1>5. /\ stage' \in [Proc -> [File -> Stages]] /\ \A h \in File : stage'[p][h] = "none"
      /\ \A x \in Proc \ {p} : stage'[x] = stage[x]
  BY <1>1 DEF Core, PassOK, PassTypes, Stages
<1>6. ahead' \in [Proc -> SUBSET File] /\ \A x \in Proc \ {p} : ahead'[x] = ahead[x]
  BY <1>1 DEF Core, PassOK, PassTypes
<1>7. /\ job' \in [Proc -> Job \cup {NoJob}] /\ job'[p] # NoJob /\ job'[p] \in Job
      /\ \A x \in Proc \ {p} : job'[x] = job[x]
      /\ State(p)' = (IF State(p) = "running" THEN "blocked" ELSE State(p))
  <2>1. CASE State(p) = "running"
    <3>1. job' = [job EXCEPT ![p].state = "blocked"]
      BY <1>1, <2>1
    <3> QED BY <1>3, <2>1, <3>1, JobState DEF Core
  <2>2. CASE State(p) # "running"
    <3>1. job' = job
      BY <1>1, <2>2
    <3> QED BY <1>3, <2>2, <3>1 DEF Core, JobOK, State
  <2> QED BY <2>1, <2>2
<1>8. JobOK' /\ SourceOK'
  BY <1>1, <1>2, <1>7 DEF Core, JobOK, SourceOK
<1>9. PassTypes' /\ PassAt(p)'
  <2>1. PassTypes'
    BY <1>1, <1>4, <1>5, <1>6 DEF Core, PassOK, PassTypes
  <2> QED BY <1>5, <2>1, NothingSelected
<1>10. FileAt(p)'
  BY <1>1, <1>4, <1>5 DEF Core, FileOK, FileAt
<1>11. Completed' => source' = {} /\ kept' = {}
  <2>1. Completed' => Completed
    <3>1. CASE checkpoint' = checkpoint
      BY <1>7, <3>1, CompletedFrame DEF Core, State
    <3>2. CASE State(p) = "running" /\ checkpoint' = job'[p]
      BY <1>7, <3>2 DEF Completed, State
    <3> QED BY <1>1, <3>1, <3>2
  <2> QED BY <1>1, <1>2, <2>1 DEF Core, FileOK
<1> QED BY <1>1, <1>4, <1>5, <1>6, <1>7, <1>8, <1>9, <1>10, <1>11, PassHolds

\* A step that begins or ends a pass, or releases the claim behind it.
LEMMA ReleaseHolds ==
  ASSUME Core, NEW p \in Proc, NEW s \in {"rmdir", "idle"}, PassGoes(p, s),
         pass[p] \in {"unlock", "rmdir"},
         UNCHANGED <<source, kept, checkpoint, loaded, job, call, at, expected, calls, status,
                     stage, open, ahead, missed, ended, verifying, unseen, found, receipt, inDb>>,
         token' \subseteq token, LockOK', OwnOK'
  PROVE  Core'
<1>1. pass' \in [Proc -> Phases] /\ pass'[p] = s /\ \A x \in Proc \ {p} : pass'[x] = pass[x]
  BY DEF Core, PassOK, PassTypes, PassGoes, Phases
<1>2. CallOK' /\ JobOK' /\ SourceOK' /\ PassTypes'
  BY <1>1 DEF Core, CallOK, JobOK, SourceOK, PassOK, PassTypes
<1>3. ASSUME NEW x \in Proc PROVE PassAt(x)'
  <2>1. PassAt(x) /\ stage'[x] = stage[x]
    BY DEF Core, PassOK
  <2> QED BY <1>1, <2>1, SameStage DEF PassAt
<1>4. FileOK'
  <2>1. ASSUME NEW x \in Proc PROVE FileAt(x)'
    BY <1>1 DEF Core, FileOK, FileAt
  <2>2. Completed' => source' = {} /\ kept' = {}
    BY DEF Core, FileOK, Completed, State
  <2> QED BY <2>1, <2>2 DEF FileOK
<1> QED BY <1>2, <1>3, <1>4 DEF Core, PassOK

\* The claim of a completed import is released: first owner.json,
LEMMA UnlockPassHolds == ASSUME Core, NEW p \in Proc, UnlockPass(p) PROVE Core'
<1>1. /\ pass[p] = "unlock" /\ Owns(p) /\ owner' = NoOwner /\ PassGoes(p, "rmdir")
      /\ UNCHANGED <<source, kept, checkpoint, lock, mutex, token, loaded, job, call, at, expected,
                     calls, status, stage, open, ahead, missed, ended, verifying, unseen, found,
                     receipt, inDb>>
  BY DEF UnlockPass, sourceVars, jobVars, callVars, scanVars, verifyVars, dbVars
<1>2. pass'[p] = "rmdir" /\ \A x \in Proc \ {p} : pass'[x] = pass[x]
  BY <1>1 DEF Core, PassOK, PassTypes, PassGoes
<1>3. /\ owner = p /\ p \in token \cap loaded /\ p # NoOwner
      /\ State(p) # "running" /\ status[p] # "dead" /\ job[p] # NoJob
      /\ (call[p] # "pause" => at[p] \in {"none", "wait"})
  BY <1>1, ImportAssumption DEF Core, OwnOK, OwnAt, Owns
<1>4. /\ lock /\ Alive(owner)
      /\ \A x \in Proc : at[x] \notin Between /\ pass[x] # "rmdir" /\ at[x] # "takeover"
  BY <1>3 DEF Core, LockOK, CallOK, Alive
<1>5. LockOK'
  <2>1. \A x \in Proc : pass'[x] = "rmdir" => x = p
    BY <1>2, <1>4
  <2> QED BY <1>1, <1>4, <2>1 DEF Core, LockOK
<1>6. OwnOK'
  <2> SUFFICES ASSUME NEW x \in Proc PROVE OwnAt(x)'
    BY DEF OwnOK
  <2>1. CASE x = p
    <3>1. at[p] \notin {"unmutex", "claimed"} /\ (call[p] # "pause" => at[p] \in {"none", "wait"})
      BY <1>3 DEF Core, LockOK, Claiming, InMutex
    <3>2. ~Relies(p)' /\ State(p)' # "running"
      BY <1>1, <1>2, <1>3, <3>1 DEF Relies, State
    <3>3. OwnAt(p)
      BY DEF Core, OwnOK
    <3> QED BY <1>1, <1>2, <1>3, <2>1, <3>1, <3>2, <3>3 DEF OwnAt
  <2>2. CASE x # p
    <3>1. ~Relies(x) /\ at[x] \notin {"unmutex", "claimed"}
      BY <1>3, <2>2 DEF Core, OwnOK, OwnAt, Owns
    <3>2. ~Relies(x)'
      BY <1>1, <1>2, <2>2, <3>1 DEF Relies, State
    <3> QED BY <1>1, <1>2, <2>2, <3>1, <3>2 DEF Core, OwnOK, OwnAt, State
  <2> QED BY <2>1, <2>2
<1> QED BY <1>1, <1>5, <1>6, ReleaseHolds

\* then the directory, unless a claimant has put the mutex into it.
LEMMA RmdirPassHolds == ASSUME Core, NEW p \in Proc, RmdirPass(p) PROVE Core'
<1>1. /\ pass[p] = "rmdir" /\ PassGoes(p, "idle")
      /\ (UNCHANGED <<lock, token>> \/ (~mutex /\ lock' = FALSE /\ token' = token \ {p}))
      /\ UNCHANGED <<source, kept, checkpoint, mutex, owner, loaded, job, call, at, expected, calls,
                     status, stage, open, ahead, missed, ended, verifying, unseen, found, receipt,
                     inDb>>
  BY DEF RmdirPass, sourceVars, callVars, scanVars, verifyVars, dbVars
<1>2. pass'[p] = "idle" /\ \A x \in Proc \ {p} : pass'[x] = pass[x]
  BY <1>1 DEF Core, PassOK, PassTypes, PassGoes
<1>3. /\ owner = NoOwner /\ lock /\ \A x \in Proc \ {p} : pass[x] # "rmdir"
      /\ \A x \in Proc : at[x] \notin Between
  BY <1>1 DEF Core, LockOK
<1>4. ~Relies(p) /\ status[p] # "dead"
  BY <1>1, <1>3, NobodyOwns DEF Core, OwnOK, OwnAt
<1>5. LockOK'
  <2>1. CASE UNCHANGED <<lock, token>>
    <3>1. ~Alive(owner) => ~Alive(owner)'
      BY <1>1 DEF Alive
    <3>2. \A x \in Proc : pass'[x] = "rmdir" => pass[x] = "rmdir"
      BY <1>2
    <3>3. \A x \in Proc : at'[x] \in Claiming => x \notin token'
      BY <1>1, <2>1 DEF Core, LockOK
    <3> QED BY <1>1, <2>1, <3>1, <3>2, <3>3, LockFrame DEF Core, lockVars
  <2>2. CASE ~mutex /\ lock' = FALSE /\ token' = token \ {p}
    <3>1. \A x \in Proc : pass'[x] # "rmdir" /\ at[x] \notin InMutex
      BY <1>2, <1>3, <2>2 DEF Core, LockOK
    <3> QED BY <1>1, <1>3, <2>2, <3>1 DEF Core, LockOK, InMutex
  <2> QED BY <1>1, <2>1, <2>2
<1>6. OwnOK'
  <2>1. OwnAt(p)'
    BY <1>1, <1>2, <1>4 DEF Core, OwnOK, OwnAt, Relies, State
  <2>2. \A x \in Proc \ {p} : x \in token' <=> x \in token
    BY <1>1
  <2> QED BY <1>1, <1>2, <2>1, <2>2, OwnFrame DEF Core
<1> QED BY <1>1, <1>5, <1>6, ReleaseHolds

\* A pass begins, with a fresh cursor or the one of the pass before.
LEMMA BeginHolds == ASSUME Core, NEW p \in Proc, Begin(p) PROVE Core'
<1>1. /\ pass[p] = "idle" /\ p \in loaded /\ MayAdmit(p) /\ Owns(p) /\ ended' = ended \ {p}
      /\ UNCHANGED <<source, kept, checkpoint, lock, mutex, owner, token, loaded, job, call, at,
                     expected, calls, status, stage, missed, verifying, unseen, found, receipt, inDb>>
  BY DEF Begin, sourceVars, lockVars, jobVars, callVars, verifyVars, dbVars
<1>2. PICK s \in {"scan", "verify"} : PassGoes(p, s) /\ (s = "verify" => p \in verifying)
  BY DEF Begin
<1>3. /\ open' \in {open, open \cup {p}} /\ ahead' \in {ahead, [ahead EXCEPT ![p] = source]}
  BY DEF Begin
<1>4. pass' \in [Proc -> Phases] /\ pass'[p] = s /\ \A x \in Proc \ {p} : pass'[x] = pass[x]
  BY <1>2 DEF Core, PassOK, PassTypes, PassGoes, Phases
<1>5. ahead' \in [Proc -> SUBSET File] /\ \A x \in Proc \ {p} : ahead'[x] = ahead[x]
  BY <1>3 DEF Core, SourceOK, PassOK, PassTypes
<1>6. /\ Selected(p) = {} /\ \A h \in File : stage[p][h] = "none"
  <2>1. Selected(p) = {}
    BY <1>1 DEF Core, PassOK, PassAt
  <2> QED BY <2>1 DEF Selected
<1>7. CallOK' /\ JobOK' /\ SourceOK' /\ PassTypes'
  BY <1>1, <1>3, <1>4, <1>5 DEF Core, CallOK, JobOK, SourceOK, PassOK, PassTypes
<1>8. ASSUME NEW x \in Proc PROVE PassAt(x)'
  <2>1. PassAt(x) /\ stage'[x] = stage[x]
    BY <1>1 DEF Core, PassOK
  <2> QED BY <1>4, <1>6, <2>1, SameStage DEF PassAt
<1>9. FileOK'
  <2>1. ASSUME NEW x \in Proc PROVE FileAt(x)'
    BY <1>1, <1>2, <1>4, <1>5, <1>6 DEF Core, FileOK, FileAt
  <2>2. Completed' => source' = {} /\ kept' = {}
    BY <1>1 DEF Core, FileOK, Completed, State
  <2> QED BY <2>1, <2>2 DEF FileOK
<1>10. OwnOK'
  <2>1. /\ at[p] = "none" /\ job[p] # NoJob /\ p \in token \cap loaded /\ status[p] = "up"
        /\ State(p) = "running"
    BY <1>1 DEF MayAdmit, Owns, State
  <2>2. OwnAt(p)'
    BY <1>1, <1>4, <2>1 DEF OwnAt, Relies, Owns, State
  <2> QED BY <1>1, <1>4, <2>2, OwnFrame DEF Core
<1>11. LockOK'
  <2>1. ~Alive(owner) => ~Alive(owner)'
    BY <1>1 DEF Alive
  <2>2. \A x \in Proc : pass'[x] = "rmdir" => pass[x] = "rmdir"
    BY <1>4
  <2>3. \A x \in Proc : at'[x] \in Claiming => x \notin token'
    BY <1>1 DEF Core, LockOK
  <2> QED BY <1>1, <2>1, <2>2, <2>3, LockFrame DEF Core, lockVars
<1> QED BY <1>7, <1>8, <1>9, <1>10, <1>11 DEF Core, PassOK

-----------------------------------------------------------------------------
(* The invariant *)

\* Initially, nothing is claimed, or a dead archiver has the claim.
LEMMA InitHolds == ASSUME Init PROVE IInv
<1>1. SourceOK /\ faults \in 0..MaxFaults
  BY ImportAssumption DEF Init, SourceOK
<1>2. JobOK
  <2>1. [state |-> "running", revision |-> 1, quarantined |-> FALSE] \in Job
    BY DEF Job
  <2> QED BY <2>1 DEF Init, JobOK
<1>3. CallOK
  BY ImportAssumption DEF Init, CallOK, Steps
<1>4. PassOK
  <2>1. PassTypes
    BY DEF Init, PassTypes, Phases, Stages
  <2>2. ASSUME NEW x \in Proc PROVE PassAt(x)
    <3>1. Selected(x) = {} /\ InHand(x) = {}
      BY DEF Init, Selected, InHand
    <3>2. Cardinality({}) = 0 /\ 0 <= BatchSize /\ 0 <= Concurrency
      BY FS_EmptySet, ImportAssumption
    <3> QED BY <3>1, <3>2 DEF PassAt
  <2> QED BY <2>1, <2>2 DEF PassOK
<1>5. LockOK
  BY ImportAssumption DEF Init, LockOK, Between, InMutex, Claiming, Alive
<1>6. OwnOK
  BY DEF Init, OwnOK, OwnAt, Relies, State
<1>7. FileOK
  <2>1. ~Completed
    BY NoJobAssumption DEF Init, Completed, State
  <2>2. ASSUME NEW x \in Proc PROVE FileAt(x)
    BY DEF Init, FileAt
  <2> QED BY <2>1, <2>2 DEF FileOK
<1> QED BY <1>1, <1>2, <1>3, <1>4, <1>5, <1>6, <1>7 DEF IInv, Core

\* Nothing changes.
LEMMA StutterHolds == ASSUME Core, UNCHANGED vars PROVE Core'
<1>1. UNCHANGED <<source, kept, checkpoint, lock, mutex, owner, token, loaded, job, call, at,
                  expected, calls, status, pass, stage, open, ahead, missed, ended, verifying,
                  unseen, found, receipt, inDb>>
  BY DEF vars, sourceVars, lockVars, jobVars, callVars, passVars, scanVars, verifyVars, dbVars
<1>2. SourceOK' /\ PassOK' /\ FileOK'
  BY <1>1, FilesFrame DEF Completed, State
<1>3. JobOK' /\ CallOK'
  BY <1>1 DEF Core, JobOK, CallOK
<1>4. LockOK'
  BY <1>1 DEF Core, LockOK, Alive
<1>5. OwnOK'
  BY <1>1 DEF Core, OwnOK, OwnAt, Relies, Owns, State
<1> QED BY <1>2, <1>3, <1>4, <1>5 DEF Core

\* Every step of the importers preserves the invariant.
LEMMA StepHolds == ASSUME IInv, [Next]_vars PROVE IInv'
<1> USE DEF IInv
<1>1. faults' \in 0..MaxFaults
  BY ImportAssumption DEF Next, Calls, Works, Closes, Asks, Fails, vars
<1>2. CASE UNCHANGED vars
  BY <1>1, <1>2, StutterHolds
<1>3. ASSUME NEW p \in Proc, CallStep(p) PROVE Core'
  BY <1>3, EnterHolds, ClaimHolds, OwnHolds, MutexHolds, JudgeHolds, TakeoverHolds, UnmutexHolds,
     ClaimedHolds, ApplyHolds, CheckpointHolds, SaveHolds, UnlockHolds, RmdirHolds
  DEF CallStep, ClaimStep
<1>4. ASSUME NEW p \in Proc, NEW f \in File, FileStep(p, f) PROVE Core'
  BY <1>4, ScanHolds, ReadFailsHolds, AdmitHolds, WrittenHolds, WithheldHolds, RejectedHolds,
     UnlinkHolds, AcknowledgeHolds, PreserveHolds
  DEF FileStep, Skip
<1>5. ASSUME NEW p \in Proc, PassStep(p) PROVE Core'
  BY <1>4, <1>5, BeginHolds, ScanBreaksHolds, ScanEndsHolds, SweptHolds, VerifyHolds,
     VerifyBreaksHolds, JudgedHolds, FinishHolds, SavePassHolds, UnlockPassHolds, RmdirPassHolds
  DEF PassStep, ScanStops, VerifyStops
<1>6. ASSUME NEW p \in Proc, Failure(p) PROVE Core'
  BY <1>6, OwnFailsHolds, TakeoverFailsHolds, LoadFailsHolds, SaveFailsHolds, ScanBreaksHolds,
     VerifyBreaksHolds, PassFailsHolds, ReadFailsHolds, DefersHolds, UnlinkFailsHolds,
     AcknowledgeFailsHolds, PreserveFailsHolds
  DEF Failure
<1>7. ASSUME NEW p \in Proc, Asks(p) PROVE Core'
  BY <1>7, CloseHolds, LoadHolds, DieHolds, CommandHolds DEF Asks
<1>8. CASE Next
  BY <1>1, <1>3, <1>5, <1>6, <1>7, <1>8, CloseSourceHolds DEF Next, Calls, Works, Closes, Fails
<1> QED BY <1>2, <1>8

\* The invariant holds in every reachable state.
LEMMA IInvHolds == Spec => []IInv
BY InitHolds, StepHolds, PTL DEF Spec

-----------------------------------------------------------------------------
(* The properties *)

\* All variables keep their types, a batch and what its workers have in hand stay
\* within their limits, and only a scan and the writes after it have a selection
\* (replayPass(), writePrepared()).
THEOREM ImportTypes == Spec => []TypeOK
<1>1. ASSUME IInv PROVE TypeOK
  BY <1>1 DEF IInv, Core, SourceOK, JobOK, CallOK, PassOK, PassTypes, PassAt, LockOK, TypeOK
<1> QED BY <1>1, IInvHolds, PTL

\* An archiver that works on files of the source, or whose import runs, has its name in
\* owner.json, whoever died, took over or released meanwhile: so there is one at most
\* (claim(), release()).
THEOREM OneAtATime == Spec => []OneImporter
<1>1. ASSUME IInv PROVE OneImporter
  <2> SUFFICES ASSUME NEW p \in Proc, InHand(p) # {} \/ State(p) = "running" PROVE Owns(p)
    BY DEF OneImporter
  <2>1. OwnAt(p)
    BY <1>1 DEF IInv, Core, OwnOK
  <2>2. InHand(p) # {} => pass[p] \in {"scan", "write"}
    BY <1>1, SelectedInPass DEF IInv, InHand
  <2> QED BY <2>1, <2>2 DEF OwnAt, Relies
<1> QED BY <1>1, IInvHolds, PTL

\* An import is completed, or recorded as completed, only over an empty source and an
\* empty quarantine (verifyEmptyPass(), finishPass()).
THEOREM CompletedIsDone == Spec => []CompletedMeansDone
<1>1. ASSUME IInv PROVE CompletedMeansDone
  BY <1>1 DEF IInv, Core, FileOK, Completed, CompletedMeansDone
<1> QED BY <1>1, IInvHolds, PTL

\* Only three steps change the source.
LEMMA SourceChanges ==
  ASSUME Next, source' # source
  PROVE  \E p \in Proc, f \in File : Scan(p, f) \/ Unlink(p, f) \/ Preserve(p, f)
<1>1. PICK p \in Proc : Calls(p) \/ Works(p) \/ Closes(p) \/ Asks(p) \/ Fails(p)
  BY DEF Next
<1>2. ~Calls(p)
  BY DEF Calls, CallStep, ClaimStep, Enter, Claim, Own, Mutex, Judge, Takeover, Unmutex, Claimed, Apply,
         Checkpoint, Save, Unlock, Rmdir, sourceVars
<1>3. ~Closes(p) /\ ~Asks(p)
  BY DEF Closes, CloseSource, Asks, Close, Load, Die, Command, sourceVars
<1>4. ~Fails(p)
  BY DEF Fails, Failure, OwnFails, TakeoverFails, LoadFails, SaveFails, ScanBreaks, VerifyBreaks,
         PassFails, ReadFails, Defers, UnlinkFails, AcknowledgeFails, PreserveFails, sourceVars
<1>5. PICK f \in File : FileStep(p, f)
  BY <1>1, <1>2, <1>3, <1>4
  DEF Works, PassStep, Begin, ScanStops, ScanBreaks, ScanEnds, Swept, Verify, VerifyStops, VerifyBreaks,
      Judged, Finish, SavePass, UnlockPass, RmdirPass, sourceVars
<1>6. Scan(p, f) \/ Unlink(p, f) \/ Preserve(p, f)
  BY <1>5 DEF FileStep, Skip, ReadFails, Admit, Written, Withheld, Rejected, Acknowledge, sourceVars
<1> QED BY <1>6

\* No file leaves the source before its write is confirmed or it has an entry in
\* quarantine (writePrepared(), quarantine()).
THEOREM SourceIsKept == Spec => SourceKept
<1>1. ASSUME IInv, [Next]_vars PROVE source \ source' \subseteq inDb' \cup kept'
  <2>1. CASE source' = source
    BY <2>1
  <2>2. CASE source' # source
    <3>1. Next
      BY <1>1, <2>2 DEF vars, sourceVars
    <3>2. PICK p \in Proc, f \in File : Scan(p, f) \/ Unlink(p, f) \/ Preserve(p, f)
      BY <2>2, <3>1, SourceChanges
    <3>3. CASE Scan(p, f)
      BY <3>3 DEF Scan, Quarantine, sourceVars
    <3>4. CASE Unlink(p, f)
      <4>1. f \in inDb
        BY <1>1, <3>4 DEF Unlink, IInv, Core, FileOK, FileAt
      <4> QED BY <3>4, <4>1 DEF Unlink, dbVars
    <3>5. CASE Preserve(p, f)
      BY <3>5 DEF Preserve, Quarantine
    <3> QED BY <3>2, <3>3, <3>4, <3>5
  <2> QED BY <2>1, <2>2
<1> QED BY <1>1, IInvHolds, PTL DEF Spec, SourceKept

\* Only an acknowledgement drops a receipt.
LEMMA ReceiptChanges ==
  ASSUME Next, NEW p \in Proc, NEW f \in File, <<p, f>> \in receipt \ receipt'
  PROVE  Acknowledge(p, f)
<1>1. PICK x \in Proc : Calls(x) \/ Works(x) \/ Closes(x) \/ Asks(x) \/ Fails(x)
  BY DEF Next
<1>2. ~Calls(x)
  BY DEF Calls, CallStep, ClaimStep, Enter, Claim, Own, Mutex, Judge, Takeover, Unmutex, Claimed, Apply,
         Checkpoint, Save, Unlock, Rmdir, dbVars
<1>3. ~Closes(x) /\ ~Asks(x)
  BY DEF Closes, CloseSource, Asks, Close, Load, Die, Command, dbVars
<1>4. ~Fails(x)
  BY DEF Fails, Failure, OwnFails, TakeoverFails, LoadFails, SaveFails, ScanBreaks, VerifyBreaks,
         PassFails, ReadFails, Defers, UnlinkFails, AcknowledgeFails, PreserveFails, dbVars
<1>5. PICK h \in File : FileStep(x, h)
  BY <1>1, <1>2, <1>3, <1>4
  DEF Works, PassStep, Begin, ScanStops, ScanBreaks, ScanEnds, Swept, Verify, VerifyStops, VerifyBreaks,
      Judged, Finish, SavePass, UnlockPass, RmdirPass, dbVars
<1>6. Acknowledge(x, h)
  BY <1>5
  DEF FileStep, Scan, Skip, ReadFails, Admit, Written, Withheld, Rejected, Unlink, Preserve, dbVars
<1>7. <<p, f>> = <<x, h>>
  BY <1>6 DEF Acknowledge
<1> QED BY <1>6, <1>7

\* A journal drops the receipt of a file only after the file has left the source
\* (acknowledgeLegacy()).
THEOREM ReceiptStays == Spec => ReceiptOutlivesFile
<1>1. ASSUME IInv, [Next]_vars
      PROVE  \A p \in Proc, f \in File : <<p, f>> \in receipt \ receipt' => f \notin source
  <2> SUFFICES ASSUME NEW p \in Proc, NEW f \in File, <<p, f>> \in receipt \ receipt'
               PROVE  f \notin source
    OBVIOUS
  <2>1. Next
    BY <1>1 DEF vars, dbVars
  <2>2. Acknowledge(p, f)
    BY <2>1, ReceiptChanges
  <2> QED BY <1>1, <2>2 DEF Acknowledge, IInv, Core, FileOK, FileAt
<1> QED BY <1>1, IInvHolds, PTL DEF Spec, ReceiptOutlivesFile

=============================================================================
