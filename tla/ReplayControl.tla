----------------------------- MODULE ReplayControl -----------------------------
(***************************************************************************)
(* The durable pause of replay (src/replay-control.ts): a revision, the    *)
(* pause, and the receipts of the newest commands, in one file that is     *)
(* replaced as a whole before memory follows; and the pause that the       *)
(* adoption of a retained store makes once (ensureMaintenancePause()).     *)
(*                                                                         *)
(* A command is told from others by its payload, here its request id and   *)
(* the revision it expects.  A repeated one, which is answered with its    *)
(* receipt in memory, and one that is refused (409, or 503 after a fault)  *)
(* change nothing and are no steps.                                        *)
(***************************************************************************)
EXTENDS Naturals, Sequences

CONSTANTS
  Request,            \* ids of operator commands
  Pausing,            \* those that pause; the others resume
  Adoption,           \* operation id of the adoption of a retained store
  NoAdoption,
  MaxReceipts,        \* receipts kept (128)
  MaxRevision         \* bound: commands over all starts

ASSUME ControlAssumption ==
  /\ Pausing \subseteq Request
  /\ Adoption \notin Request /\ NoAdoption # Adoption
  /\ MaxReceipts \in Nat \ {0} /\ MaxRevision \in Nat

VARIABLES
  running,    \* the process is up
  bound,      \* the instance is bound to the adopted store (retainedStore.binding)
  disk,       \* the content of the file; with no file the initial state
  mem,        \* ReplayControl.state
  fault       \* a write of the file failed in this process

controlVars == <<running, bound, disk, mem, fault>>

\* The content of the file.  log is history: the receipt of every command
\* that took effect, where receipts keeps the newest.
Blank == [revision |-> 0, paused |-> FALSE, maintenance |-> NoAdoption,
          receipts |-> <<>>, log |-> <<>>]

Entries(s) == {s[i] : i \in DOMAIN s}

Receipt == [id : Request \cup {Adoption}, expected : Nat, revision : Nat, paused : BOOLEAN]

Content == [revision : Nat, paused : BOOLEAN, maintenance : {Adoption, NoAdoption},
            receipts : Seq(Receipt), log : Seq(Receipt)]

-----------------------------------------------------------------------------
Paused == fault \/ mem.paused

\* slice(-128)
Newest(s) ==
  IF Len(s) <= MaxReceipts THEN s ELSE SubSeq(s, Len(s) - MaxReceipts + 1, Len(s))

Result(s, id, expected, paused) ==
  [id |-> id, expected |-> expected, revision |-> s.revision + 1, paused |-> paused]

\* The state after a command with receipt r, marked when an adoption makes it
Changed(s, r, operation) ==
  [revision |-> r.revision, paused |-> r.paused,
   maintenance |-> IF operation = NoAdoption THEN s.maintenance ELSE operation,
   receipts |-> Newest(Append(s.receipts, r)), log |-> Append(s.log, r)]

Known(s, id) == \E r \in Entries(s.receipts) : r.id = id

\* The file is replaced (temporary file, rename, the directory synced), then memory
Saves(next) == disk' = next /\ mem' = next /\ UNCHANGED fault

\* The write fails before the rename or after it; memory keeps the old state.
SaveFails(next) == disk' \in {disk, next} /\ fault' = TRUE /\ UNCHANGED mem

\* A new command of the operator.  Only one that expects the current revision is
\* taken, so a repetition whose receipt is gone is refused.
Takes(id, expected) ==
  /\ running /\ ~fault
  /\ ~Known(mem, id) /\ expected = mem.revision
  /\ mem.revision < MaxRevision

Command(id, expected) ==
  LET next == Changed(mem, Result(mem, id, expected, id \in Pausing), NoAdoption)
  IN  /\ Takes(id, expected)
      /\ Saves(next) \/ SaveFails(next)
      /\ UNCHANGED <<running, bound>>

-----------------------------------------------------------------------------
\* mutated: the pause is made at every start unless its receipt is there
MustPauseAgain == bound /\ ~Known(disk, Adoption)

\* The first start with an adopted store pauses; a later one finds the mark.
MustPause == bound /\ disk.maintenance # Adoption

Adopted == Changed(disk, Result(disk, Adoption, disk.revision, TRUE), Adoption)

\* The store is adopted while the instance is stopped.
Bind == ~running /\ bound' = TRUE /\ UNCHANGED <<running, disk, mem, fault>>

\* The constructor, and ensureMaintenancePause() where the store is bound
Boot ==
  /\ ~running
  /\ running' = TRUE
  /\ IF MustPause THEN Saves(Adopted) ELSE mem' = disk /\ UNCHANGED <<disk, fault>>
  /\ UNCHANGED bound

\* The pause fails after the rename: the start fails, but the file is replaced.
BootFails ==
  /\ ~running /\ MustPause
  /\ disk' = Adopted
  /\ UNCHANGED <<running, bound, mem, fault>>

\* The end of the process, which forgets its memory
Ends ==
  /\ running
  /\ running' = FALSE /\ mem' = Blank /\ fault' = FALSE
  /\ UNCHANGED <<bound, disk>>

ControlInit ==
  running = FALSE /\ bound = FALSE /\ disk = Blank /\ mem = Blank /\ fault = FALSE

\* What an operator does
Operate == \E id \in Request : \E expected \in 0..mem.revision : Command(id, expected)

ControlNext == Operate \/ Bind \/ Boot \/ BootFails \/ Ends

ControlSpec == ControlInit /\ [][ControlNext]_controlVars

-----------------------------------------------------------------------------
ControlTypeOK ==
  /\ running \in BOOLEAN /\ bound \in BOOLEAN /\ fault \in BOOLEAN
  /\ disk \in Content /\ mem \in Content

\* A command takes effect once however often it is sent, also after its receipt is
\* gone, after a failed write and after a restart; what a caller is answered is in the
\* file (command(); replay-maintenance.md: "After receipt eviction, an old revision is
\* still rejected").
OneEffect ==
  /\ \A i, j \in DOMAIN disk.log :
       /\ disk.log[i].id = disk.log[j].id
       /\ disk.log[i].expected = disk.log[j].expected \/ disk.log[i].id = Adoption
       => i = j
  /\ Entries(mem.receipts) \subseteq Entries(disk.log)

\* An adopted store is not replayed before an operator resumed it, whatever failed at
\* the start, and a resume is not undone by the next start (ensureMaintenancePause()).
AdoptionHeld ==
  running /\ bound =>
    \E i \in DOMAIN mem.log :
      /\ mem.log[i].id = Adoption
      /\ ~Paused => \E j \in DOMAIN mem.log : j > i /\ mem.log[j].id \in Request \ Pausing

\* What the control of replay promises its operators, across all starts.
ControlPromise == OneEffect /\ AdoptionHeld

=============================================================================
