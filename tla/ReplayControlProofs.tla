-------------------------- MODULE ReplayControlProofs --------------------------
(***************************************************************************)
(* Proofs about ReplayControl, for every set of requests, every number of  *)
(* receipts kept, and every number of commands and restarts.               *)
(*                                                                         *)
(* The inductive invariant says of the file and of memory alike that the   *)
(* receipts number the commands: the one at position i expected revision   *)
(* i - 1.  Hence no command is there twice, whichever receipts were kept.  *)
(* Memory equals the file, except after a failed write, when the file may  *)
(* hold one command more; and no command is taken then.                    *)
(***************************************************************************)
EXTENDS ReplayControl, TLAPS

Id == Request \cup {Adoption}

\* The receipts of all commands, in order, numbered from 1
Numbered(c) ==
  /\ c.revision = Len(c.log)
  /\ \A i \in 1..Len(c.log) : c.log[i].revision = i /\ c.log[i].expected = i - 1

\* A command pauses or resumes by its id, and the pause is that of the last one.
PauseOfLast(c) ==
  /\ \A i \in 1..Len(c.log) : (c.log[i].paused <=> c.log[i].id \notin Request \ Pausing)
  /\ (c.paused <=> Len(c.log) > 0 /\ c.log[Len(c.log)].paused)

\* The adoption is there once, and marked.
AdoptedOnce(c) ==
  /\ c.maintenance = Adoption <=> \E i \in 1..Len(c.log) : c.log[i].id = Adoption
  /\ \A i, j \in 1..Len(c.log) : c.log[i].id = Adoption /\ c.log[j].id = Adoption => i = j

ReceiptsKept(c) == Entries(c.receipts) \subseteq Entries(c.log)

Sound(c) ==
  c \in Content /\ Numbered(c) /\ PauseOfLast(c) /\ AdoptedOnce(c) /\ ReceiptsKept(c)

\* Memory against the file
Follows ==
  /\ ~running => mem = Blank /\ ~fault
  /\ running /\ ~fault => mem = disk
  /\ Entries(mem.log) \subseteq Entries(disk.log)
  /\ running /\ bound => mem.maintenance = Adoption

ControlInv ==
  /\ running \in BOOLEAN /\ bound \in BOOLEAN /\ fault \in BOOLEAN
  /\ Sound(disk) /\ Sound(mem) /\ Follows

-----------------------------------------------------------------------------
\* With no file there is nothing to be wrong.
LEMMA BlankSound == Sound(Blank)
<1> USE ControlAssumption
<1>1. Blank \in Content
  BY DEF Blank, Content
<1>2. Len(Blank.log) = 0 /\ Blank.log = <<>> /\ Blank.receipts = <<>>
  BY DEF Blank
<1>3. Numbered(Blank) /\ PauseOfLast(Blank) /\ AdoptedOnce(Blank) /\ ReceiptsKept(Blank)
  BY <1>2 DEF Blank, Numbered, PauseOfLast, AdoptedOnce, ReceiptsKept, Entries
<1> QED BY <1>1, <1>3 DEF Sound

\* What is kept of a sequence of receipts is a sequence of receipts of it.
LEMMA NewestKept ==
  ASSUME NEW s \in Seq(Receipt)
  PROVE  Newest(s) \in Seq(Receipt) /\ Entries(Newest(s)) \subseteq Entries(s)
<1> USE ControlAssumption
<1>1. CASE Len(s) <= MaxReceipts
  BY <1>1 DEF Newest
<1>2. CASE Len(s) > MaxReceipts
  <2> DEFINE t == SubSeq(s, Len(s) - MaxReceipts + 1, Len(s))
  <2>1. Len(s) \in Nat /\ Len(s) - MaxReceipts + 1 \in 1..Len(s)
    BY <1>2
  <2>2. t \in Seq(Receipt) /\ DOMAIN t = 1..MaxReceipts
    BY <2>1
  <2>3. \A i \in DOMAIN t : t[i] = s[Len(s) - MaxReceipts + i] /\ Len(s) - MaxReceipts + i \in DOMAIN s
    BY <2>1, <2>2
  <2>4. Newest(s) = t
    BY <1>2, <2>1 DEF Newest
  <2> QED BY <2>2, <2>3, <2>4 DEF Entries
<1> QED BY <1>1, <1>2

\* What a command makes of a content that has the revision it expects
Successor(c, id) ==
  Changed(c, Result(c, id, c.revision, id \notin Request \ Pausing),
          IF id = Adoption THEN Adoption ELSE NoAdoption)

\* A command leaves a sound content sound; a second adoption is none.
LEMMA SuccessorSound ==
  ASSUME NEW c, Sound(c), NEW id \in Id, id = Adoption => c.maintenance # Adoption
  PROVE  /\ Sound(Successor(c, id))
         /\ Entries(c.log) \subseteq Entries(Successor(c, id).log)
         /\ Successor(c, id).maintenance = IF id = Adoption THEN Adoption ELSE c.maintenance
<1> USE ControlAssumption
<1> DEFINE paused == id \notin Request \ Pausing
           r == Result(c, id, c.revision, paused)
           n == Len(c.log)
           d == Successor(c, id)
<1>1. c.log \in Seq(Receipt) /\ c.receipts \in Seq(Receipt) /\ c.revision = n /\ n \in Nat
        /\ c.maintenance \in {Adoption, NoAdoption} /\ c.paused \in BOOLEAN
  BY DEF Sound, Content, Numbered
<1>2. r \in Receipt /\ r.id = id /\ r.expected = n /\ r.revision = n + 1
        /\ (r.paused <=> id \notin Request \ Pausing)
  <2>1. paused \in BOOLEAN /\ (paused <=> id \notin Request \ Pausing)
    OBVIOUS
  <2>2. r = [id |-> id, expected |-> n, revision |-> n + 1, paused |-> paused]
    BY <1>1 DEF Result
  <2> HIDE DEF paused, r
  <2> QED BY <1>1, <2>1, <2>2 DEF Receipt, Id
<1>3. d = [revision |-> r.revision, paused |-> r.paused,
           maintenance |-> IF id = Adoption THEN Adoption ELSE c.maintenance,
           receipts |-> Newest(Append(c.receipts, r)), log |-> Append(c.log, r)]
  BY DEF Changed, Successor
<1> HIDE DEF r, d
<1>4. d.log \in Seq(Receipt) /\ Len(d.log) = n + 1 /\ d.log[n + 1] = r
        /\ \A i \in 1..n : d.log[i] = c.log[i]
  <2>1. ASSUME NEW s \in Seq(Receipt), NEW x \in Receipt
        PROVE  /\ Append(s, x) \in Seq(Receipt) /\ Len(Append(s, x)) = Len(s) + 1
               /\ Append(s, x)[Len(s) + 1] = x
               /\ \A i \in 1..Len(s) : Append(s, x)[i] = s[i]
    OBVIOUS
  <2> QED BY ONLY <1>1, <1>2, <1>3, <2>1
<1>5. d.receipts \in Seq(Receipt) /\ Entries(d.receipts) \subseteq Entries(Append(c.receipts, r))
  <2>1. Append(c.receipts, r) \in Seq(Receipt)
    BY <1>1, <1>2
  <2> QED BY <2>1, <1>3, NewestKept
<1>6. d \in Content
  <2>1. (IF id = Adoption THEN Adoption ELSE c.maintenance) \in {Adoption, NoAdoption}
    BY <1>1
  <2>2. r.revision \in Nat /\ r.paused \in BOOLEAN
    BY <1>1, <1>2 DEF Receipt
  <2> QED BY <1>3, <1>4, <1>5, <2>1, <2>2 DEF Content
<1>7. Numbered(d)
  BY <1>1, <1>2, <1>3, <1>4 DEF Numbered, Sound
<1>8. PauseOfLast(d)
  <2>1. \A i \in 1..n : c.log[i].paused <=> c.log[i].id \notin Request \ Pausing
    BY DEF Sound, PauseOfLast
  <2>2. \A i \in 1..Len(d.log) : i \in 1..n \/ i = n + 1
    BY <1>1, <1>4
  <2>3. \A i \in 1..Len(d.log) : d.log[i].paused <=> d.log[i].id \notin Request \ Pausing
    BY <1>2, <1>4, <2>1, <2>2
  <2>4. Len(d.log) > 0 /\ d.log[Len(d.log)] = r /\ d.paused = r.paused
    BY <1>1, <1>3, <1>4
  <2> QED BY <2>3, <2>4 DEF PauseOfLast
<1>9. AdoptedOnce(d)
  <2>1. \A i \in 1..Len(d.log) : i \in 1..n \/ i = n + 1
    BY <1>1, <1>4
  <2>2. c.maintenance = Adoption <=> \E i \in 1..n : c.log[i].id = Adoption
    BY DEF Sound, AdoptedOnce
  <2>3. \A i, j \in 1..n : c.log[i].id = Adoption /\ c.log[j].id = Adoption => i = j
    BY DEF Sound, AdoptedOnce
  <2>4. 1..n \subseteq 1..Len(d.log) /\ n + 1 \in 1..Len(d.log)
    BY <1>1, <1>4
  <2>5. CASE id = Adoption
    <3>1. \A i \in 1..n : d.log[i].id # Adoption
      BY <1>4, <2>2, <2>5
    <3>2. d.maintenance = Adoption /\ d.log[n + 1].id = Adoption
      BY <1>2, <1>3, <1>4, <2>5
    <3> QED BY <2>1, <2>4, <3>1, <3>2 DEF AdoptedOnce
  <2>6. CASE id # Adoption
    <3>1. d.log[n + 1].id # Adoption /\ d.maintenance = c.maintenance
      BY <1>1, <1>2, <1>3, <1>4, <2>6
    <3>2. \A i \in 1..Len(d.log) : d.log[i].id = Adoption => i \in 1..n /\ c.log[i].id = Adoption
      BY <1>4, <2>1, <3>1
    <3>3. \A i \in 1..n : c.log[i].id = Adoption => i \in 1..Len(d.log) /\ d.log[i].id = Adoption
      BY <1>4, <2>4
    <3> QED BY <2>2, <2>3, <3>1, <3>2, <3>3 DEF AdoptedOnce
  <2> QED BY <2>5, <2>6
<1>10. Entries(c.log) \subseteq Entries(d.log) /\ r \in Entries(d.log)
  BY <1>1, <1>4 DEF Entries
<1>11. Entries(Append(c.receipts, r)) \subseteq Entries(c.receipts) \cup {r}
  BY <1>1, <1>2 DEF Entries
<1>12. ReceiptsKept(d)
  BY <1>5, <1>10, <1>11 DEF ReceiptsKept, Sound
<1>13. Sound(d)
  BY <1>6, <1>7, <1>8, <1>9, <1>12 DEF Sound
<1> QED BY <1>3, <1>10, <1>13 DEF d

-----------------------------------------------------------------------------
\* The first start finds it.
LEMMA InitHolds == ControlInit => ControlInv
<1> SUFFICES ASSUME ControlInit PROVE ControlInv
  OBVIOUS
<1>1. Sound(disk) /\ Sound(mem)
  BY BlankSound DEF ControlInit
<1> QED BY <1>1 DEF ControlInit, ControlInv, Follows

\* A command of the operator
LEMMA CommandHolds ==
  ASSUME ControlInv, NEW id \in Request, NEW expected \in 0..mem.revision, Command(id, expected)
  PROVE  ControlInv'
<1> USE ControlAssumption
<1> DEFINE next == Changed(mem, Result(mem, id, expected, id \in Pausing), NoAdoption)
<1>1. running /\ ~fault /\ expected = mem.revision /\ mem = disk
  BY DEF Command, Takes, ControlInv, Follows
<1>2. Sound(next) /\ Entries(mem.log) \subseteq Entries(next.log)
        /\ next.maintenance = mem.maintenance
  <2>1. id \in Id /\ id # Adoption /\ Sound(mem)
    BY DEF Id, ControlInv
  <2>2. (id \in Pausing) = (id \notin Request \ Pausing)
    OBVIOUS
  <2>3. next = Successor(mem, id)
    BY <1>1, <2>1, <2>2 DEF Successor
  <2> HIDE DEF next
  <2> QED BY <2>1, <2>3, SuccessorSound
<1>3. UNCHANGED <<running, bound>> /\ (Saves(next) \/ SaveFails(next))
  BY DEF Command
<1> HIDE DEF next
<1>4. CASE Saves(next)
  BY <1>1, <1>2, <1>3, <1>4 DEF Saves, ControlInv, Follows
<1>5. CASE SaveFails(next)
  BY <1>1, <1>2, <1>3, <1>5 DEF SaveFails, ControlInv, Follows
<1> QED BY <1>3, <1>4, <1>5

\* The content that an adoption leaves
LEMMA AdoptedSound ==
  ASSUME ControlInv, MustPause
  PROVE  Sound(Adopted) /\ Adopted.maintenance = Adoption
<1> USE ControlAssumption
<1>1. Sound(disk) /\ disk.maintenance # Adoption /\ Adoption \in Id
  BY DEF ControlInv, MustPause, Id
<1>2. TRUE = (Adoption \notin Request \ Pausing)
  OBVIOUS
<1>3. Adopted = Successor(disk, Adoption)
  BY <1>2 DEF Adopted, Successor
<1> QED BY <1>1, <1>3, SuccessorSound

\* Every command, start and end keeps it.
LEMMA NextHolds == ControlInv /\ [ControlNext]_controlVars => ControlInv'
<1> SUFFICES ASSUME ControlInv, [ControlNext]_controlVars PROVE ControlInv'
  OBVIOUS
<1>1. CASE Operate
  BY <1>1, CommandHolds DEF Operate
<1>2. CASE Bind
  BY <1>2 DEF Bind, ControlInv, Follows
<1>3. CASE Boot
  <2>1. CASE MustPause
    BY <1>3, <2>1, AdoptedSound DEF Boot, Saves, ControlInv, Follows
  <2>2. CASE ~MustPause
    BY <1>3, <2>2 DEF Boot, MustPause, ControlInv, Follows
  <2> QED BY <2>1, <2>2
<1>4. CASE BootFails
  <2>1. Entries(mem.log) = {}
    BY <1>4 DEF BootFails, ControlInv, Follows, Blank, Entries
  <2> QED BY <1>4, <2>1, AdoptedSound DEF BootFails, ControlInv, Follows
<1>5. CASE Ends
  <2>1. Entries(Blank.log) = {}
    BY DEF Blank, Entries
  <2> QED BY <1>5, <2>1, BlankSound DEF Ends, ControlInv, Follows
<1>6. CASE UNCHANGED controlVars
  BY <1>6 DEF controlVars, ControlInv, Follows
<1> QED BY <1>1, <1>2, <1>3, <1>4, <1>5, <1>6 DEF ControlNext

-----------------------------------------------------------------------------
\* It says what the control promises.
LEMMA InvImpliesPromise == ControlInv => ControlTypeOK /\ ControlPromise
<1> USE ControlAssumption
<1> SUFFICES ASSUME ControlInv PROVE ControlTypeOK /\ ControlPromise
  OBVIOUS
<1>1. ControlTypeOK
  BY DEF ControlInv, Sound, ControlTypeOK
<1>2. Sound(disk) /\ Sound(mem) /\ Follows
  BY DEF ControlInv
<1>3. disk.log \in Seq(Receipt) /\ mem.log \in Seq(Receipt)
  BY <1>2 DEF Sound, Content
<1>4. OneEffect
  <2>1. \A i, j \in 1..Len(disk.log) : disk.log[i].expected = disk.log[j].expected => i = j
    <3>1. \A i \in 1..Len(disk.log) : disk.log[i].expected = i - 1
      BY <1>2 DEF Sound, Numbered
    <3> QED BY <3>1
  <2>2. \A i, j \in 1..Len(disk.log) :
          disk.log[i].id = Adoption /\ disk.log[j].id = Adoption => i = j
    BY <1>2 DEF Sound, AdoptedOnce
  <2>3. DOMAIN disk.log = 1..Len(disk.log)
    BY <1>3
  <2>4. Entries(mem.receipts) \subseteq Entries(disk.log)
    BY <1>2 DEF Sound, ReceiptsKept, Follows
  <2> QED BY <2>1, <2>2, <2>3, <2>4 DEF OneEffect
<1>5. AdoptionHeld
  <2> SUFFICES ASSUME running, bound
               PROVE  \E i \in DOMAIN mem.log :
                        /\ mem.log[i].id = Adoption
                        /\ ~Paused => \E j \in DOMAIN mem.log :
                                         j > i /\ mem.log[j].id \in Request \ Pausing
    BY DEF AdoptionHeld
  <2> DEFINE n == Len(mem.log)
  <2>1. DOMAIN mem.log = 1..n /\ n \in Nat
    BY <1>3
  <2>2. PICK i \in 1..n : mem.log[i].id = Adoption
    BY <1>2 DEF Sound, AdoptedOnce, Follows
  <2>3. \A k \in 1..n : mem.log[k].paused <=> mem.log[k].id \notin Request \ Pausing
    BY <1>2 DEF Sound, PauseOfLast
  <2>4. mem.paused <=> n > 0 /\ mem.log[n].paused
    BY <1>2 DEF Sound, PauseOfLast
  <2>5. n \in 1..n /\ (n # i => n > i)
    BY <2>1, <2>2
  <2>6. ASSUME ~Paused PROVE n > i /\ mem.log[n].id \in Request \ Pausing
    BY <2>2, <2>3, <2>4, <2>5, <2>6 DEF Paused
  <2> HIDE DEF n
  <2> QED BY <2>1, <2>2, <2>5, <2>6
<1> QED BY <1>1, <1>4, <1>5 DEF ControlPromise

\* A command of an operator, and the adoption of a store, take effect once; an adopted
\* store stays paused until an operator resumes: command(), ensureMaintenancePause().
THEOREM ControlKept == ControlSpec => [](ControlTypeOK /\ ControlPromise)
<1>1. ControlInv /\ [ControlNext]_controlVars => ControlInv'
  BY NextHolds
<1> QED BY InitHolds, <1>1, InvImpliesPromise, PTL DEF ControlSpec

=============================================================================
