--------------------- MODULE TargetJournalPolicyProofs ---------------------
(***************************************************************************)
(* What TargetJournal keeps of the pause policy, for every set of parts,   *)
(* tables, selectors and requests: as long as no ROLLBACK threw, the       *)
(* policy in force is the stored one and topic rules cover what was        *)
(* observed; always, the policy in force is not older than the stored one, *)
(* revisions are not reused, and a pause is a barrier.  With the rows      *)
(* (TargetJournalProofs) this gives the type invariant.                    *)
(***************************************************************************)
EXTENDS TargetJournalProofs

-----------------------------------------------------------------------------
\* The topic rules of pol take in every table their topics were seen to write to
CoversAll(pol, obs) ==
  \A r \in pol.rules, x \in Topic, t \in Target :
    x \in r.sel.topics /\ <<x, t>> \in obs => t \in r.tables

\* pol pauses what old does, unless a command has raised its revision
Succeeds(pol, old) ==
  /\ old.revision <= pol.revision
  /\ old.revision = pol.revision => \A t \in Target : PausedBy(old, t) => PausedBy(pol, t)

\* What holds until a ROLLBACK throws
Untorn ==
  /\ Running => policy = stored
  /\ stored # NoPolicy /\ mirror # NoFile => mirror.revision <= stored.revision
  /\ stored # NoPolicy => CoversAll(stored, observed)

\* Running, the journal has a stored policy, and uses it or a successor; stopped, it
\* has none in memory.  A journal that has stored nothing was never open.
PolicyInv ==
  /\ observed \subseteq Topic \X Target
  /\ stored \in Policy \cup {NoPolicy}
  /\ commands \in [Request -> Nat \cup {NoRevision}]
  /\ mirror \in Policy \cup {NoFile}
  /\ policy \in Policy /\ torn \in BOOLEAN
  /\ Running => stored # NoPolicy /\ Succeeds(policy, stored)
  /\ ~Running => policy = EmptyPolicy
  /\ stored = NoPolicy => observed = {}
  /\ RevisionsNotReused
  /\ ~torn => Untorn

-----------------------------------------------------------------------------
(* Policies.                                                               *)

LEMMA EmptyIsPolicy ==
  EmptyPolicy \in Policy /\ \A obs : CoversAll(EmptyPolicy, obs)
  BY DEF EmptyPolicy, Policy, CoversAll

LEMMA SucceedsSelf ==
  ASSUME NEW pol \in Policy
  PROVE  Succeeds(pol, pol)
  BY DEF Succeeds, Policy

LEMMA MirrorType ==
  ASSUME NEW pol \in Policy, NEW g
  PROVE  MirrorOf(pol, g) \in {pol, NoFile}
  BY DEF MirrorOf

\* observe() keeps the revision, pauses no less, and keeps the coverage
LEMMA ExtendedPolicy ==
  ASSUME NEW pol \in Policy, NEW pairs \in SUBSET (Topic \X Target),
         NEW obs \in SUBSET (Topic \X Target)
  PROVE  LET np == Extended(pol, pairs \ obs)
         IN  /\ np \in Policy
             /\ np.revision = pol.revision
             /\ \A t \in Target : PausedBy(pol, t) => PausedBy(np, t)
             /\ CoversAll(pol, obs) => CoversAll(np, obs \cup pairs)
  <1> DEFINE more(r) == {t \in Target : \E x \in r.sel.topics : <<x, t>> \in pairs \ obs}
             wider(r) == [r EXCEPT !.tables = @ \cup more(r)]
             ext == {wider(r) : r \in pol.rules}
  <1>1. Extended(pol, pairs \ obs) = [pol EXCEPT !.rules = ext]
    BY DEF Extended
  <1>2. \A r \in pol.rules :
          /\ wider(r) \in Rule
          /\ wider(r).sel = r.sel
          /\ wider(r).tables = r.tables \cup more(r)
    BY DEF Policy, Rule
  <1>3. ext \in SUBSET Rule
    BY <1>2
  <1>4. ASSUME CoversAll(pol, obs)
        PROVE  \A r \in pol.rules, x \in Topic, t \in Target :
                 x \in r.sel.topics /\ <<x, t>> \in obs \cup pairs => t \in r.tables \cup more(r)
    BY <1>4 DEF CoversAll
  <1>5. ASSUME NEW t \in Target, NEW r \in pol.rules, t \in r.tables
        PROVE  \E e \in ext : t \in e.tables
    <2>1. wider(r) \in ext /\ t \in wider(r).tables
      BY <1>2, <1>5
    <2> HIDE DEF wider, ext
    <2> QED
      BY <2>1
  <1> HIDE DEF wider, more
  <1>6. ASSUME CoversAll(pol, obs)
        PROVE  \A e \in ext, x \in Topic, t \in Target :
                 x \in e.sel.topics /\ <<x, t>> \in obs \cup pairs => t \in e.tables
    BY <1>2, <1>4, <1>6
  <1> HIDE DEF ext
  <1> DEFINE np == Extended(pol, pairs \ obs)
  <1>7. np \in Policy /\ np.revision = pol.revision /\ np.rules = ext
    BY <1>1, <1>3 DEF Policy
  <1> HIDE DEF np
  <1>8. \A t \in Target : PausedBy(pol, t) => PausedBy(np, t)
    BY <1>5, <1>7 DEF PausedBy
  <1>9. CoversAll(pol, obs) => CoversAll(np, obs \cup pairs)
    BY <1>6, <1>7 DEF CoversAll
  <1> QED
    BY <1>7, <1>8, <1>9 DEF np

\* observe() of some parts gives a policy that succeeds whatever policy succeeds
LEMMA ObservingPolicy ==
  ASSUME PolicyInv, NEW s \in SUBSET Part
  PROVE  /\ Pairs(s) \in SUBSET (Topic \X Target)
         /\ Observing(s) \in Policy
         /\ Observing(s).revision = policy.revision
         /\ Running => Succeeds(Observing(s), stored)
         /\ CoversAll(policy, observed) => CoversAll(Observing(s), observed \cup Pairs(s))
  <1>1. Pairs(s) \in SUBSET (Topic \X Target)
    BY PartsAssumption DEF Pairs
  <1>2. policy \in Policy /\ observed \in SUBSET (Topic \X Target)
    BY DEF PolicyInv
  <1>3. /\ Observing(s) \in Policy
        /\ Observing(s).revision = policy.revision
        /\ \A t \in Target : PausedBy(policy, t) => PausedBy(Observing(s), t)
        /\ CoversAll(policy, observed) => CoversAll(Observing(s), observed \cup Pairs(s))
    BY <1>1, <1>2, ExtendedPolicy DEF Observing
  <1>4. Running => Succeeds(Observing(s), stored)
    BY <1>3 DEF PolicyInv, Succeeds
  <1> QED
    BY <1>1, <1>3, <1>4

\* preview() covers what was observed
LEMMA PreviewRule ==
  ASSUME NEW r \in Request, NEW sel \in Selector, policy \in Policy
  PROVE  LET np == [revision |-> policy.revision + 1, rules |-> policy.rules \cup {Added(r, sel)}]
         IN  /\ np \in Policy
             /\ CoversAll(policy, observed) => CoversAll(np, observed)
  <1> DEFINE rule == Added(r, sel)
  <1>1. rule \in Rule
    BY PolicyAssumption DEF Added, Rule, Policy, Preview
  <1>2. \A x \in Topic, t \in Target :
          x \in rule.sel.topics /\ <<x, t>> \in observed => t \in rule.tables
    BY DEF Added, Preview
  <1> HIDE DEF rule
  <1> DEFINE np == [revision |-> policy.revision + 1, rules |-> policy.rules \cup {rule}]
  <1>3. np \in Policy
    BY <1>1 DEF Policy
  <1>4. CoversAll(policy, observed) => CoversAll(np, observed)
    BY <1>2 DEF CoversAll
  <1> QED
    BY <1>3, <1>4 DEF rule

LEMMA PolicyInit == Init => PolicyInv
  BY EmptyIsPolicy, PolicyAssumption
     DEF Init, PolicyInv, RevisionsNotReused, Untorn, Running

-----------------------------------------------------------------------------
(* One lemma per action that changes the policy.                           *)

LEMMA SubmitPolicy ==
  ASSUME PolicyInv, NEW p \in Packet, Submit(p)
  PROVE  PolicyInv'
  <1> DEFINE np == Observing(p)
             pairs == Pairs(p)
  <1>1. /\ status = "up" /\ status' = status /\ commands' = commands /\ torn' = torn
        /\ observed' = observed \cup pairs
        /\ policy' = np
        /\ stored' = IF np # policy THEN np ELSE stored
        /\ mirror' \in {mirror, MirrorOf(np, globalPaused)}
    BY DEF Submit, lifeVars
  <1>2. /\ stored \in Policy /\ stored # NoPolicy /\ Succeeds(policy, stored)
        /\ Running /\ Running'
    BY <1>1 DEF PolicyInv, Running
  <1>3. /\ pairs \in SUBSET (Topic \X Target)
        /\ np \in Policy /\ np.revision = policy.revision
        /\ CoversAll(policy, observed) => CoversAll(np, observed')
    BY <1>1, PartsAssumption, ObservingPolicy
  <1> HIDE DEF np, pairs
  <1>4. /\ stored' \in Policy /\ stored' # NoPolicy /\ Succeeds(policy', stored')
        /\ stored.revision <= stored'.revision
        /\ stored.revision \in Nat /\ stored'.revision \in Nat
    <2>1. CASE np # policy
      BY <1>1, <1>2, <1>3, <2>1, SucceedsSelf, PolicyAssumption DEF Succeeds, Policy
    <2>2. CASE np = policy
      BY <1>1, <1>2, <2>2 DEF Policy
    <2> QED
      BY <2>1, <2>2
  <1>5. mirror' \in {mirror, np, NoFile}
    BY <1>1, <1>3, MirrorType
  <1>6. ~torn => Untorn'
    <2> SUFFICES ASSUME ~torn PROVE Untorn'
      OBVIOUS
    <2>1. policy = stored /\ CoversAll(policy, observed)
      BY <1>2 DEF PolicyInv, Untorn
    <2>2. stored' = np
      BY <1>1, <2>1
    <2>3. mirror' # NoFile => mirror'.revision <= np.revision
      BY <1>2, <1>3, <1>5, <2>1 DEF PolicyInv, Untorn, Policy
    <2> QED
      BY <1>1, <1>3, <2>1, <2>2, <2>3 DEF Untorn
  <1>7. RevisionsNotReused'
    BY <1>1, <1>2, <1>4 DEF PolicyInv, RevisionsNotReused
  <1> QED
    BY <1>1, <1>2, <1>3, <1>4, <1>5, <1>6, <1>7 DEF PolicyInv

\* What a failed transaction leaves in memory
LEMMA SubmitRejectedPolicy ==
  ASSUME PolicyInv, NEW p \in Packet, SubmitRejected(p)
  PROVE  PolicyInv'
  <1>1. /\ status = "up" /\ UNCHANGED <<status, mirror, observed, stored, commands>>
        /\ policy' \in {policy} \cup {Observing(s) : s \in SUBSET p}
        /\ torn' = (torn \/ policy' # policy)
    BY DEF SubmitRejected, RolledBack, lifeVars
  <1>2. Running /\ Running'
    BY <1>1 DEF Running
  <1>3. policy' \in Policy /\ Succeeds(policy', stored)
    <2>1. CASE policy' = policy
      BY <1>2, <2>1 DEF PolicyInv
    <2>2. ASSUME NEW s \in SUBSET p, policy' = Observing(s)
          PROVE  policy' \in Policy /\ Succeeds(policy', stored)
      BY <1>2, <2>2, PartsAssumption, ObservingPolicy
    <2> QED
      BY <1>1, <2>1, <2>2
  <1>4. torn' \in BOOLEAN /\ (~torn' => ~torn /\ policy' = policy)
    BY <1>1
  <1>5. ~torn' => Untorn'
    BY <1>1, <1>2, <1>4 DEF PolicyInv, Untorn
  <1>6. RevisionsNotReused'
    BY <1>1 DEF PolicyInv, RevisionsNotReused
  <1> QED
    BY <1>1, <1>2, <1>3, <1>4, <1>5, <1>6 DEF PolicyInv

\* pause and resume: the new revision is above every one recorded
LEMMA RecordPolicy ==
  ASSUME PolicyInv, NEW r \in Request, NEW rules, NEW waits, Record(r, rules, waits),
         [revision |-> policy.revision + 1, rules |-> rules] \in Policy,
         CoversAll(policy, observed) =>
           CoversAll([revision |-> policy.revision + 1, rules |-> rules], observed)
  PROVE  PolicyInv'
  <1> DEFINE np == [revision |-> policy.revision + 1, rules |-> rules]
  <1>1. /\ status = "up" /\ status' = status /\ observed' = observed
        /\ commands[r] = NoRevision
        /\ mirror' \in {mirror, MirrorOf(policy, globalPaused), MirrorOf(np, globalPaused)}
    BY DEF Record, RolledBack, Probed
  <1>2. \/ /\ policy' \in {policy, np} /\ torn' = (torn \/ policy' # policy)
           /\ UNCHANGED <<stored, commands>> /\ mirror' = Probed
        \/ /\ policy' = np /\ stored' = np /\ torn' = torn
           /\ commands' = [commands EXCEPT ![r] = np.revision]
    BY DEF Record, RolledBack
  <1>3. /\ stored \in Policy /\ stored # NoPolicy
        /\ policy \in Policy /\ Succeeds(policy, stored)
        /\ policy.revision \in Nat /\ stored.revision \in Nat
        /\ stored.revision <= policy.revision
        /\ np.revision = policy.revision + 1
        /\ np \in Policy /\ np # NoPolicy
        /\ Running /\ Running'
    BY <1>1, PolicyAssumption DEF PolicyInv, Policy, Running, Succeeds
  <1>4. /\ CoversAll(policy, observed) => CoversAll(np, observed)
        /\ Succeeds(np, stored) /\ Succeeds(np, np)
    BY <1>3, SucceedsSelf DEF Succeeds
  <1> HIDE DEF np
  <1>5. CASE /\ policy' \in {policy, np} /\ torn' = (torn \/ policy' # policy)
             /\ UNCHANGED <<stored, commands>> /\ mirror' = Probed
    <2>1. mirror' \in {mirror, policy, NoFile}
      BY <1>3, <1>5, MirrorType DEF Probed
    <2>2. policy' \in Policy /\ Succeeds(policy', stored')
      BY <1>3, <1>4, <1>5
    <2>3. torn' \in BOOLEAN /\ (~torn' => ~torn /\ policy' = policy)
      BY <1>5
    <2>4. ~torn' => Untorn'
      BY <1>1, <1>3, <1>5, <2>1, <2>3 DEF PolicyInv, Untorn
    <2>5. RevisionsNotReused'
      BY <1>5 DEF PolicyInv, RevisionsNotReused
    <2> QED
      BY <1>1, <1>3, <1>5, <2>1, <2>2, <2>3, <2>4, <2>5 DEF PolicyInv
  <1>6. CASE /\ policy' = np /\ stored' = np /\ torn' = torn
             /\ commands' = [commands EXCEPT ![r] = np.revision]
    <2>1. mirror' \in {mirror, policy, np, NoFile}
      BY <1>1, <1>3, MirrorType
    <2>2. ~torn => Untorn'
      <3> SUFFICES ASSUME ~torn PROVE Untorn'
        OBVIOUS
      <3>1. policy = stored /\ CoversAll(np, observed)
        BY <1>3, <1>4 DEF PolicyInv, Untorn
      <3>2. mirror # NoFile => mirror.revision \in Nat /\ mirror.revision <= policy.revision
        BY <1>3, <3>1 DEF PolicyInv, Untorn, Policy
      <3>3. mirror' # NoFile => mirror'.revision <= np.revision
        BY <1>3, <2>1, <3>2
      <3> QED
        BY <1>1, <1>6, <3>1, <3>3 DEF Untorn
    <2>3. RevisionsNotReused'
      <3>1. \A q \in Request : commands[q] # NoRevision =>
              commands[q] \in Nat /\ commands[q] <= policy.revision
        BY <1>3 DEF PolicyInv, RevisionsNotReused
      <3>2. \A q \in Request : commands'[q] = IF q = r THEN np.revision ELSE commands[q]
        BY <1>6 DEF PolicyInv
      <3>3. np.revision \in Nat /\ np.revision # NoRevision
        BY <1>3, PolicyAssumption
      <3>4. \A q \in Request : commands'[q] # NoRevision => commands'[q] <= np.revision
        BY <1>3, <3>1, <3>2, <3>3
      <3>5. \A q, s \in Request : q # s /\ commands'[q] = commands'[s] => commands'[q] = NoRevision
        BY <1>3, <3>1, <3>2, <3>3 DEF PolicyInv, RevisionsNotReused
      <3> QED
        BY <1>3, <1>6, <3>4, <3>5 DEF RevisionsNotReused
    <2>4. commands' \in [Request -> Nat \cup {NoRevision}]
      BY <1>3, <1>6 DEF PolicyInv
    <2> QED
      BY <1>1, <1>3, <1>4, <1>6, <2>1, <2>2, <2>3, <2>4 DEF PolicyInv
  <1> QED
    BY <1>2, <1>5, <1>6

LEMMA PausePolicy ==
  ASSUME PolicyInv, NEW r \in Request, NEW sel \in Selector, Pause(r, sel)
  PROVE  PolicyInv'
  <1> DEFINE rules == policy.rules \cup {Added(r, sel)}
  <1>1. policy \in Policy
    BY DEF PolicyInv
  <1>2. /\ [revision |-> policy.revision + 1, rules |-> rules] \in Policy
        /\ CoversAll(policy, observed) =>
             CoversAll([revision |-> policy.revision + 1, rules |-> rules], observed)
    BY <1>1, PreviewRule
  <1>3. Record(r, rules, TRUE)
    BY DEF Pause
  <1> HIDE DEF rules
  <1> QED
    BY <1>2, <1>3, RecordPolicy

LEMMA ResumePolicy ==
  ASSUME PolicyInv, NEW r \in Request, NEW rule, NEW c, Resume(r, rule, c)
  PROVE  PolicyInv'
  <1> DEFINE rules == policy.rules \ {rule}
  <1>1. policy \in Policy
    BY DEF PolicyInv
  <1>2. /\ [revision |-> policy.revision + 1, rules |-> rules] \in Policy
        /\ CoversAll(policy, observed) =>
             CoversAll([revision |-> policy.revision + 1, rules |-> rules], observed)
    BY <1>1 DEF Policy, CoversAll
  <1>3. Record(r, rules, FALSE)
    BY DEF Resume
  <1> HIDE DEF rules
  <1> QED
    BY <1>2, <1>3, RecordPolicy

LEMMA ImportedPolicy ==
  ASSUME PolicyInv, NEW pol \in Incoming, ImportPolicy(pol)
  PROVE  PolicyInv'
  <1>1. /\ status = "up" /\ status' = status /\ observed' = observed /\ commands' = commands
        /\ pol = policy \/ policy.revision = 0
        /\ policy' = pol /\ stored' = pol /\ torn' = torn
        /\ mirror' \in {mirror, MirrorOf(pol, FALSE)}
    BY DEF ImportPolicy, lifeVars
  <1>2. /\ stored \in Policy /\ stored # NoPolicy /\ policy \in Policy
        /\ stored.revision \in Nat /\ policy.revision \in Nat
        /\ stored.revision <= policy.revision
        /\ Running /\ Running'
    BY <1>1 DEF PolicyInv, Policy, Running, Succeeds
  <1>3. /\ pol \in Policy /\ pol # NoPolicy /\ pol.rules = {} /\ pol.revision \in Nat
        /\ stored.revision <= pol.revision
        /\ Succeeds(pol, pol)
    BY <1>1, <1>2, PolicyAssumption, SucceedsSelf DEF Policy
  <1>4. mirror' \in {mirror, pol, NoFile}
    BY <1>1, <1>3, MirrorType
  <1>5. CoversAll(pol, observed)
    BY <1>3 DEF CoversAll
  <1>6. ~torn => Untorn'
    <2>1. mirror # NoFile => mirror.revision \in Nat
      BY DEF PolicyInv, Policy
    <2>2. ~torn /\ mirror' # NoFile => mirror'.revision <= pol.revision
      BY <1>2, <1>3, <1>4, <2>1 DEF PolicyInv, Untorn
    <2> QED
      BY <1>1, <1>5, <2>2 DEF Untorn
  <1>7. RevisionsNotReused'
    BY <1>1, <1>2, <1>3 DEF PolicyInv, RevisionsNotReused
  <1> QED
    BY <1>1, <1>2, <1>3, <1>4, <1>6, <1>7 DEF PolicyInv

\* The policy loaded is the stored one, or that of a file when nothing was ever
\* stored, and then nothing was observed.
LEMMA RestartPolicy ==
  ASSUME PolicyInv, Restart
  PROVE  PolicyInv'
  <1>1. /\ status \in {"down", "refused"} /\ observed' = observed /\ commands' = commands
        /\ torn' = torn /\ ~Running /\ policy = EmptyPolicy
    BY DEF Restart, PolicyInv, Running
  <1>2. CASE status' = "refused" /\ UNCHANGED <<policy, stored, mirror>>
    BY <1>1, <1>2 DEF PolicyInv, RevisionsNotReused, Untorn, Running
  <1>3. CASE /\ stored' = Loaded
             /\ \/ status' = "up" /\ policy' = Loaded /\ mirror' = MirrorOf(Loaded, FALSE)
                \/ UNCHANGED <<status, policy, mirror>>
    <2>1. /\ Loaded \in Policy /\ Loaded # NoPolicy
          /\ stored # NoPolicy => Loaded = stored
          /\ stored = NoPolicy => CoversAll(Loaded, observed)
          /\ ~torn => /\ CoversAll(Loaded, observed)
                      /\ mirror # NoFile => mirror.revision <= Loaded.revision
      BY EmptyIsPolicy, PolicyAssumption DEF Loaded, PolicyInv, Untorn, CoversAll, Policy
    <2>2. RevisionsNotReused'
      BY <1>1, <1>3, <2>1 DEF PolicyInv, RevisionsNotReused
    <2>3. Succeeds(Loaded, Loaded) /\ Loaded.revision <= Loaded.revision
      BY <2>1, SucceedsSelf DEF Policy
    <2>4. CASE status' = "up" /\ policy' = Loaded /\ mirror' = MirrorOf(Loaded, FALSE)
      <3>1. mirror' \in {Loaded, NoFile}
        BY <2>1, <2>4, MirrorType
      <3>2. ~torn => Untorn'
        BY <1>1, <1>3, <2>1, <2>3, <2>4, <3>1 DEF Untorn
      <3>3. Running'
        BY <2>4 DEF Running
      <3> QED
        BY <1>1, <1>3, <2>1, <2>2, <2>3, <2>4, <3>1, <3>2, <3>3 DEF PolicyInv
    <2>5. CASE UNCHANGED <<status, policy, mirror>>
      <3>1. ~Running'
        BY <1>1, <2>5 DEF Running
      <3>2. ~torn => Untorn'
        BY <1>1, <1>3, <2>1, <2>5, <3>1 DEF Untorn
      <3> QED
        BY <1>1, <1>3, <2>1, <2>2, <2>5, <3>1, <3>2 DEF PolicyInv
    <2> QED
      BY <1>3, <2>4, <2>5
  <1> QED
    BY <1>2, <1>3 DEF Restart

\* The portable file follows the policy in force
LEMMA MirrorStep ==
  ASSUME PolicyInv, UNCHANGED <<observed, stored, commands, policy, torn, status>>,
         mirror' = mirror \/ (status = "up" /\ \E g : mirror' = MirrorOf(policy, g))
  PROVE  PolicyInv'
  <1>1. mirror' \in {mirror, NoFile} \/ (Running /\ mirror' = policy)
    BY MirrorType DEF PolicyInv, Running
  <1>2. Running' = Running
    BY DEF Running
  <1>3. ~torn => Untorn'
    BY <1>1, <1>2 DEF PolicyInv, Untorn, Policy
  <1> QED
    BY <1>1, <1>2, <1>3 DEF PolicyInv, RevisionsNotReused

LEMMA PolicyStep ==
  ASSUME PolicyInv, [Next]_vars
  PROVE  PolicyInv'
  <1>1. CASE UNCHANGED vars
    BY <1>1, MirrorStep DEF vars, policyVars, lifeVars
  <1>2. CASE PacketNext
    <2>1. PICK p \in Packet :
            Submit(p) \/ SubmitRejected(p) \/ Acknowledge(p) \/ AcknowledgeLegacy(p)
      BY <1>2 DEF PacketNext
    <2>2. CASE Submit(p)
      BY <2>2, SubmitPolicy
    <2>3. CASE SubmitRejected(p)
      BY <2>3, SubmitRejectedPolicy
    <2>4. CASE Acknowledge(p) \/ AcknowledgeLegacy(p)
      BY <2>4, MirrorStep DEF Acknowledge, AcknowledgeLegacy, DropReceipts, policyVars, lifeVars
    <2> QED
      BY <2>1, <2>2, <2>3, <2>4
  <1>3. CASE RowNext
    <2>1. UNCHANGED <<policyVars, lifeVars>>
      BY <1>3 DEF RowNext, BeginWrite, Apply, WriteFails, WriteConfirmed, SettleFails, RetryDue
    <2> QED
      BY <2>1, MirrorStep DEF policyVars, lifeVars
  <1>4. CASE \E t \in Target : Replay(t)
    BY <1>4, MirrorStep DEF Replay, policyVars, lifeVars
  <1>5. CASE StorageFails
    BY <1>5, MirrorStep DEF StorageFails, policyVars, lifeVars
  <1>6. CASE ControlNext
    <2>1. CASE \E r \in Request, sel \in Selector : Pause(r, sel)
      BY <2>1, PausePolicy
    <2>2. CASE \E r \in Request, rule \in policy.rules, c \in BOOLEAN : Resume(r, rule, c)
      BY <2>2, ResumePolicy
    <2>3. CASE PauseReturns
      BY <2>3, MirrorStep DEF PauseReturns, policyVars
    <2>4. CASE CommandAnswered
      BY <2>4, MirrorStep DEF CommandAnswered, Probed, lifeVars
    <2>5. CASE \E b \in BOOLEAN : SetGlobalPaused(b)
      BY <2>5, MirrorStep DEF SetGlobalPaused
    <2>6. CASE \E pol \in Incoming : ImportPolicy(pol)
      BY <2>6, ImportedPolicy
    <2> QED
      BY <1>6, <2>1, <2>2, <2>3, <2>4, <2>5, <2>6 DEF ControlNext
  <1>7. CASE LifeNext
    <2>1. CASE Close \/ Closed
      BY <2>1 DEF Close, Closed, policyVars, PolicyInv, RevisionsNotReused, Untorn, Running
    <2>2. CASE Crash
      BY <2>2, EmptyIsPolicy DEF Crash, PolicyInv, RevisionsNotReused, Untorn, Running
    <2>3. CASE Restart
      BY <2>3, RestartPolicy
    <2> QED
      BY <1>7, <2>1, <2>2, <2>3 DEF LifeNext
  <1> QED
    BY <1>1, <1>2, <1>3, <1>4, <1>5, <1>6, <1>7 DEF Next

LEMMA PolicyAlways == Spec => []PolicyInv
  BY PolicyInit, PolicyStep, PTL DEF Spec

-----------------------------------------------------------------------------
\* Every variable keeps its type: rows, totals, policy and life together.
THEOREM TypeCorrect == Spec => []TypeOK
  <1>1. Inv /\ PolicyInv => TypeOK
    BY DEF Inv, RowInv, RowTypes, Counted, LifeInv, PolicyInv, TypeOK
  <1> QED
    BY <1>1, InvAlways, PolicyAlways, PTL

\* As long as no ROLLBACK threw, the policy in force is the stored one and the portable
\* file is never ahead; always, it pauses what the stored one does, unless a failed
\* command has raised its revision (transaction(), savePolicy(), mirrorPolicy(), the
\* constructor).
THEOREM PolicyKept == Spec => []PolicyDurable
  <1>1. PolicyInv => PolicyDurable
    BY DEF PolicyInv, Untorn, Succeeds, PolicyDurable, Paused
  <1> QED
    BY <1>1, PolicyAlways, PTL

\* As long as no ROLLBACK threw, a topic rule in force or stored covers every table its
\* topics were seen to write to, in whatever order they were observed and the rules
\* added (observe(), preview()).
THEOREM RulesCover == Spec => []TopicRulesCover
  <1>1. PolicyInv => TopicRulesCover
    <2> SUFFICES ASSUME PolicyInv, ~torn
                 PROVE  CoversAll(policy, observed)
                        /\ (stored # NoPolicy => CoversAll(stored, observed))
      BY DEF TopicRulesCover, Covers, CoversAll
    <2> QED
      BY EmptyIsPolicy DEF PolicyInv, Untorn
  <1> QED
    BY <1>1, PolicyAlways, PTL

\* No revision is recorded for two commands (command(), importPolicy(), the
\* constructor).
THEOREM RevisionsUnique == Spec => []RevisionsNotReused
  <1>1. PolicyInv => RevisionsNotReused
    BY DEF PolicyInv
  <1> QED
    BY <1>1, PolicyAlways, PTL

-----------------------------------------------------------------------------
LEMMA BarrierStep ==
  ASSUME Next
  PROVE  /\ \A i \in Jobs' \ Jobs : ~Paused(TargetOf[i])'
         /\ Boundary = "paused" => \A i \in sent' \ sent : ~Paused(TargetOf[i])
  <1>1. ASSUME NEW i \in Jobs' \ Jobs
        PROVE  ~PausedBy(policy', TargetOf[i])
    <2>1. ASSUME NEW p \in Packet, Submit(p)
          PROVE  ~PausedBy(policy', TargetOf[i])
      <3> DEFINE chosen == {u \in Target : At(p, u) # {} /\ ~PausedBy(policy', u)}
                 heads == UNION {Heads(queued', ahead', t, 1) : t \in chosen}
      <3>1. UNCHANGED jobVars \/ \E S \in SUBSET heads : Start(S)
        BY <2>1 DEF Submit
      <3>2. PICK t \in chosen : i \in Heads(queued', ahead', t, 1)
        BY <3>1 DEF Start, Jobs, jobVars
      <3>3. TargetOf[i] = t
        BY <3>2 DEF Heads, Startable, At
      <3> QED
        BY <3>2, <3>3
    <2>2. ASSUME NEW t \in Target, Replay(t)
          PROVE  ~PausedBy(policy', TargetOf[i])
      <3>1. PICK n \in 1..Batch : Start(Heads(queued, ahead, t, Lesser(n, Room)))
        BY <2>2 DEF Replay
      <3>2. TargetOf[i] = t
        BY <3>1 DEF Start, Jobs, Heads, Startable, At
      <3> QED
        BY <2>2, <3>2 DEF Replay, Paused, policyVars
    <2> QED
      BY <2>1, <2>2, JobsFrom
  <1>2. ASSUME Boundary = "paused", NEW i \in sent' \ sent
        PROVE  ~Paused(TargetOf[i])
    <2>1. InFlight = {}
      BY <1>2 DEF Boundary
    <2>2. i \in scheduled
      <3>1. CASE RowNext
        BY <1>2, <3>1 DEF RowNext, BeginWrite, Apply, WriteFails, WriteConfirmed, SettleFails,
                          RetryDue, dbVars
      <3>2. CASE PacketNext
        BY <1>2, <3>2 DEF PacketNext, Submit, SubmitRejected, Acknowledge,
                          AcknowledgeLegacy, DropReceipts, dbVars
      <3>3. CASE ControlNext
        <4>1. UNCHANGED dbVars
          BY <3>3 DEF ControlNext, Pause, Resume, Record, PauseReturns, CommandAnswered,
                      SetGlobalPaused, ImportPolicy
        <4> QED
          BY <1>2, <4>1 DEF dbVars
      <3>4. CASE LifeNext \/ StorageFails \/ \E t \in Target : Replay(t)
        BY <1>2, <3>4 DEF LifeNext, Close, Closed, Crash, Restart, StorageFails, Replay, dbVars
      <3> QED
        BY <3>1, <3>2, <3>3, <3>4 DEF Next
    <2> QED
      BY <2>1, <2>2 DEF InFlight, Jobs
  <1>3. \A i \in Jobs' \ Jobs : ~Paused(TargetOf[i])'
    BY <1>1 DEF Paused
  <1> QED
    BY <1>2, <1>3

\* No write begins for a paused table, and once the boundary reads "paused"
\* nothing more is sent to one (command(), boundary(), startWrite()).
THEOREM PauseHolds == Spec => PauseIsABarrier
  <1>1. [Next]_vars =>
          [/\ \A i \in Jobs' \ Jobs : ~Paused(TargetOf[i])'
           /\ Boundary = "paused" => \A i \in sent' \ sent : ~Paused(TargetOf[i])]_vars
    BY BarrierStep
  <1> QED
    BY <1>1, PTL DEF Spec, PauseIsABarrier
=============================================================================
