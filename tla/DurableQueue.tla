---------------------------- MODULE DurableQueue ----------------------------
(***************************************************************************)
(* What the durable target journal promises its callers, with nothing of   *)
(* how it keeps the promise: a part it has accepted is held, across crashes*)
(* and storage faults, until the database has it.  A part that is accepted *)
(* again after its receipt was dropped is owed a delivery of its own.      *)
(* Delivery may be repeated: the promise is at least once.                 *)
(***************************************************************************)
CONSTANT Part           \* parts of packets, one journal row each

VARIABLES held,         \* accepted and not yet released
          delivered     \* the database has applied the part since acceptance

dqVars == <<held, delivered>>

DQInit == held = {} /\ delivered = {}

Accept(S) == /\ held' = held \cup S
             /\ delivered' = delivered \ (S \ held)

Deliver(i) == /\ i \in held
              /\ delivered' = delivered \cup {i}
              /\ held' = held

Release(i) == /\ i \in held \cap delivered
              /\ held' = held \ {i}
              /\ delivered' = delivered

DQNext == \/ \E S \in SUBSET Part : Accept(S)
          \/ \E i \in Part : Deliver(i) \/ Release(i)

DQSpec == DQInit /\ [][DQNext]_dqVars
=============================================================================
