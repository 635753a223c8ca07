--------------------------- MODULE MCTargetJournal ---------------------------
(***************************************************************************)
(* Two instances of TargetJournal for TLC.                                 *)
(*   Rows: the life of rows.  A packet split over two tables and a legacy  *)
(*   packet that queues behind it, in a journal that starts with a pause   *)
(*   of one table or with none.                                            *)
(*   Control: the pause policy.  A packet of one topic to two tables,      *)
(*   rules by table and by topic, two commands, a file brought by a host   *)
(*   and a policy handed over.                                             *)
(***************************************************************************)
EXTENDS TargetJournal, TLC

CONSTANTS a1, b1, a2, ta, tb, x, r0, r1, r2

MCPart == {a1, b1, a2}
MCTarget == {ta, tb}
MCTopic == {x}
MCTargetOf == a1 :> ta @@ b1 :> tb @@ a2 :> ta
MCTopicOf == a1 :> x @@ b1 :> x @@ a2 :> x
ByTable == [tables |-> {ta}, topics |-> {}]
ByTopic == [tables |-> {}, topics |-> {x}]

RowsPacket == {{a1, b1}, {a2}}
RowsLegacyPart == {a2}
RowsSelector == {ByTable}
RowsRequest == {}
Held == [revision |-> 0, rules |-> {[id |-> r0, sel |-> ByTable, tables |-> {ta}, since |-> 0]}]
RowsInitialFile == {NoFile, Held}

NoLegacyPart == {}
ControlPart == {a1, b1}
ControlTargetOf == a1 :> ta @@ b1 :> tb
ControlTopicOf == a1 :> x @@ b1 :> x
ControlPacket == {{a1, b1}}
ControlSelector == {ByTable, ByTopic}
ControlRequest == {r1, r2}
ControlIssued == {r0}
ControlIncoming == {[revision |-> 1, rules |-> {}]}
ControlSymmetry == Permutations({r1, r2})
Brought == [revision |-> 1, rules |-> {[id |-> r0, sel |-> ByTopic, tables |-> {ta}, since |-> 1]}]
ControlInitialFile == {NoFile, Brought}
=============================================================================
