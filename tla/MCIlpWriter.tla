----------------------------- MODULE MCIlpWriter -----------------------------
(***************************************************************************)
(* Three rows, two of them of one table; batches of one or three rows.       *)
(***************************************************************************)
EXTENDS IlpWriter, TLC

CONSTANTS r1, r2, r3, ta, tb

MCRow == {r1, r2, r3}
MCTable == {ta, tb}
MCTableOf == r1 :> ta @@ r2 :> ta @@ r3 :> tb
MCDeadline == 1..2
MCConfig == {[maxRows |-> 3, maxPendingRows |-> 3], [maxRows |-> 1, maxPendingRows |-> 2]}
=============================================================================
