--------------------------- MODULE MCTargetReplay ---------------------------
(***************************************************************************)
(* Two tables.  The first holds a row that can never be written and one    *)
(* behind it; a pass has one row to give, so only the cursor takes turns.  *)
(***************************************************************************)
EXTENDS TargetReplay, TLC

CONSTANTS p, g, h

MCRow == {p, g, h}
MCTable == 1..2
MCTableOf == p :> 1 @@ g :> 1 @@ h :> 2
MCRejected == {p}
=============================================================================
