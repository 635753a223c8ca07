--------------------------- MODULE MCLegacyImport ---------------------------
(***************************************************************************)
(* A source of two event files, one of which belongs into quarantine, for  *)
(* two archivers that compete for it, and with a third file, which waits   *)
(* for a review, for one that imports batches.                             *)
(***************************************************************************)
EXTENDS LegacyImport, TLC

CONSTANTS p, q, f, g, w

Archivers == Permutations(Proc)
=============================================================================
