-------------------------- MODULE MCHistoricalImport --------------------------
(***************************************************************************)
(* A source of four rows, one of them after the cutoff of its mapping, one *)
(* that may appear late; pages of two rows, handed over one at a time; an  *)
(* operator with a pause and a resume, and a store that may be adopted.    *)
(***************************************************************************)
EXTENDS HistoricalImport

CONSTANTS hold, go, move, t, u

MCTopicOf == [r \in Row |-> IF r = 2 THEN u ELSE t]
=============================================================================
