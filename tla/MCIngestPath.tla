---------------------------- MODULE MCIngestPath ----------------------------
(***************************************************************************)
(* Two events of one topic.  The second holds nothing to store; it is      *)
(* received, or an earlier release left it in the spool.                   *)
(***************************************************************************)
EXTENDS IngestPath, TLC

CONSTANTS a, b, t

MCTopicOf == [e \in Event |-> t]
=============================================================================
