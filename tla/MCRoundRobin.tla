---------------------------- MODULE MCRoundRobin ----------------------------
(***************************************************************************)
(* The scheduler with its history variable, and small constants for TLC.   *)
(***************************************************************************)
EXTENDS RoundRobin

QuietCalls == {"yield", "tone", "silence"}
=============================================================================
