-------------------------- MODULE MCTaskScheduler --------------------------
(***************************************************************************)
(* The scheduler with small constants for TLC.                             *)
(***************************************************************************)
EXTENDS TaskScheduler

AllCalls == {"yield", "tone", "silence", "sound"}
=============================================================================
