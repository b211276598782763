-------------------------- MODULE MCMissionControl --------------------------
(* MissionControl on small instances for TLC. *)
EXTENDS MissionControl
=============================================================================
