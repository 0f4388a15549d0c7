--------------------------- MODULE MCOrchestrator ---------------------------
(***************************************************************************)
(* Orchestrator for TLC: what a run may reach with a failure limit of two  *)
(* and one worktree line.                                                  *)
(***************************************************************************)
EXTENDS Orchestrator
=============================================================================
