----------------------------- MODULE MCMonitor ------------------------------
(***************************************************************************)
(* Monitor for TLC: thresholds of a few probes, ordered as in constants.rs *)
(* (a finalizing agent is stopped before a grace ends, a grace before a    *)
(* hang is confirmed, that before the ceiling).                            *)
(***************************************************************************)
EXTENDS Monitor

ASSUME ThresholdOrder ==
  /\ FinalizingKill <= OutboxGrace /\ OutboxGrace <= HangConfirm
  /\ CommitGrace <= HangConfirm /\ HangConfirm < HangMax
=============================================================================
