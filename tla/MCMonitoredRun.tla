--------------------------- MODULE MCMonitoredRun ---------------------------
(***************************************************************************)
(* MonitoredRun for TLC: one failure, thresholds of one probe, an agent    *)
(* that reports or leaves nothing, and processes an executor left behind.  *)
(* No status line can be added: that a changed worktree counts is checked  *)
(* of a single attempt, with other thresholds, by MCMonitor.               *)
(***************************************************************************)
EXTENDS MonitoredRun
=============================================================================
