----------------------------- MODULE Classifier -----------------------------
(***************************************************************************)
(* What one probe of an attempt makes of the signals it collected:         *)
(* classify of src/src/fsm.rs on the ProbeSnapshot of src/src/state.rs.    *)
(* Times are given by whether their threshold is reached.                  *)
(***************************************************************************)

Snapshots == [
  cancelled       : BOOLEAN,
  providerError   : {"none", "ServiceCap", "Permission", "Auth", "Transport"},
  successContract : BOOLEAN,
  softSuccess     : BOOLEAN,
  protocolInvalid : BOOLEAN,
  exited          : BOOLEAN,  \* the process was reaped; alive otherwise
  outboxPresent   : BOOLEAN,  \* non-empty and written since the dispatch
  grace           : {"none", "running", "over"},
  workChanged     : BOOLEAN,  \* a work signal changed since the last probe
  workStale       : BOOLEAN,  \* last_work_signal_ts is HANG_CONFIRM_SEC old
  providerStale   : BOOLEAN,  \* so is the provider log, or it is gone
  ceiling         : BOOLEAN]  \* HANG_MAX_WITH_WORK_SIGNALS_SEC since the dispatch

AttemptStates == {
  "Running", "WaitingOutput", "Success", "SoftSuccess", "FailedSilent",
  "FailedServiceCap", "FailedProviderAccess", "FailedTransport",
  "FailedProtocol", "HangConfirmed", "Finalizing", "Cancelled", "Unknown"}

FinalResultBoundaryReached(s) ==
  /\ s.grace # "running"
  /\ (s.exited /\ s.providerStale) \/ s.grace = "over"

IdleIsHang(s) == ~s.exited /\ s.workStale
HangConfirmed(s) == ~s.exited /\ s.workStale /\ s.providerStale

NoCeiling(s) == FALSE
CeilingReached(s) == s.ceiling /\ s.providerStale

\* The rules in their order of priority; "Unknown" is left over by none, as a
\* process that was not reaped is alive.
Classify(s) ==
  IF s.cancelled THEN "Cancelled" ELSE
  IF s.providerError = "ServiceCap" THEN "FailedServiceCap" ELSE
  IF s.providerError \in {"Permission", "Auth"} THEN "FailedProviderAccess" ELSE
  IF s.providerError = "Transport" THEN "FailedTransport" ELSE
  IF s.successContract THEN "Success" ELSE
  IF s.softSuccess THEN "SoftSuccess" ELSE
  IF s.protocolInvalid /\ FinalResultBoundaryReached(s) THEN "FailedProtocol" ELSE
  IF s.grace = "running" THEN "WaitingOutput" ELSE
  IF s.exited /\ ~s.providerStale THEN "WaitingOutput" ELSE
  IF s.exited THEN "FailedSilent" ELSE
  IF HangConfirmed(s) \/ CeilingReached(s) THEN "HangConfirmed" ELSE
  IF s.outboxPresent THEN "Finalizing" ELSE
  IF s.workChanged THEN "Running" ELSE "WaitingOutput"
=============================================================================
