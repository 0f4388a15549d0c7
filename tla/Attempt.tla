------------------------------ MODULE Attempt -------------------------------
(***************************************************************************)
(* What the monitoring of one attempt promises the round it belongs to,    *)
(* without probes, clocks or signals.  The monitor actions of Orchestrator *)
(* rely on it; Monitor implements it.                                      *)
(***************************************************************************)
VARIABLES
  mayBeSilent,  \* an attempt without a result may be collected: the
                \* executor's, whose work in the repository speaks for itself
  alive,        \* the agent may still act: it is not known to have exited
  delivered,    \* the outbox has content
  ending        \* how the monitoring ended

attemptVars == <<mayBeSilent, alive, delivered, ending>>

Begun ==
  /\ mayBeSilent \in BOOLEAN /\ alive = TRUE
  /\ delivered \in BOOLEAN /\ ending = "none"

\* Only a living agent changes the outbox.
Deliver ==
  /\ alive /\ delivered' \in BOOLEAN
  /\ UNCHANGED <<mayBeSilent, alive, ending>>

\* The agent exits, or is stopped once it has delivered.
Exit == alive /\ alive' = FALSE /\ UNCHANGED <<mayBeSilent, delivered, ending>>

Collect ==
  /\ ending = "none" /\ ~alive
  /\ delivered \/ mayBeSilent
  /\ ending' = "collect"
  /\ UNCHANGED <<mayBeSilent, alive, delivered>>

\* A dead agent is only replaced when it left no result behind...
Retry ==
  /\ ending = "none" /\ ~alive /\ ~delivered
  /\ ending' = "retry"
  /\ UNCHANGED <<mayBeSilent, alive, delivered>>

\* ... a live one may be given up, and is dead before the next attempt starts.
GiveUp ==
  /\ ending = "none" /\ alive
  /\ alive' = FALSE /\ ending' = "retry"
  /\ UNCHANGED <<mayBeSilent, delivered>>

Abort ==
  /\ ending = "none"
  /\ alive' = FALSE /\ ending' = "aborted"
  /\ UNCHANGED <<mayBeSilent, delivered>>

\* A service cap or a failing probe stops the run; the agent may live on.
Stop ==
  /\ ending = "none"
  /\ ending' = "stopped" /\ alive' \in {alive, FALSE}
  /\ UNCHANGED <<mayBeSilent, delivered>>

Step == Deliver \/ Exit \/ Collect \/ Retry \/ GiveUp \/ Abort \/ Stop

Attempted == Begun /\ [][Step]_attemptVars
=============================================================================
