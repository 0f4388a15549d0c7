------------------------ MODULE OrchestratorRefinement ------------------------
(***************************************************************************)
(* Orchestrator implements ReviewLoop, for every failure limit: each step  *)
(* of a run is a step of the contract or leaves what it speaks of alone.   *)
(* It implements LockView in the same way, and its loop winds down: every  *)
(* step of it lowers a measure of what is left of the round.               *)
(***************************************************************************)
EXTENDS OrchestratorProofs

-----------------------------------------------------------------------------
(***************************************************************************)
(* The steps of the contract that the actions of a run take.               *)
(***************************************************************************)

\* What the contract does not speak of changes without a step of it.
LEMMA QuietStep ==
  ASSUME UNCHANGED <<runState, currentRole, failures, reviewResult>>
  PROVE  UNCHANGED Contract!abstractVars
  BY DEF Contract!abstractVars, Stage

\* Between two phases of the same stage nothing happens for the contract.
LEMMA SameStageStep ==
  ASSUME Stage' = Stage, (runState \in WorkingStates) <=> (runState' \in WorkingStates),
         UNCHANGED <<failures, reviewResult>>
  PROVE  UNCHANGED Contract!abstractVars
  BY DEF Contract!abstractVars

\* A run that ends in a failure state stops.
LEMMA StopStep ==
  ASSUME runState \in RunStates, runState \notin Terminal,
         currentRole \in Roles \/ runState # "RoundRetryDecide",
         runState' \in Terminal \ {"RunDone"}, UNCHANGED <<failures, reviewResult>>
  PROVE  Contract!Stop
  <1>1. Stage \notin {"accepted", "stopped"}
    BY DEF Stage, RunStates, Terminal, Roles
  <1>2. Stage' = "stopped" /\ runState' \notin WorkingStates
    BY DEF Stage, Terminal, WorkingStates
  <1> QED BY <1>1, <1>2 DEF Contract!Stop

\* A dispatch begins an attempt; the failures are not used up.
LEMMA AttemptStep ==
  ASSUME ControlInv, NEW r \in Roles, Dispatch(r)
  PROVE  Contract!Attempt
  <1>1. runState = DispatchState(r) /\ runState' = MonitorState(r)
    BY DEF Dispatch, In, Goto
  <1>2. Stage = r /\ Stage' = r
    BY <1>1 DEF Stage, DispatchState, MonitorState, Roles, Terminal
  <1>3. runState \notin WorkingStates /\ runState' \in WorkingStates
    BY <1>1 DEF WorkingStates, DispatchState, MonitorState, Roles
  <1>4. failures < Limit
    BY <1>1 DEF ControlInv, FailuresLeft, DispatchState, Roles, Terminal
  <1>5. UNCHANGED <<failures, reviewResult>>
    BY DEF Dispatch, reviewVars
  <1> QED BY <1>2, <1>3, <1>4, <1>5 DEF Contract!Attempt, Roles

\* An attempt that crashes or hangs is a failure of its role.
LEMMA FailStep ==
  ASSUME ControlInv, NEW r \in Roles, MonitorFailed(r) \/ MonitorHang(r)
  PROVE  Contract!Fail
  <1>1. runState = MonitorState(r) /\ runState' = "RoundRetryDecide"
    BY DEF MonitorFailed, MonitorHang, In, Goto
  <1>2. currentRole = r /\ currentRole' = r
    BY <1>1 DEF MonitorFailed, MonitorHang, attemptVars, ControlInv, RoleOfPhase,
                MonitorState, ExecutorStates, ReviewerStates, Roles
  <1>3. Stage' = Stage
    BY <1>1, <1>2 DEF Stage, MonitorState, Roles, Terminal
  <1>4. runState \in WorkingStates /\ runState' \notin WorkingStates
    BY <1>1 DEF WorkingStates, MonitorState, Roles
  <1>5. failures < Limit
    BY <1>1 DEF ControlInv, FailuresLeft, MonitorState, Roles, Terminal
  <1>6. failures' = failures + 1 /\ UNCHANGED reviewResult
    BY DEF MonitorFailed, MonitorHang, reviewVars
  <1> QED BY <1>3, <1>4, <1>5, <1>6 DEF Contract!Fail

\* A rejected, missing or unreadable verdict is a failure of the reviewer.
LEMMA RejectStep ==
  ASSUME ControlInv, CollectUntouched \/ CollectUnreadable \/ CollectRejected
  PROVE  Contract!Fail
  <1>1. runState = "ReviewerOutputCollect" /\ runState' = "RoundRetryDecide"
    BY DEF CollectUntouched, CollectUnreadable, CollectRejected, RetryReviewer, In, Goto
  <1>2. currentRole = "reviewer" /\ currentRole' = "reviewer"
    BY <1>1 DEF CollectUntouched, CollectUnreadable, CollectRejected, attemptVars,
                ControlInv, RoleOfPhase, ReviewerStates
  <1>3. Stage' = Stage
    BY <1>1, <1>2 DEF Stage, Terminal
  <1>4. runState \in WorkingStates /\ runState' \notin WorkingStates
    BY <1>1 DEF WorkingStates
  <1>5. failures < Limit
    BY <1>1 DEF ControlInv, FailuresLeft, Terminal
  <1>6. failures' = failures + 1 /\ UNCHANGED reviewResult
    BY DEF CollectUntouched, CollectUnreadable, CollectRejected, RetryReviewer, reviewVars
  <1> QED BY <1>3, <1>4, <1>5, <1>6 DEF Contract!Fail

\* A collected verdict is the first on its delivery or the one already held; it
\* is submitted, or the reviewer is sent back to clean up.
LEMMA CollectStep ==
  ASSUME ControlInv, CollectVerdict
  PROVE  Contract!Step
  <1>1. /\ runState = "ReviewerOutputCollect"
        /\ SaveVerdict
        /\ UNCHANGED currentRole
    BY DEF CollectVerdict, In, attemptVars
  <1>2. Contract!Give
    <2>1. \/ reviewResult # "none" /\ reviewResult' = reviewResult
          \/ reviewResult = "none" /\ reviewResult' \in Decisions
      BY <1>1 DEF SaveVerdict
    <2> QED BY <2>1 DEF Contract!Give
  <1>3. Stage = "reviewer" /\ runState \in WorkingStates /\ failures < Limit
    BY <1>1 DEF Stage, WorkingStates, ControlInv, FailuresLeft, Terminal
  <1>4. CASE leftovers' # {}
    <2>1. runState' = "RoundRetryDecide" /\ failures' = failures + 1
      BY <1>4 DEF CollectVerdict, RetryReviewer, Goto
    <2>2. currentRole' = "reviewer"
      BY <1>1 DEF ControlInv, RoleOfPhase, ReviewerStates
    <2>3. Stage' = "reviewer" /\ runState' \notin WorkingStates
      BY <2>1, <2>2 DEF Stage, WorkingStates, Terminal
    <2> QED BY <1>2, <1>3, <2>1, <2>3 DEF Contract!GiveAndFail, Contract!Step
  <1>5. CASE leftovers' = {}
    <2>1. runState' = "QualityGate" /\ UNCHANGED failures
      BY <1>5 DEF CollectVerdict, Goto
    <2>2. Stage' = "judged" /\ runState' \notin WorkingStates
      BY <2>1 DEF Stage, WorkingStates, Terminal
    <2> QED BY <1>2, <1>3, <2>1, <2>2 DEF Contract!Submit, Contract!Step
  <1> QED BY <1>4, <1>5

\* The gate judges the verdict it holds.
LEMMA JudgeStep ==
  ASSUME ControlInv, VerdictInv, QualityGate
  PROVE  Contract!Judge
  <1>1. runState = "QualityGate" /\ reviewResult \in Decisions
    BY DEF QualityGate, In, ControlInv, TypeOK, VerdictInv
  <1>2. reviewResult # "none"
    BY <1>1 DEF Decisions
  <1>3. runState' = AfterGate(reviewResult) /\ failures' = 0 /\ UNCHANGED reviewResult
    BY <1>2 DEF QualityGate, Goto, reviewVars
  <1>4. Stage = "judged" /\ runState \notin WorkingStates
    BY <1>1 DEF Stage, WorkingStates, Terminal
  <1>5. /\ Stage' = CASE reviewResult = "accept" -> "accepted"
                      [] reviewResult = "revise" -> "executor"
                      [] OTHER -> "stopped"
        /\ runState' \notin WorkingStates
    BY <1>1, <1>3 DEF AfterGate, Decisions, Stage, WorkingStates, Terminal
  <1> QED BY <1>3, <1>4, <1>5 DEF Contract!Judge

\* A collect handler that fails stops the run; the reviewer's verdict may have
\* been given by then.
LEMMA CollectFailsStep ==
  ASSUME NEW r \in Roles, CollectFails(r)
  PROVE  Contract!Step
  <1>1. /\ runState = CollectState(r) /\ runState' = "RunFailedInternal"
        /\ UNCHANGED failures
        /\ reviewResult' = reviewResult \/ (r = "reviewer" /\ SaveVerdict)
    BY DEF CollectFails, In, Goto
  <1>2. /\ Stage \notin {"accepted", "stopped"}
        /\ r = "reviewer" => Stage = "reviewer" /\ runState \in WorkingStates
    BY <1>1 DEF CollectState, Stage, WorkingStates, Terminal, Roles
  <1>3. Stage' = "stopped" /\ runState' \notin WorkingStates
    BY <1>1 DEF Stage, WorkingStates, Terminal
  <1>4. SaveVerdict => Contract!Give
    BY DEF SaveVerdict, Contract!Give
  <1> QED BY <1>1, <1>2, <1>3, <1>4 DEF Contract!Stop, Contract!Step

\* Every step of a run is one of these.
LEMMA ContractStep ==
  RoundInv /\ [Next]_vars => [Contract!Step]_(Contract!abstractVars)
  <1> SUFFICES ASSUME ControlInv, VerdictInv, [Next]_vars
               PROVE  Contract!Step \/ UNCHANGED Contract!abstractVars
    BY DEF RoundInv
  <1>0. runState \in RunStates
    BY DEF ControlInv, TypeOK
  <1>1. CASE LoopHead
    <2>1. UNCHANGED <<currentRole, failures, reviewResult>>
      BY <1>1 DEF LoopHead, attemptVars, reviewVars
    <2>2. CASE Aborted
      <3>1. runState' = "RunAborted" /\ runState \notin Terminal
        BY <1>1, <2>2 DEF LoopHead, Aborted
      <3>2. currentRole \in Roles \/ runState # "RoundRetryDecide"
        BY DEF ControlInv, RoleOfPhase
      <3> QED BY <1>0, <2>1, <3>1, <3>2, StopStep DEF Terminal, Contract!Step
    <2>3. CASE ~Aborted
      BY <1>1, <2>1, <2>3, QuietStep DEF LoopHead
    <2> QED BY <2>2, <2>3
  <1>2. ASSUME \/ Exit \/ AgentWritesOutbox \/ AgentChangesWorktree \/ AgentExits
               \/ StragglerWritesOutbox \/ InboxEdited \/ Cancel \/ UNCHANGED vars
               \/ \E r \in Roles : MonitorFinalize(r) \/ OtherLocks(r) \/ OtherUnlocks(r)
        PROVE  UNCHANGED Contract!abstractVars
    <2>1. UNCHANGED <<runState, currentRole, failures, reviewResult>>
      BY <1>2 DEF Exit, AgentWritesOutbox, AgentChangesWorktree, AgentExits,
           StragglerWritesOutbox, InboxEdited, Cancel, vars, MonitorFinalize,
           OtherLocks, OtherUnlocks, World, reviewVars
    <2> QED BY <2>1, QuietStep
  <1>3. ASSUME ValidateInputs \/ ContextPrep \/ SessionBind
        PROVE  Contract!Step \/ UNCHANGED Contract!abstractVars
    <2>1. /\ runState \in {"RunInit", "ContextPrep", "SessionBind"}
          /\ UNCHANGED <<failures, reviewResult>>
          /\ \/ runState' \in {"ContextPrep", "SessionBind"}
             \/ runState' = "ExecutorDispatch"
             \/ runState' \in Terminal \ {"RunDone"}
      BY <1>3 DEF ValidateInputs, ContextPrep, GitCheckFailures, SessionBind, In, Goto, reviewVars, Terminal
    <2>2. Stage = "setup" /\ runState \notin WorkingStates /\ runState \notin Terminal
      BY <2>1 DEF Stage, WorkingStates, Terminal
    <2>3. CASE runState' \in {"ContextPrep", "SessionBind"}
      <3>1. Stage' = "setup" /\ runState' \notin WorkingStates
        BY <2>3 DEF Stage, WorkingStates, Terminal
      <3> QED BY <2>1, <2>2, <3>1, SameStageStep
    <2>4. CASE runState' = "ExecutorDispatch"
      <3>1. Stage' = "executor" /\ runState' \notin WorkingStates
        BY <2>4 DEF Stage, WorkingStates, Terminal
      <3> QED BY <2>1, <2>2, <3>1 DEF Contract!Begin, Contract!Step
    <2>5. CASE runState' \in Terminal \ {"RunDone"}
      BY <1>0, <2>1, <2>2, <2>5, StopStep DEF Contract!Step
    <2> QED BY <2>1, <2>3, <2>4, <2>5
  <1>4. ASSUME NEW r \in Roles,
               \/ DispatchLocked(r) \/ DispatchRequestChanged(r) \/ DispatchFails(r)
               \/ MonitorServiceCap(r) \/ MonitorCancelled(r) \/ MonitorFails(r)
        PROVE  Contract!Step
    <2>1. /\ runState \in {DispatchState(r), MonitorState(r)}
          /\ runState' \in Terminal \ {"RunDone"}
          /\ UNCHANGED <<failures, reviewResult>>
      BY <1>4 DEF DispatchLocked, DispatchRequestChanged, DispatchFails,
           MonitorServiceCap, MonitorCancelled, MonitorFails, In, Goto, reviewVars,
           Terminal
    <2>2. runState \notin Terminal /\ runState # "RoundRetryDecide"
      BY <2>1 DEF DispatchState, MonitorState, Terminal, Roles
    <2> QED BY <1>0, <2>1, <2>2, StopStep DEF Contract!Step
  <1>5. ASSUME NEW r \in Roles, Dispatch(r) PROVE Contract!Step
    BY <1>5, AttemptStep DEF Contract!Step
  <1>6. ASSUME NEW r \in Roles, MonitorFailed(r) \/ MonitorHang(r) PROVE Contract!Step
    BY <1>6, FailStep DEF Contract!Step
  <1>7. ASSUME NEW r \in Roles, MonitorSuccess(r)
        PROVE  UNCHANGED Contract!abstractVars
    <2>1. /\ runState = MonitorState(r) /\ runState' = CollectState(r)
          /\ UNCHANGED <<failures, reviewResult>>
      BY <1>7 DEF MonitorSuccess, In, Goto, reviewVars
    <2>2. Stage' = Stage /\ runState \in WorkingStates /\ runState' \in WorkingStates
      BY <2>1 DEF Stage, WorkingStates, MonitorState, CollectState, Roles, Terminal
    <2> QED BY <2>1, <2>2, SameStageStep
  <1>8. ASSUME RoundRetryDecide
        PROVE  Contract!Step \/ UNCHANGED Contract!abstractVars
    <2>1. /\ runState = "RoundRetryDecide" /\ currentRole \in Roles
          /\ UNCHANGED <<failures, reviewResult>>
          /\ \/ runState' = "RunFailedConsecutiveFailureLimit"
             \/ runState' = DispatchState(currentRole)
      BY <1>8 DEF RoundRetryDecide, In, Goto, reviewVars, ControlInv, RoleOfPhase
    <2>2. CASE runState' = "RunFailedConsecutiveFailureLimit"
      BY <1>0, <2>1, <2>2, StopStep DEF Contract!Step, Terminal
    <2>3. CASE runState' = DispatchState(currentRole)
      <3>1. /\ Stage = currentRole /\ Stage' = currentRole
            /\ runState \notin WorkingStates /\ runState' \notin WorkingStates
        BY <2>1, <2>3 DEF Stage, WorkingStates, DispatchState, Roles, Terminal
      <3> QED BY <2>1, <3>1, SameStageStep
    <2> QED BY <2>1, <2>2, <2>3
  <1>9. ASSUME ExecutorOutputCollect \/ RoundFeedbackPrep
        PROVE  UNCHANGED Contract!abstractVars
    <2>1. /\ \/ runState = "ExecutorOutputCollect" /\ runState' = "OrchVerify"
             \/ runState = "RoundFeedbackPrep" /\ runState' = "ExecutorDispatch"
          /\ UNCHANGED <<failures, reviewResult>>
      BY <1>9 DEF ExecutorOutputCollect, RoundFeedbackPrep, In, Goto, reviewVars
    <2>2. Stage' = Stage /\ ((runState \in WorkingStates) <=> (runState' \in WorkingStates))
      BY <2>1 DEF Stage, WorkingStates, Terminal
    <2> QED BY <2>1, <2>2, SameStageStep
  <1>10. ASSUME OrchVerify PROVE Contract!Step
    <2>1. /\ runState = "OrchVerify" /\ runState' = "ReviewerDispatch"
          /\ reviewResult' = "none" /\ UNCHANGED failures
      BY <1>10 DEF OrchVerify, In, Goto
    <2>2. /\ Stage = "executor" /\ Stage' = "reviewer"
          /\ runState \in WorkingStates /\ runState' \notin WorkingStates
      BY <2>1 DEF Stage, WorkingStates, Terminal
    <2> QED BY <2>1, <2>2 DEF Contract!Deliver, Contract!Step
  <1>11. ASSUME CollectUntouched \/ CollectUnreadable \/ CollectRejected
         PROVE  Contract!Step
    BY <1>11, RejectStep DEF Contract!Step
  <1>12. CASE CollectVerdict
    BY <1>12, CollectStep
  <1>13. CASE QualityGate
    BY <1>13, JudgeStep DEF Contract!Step
  <1>14. ASSUME NEW r \in Roles, CollectFails(r) PROVE Contract!Step
    BY <1>14, CollectFailsStep
  <1> QED
    BY <1>1, <1>2, <1>3, <1>4, <1>5, <1>6, <1>7, <1>8, <1>9, <1>10, <1>11, <1>12, <1>13, <1>14
    DEF Next, Progress, Interruption, Environment, Exited

\* A run starts where the contract starts: nothing attempted, failed or judged.
LEMMA ContractStart == Init => Contract!Start
  <1> SUFFICES ASSUME Init PROVE Contract!Start
    OBVIOUS
  <1>1. runState = "RunInit" /\ failures = 0 /\ reviewResult = "none"
    BY DEF Init
  <1>2. Stage = "setup" /\ runState \notin WorkingStates
    BY <1>1 DEF Stage, WorkingStates, Terminal
  <1> QED BY <1>1, <1>2 DEF Contract!Start

\* A run keeps the contract of ReviewLoop for every failure limit: its loop and
\* its handlers never begin an attempt with the failures used up, never carry a
\* verdict over to another delivery, never replace the first verdict on one,
\* and end in RunDone only through "accept".
THEOREM ContractIsKept == Spec => KeepsTheContract
  <1>1. Init => RoundInv
    BY RoundInit
  <1>2. RoundInv /\ [Next]_vars => RoundInv'
    BY RoundStep
  <1>3. Init => Contract!Start
    BY ContractStart
  <1>4. RoundInv /\ [Next]_vars => [Contract!Step]_(Contract!abstractVars)
    BY ContractStep
  <1> QED BY <1>1, <1>2, <1>3, <1>4, PTL DEF Spec, KeepsTheContract, Contract!Loop

-----------------------------------------------------------------------------
(***************************************************************************)
(* A run winds down: the half of EndsUnlessRevisedForever that needs no    *)
(* fairness.                                                               *)
(***************************************************************************)

\* How far a phase is from the gate, with the retry decision before them all.
Distance(s) ==
  CASE s = "RunInit" -> 13               [] s = "ContextPrep" -> 12
    [] s = "SessionBind" -> 11           [] s = "RoundFeedbackPrep" -> 10
    [] s = "RoundRetryDecide" -> 9       [] s = "ExecutorDispatch" -> 8
    [] s = "ExecutorMonitor" -> 7        [] s = "ExecutorOutputCollect" -> 6
    [] s = "OrchVerify" -> 5             [] s = "ReviewerDispatch" -> 4
    [] s = "ReviewerMonitor" -> 3        [] s = "ReviewerOutputCollect" -> 2
    [] s = "QualityGate" -> 1            [] OTHER -> 0

\* What is left of a round: every failure may cost the way through all phases,
\* and every phase is preceded by a pass of the loop head.
Rank ==
  IF runState \in Terminal
  THEN CASE at = "loop" -> 2 [] at = "done" -> 1 [] OTHER -> 0
  ELSE 3 + 2 * (14 * (Limit - failures) + Distance(runState)) + (IF at = "loop" THEN 1 ELSE 0)

\* The round ends with a request for another.
Revised == runState = "QualityGate" /\ runState' = "RoundFeedbackPrep"

\* Every step of the loop brings the run nearer to its end, by whatever mixture
\* of failures, repairs and cleanups it gets on; only `revise` gives it more to do.
WindsDown == [][Rank' < Rank \/ Revised]_<<runState, at, failures>>

\* A rank is a number, below the bound that a whole round cannot pass.
LEMMA RankIsBounded ==
  ASSUME TypeOK PROVE Rank \in 0 .. (28 * Limit + 30)
  <1>1. Distance(runState) \in 0..13
    BY DEF Distance
  <1>2. Limit - failures \in 0..Limit
    BY LimitAssumption DEF TypeOK
  <1> QED BY <1>1, <1>2, LimitAssumption DEF Rank

\* Going on from a phase to one nearer to the gate lowers the rank; so does a
\* failure, wherever it leads, and so does the end of the run.
LEMMA NearerIsLower ==
  ASSUME TypeOK, at = "step", runState \notin Terminal, at' = "loop", failures' \in 0..Limit,
         \/ runState' \in Terminal
         \/ /\ runState' \notin Terminal
            /\ \/ failures' = failures /\ Distance(runState') < Distance(runState)
               \/ failures' = failures + 1
  PROVE  Rank' < Rank
  <1>1. Distance(runState) \in 0..13 /\ Distance(runState') \in 0..13
    BY DEF Distance
  <1>2. failures \in 0..Limit
    BY DEF TypeOK
  <1>3. Rank = 3 + 2 * (14 * (Limit - failures) + Distance(runState))
    BY <1>1, <1>2, LimitAssumption DEF Rank
  <1>4. CASE runState' \in Terminal
    <2>1. Rank' = 2
      BY <1>4 DEF Rank
    <2> QED BY <1>1, <1>2, <1>3, <2>1, LimitAssumption
  <1>5. CASE runState' \notin Terminal
    <2>1. Rank' = 3 + 2 * (14 * (Limit - failures') + Distance(runState')) + 1
      BY <1>5 DEF Rank
    <2>2. CASE failures' = failures /\ Distance(runState') < Distance(runState)
      BY <1>1, <1>2, <1>3, <2>1, <2>2, LimitAssumption
    <2>3. CASE failures' = failures + 1
      BY <1>1, <1>2, <1>3, <2>1, <2>3, LimitAssumption
    <2> QED BY <1>5, <2>2, <2>3
  <1> QED BY <1>4, <1>5

\* Every handler goes nearer to the gate, counts a failure or ends the run; the
\* loop head and the end of the run only go on.
LEMMA WindsDownStep ==
  RoundInv /\ [Next]_vars => [Rank' < Rank \/ Revised]_<<runState, at, failures>>
  <1> SUFFICES ASSUME ControlInv, VerdictInv, [Next]_vars, ~Revised,
                      ~UNCHANGED <<runState, at, failures>>
               PROVE  Rank' < Rank
    BY DEF RoundInv
  <1>0. TypeOK /\ failures' \in 0..Limit
    BY ControlStep DEF ControlInv, TypeOK
  <1>1. CASE LoopHead
    <2>1. failures \in 0..Limit /\ Distance(runState) \in 0..13
      BY <1>0 DEF TypeOK, Distance
    <2>2. at = "loop" /\ UNCHANGED failures
      BY <1>1 DEF LoopHead
    <2>3. CASE runState' \in Terminal
      <3>1. Rank' = 1
        BY <1>1, <2>3 DEF LoopHead, Rank
      <3>2. Rank >= 2
        BY <2>1, <2>2, LimitAssumption DEF Rank
      <3> QED BY <3>1, <3>2, <1>0, RankIsBounded
    <2>4. CASE runState' \notin Terminal
      <3>1. at' = "step" /\ UNCHANGED runState
        BY <1>1, <2>4 DEF LoopHead, Terminal
      <3> QED BY <2>1, <2>2, <2>4, <3>1, LimitAssumption DEF Rank
    <2> QED BY <2>3, <2>4
  <1>2. CASE Exit
    <2>1. at = "done" /\ at' = "exited" /\ UNCHANGED runState /\ runState \in Terminal
      BY <1>2 DEF Exit, ControlInv, LoopLeftAtEnd
    <2> QED BY <2>1 DEF Rank
  <1>3. ASSUME In(runState), runState \notin Terminal, at' = "loop",
               \/ runState' \in Terminal
               \/ /\ runState' \notin Terminal
                  /\ \/ failures' = failures /\ Distance(runState') < Distance(runState)
                     \/ failures' = failures + 1
        PROVE  Rank' < Rank
    BY <1>0, <1>3, NearerIsLower DEF In
  <1>4. CASE \/ ValidateInputs \/ ContextPrep \/ SessionBind \/ RoundRetryDecide
             \/ ExecutorOutputCollect \/ OrchVerify \/ RoundFeedbackPrep
    BY <1>3, <1>4 DEF ValidateInputs, ContextPrep, GitCheckFailures, SessionBind, RoundRetryDecide,
         ExecutorOutputCollect, OrchVerify, RoundFeedbackPrep, In, Goto, Distance, Terminal,
         DispatchState
  <1>5. CASE CollectUntouched \/ CollectUnreadable \/ CollectRejected \/ CollectVerdict
    BY <1>3, <1>5 DEF CollectUntouched, CollectUnreadable, CollectRejected, CollectVerdict,
         RetryReviewer, In, Goto, Distance, Terminal
  <1>6. CASE QualityGate
    <2>1. runState = "QualityGate" /\ at = "step" /\ at' = "loop"
      BY <1>6 DEF QualityGate, In, Goto
    <2>2. reviewResult # "none" => AfterGate(reviewResult) \in Terminal \cup {"RoundFeedbackPrep"}
      BY AfterGateType DEF ControlInv, TypeOK
    <2>3. runState' \in Terminal
      BY <1>6, <2>1, <2>2 DEF QualityGate, Goto, Revised, Terminal
    <2> QED BY <1>3, <2>1, <2>3 DEF In, Terminal
  <1>7. ASSUME NEW r \in Roles,
               \/ DispatchLocked(r) \/ DispatchRequestChanged(r) \/ Dispatch(r) \/ DispatchFails(r)
        PROVE  Rank' < Rank
    BY <1>3, <1>7 DEF DispatchLocked, DispatchRequestChanged, Dispatch, DispatchFails, In, Goto,
         DispatchState, MonitorState, Distance, Terminal, Roles
  <1>8. ASSUME NEW r \in Roles,
               \/ MonitorSuccess(r) \/ MonitorFailed(r) \/ MonitorHang(r) \/ MonitorServiceCap(r)
               \/ MonitorCancelled(r) \/ MonitorFails(r) \/ CollectFails(r)
        PROVE  Rank' < Rank
    BY <1>3, <1>8 DEF MonitorSuccess, MonitorFailed, MonitorHang, MonitorServiceCap,
         MonitorCancelled, MonitorFails, CollectFails, In, Goto, MonitorState, CollectState,
         Distance, Terminal, Roles
  <1>9. ~(\/ AgentWritesOutbox \/ AgentChangesWorktree \/ AgentExits \/ StragglerWritesOutbox
          \/ InboxEdited \/ Cancel \/ UNCHANGED vars
          \/ \E r \in Roles : MonitorFinalize(r) \/ OtherLocks(r) \/ OtherUnlocks(r))
    BY DEF AgentWritesOutbox, AgentChangesWorktree, AgentExits, StragglerWritesOutbox,
           InboxEdited, Cancel, vars, MonitorFinalize, OtherLocks, OtherUnlocks, World
  <1> QED BY <1>1, <1>2, <1>4, <1>5, <1>6, <1>7, <1>8, <1>9
          DEF Next, Progress, Interruption, Environment, Exited

\* Between two requests for a revision a run takes at most 28 * Limit + 30 steps:
\* no loop of rejections, repairs, cleanups, crashes and retries feeds itself.
THEOREM RunsWindDown == Spec => WindsDown /\ [](Rank \in 0 .. (28 * Limit + 30))
  <1>1. RoundInv => Rank \in 0 .. (28 * Limit + 30)
    BY RankIsBounded DEF RoundInv, ControlInv
  <1> QED BY <1>1, RoundInvariant, WindsDownStep, PTL DEF Spec, WindsDown

-----------------------------------------------------------------------------
(***************************************************************************)
(* The locks of a run are those of LockView.                               *)
(***************************************************************************)

\* A run that keeps its locks stays where it is or leaves its loop.
LEMMA KeepStep ==
  ASSUME at # "exited", UNCHANGED locks, LockPhase' \in {LockPhase, "leaving"}
  PROVE  [Locking!LockStep]_(Locking!lockVars)
  <1>1. LockPhase \in {"between", "attempt", "leaving"}
    BY DEF LockPhase
  <1>2. CASE LockPhase' = LockPhase
    BY <1>2 DEF Locking!lockVars, LockPhase
  <1>3. CASE LockPhase' = "leaving" /\ LockPhase # "leaving"
    BY <1>1, <1>3 DEF Locking!LockStep, Locking!Leave, LockPhase
  <1> QED BY <1>2, <1>3

\* The end of an attempt gives up its lock.
LEMMA GiveStep ==
  ASSUME ControlInv, NEW r \in Roles, In(MonitorState(r)), locks' = Release(r),
         LockPhase' \in {"between", "leaving"}
  PROVE  Locking!LockStep
  <1>1. runState = MonitorState(r) /\ runState \notin Terminal /\ at = "step"
    BY DEF In, MonitorState, Terminal, Roles
  <1>2. locks[r] = "mine" /\ LockPhase = "attempt"
    BY <1>1 DEF ControlInv, Locks, LocksFollowTheAgent, LockPhase, MonitorState, Roles
  <1>3. Locking!Give(r)
    BY <1>2 DEF Locking!Give, Release, LockPhase
  <1> QED BY <1>3 DEF Locking!LockStep

\* Every action is a step of LockView or keeps the locks and the phase.
LEMMA LockingStep ==
  ASSUME ControlInv, [Next]_vars
  PROVE  [Locking!LockStep]_(Locking!lockVars)
  <1> USE DEF LockPhase
  <1>1. CASE LoopHead
    BY <1>1, KeepStep DEF LoopHead, Terminal, Aborted
  <1>2. CASE Exit
    <2>1. Locking!Close
      BY <1>2 DEF Exit, Locking!Close
    <2> QED BY <2>1 DEF Locking!LockStep
  <1>3. CASE \/ ValidateInputs \/ ContextPrep \/ SessionBind \/ RoundRetryDecide
             \/ ExecutorOutputCollect \/ OrchVerify \/ RoundFeedbackPrep
    BY <1>3, KeepStep DEF ValidateInputs, ContextPrep, GitCheckFailures, SessionBind,
         RoundRetryDecide, ExecutorOutputCollect, OrchVerify, RoundFeedbackPrep, In, Goto,
         DispatchState, Terminal
  <1>4. CASE CollectUntouched \/ CollectUnreadable \/ CollectRejected \/ CollectVerdict
    BY <1>4, KeepStep DEF CollectUntouched, CollectUnreadable, CollectRejected, CollectVerdict,
         RetryReviewer, In, Goto, Terminal
  <1>5. CASE QualityGate
    <2>1. reviewResult # "none" => AfterGate(reviewResult) \in Terminal \cup {"RoundFeedbackPrep"}
      BY AfterGateType DEF ControlInv, TypeOK
    <2>2. /\ runState = "QualityGate" /\ at = "step" /\ at' = "loop" /\ UNCHANGED locks
          /\ runState' \in Terminal \cup {"RoundFeedbackPrep"}
      BY <1>5, <2>1 DEF QualityGate, In, Goto, Terminal
    <2> QED BY <2>2, KeepStep DEF Terminal
  <1>6. ASSUME NEW r \in Roles, DispatchLocked(r)
        PROVE  [Locking!LockStep]_(Locking!lockVars)
    BY <1>6, KeepStep DEF DispatchLocked, In, Goto, DispatchState, Terminal
  <1>7. ASSUME NEW r \in Roles, DispatchRequestChanged(r) \/ DispatchFails(r) \/ Dispatch(r)
        PROVE  [Locking!LockStep]_(Locking!lockVars)
    <2>1. /\ LockPhase = "between" /\ locks[r] = "free"
          /\ at = "step" /\ at' = "loop"
          /\ \/ runState' = "RunFailedInternal"
             \/ runState' = MonitorState(r) /\ locks' = [locks EXCEPT ![r] = "mine"]
      BY <1>7 DEF DispatchRequestChanged, DispatchFails, Dispatch, In, Goto, DispatchState,
           Terminal, Roles
    <2>2. LockPhase' \in {"attempt", "leaving"}
      BY <2>1 DEF MonitorState, Terminal, Roles
    <2>3. CASE locks' = [locks EXCEPT ![r] = "mine"]
      <3>1. Locking!Take(r)
        BY <2>1, <2>2, <2>3 DEF Locking!Take
      <3> QED BY <3>1 DEF Locking!LockStep
    <2>4. CASE locks' = locks /\ runState' = "RunFailedInternal"
      BY <2>1, <2>4, KeepStep DEF Terminal
    <2>5. locks' \in {locks, [locks EXCEPT ![r] = "mine"]}
      BY <1>7 DEF DispatchRequestChanged, DispatchFails, Dispatch
    <2> QED BY <2>1, <2>3, <2>4, <2>5
  <1>8. ASSUME NEW r \in Roles,
               MonitorSuccess(r) \/ MonitorFailed(r) \/ MonitorHang(r) \/ MonitorServiceCap(r)
        PROVE  [Locking!LockStep]_(Locking!lockVars)
    BY <1>8, GiveStep DEF MonitorSuccess, MonitorFailed, MonitorHang, MonitorServiceCap, Goto,
         In, CollectState, Terminal, Roles
  <1>9. ASSUME NEW r \in Roles, MonitorCancelled(r) \/ MonitorFails(r) \/ CollectFails(r)
        PROVE  [Locking!LockStep]_(Locking!lockVars)
    <2>1. CASE locks' = locks
      BY <1>9, <2>1, KeepStep DEF MonitorCancelled, MonitorFails, CollectFails, In, Goto, Terminal
    <2>2. CASE locks' # locks
      BY <1>9, <2>2, GiveStep DEF MonitorCancelled, MonitorFails, CollectFails, In, Goto, Terminal
    <2> QED BY <2>1, <2>2
  <1>10. ASSUME NEW r \in Roles, OtherLocks(r) \/ OtherUnlocks(r)
         PROVE  [Locking!LockStep]_(Locking!lockVars)
    <2>1. Locking!Others(r)
      BY <1>10 DEF OtherLocks, OtherUnlocks, World, Locking!Others
    <2> QED BY <2>1 DEF Locking!LockStep
  <1>11. CASE \/ AgentWritesOutbox \/ AgentChangesWorktree \/ AgentExits
              \/ StragglerWritesOutbox \/ InboxEdited \/ Cancel \/ UNCHANGED vars
              \/ \E r \in Roles : MonitorFinalize(r)
    BY <1>11 DEF AgentWritesOutbox, AgentChangesWorktree, AgentExits, StragglerWritesOutbox,
         InboxEdited, Cancel, vars, MonitorFinalize, World, Locking!lockVars
  <1> QED BY <1>1, <1>2, <1>3, <1>4, <1>5, <1>6, <1>7, <1>8, <1>9, <1>10, <1>11
          DEF Next, Progress, Interruption, Environment, Exited

\* A run uses its locks as LockView says, for every value of the constants.  Each
\* run of SessionLocks does so too (LocksAreAsSeen), so OtherLocks and OtherUnlocks,
\* which are all LockView leaves to others, miss nothing other runs can do to it.
THEOREM RunUsesLocks == Spec => UsesLocksAsSeen
  <1>1. Init => Locking!Start
    BY DEF Init, Locking!Start, LockPhase, Terminal
  <1>2. RoundInv /\ [Next]_vars => [Locking!LockStep]_(Locking!lockVars)
    BY LockingStep DEF RoundInv
  <1> QED BY <1>1, <1>2, RoundInvariant, PTL DEF Spec, UsesLocksAsSeen, Locking!OneRunsLocks
=============================================================================
