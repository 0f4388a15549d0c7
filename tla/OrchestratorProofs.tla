-------------------------- MODULE OrchestratorProofs --------------------------
(***************************************************************************)
(* Theorems about Orchestrator for every failure limit and every set of    *)
(* worktree lines, and the inductive invariant they rest on.               *)
(***************************************************************************)
EXTENDS Orchestrator, TLAPS

(***************************************************************************)
(* The inductive invariant, in parts.                                      *)
(***************************************************************************)

ExecutorStates == {"ExecutorMonitor", "ExecutorOutputCollect", "OrchVerify"}
ReviewerStates == {"ReviewerMonitor", "ReviewerOutputCollect", "QualityGate",
                   "RoundFeedbackPrep"}

\* The loop is left only in a terminal state.
LoopLeftAtEnd == at \in {"done", "exited"} => runState \in Terminal

\* The phase tells whose attempt is the current one.
RoleOfPhase ==
  /\ runState \in ExecutorStates => currentRole = "executor"
  /\ runState \in ReviewerStates => currentRole = "reviewer"
  /\ runState \in {"RoundRetryDecide", "ReviewerDispatch"} => currentRole \in Roles
  /\ agent # "none" => currentRole \in Roles

\* Only the retry decision ever sees the failures used up.
FailuresLeft ==
  runState \notin Terminal \cup {"RoundRetryDecide"} => failures < Limit

\* A run that goes on has locks and a live agent only while it monitors.
Locks == LocksFollowTheAgent

ControlInv == TypeOK /\ LoopLeftAtEnd /\ RoleOfPhase /\ FailuresLeft /\ Locks

\* Every dispatch since the last pass of the gate is a failure, the delivery
\* of the executor, or under way.
BeforeDelivery == \/ runState = "ExecutorDispatch"
                  \/ runState = "RoundRetryDecide" /\ currentRole = "executor"
AfterDelivery == \/ runState = "ReviewerDispatch"
                 \/ runState = "RoundRetryDecide" /\ currentRole = "reviewer"
SpentIsAccountedFor ==
  /\ runState \in {"RunInit", "ContextPrep", "SessionBind", "RoundFeedbackPrep"} =>
       spent = 0 /\ failures = 0
  /\ BeforeDelivery => spent = failures
  /\ runState \in ExecutorStates => spent = failures + 1
  /\ AfterDelivery => spent = failures + 1
  /\ runState \in ReviewerStates \ {"RoundFeedbackPrep"} => spent = failures + 2
  /\ DispatchBudget

\* A late dispatch is the last one: the loop head sees the flag next.
LateDispatchIsLast ==
  lateDispatches # 0 => (lateDispatches = 1 /\ cancel /\ at # "step")

\* A verdict is held from the review it was given in until the next delivery,
\* and the executor is only ever sent back with `revise`.
VerdictInv ==
  /\ reviewResult = "none" <=> verdictOrigin = "none"
  /\ verdictOrigin = "stale" =>
       runState \in (Terminal \ {"RunDone"}) \cup {"OrchVerify"}
  /\ runState \in {"RunInit", "ContextPrep", "SessionBind"} => reviewResult = "none"
  /\ BeforeDelivery \/ runState \in ExecutorStates => reviewResult \in {"none", "revise"}
  /\ runState = "RoundFeedbackPrep" => reviewResult = "revise"
  /\ runState = "RunDone" => reviewResult = "accept"
  /\ runState = "QualityGate" => reviewResult # "none"

\* Without an attempt to clean up there is no verdict to keep.
CleanupInv ==
  /\ yamlRejected => reviewResult = "none"
  /\ AfterDelivery \/ runState \in {"ReviewerMonitor", "ReviewerOutputCollect"} =>
       (reviewResult # "none" <=> leftovers # {})

\* What moved the outbox during the review is the reviewer, and an outbox the
\* review started without is absent until then.
OutboxInv ==
  runState \in {"ReviewerMonitor", "ReviewerOutputCollect"} =>
    /\ outbox.touched => outbox.by = "reviewer"
    /\ ~preOutbox /\ ~outbox.touched => outbox.body = "absent"

\* Then the verdict is the reviewer's, unless the executor delivered since.
OriginInv == verdictOrigin \in {"none", "reviewer", "stale"}
-----------------------------------------------------------------------------
(***************************************************************************)
(* Types, roles, locks and the failure budget.                             *)
(***************************************************************************)

\* A run starts with its context in order: no attempt, no lock, no failure.
LEMMA ControlInit == Init => ControlInv
  <1> SUFFICES ASSUME Init PROVE ControlInv
    OBVIOUS
  <1> USE LimitAssumption DEF Init, EmptyRequest
  <1>1. outbox \in [body : Bodies, touched : BOOLEAN,
                  by : Roles \cup {"earlier", "orchestrator"}]
    OBVIOUS
  <1>2. locks \in [Roles -> {"free", "mine", "other"}]
    OBVIOUS
  <1>3. inbox \in [template : Templates \cup {"none"},
                  verdict : Decisions \cup {"none"}, intact : BOOLEAN]
    OBVIOUS
  <1>4. worktree \subseteq Lines /\ baseline \subseteq Lines /\ leftovers \subseteq Lines
    OBVIOUS
  <1>5. /\ runState = "RunInit" /\ at = "step" /\ cancel = FALSE /\ failures = 0
        /\ currentRole = "none" /\ preOutbox = FALSE /\ agent = "none"
        /\ outboxPresent = FALSE /\ reviewResult = "none" /\ yamlRejected = FALSE
        /\ verdictOrigin = "none" /\ spent = 0 /\ lateDispatches = 0
        /\ locks \in [Roles -> {"free", "other"}]
    OBVIOUS
  <1> HIDE DEF Init, EmptyRequest
  <1>6. TypeOK
    <2>1. runState \in RunStates /\ failures \in 0..Limit
      BY <1>5 DEF RunStates
    <2>2. spent \in 0..(Limit + 2) /\ lateDispatches \in 0..2
      BY <1>5
    <2> QED BY <1>1, <1>2, <1>3, <1>4, <1>5, <2>1, <2>2 DEF TypeOK
  <1>7. LoopLeftAtEnd /\ RoleOfPhase /\ FailuresLeft /\ Locks
    BY <1>2, <1>5 DEF LoopLeftAtEnd, Roles, RoleOfPhase, FailuresLeft, Locks,
           LocksFollowTheAgent, MonitorState, Terminal, ExecutorStates, ReviewerStates
  <1> QED BY <1>6, <1>7 DEF ControlInv

\* The prompt a dispatch picks is one of the five templates.
LEMMA TemplateType == \A r \in Roles : Template(r) \in Templates
  BY DEF Template, Templates

\* Truncating the outbox, or leaving it to the reviewer, keeps its type.
LEMMA ResetOutboxType ==
  ASSUME TypeOK, NEW r \in Roles
  PROVE  ResetOutbox(r) \in [body : Bodies, touched : BOOLEAN,
                             by : Roles \cup {"earlier", "orchestrator"}]
  <1>1. "empty" \in Bodies
    BY DEF Bodies
  <1> QED BY <1>1 DEF ResetOutbox, TypeOK

\* What write_request puts into the inbox has the type of a request.
LEMMA RequestType ==
  ASSUME TypeOK, NEW r \in Roles
  PROVE  /\ Request(r) \in [template : Templates \cup {"none"},
                            verdict : Decisions \cup {"none"}, intact : BOOLEAN]
         /\ EmptyRequest \in [template : Templates \cup {"none"},
                              verdict : Decisions \cup {"none"}, intact : BOOLEAN]
  BY TemplateType DEF Request, EmptyRequest, TypeOK

\* The gate ends the run or sends it to prepare feedback.
LEMMA AfterGateType ==
  ASSUME NEW d \in Decisions
  PROVE  AfterGate(d) \in Terminal \cup {"RoundFeedbackPrep"}
  BY DEF Decisions, AfterGate, Terminal

\* No handler, agent or operator takes a variable out of its type; the failure
\* count stays within Limit because a phase that can fail has a failure left.
LEMMA TypeStep == TypeOK /\ RoleOfPhase /\ FailuresLeft /\ [Next]_vars => TypeOK'
  <1> SUFFICES ASSUME TypeOK, RoleOfPhase, FailuresLeft, [Next]_vars PROVE TypeOK'
    OBVIOUS
  <1> USE LimitAssumption
      DEF TypeOK, attemptVars, reviewVars, history, files, In, Goto
  <1>1. CASE LoopHead
    BY <1>1 DEF LoopHead, Aborted, RunStates, Terminal
  <1>2. CASE Exit
    BY <1>2 DEF Exit
  <1>3. CASE ValidateInputs
    BY <1>3 DEF ValidateInputs, RunStates, Terminal
  <1>4. CASE ContextPrep
    BY <1>4 DEF ContextPrep, GitCheckFailures, RunStates, Terminal
  <1>5. CASE SessionBind
    BY <1>5 DEF SessionBind, RunStates, Terminal
  <1>6. CASE RoundRetryDecide
    BY <1>6 DEF RoundRetryDecide, BudgetSpent, RunStates, Terminal, Roles, DispatchState, RoleOfPhase
  <1>7. CASE ExecutorOutputCollect
    BY <1>7 DEF ExecutorOutputCollect, RunStates, Terminal
  <1>8. CASE OrchVerify
    <2>1. leftovers' \subseteq Lines
      BY <1>8 DEF OrchVerify
    <2>2. runState' \in RunStates /\ at' = "loop" /\ UNCHANGED cancel
      BY <1>8 DEF OrchVerify, RunStates
    <2>3. /\ reviewResult' = "none" /\ verdictOrigin' = "none" /\ yamlRejected' = FALSE
          /\ UNCHANGED <<failures, currentRole, preOutbox, agent, locks, outbox, inbox,
                         worktree, baseline, outboxPresent, spent, lateDispatches>>
      BY <1>8 DEF OrchVerify
    <2>4. /\ failures' \in 0..Limit
          /\ currentRole' \in Roles \cup {"none"} /\ preOutbox' \in BOOLEAN
          /\ agent' \in {"none", "running", "exited"}
          /\ locks' \in [Roles -> {"free", "mine", "other"}]
          /\ worktree' \subseteq Lines /\ baseline' \subseteq Lines
          /\ outboxPresent' \in BOOLEAN
          /\ spent' \in 0..(Limit + 2) /\ lateDispatches' \in 0..2
      BY <2>3
    <2>5. /\ outbox' \in [body : Bodies, touched : BOOLEAN,
                          by : Roles \cup {"earlier", "orchestrator"}]
          /\ inbox' \in [template : Templates \cup {"none"},
                         verdict : Decisions \cup {"none"}, intact : BOOLEAN]
      BY <2>3
    <2>6. /\ reviewResult' \in Decisions \cup {"none"} /\ yamlRejected' \in BOOLEAN
          /\ verdictOrigin' \in Roles \cup {"none", "earlier", "orchestrator", "stale"}
      BY <2>3
    <2>7. at' \in {"loop", "step", "done", "exited"} /\ cancel' \in BOOLEAN
      BY <2>2
    <2> QED BY <2>1, <2>2, <2>4, <2>5, <2>6, <2>7
  <1>9. CASE CollectUntouched
    BY <1>9 DEF CollectUntouched, RetryReviewer, RunStates, Terminal, FailuresLeft
  <1>10. CASE CollectUnreadable
    BY <1>10 DEF CollectUnreadable, RetryReviewer, RunStates, Terminal, FailuresLeft
  <1>11. CASE CollectRejected
    BY <1>11 DEF CollectRejected, RetryReviewer, RunStates, Terminal, FailuresLeft
  <1>12. CASE CollectVerdict
    <2>1. leftovers' \subseteq Lines
      BY <1>12 DEF CollectVerdict, RetryReviewer, SaveVerdict, FailuresLeft, Terminal
    <2>2. reviewResult' \in Decisions \cup {"none"}
      BY <1>12 DEF CollectVerdict, RetryReviewer, SaveVerdict, FailuresLeft, Terminal
    <2>3. verdictOrigin' \in Roles \cup {"none", "earlier", "orchestrator", "stale"}
      BY <1>12 DEF CollectVerdict, RetryReviewer, SaveVerdict, FailuresLeft, Terminal
    <2>4. failures' \in 0..Limit
      BY <1>12 DEF CollectVerdict, RetryReviewer, SaveVerdict, FailuresLeft, Terminal
    <2>5. runState' \in {"RoundRetryDecide", "QualityGate"} /\ at' = "loop"
      BY <1>12 DEF CollectVerdict, RetryReviewer, SaveVerdict, FailuresLeft, Terminal
    <2>6. yamlRejected' \in BOOLEAN
      BY <1>12 DEF CollectVerdict, RetryReviewer, SaveVerdict, FailuresLeft, Terminal
    <2>7. UNCHANGED <<cancel, attemptVars, locks, files, baseline, outboxPresent, history>>
      BY <1>12 DEF CollectVerdict, RetryReviewer, SaveVerdict, FailuresLeft, Terminal
    <2> QED BY <2>1, <2>2, <2>3, <2>4, <2>5, <2>6, <2>7 DEF RunStates
  <1>13. CASE QualityGate
    BY <1>13, AfterGateType DEF QualityGate, RunStates, Terminal
  <1>14. CASE RoundFeedbackPrep
    BY <1>14 DEF RoundFeedbackPrep, RunStates, Terminal
  <1>15. ASSUME NEW r \in Roles, DispatchLocked(r) PROVE TypeOK'
    BY <1>15 DEF DispatchLocked, RunStates, Terminal
  <1>16. ASSUME NEW r \in Roles, DispatchRequestChanged(r) PROVE TypeOK'
    BY <1>16 DEF DispatchRequestChanged, RequestIntact, RunStates, Terminal
  <1>17. ASSUME NEW r \in Roles, Dispatch(r) PROVE TypeOK'
    <2>1. outbox' \in [body : Bodies, touched : BOOLEAN,
                  by : Roles \cup {"earlier", "orchestrator"}]
      BY <1>17, ResetOutboxType DEF Dispatch
    <2>2. inbox' \in [template : Templates \cup {"none"},
                 verdict : Decisions \cup {"none"}, intact : BOOLEAN]
      BY <1>17, RequestType DEF Dispatch
    <2>3. baseline' \subseteq Lines
      BY <1>17 DEF Dispatch, Baseline
    <2>4. spent' \in 0..(Limit + 2) /\ lateDispatches' \in 0..2
      <3>1. Counted(spent, Limit + 2) \in 0..(Limit + 2) /\ Counted(lateDispatches, 2) \in 0..2
        BY DEF Counted
      <3> QED BY <1>17, <3>1 DEF Dispatch
    <2> QED BY <1>17, <2>1, <2>2, <2>3, <2>4 DEF Dispatch, RequestIntact, RunStates, Terminal, MonitorState
  <1>18. ASSUME NEW r \in Roles, MonitorSuccess(r) PROVE TypeOK'
    BY <1>18 DEF MonitorSuccess, Release, HasContent, RunStates, Terminal, CollectState
  <1>19. ASSUME NEW r \in Roles, MonitorFailed(r) PROVE TypeOK'
    BY <1>19 DEF MonitorFailed, Release, RunStates, Terminal, FailuresLeft, MonitorState
  <1>20. ASSUME NEW r \in Roles, MonitorCancelled(r) PROVE TypeOK'
    BY <1>20 DEF MonitorCancelled, Release, RunStates, Terminal
  <1>21. ASSUME NEW r \in Roles, DispatchFails(r) PROVE TypeOK'
    <2>1. outbox' \in [body : Bodies, touched : BOOLEAN,
                  by : Roles \cup {"earlier", "orchestrator"}]
      BY <1>21, ResetOutboxType DEF DispatchFails
    <2>2. inbox' \in [template : Templates \cup {"none"},
                 verdict : Decisions \cup {"none"}, intact : BOOLEAN]
      BY <1>21, RequestType DEF DispatchFails
    <2>3. baseline' \subseteq Lines
      BY <1>21 DEF DispatchFails, Baseline
    <2>4. locks' \in [Roles -> {"free", "mine", "other"}]
      BY <1>21 DEF DispatchFails
    <2> QED BY <1>21, <2>1, <2>2, <2>3, <2>4 DEF DispatchFails, RunStates, Terminal
  <1>22. ASSUME NEW r \in Roles, MonitorHang(r) PROVE TypeOK'
    BY <1>22 DEF MonitorHang, Release, RunStates, Terminal, FailuresLeft, MonitorState
  <1>23. ASSUME NEW r \in Roles, MonitorFinalize(r) PROVE TypeOK'
    BY <1>23 DEF MonitorFinalize
  <1>24. ASSUME NEW r \in Roles, MonitorServiceCap(r) PROVE TypeOK'
    BY <1>24 DEF MonitorServiceCap, Release, RunStates, Terminal
  <1>25. ASSUME NEW r \in Roles, MonitorFails(r) PROVE TypeOK'
    BY <1>25 DEF MonitorFails, RunStates, Terminal
  <1>26. ASSUME NEW r \in Roles, CollectFails(r) PROVE TypeOK'
    <2>1. runState' = "RunFailedInternal" /\ at' = "loop"
      BY <1>26 DEF CollectFails
    <2>2. reviewResult' \in Decisions \cup {"none"}
      BY <1>26 DEF CollectFails, SaveVerdict
    <2>3. verdictOrigin' \in Roles \cup {"none", "earlier", "orchestrator", "stale"}
      BY <1>26 DEF CollectFails, SaveVerdict
    <2>4. yamlRejected' \in BOOLEAN
      BY <1>26 DEF CollectFails, SaveVerdict
    <2>5. UNCHANGED <<cancel, failures, attemptVars, locks, files, baseline,
                      outboxPresent, leftovers, history>>
      BY <1>26 DEF CollectFails
    <2> QED BY <2>1, <2>2, <2>3, <2>4, <2>5 DEF RunStates, Terminal
  <1>27. ASSUME NEW r \in Roles, OtherLocks(r) PROVE TypeOK'
    BY <1>27 DEF OtherLocks, World
  <1>28. ASSUME NEW r \in Roles, OtherUnlocks(r) PROVE TypeOK'
    BY <1>28 DEF OtherUnlocks, World
  <1>29. CASE AgentWritesOutbox
    BY <1>29 DEF AgentWritesOutbox, World, RoleOfPhase, Roles
  <1>30. CASE AgentChangesWorktree
    BY <1>30 DEF AgentChangesWorktree, World
  <1>31. CASE AgentExits
    BY <1>31 DEF AgentExits, World
  <1>32. CASE StragglerWritesOutbox
    BY <1>32 DEF StragglerWritesOutbox, World, Roles
  <1>33. CASE InboxEdited
    <2>1. inbox' \in [template : Templates \cup {"none"},
                 verdict : Decisions \cup {"none"}, intact : BOOLEAN]
      BY <1>33 DEF InboxEdited
    <2> QED BY <1>33, <2>1 DEF InboxEdited, World
  <1>34. CASE Cancel
    BY <1>34 DEF Cancel, World
  <1>35. CASE UNCHANGED vars
    BY <1>35 DEF vars
  <1> QED
    BY <1>1, <1>2, <1>3, <1>4, <1>5, <1>6, <1>7, <1>8, <1>9, <1>10, <1>11, <1>12, <1>13, <1>14, <1>15, <1>16, <1>17, <1>18, <1>19, <1>20, <1>21, <1>22, <1>23, <1>24, <1>25, <1>26, <1>27, <1>28, <1>29, <1>30, <1>31, <1>32, <1>33, <1>34, <1>35
    DEF Next, Progress, Interruption, Environment, Exited

\* Every step keeps the role in line with the phase, a failure left for every
\* attempt that is begun, and the locks in line with the monitored attempt.
LEMMA ControlStep == ControlInv /\ [Next]_vars => ControlInv'
  <1> SUFFICES ASSUME ControlInv, [Next]_vars
               PROVE  (LoopLeftAtEnd /\ RoleOfPhase /\ FailuresLeft /\ Locks)'
    BY TypeStep DEF ControlInv
  <1> USE LimitAssumption
      DEF ControlInv, TypeOK, LoopLeftAtEnd, RoleOfPhase, FailuresLeft, Locks,
          LocksFollowTheAgent, Roles, Terminal, ExecutorStates, ReviewerStates,
          attemptVars, reviewVars, history, files, In, Goto, DispatchState,
          MonitorState, CollectState
  <1>1. CASE LoopHead
    BY <1>1 DEF LoopHead, Aborted
  <1>2. CASE Exit
    BY <1>2 DEF Exit
  <1>3. CASE ValidateInputs
    BY <1>3 DEF ValidateInputs
  <1>4. CASE ContextPrep
    BY <1>4 DEF ContextPrep, GitCheckFailures
  <1>5. CASE SessionBind
    BY <1>5 DEF SessionBind
  <1>6. CASE RoundRetryDecide
    BY <1>6 DEF RoundRetryDecide, BudgetSpent
  <1>7. CASE ExecutorOutputCollect
    BY <1>7 DEF ExecutorOutputCollect
  <1>8. CASE OrchVerify
    BY <1>8 DEF OrchVerify
  <1>9. CASE CollectUntouched
    BY <1>9 DEF CollectUntouched, RetryReviewer
  <1>10. CASE CollectUnreadable
    BY <1>10 DEF CollectUnreadable, RetryReviewer
  <1>11. CASE CollectRejected
    BY <1>11 DEF CollectRejected, RetryReviewer
  <1>12. CASE CollectVerdict
    BY <1>12 DEF CollectVerdict, RetryReviewer, SaveVerdict
  <1>13. CASE QualityGate
    BY <1>13, AfterGateType DEF QualityGate
  <1>14. CASE RoundFeedbackPrep
    BY <1>14 DEF RoundFeedbackPrep
  <1>15. ASSUME NEW r \in Roles, DispatchLocked(r)
        PROVE  (LoopLeftAtEnd /\ RoleOfPhase /\ FailuresLeft /\ Locks)'
    BY <1>15 DEF DispatchLocked
  <1>16. ASSUME NEW r \in Roles, DispatchRequestChanged(r)
        PROVE  (LoopLeftAtEnd /\ RoleOfPhase /\ FailuresLeft /\ Locks)'
    BY <1>16 DEF DispatchRequestChanged, RequestIntact
  <1>17. ASSUME NEW r \in Roles, Dispatch(r)
        PROVE  (LoopLeftAtEnd /\ RoleOfPhase /\ FailuresLeft /\ Locks)'
    BY <1>17 DEF Dispatch, RequestIntact, ResetOutbox, Baseline
  <1>18. ASSUME NEW r \in Roles, MonitorSuccess(r)
        PROVE  (LoopLeftAtEnd /\ RoleOfPhase /\ FailuresLeft /\ Locks)'
    BY <1>18 DEF MonitorSuccess, Release, HasContent
  <1>19. ASSUME NEW r \in Roles, MonitorFailed(r)
        PROVE  (LoopLeftAtEnd /\ RoleOfPhase /\ FailuresLeft /\ Locks)'
    BY <1>19 DEF MonitorFailed, Release
  <1>20. ASSUME NEW r \in Roles, MonitorCancelled(r)
        PROVE  (LoopLeftAtEnd /\ RoleOfPhase /\ FailuresLeft /\ Locks)'
    BY <1>20 DEF MonitorCancelled, Release
  <1>21. ASSUME NEW r \in Roles, DispatchFails(r)
        PROVE  (LoopLeftAtEnd /\ RoleOfPhase /\ FailuresLeft /\ Locks)'
    BY <1>21 DEF DispatchFails, RequestIntact
  <1>22. ASSUME NEW r \in Roles, MonitorHang(r)
        PROVE  (LoopLeftAtEnd /\ RoleOfPhase /\ FailuresLeft /\ Locks)'
    BY <1>22 DEF MonitorHang, Release
  <1>23. ASSUME NEW r \in Roles, MonitorFinalize(r)
        PROVE  (LoopLeftAtEnd /\ RoleOfPhase /\ FailuresLeft /\ Locks)'
    BY <1>23 DEF MonitorFinalize
  <1>24. ASSUME NEW r \in Roles, MonitorServiceCap(r)
        PROVE  (LoopLeftAtEnd /\ RoleOfPhase /\ FailuresLeft /\ Locks)'
    BY <1>24 DEF MonitorServiceCap, Release
  <1>25. ASSUME NEW r \in Roles, MonitorFails(r)
        PROVE  (LoopLeftAtEnd /\ RoleOfPhase /\ FailuresLeft /\ Locks)'
    BY <1>25 DEF MonitorFails
  <1>26. ASSUME NEW r \in Roles, CollectFails(r)
        PROVE  (LoopLeftAtEnd /\ RoleOfPhase /\ FailuresLeft /\ Locks)'
    BY <1>26 DEF CollectFails, SaveVerdict, OutboxUntouched
  <1>27. ASSUME NEW r \in Roles, OtherLocks(r)
        PROVE  (LoopLeftAtEnd /\ RoleOfPhase /\ FailuresLeft /\ Locks)'
    BY <1>27 DEF OtherLocks, World
  <1>28. ASSUME NEW r \in Roles, OtherUnlocks(r)
        PROVE  (LoopLeftAtEnd /\ RoleOfPhase /\ FailuresLeft /\ Locks)'
    BY <1>28 DEF OtherUnlocks, World
  <1>29. CASE AgentWritesOutbox
    BY <1>29 DEF AgentWritesOutbox, World
  <1>30. CASE AgentChangesWorktree
    BY <1>30 DEF AgentChangesWorktree, World
  <1>31. CASE AgentExits
    BY <1>31 DEF AgentExits, World
  <1>32. CASE StragglerWritesOutbox
    BY <1>32 DEF StragglerWritesOutbox, World
  <1>33. CASE InboxEdited
    BY <1>33 DEF InboxEdited, World
  <1>34. CASE Cancel
    BY <1>34 DEF Cancel, World
  <1>35. CASE UNCHANGED vars
    BY <1>35 DEF vars
  <1> QED
    BY <1>1, <1>2, <1>3, <1>4, <1>5, <1>6, <1>7, <1>8, <1>9, <1>10, <1>11, <1>12, <1>13, <1>14, <1>15, <1>16, <1>17, <1>18, <1>19, <1>20, <1>21, <1>22, <1>23, <1>24, <1>25, <1>26, <1>27, <1>28, <1>29, <1>30, <1>31, <1>32, <1>33, <1>34, <1>35
    DEF Next, Progress, Interruption, Environment, Exited

\* Type correctness, with the failure count within its limit, and the locks
\* and the agent following the phase.
THEOREM TypeCorrect == Spec => []TypeOK
  <1>1. Init => ControlInv
    BY ControlInit
  <1>2. ControlInv /\ [Next]_vars => ControlInv'
    BY ControlStep
  <1>3. ControlInv => TypeOK
    BY DEF ControlInv
  <1> QED BY <1>1, <1>2, <1>3, PTL DEF Spec

-----------------------------------------------------------------------------
(***************************************************************************)
(* The budget of dispatches, the late dispatch and the verdict.             *)
(***************************************************************************)

\* Every dispatch is paid for: by a failure, or by the one executor delivery and
\* the one review a round may have without one.
LEMMA BudgetStep ==
  ControlInv /\ SpentIsAccountedFor /\ [Next]_vars => SpentIsAccountedFor'
  <1> SUFFICES ASSUME ControlInv, SpentIsAccountedFor, [Next]_vars
               PROVE  SpentIsAccountedFor'
    OBVIOUS
  <1>0. /\ failures \in Nat /\ failures <= Limit /\ Limit \in Nat /\ spent \in Nat
        /\ runState \in RunStates /\ currentRole \in Roles \cup {"none"}
        /\ reviewResult \in Decisions \cup {"none"}
        /\ RoleOfPhase /\ FailuresLeft
    BY LimitAssumption DEF ControlInv, TypeOK
  <1> USE <1>0
      DEF SpentIsAccountedFor, DispatchBudget, BeforeDelivery, AfterDelivery,
          ExecutorStates, ReviewerStates, RoleOfPhase, FailuresLeft, RunStates,
          Terminal, Roles, attemptVars, history, In, Goto, DispatchState,
          MonitorState, CollectState
  <1>1. CASE LoopHead
    BY <1>1 DEF LoopHead, Aborted
  <1>2. CASE Exit
    BY <1>2 DEF Exit
  <1>3. CASE ValidateInputs
    BY <1>3 DEF ValidateInputs
  <1>4. CASE ContextPrep
    BY <1>4 DEF ContextPrep, GitCheckFailures
  <1>5. CASE SessionBind
    BY <1>5 DEF SessionBind
  <1>6. CASE RoundRetryDecide
    BY <1>6 DEF RoundRetryDecide, BudgetSpent
  <1>7. CASE ExecutorOutputCollect
    BY <1>7 DEF ExecutorOutputCollect
  <1>8. CASE OrchVerify
    BY <1>8 DEF OrchVerify
  <1>9. CASE CollectUntouched
    BY <1>9 DEF CollectUntouched, RetryReviewer
  <1>10. CASE CollectUnreadable
    BY <1>10 DEF CollectUnreadable, RetryReviewer
  <1>11. CASE CollectRejected
    BY <1>11 DEF CollectRejected, RetryReviewer
  <1>12. CASE CollectVerdict
    BY <1>12 DEF CollectVerdict, RetryReviewer, SaveVerdict
  <1>13. CASE QualityGate
    BY <1>13, AfterGateType DEF QualityGate
  <1>14. CASE RoundFeedbackPrep
    BY <1>14 DEF RoundFeedbackPrep
  <1>15. ASSUME NEW r \in Roles, DispatchLocked(r) PROVE SpentIsAccountedFor'
    BY <1>15 DEF DispatchLocked
  <1>16. ASSUME NEW r \in Roles, DispatchRequestChanged(r) PROVE SpentIsAccountedFor'
    BY <1>16 DEF DispatchRequestChanged, RequestIntact
  <1>17. ASSUME NEW r \in Roles, Dispatch(r) PROVE SpentIsAccountedFor'
    BY <1>17 DEF Dispatch, Counted
  <1>18. ASSUME NEW r \in Roles, MonitorSuccess(r) PROVE SpentIsAccountedFor'
    BY <1>18 DEF MonitorSuccess, Release, HasContent
  <1>19. ASSUME NEW r \in Roles, MonitorFailed(r) PROVE SpentIsAccountedFor'
    BY <1>19 DEF MonitorFailed, Release
  <1>20. ASSUME NEW r \in Roles, MonitorCancelled(r) PROVE SpentIsAccountedFor'
    BY <1>20 DEF MonitorCancelled, Release
  <1>21. ASSUME NEW r \in Roles, DispatchFails(r) PROVE SpentIsAccountedFor'
    BY <1>21 DEF DispatchFails, RequestIntact
  <1>22. ASSUME NEW r \in Roles, MonitorHang(r) PROVE SpentIsAccountedFor'
    BY <1>22 DEF MonitorHang, Release
  <1>23. ASSUME NEW r \in Roles, MonitorFinalize(r) PROVE SpentIsAccountedFor'
    BY <1>23 DEF MonitorFinalize
  <1>24. ASSUME NEW r \in Roles, MonitorServiceCap(r) PROVE SpentIsAccountedFor'
    BY <1>24 DEF MonitorServiceCap, Release
  <1>25. ASSUME NEW r \in Roles, MonitorFails(r) PROVE SpentIsAccountedFor'
    BY <1>25 DEF MonitorFails
  <1>26. ASSUME NEW r \in Roles, CollectFails(r) PROVE SpentIsAccountedFor'
    BY <1>26 DEF CollectFails, SaveVerdict, OutboxUntouched
  <1>27. ASSUME NEW r \in Roles, OtherLocks(r) PROVE SpentIsAccountedFor'
    BY <1>27 DEF OtherLocks, World
  <1>28. ASSUME NEW r \in Roles, OtherUnlocks(r) PROVE SpentIsAccountedFor'
    BY <1>28 DEF OtherUnlocks, World
  <1>29. CASE AgentWritesOutbox
    BY <1>29 DEF AgentWritesOutbox, World
  <1>30. CASE AgentChangesWorktree
    BY <1>30 DEF AgentChangesWorktree, World
  <1>31. CASE AgentExits
    BY <1>31 DEF AgentExits, World
  <1>32. CASE StragglerWritesOutbox
    BY <1>32 DEF StragglerWritesOutbox, World
  <1>33. CASE InboxEdited
    BY <1>33 DEF InboxEdited, World
  <1>34. CASE Cancel
    BY <1>34 DEF Cancel, World
  <1>35. CASE UNCHANGED vars
    BY <1>35 DEF vars
  <1> QED
    BY <1>1, <1>2, <1>3, <1>4, <1>5, <1>6, <1>7, <1>8, <1>9, <1>10, <1>11, <1>12, <1>13, <1>14, <1>15, <1>16, <1>17, <1>18, <1>19, <1>20, <1>21, <1>22, <1>23, <1>24, <1>25, <1>26, <1>27, <1>28, <1>29, <1>30, <1>31, <1>32, <1>33, <1>34, <1>35
    DEF Next, Progress, Interruption, Environment, Exited

\* An agent dispatched after the cancel flag was set is the last: the loop head
\* that follows, or its monitor, aborts the run.
LEMMA LateStep ==
  LateDispatchIsLast /\ lateDispatches \in Nat /\ [Next]_vars => LateDispatchIsLast'
  <1> SUFFICES ASSUME LateDispatchIsLast, lateDispatches \in Nat, [Next]_vars
               PROVE  LateDispatchIsLast'
    OBVIOUS
  <1> USE DEF LateDispatchIsLast, history, In, Goto, Terminal
  <1>1. CASE LoopHead
    BY <1>1 DEF LoopHead, Aborted
  <1>2. CASE Exit
    BY <1>2 DEF Exit
  <1>3. CASE ValidateInputs
    BY <1>3 DEF ValidateInputs
  <1>4. CASE ContextPrep
    BY <1>4 DEF ContextPrep, GitCheckFailures
  <1>5. CASE SessionBind
    BY <1>5 DEF SessionBind
  <1>6. CASE RoundRetryDecide
    BY <1>6 DEF RoundRetryDecide, BudgetSpent
  <1>7. CASE ExecutorOutputCollect
    BY <1>7 DEF ExecutorOutputCollect
  <1>8. CASE OrchVerify
    BY <1>8 DEF OrchVerify
  <1>9. CASE CollectUntouched
    BY <1>9 DEF CollectUntouched, RetryReviewer
  <1>10. CASE CollectUnreadable
    BY <1>10 DEF CollectUnreadable, RetryReviewer
  <1>11. CASE CollectRejected
    BY <1>11 DEF CollectRejected, RetryReviewer
  <1>12. CASE CollectVerdict
    BY <1>12 DEF CollectVerdict, RetryReviewer, SaveVerdict
  <1>13. CASE QualityGate
    BY <1>13 DEF QualityGate
  <1>14. CASE RoundFeedbackPrep
    BY <1>14 DEF RoundFeedbackPrep
  <1>15. ASSUME NEW r \in Roles, DispatchLocked(r) PROVE LateDispatchIsLast'
    BY <1>15 DEF DispatchLocked
  <1>16. ASSUME NEW r \in Roles, DispatchRequestChanged(r) PROVE LateDispatchIsLast'
    BY <1>16 DEF DispatchRequestChanged, RequestIntact
  <1>17. ASSUME NEW r \in Roles, Dispatch(r) PROVE LateDispatchIsLast'
    BY <1>17 DEF Dispatch, Counted
  <1>18. ASSUME NEW r \in Roles, MonitorSuccess(r) PROVE LateDispatchIsLast'
    BY <1>18 DEF MonitorSuccess, Release, HasContent
  <1>19. ASSUME NEW r \in Roles, MonitorFailed(r) PROVE LateDispatchIsLast'
    BY <1>19 DEF MonitorFailed, Release
  <1>20. ASSUME NEW r \in Roles, MonitorCancelled(r) PROVE LateDispatchIsLast'
    BY <1>20 DEF MonitorCancelled, Release
  <1>21. ASSUME NEW r \in Roles, DispatchFails(r) PROVE LateDispatchIsLast'
    BY <1>21 DEF DispatchFails, RequestIntact
  <1>22. ASSUME NEW r \in Roles, MonitorHang(r) PROVE LateDispatchIsLast'
    BY <1>22 DEF MonitorHang, Release
  <1>23. ASSUME NEW r \in Roles, MonitorFinalize(r) PROVE LateDispatchIsLast'
    BY <1>23 DEF MonitorFinalize
  <1>24. ASSUME NEW r \in Roles, MonitorServiceCap(r) PROVE LateDispatchIsLast'
    BY <1>24 DEF MonitorServiceCap, Release
  <1>25. ASSUME NEW r \in Roles, MonitorFails(r) PROVE LateDispatchIsLast'
    BY <1>25 DEF MonitorFails
  <1>26. ASSUME NEW r \in Roles, CollectFails(r) PROVE LateDispatchIsLast'
    BY <1>26 DEF CollectFails, SaveVerdict, OutboxUntouched
  <1>27. ASSUME NEW r \in Roles, OtherLocks(r) PROVE LateDispatchIsLast'
    BY <1>27 DEF OtherLocks, World
  <1>28. ASSUME NEW r \in Roles, OtherUnlocks(r) PROVE LateDispatchIsLast'
    BY <1>28 DEF OtherUnlocks, World
  <1>29. CASE AgentWritesOutbox
    BY <1>29 DEF AgentWritesOutbox, World
  <1>30. CASE AgentChangesWorktree
    BY <1>30 DEF AgentChangesWorktree, World
  <1>31. CASE AgentExits
    BY <1>31 DEF AgentExits, World
  <1>32. CASE StragglerWritesOutbox
    BY <1>32 DEF StragglerWritesOutbox, World
  <1>33. CASE InboxEdited
    BY <1>33 DEF InboxEdited, World
  <1>34. CASE Cancel
    BY <1>34 DEF Cancel, World
  <1>35. CASE UNCHANGED vars
    BY <1>35 DEF vars
  <1> QED
    BY <1>1, <1>2, <1>3, <1>4, <1>5, <1>6, <1>7, <1>8, <1>9, <1>10, <1>11, <1>12, <1>13, <1>14, <1>15, <1>16, <1>17, <1>18, <1>19, <1>20, <1>21, <1>22, <1>23, <1>24, <1>25, <1>26, <1>27, <1>28, <1>29, <1>30, <1>31, <1>32, <1>33, <1>34, <1>35
    DEF Next, Progress, Interruption, Environment, Exited

\* Only an accept ends in RunDone and only a revise in another round.
LEMMA AfterGateDecides ==
  ASSUME NEW d \in Decisions
  PROVE  /\ AfterGate(d) \in Terminal \cup {"RoundFeedbackPrep"}
         /\ AfterGate(d) = "RunDone" => d = "accept"
         /\ AfterGate(d) = "RoundFeedbackPrep" => d = "revise"
  BY DEF Decisions, AfterGate, Terminal

\* Every step keeps the verdict in line with the phase, and a saved verdict apart
\* from a rejected one.
LEMMA VerdictStep ==
  ControlInv /\ VerdictInv /\ CleanupInv /\ [Next]_vars => (VerdictInv /\ CleanupInv)'
  <1> SUFFICES ASSUME ControlInv, VerdictInv, CleanupInv, [Next]_vars
               PROVE  (VerdictInv /\ CleanupInv)'
    OBVIOUS
  <1>0. /\ runState \in RunStates /\ currentRole \in Roles \cup {"none"}
        /\ reviewResult \in Decisions \cup {"none"}
        /\ verdictOrigin \in Roles \cup {"none", "earlier", "orchestrator", "stale"}
        /\ outbox.by \in Roles \cup {"earlier", "orchestrator"}
        /\ RoleOfPhase
    BY DEF ControlInv, TypeOK
  <1> USE <1>0
      DEF VerdictInv, CleanupInv, BeforeDelivery, AfterDelivery, ExecutorStates,
          ReviewerStates, RoleOfPhase, RunStates, Terminal, Roles, Decisions,
          attemptVars, reviewVars, files, In, Goto, DispatchState, MonitorState,
          CollectState
  <1>1. CASE LoopHead
    BY <1>1 DEF LoopHead, Aborted
  <1>2. CASE Exit
    BY <1>2 DEF Exit
  <1>3. CASE ValidateInputs
    BY <1>3 DEF ValidateInputs
  <1>4. CASE ContextPrep
    BY <1>4 DEF ContextPrep, GitCheckFailures
  <1>5. CASE SessionBind
    BY <1>5 DEF SessionBind
  <1>6. CASE RoundRetryDecide
    BY <1>6 DEF RoundRetryDecide, BudgetSpent
  <1>7. CASE ExecutorOutputCollect
    BY <1>7 DEF ExecutorOutputCollect
  <1>8. CASE OrchVerify
    BY <1>8 DEF OrchVerify
  <1>9. CASE CollectUntouched
    BY <1>9 DEF CollectUntouched, RetryReviewer
  <1>10. CASE CollectUnreadable
    BY <1>10 DEF CollectUnreadable, RetryReviewer
  <1>11. CASE CollectRejected
    BY <1>11 DEF CollectRejected, RetryReviewer
  <1>12. CASE CollectVerdict
    BY <1>12 DEF CollectVerdict, RetryReviewer, SaveVerdict
  <1>13. CASE QualityGate
    BY <1>13, AfterGateDecides DEF QualityGate
  <1>14. CASE RoundFeedbackPrep
    BY <1>14 DEF RoundFeedbackPrep
  <1>15. ASSUME NEW r \in Roles, DispatchLocked(r) PROVE (VerdictInv /\ CleanupInv)'
    BY <1>15 DEF DispatchLocked
  <1>16. ASSUME NEW r \in Roles, DispatchRequestChanged(r) PROVE (VerdictInv /\ CleanupInv)'
    BY <1>16 DEF DispatchRequestChanged, RequestIntact
  <1>17. ASSUME NEW r \in Roles, Dispatch(r) PROVE (VerdictInv /\ CleanupInv)'
    BY <1>17 DEF Dispatch, RequestIntact, ResetOutbox, Baseline
  <1>18. ASSUME NEW r \in Roles, MonitorSuccess(r) PROVE (VerdictInv /\ CleanupInv)'
    BY <1>18 DEF MonitorSuccess, Release, HasContent
  <1>19. ASSUME NEW r \in Roles, MonitorFailed(r) PROVE (VerdictInv /\ CleanupInv)'
    BY <1>19 DEF MonitorFailed, Release
  <1>20. ASSUME NEW r \in Roles, MonitorCancelled(r) PROVE (VerdictInv /\ CleanupInv)'
    BY <1>20 DEF MonitorCancelled, Release
  <1>21. ASSUME NEW r \in Roles, DispatchFails(r) PROVE (VerdictInv /\ CleanupInv)'
    BY <1>21 DEF DispatchFails, RequestIntact
  <1>22. ASSUME NEW r \in Roles, MonitorHang(r) PROVE (VerdictInv /\ CleanupInv)'
    BY <1>22 DEF MonitorHang, Release
  <1>23. ASSUME NEW r \in Roles, MonitorFinalize(r) PROVE (VerdictInv /\ CleanupInv)'
    BY <1>23 DEF MonitorFinalize
  <1>24. ASSUME NEW r \in Roles, MonitorServiceCap(r) PROVE (VerdictInv /\ CleanupInv)'
    BY <1>24 DEF MonitorServiceCap, Release
  <1>25. ASSUME NEW r \in Roles, MonitorFails(r) PROVE (VerdictInv /\ CleanupInv)'
    BY <1>25 DEF MonitorFails
  <1>26. ASSUME NEW r \in Roles, CollectFails(r) PROVE (VerdictInv /\ CleanupInv)'
    BY <1>26 DEF CollectFails, SaveVerdict, OutboxUntouched
  <1>27. ASSUME NEW r \in Roles, OtherLocks(r) PROVE (VerdictInv /\ CleanupInv)'
    BY <1>27 DEF OtherLocks, World
  <1>28. ASSUME NEW r \in Roles, OtherUnlocks(r) PROVE (VerdictInv /\ CleanupInv)'
    BY <1>28 DEF OtherUnlocks, World
  <1>29. CASE AgentWritesOutbox
    BY <1>29 DEF AgentWritesOutbox, World
  <1>30. CASE AgentChangesWorktree
    BY <1>30 DEF AgentChangesWorktree, World
  <1>31. CASE AgentExits
    BY <1>31 DEF AgentExits, World
  <1>32. CASE StragglerWritesOutbox
    BY <1>32 DEF StragglerWritesOutbox, World
  <1>33. CASE InboxEdited
    BY <1>33 DEF InboxEdited, World
  <1>34. CASE Cancel
    BY <1>34 DEF Cancel, World
  <1>35. CASE UNCHANGED vars
    BY <1>35 DEF vars
  <1> QED
    BY <1>1, <1>2, <1>3, <1>4, <1>5, <1>6, <1>7, <1>8, <1>9, <1>10, <1>11, <1>12, <1>13, <1>14, <1>15, <1>16, <1>17, <1>18, <1>19, <1>20, <1>21, <1>22, <1>23, <1>24, <1>25, <1>26, <1>27, <1>28, <1>29, <1>30, <1>31, <1>32, <1>33, <1>34, <1>35
    DEF Next, Progress, Interruption, Environment, Exited

\* Every step leaves the feedback prompt to the verdict `revise`.
LEMMA FeedbackStep ==
  ControlInv /\ VerdictInv /\ FeedbackAsksForRevision /\ [Next]_vars => FeedbackAsksForRevision'
  <1> SUFFICES ASSUME ControlInv, VerdictInv, FeedbackAsksForRevision, [Next]_vars
               PROVE  FeedbackAsksForRevision'
    OBVIOUS
  <1>0. inbox \in [template : Templates \cup {"none"},
                  verdict : Decisions \cup {"none"}, intact : BOOLEAN]
    BY DEF ControlInv, TypeOK
  <1>1. ASSUME NEW r \in Roles, In(DispatchState(r))
        PROVE  Request(r).template = "ExecutorFeedback" => Request(r).verdict = "revise"
    <2>1. Template(r) = "ExecutorFeedback" => r = "executor" /\ reviewResult # "none"
      BY DEF Template
    <2>2. r = "executor" => reviewResult \in {"none", "revise"}
      BY <1>1 DEF In, DispatchState, VerdictInv, BeforeDelivery
    <2> QED BY <2>1, <2>2 DEF Request
  <1>2. ASSUME NEW r \in Roles, Dispatch(r) PROVE FeedbackAsksForRevision'
    BY <1>1, <1>2 DEF Dispatch, FeedbackAsksForRevision
  <1>3. ASSUME NEW r \in Roles, DispatchFails(r) PROVE FeedbackAsksForRevision'
    <2>1. In(DispatchState(r)) /\ inbox' \in {inbox, EmptyRequest, Request(r)}
      BY <1>3 DEF DispatchFails
    <2> QED BY <1>1, <2>1 DEF EmptyRequest, FeedbackAsksForRevision
  <1>4. CASE InboxEdited
    <2>1. inbox'.template = inbox.template /\ inbox'.verdict = inbox.verdict
      BY <1>0, <1>4 DEF InboxEdited
    <2> QED BY <2>1 DEF FeedbackAsksForRevision
  <1>5. CASE UNCHANGED inbox
    BY <1>5 DEF FeedbackAsksForRevision
  <1>6. ASSUME NEW r \in Roles,
               \/ DispatchLocked(r) \/ DispatchRequestChanged(r)
               \/ MonitorSuccess(r) \/ MonitorFailed(r) \/ MonitorCancelled(r)
               \/ MonitorHang(r) \/ MonitorFinalize(r) \/ MonitorServiceCap(r)
               \/ MonitorFails(r) \/ CollectFails(r) \/ OtherLocks(r) \/ OtherUnlocks(r)
        PROVE  UNCHANGED inbox
    BY <1>6 DEF DispatchLocked, DispatchRequestChanged, MonitorSuccess,
         MonitorFailed, MonitorCancelled, MonitorHang, MonitorFinalize,
         MonitorServiceCap, MonitorFails, CollectFails, OtherLocks, OtherUnlocks, files
  <1>7. ASSUME \/ LoopHead \/ Exit \/ ValidateInputs \/ ContextPrep \/ SessionBind
               \/ RoundRetryDecide \/ ExecutorOutputCollect \/ OrchVerify
               \/ CollectUntouched \/ CollectUnreadable \/ CollectRejected
               \/ CollectVerdict \/ QualityGate \/ RoundFeedbackPrep
               \/ AgentWritesOutbox \/ AgentChangesWorktree \/ AgentExits
               \/ StragglerWritesOutbox \/ Cancel \/ UNCHANGED vars
        PROVE  UNCHANGED inbox
    BY <1>7 DEF LoopHead, Exit, ValidateInputs, ContextPrep, GitCheckFailures, SessionBind,
         RoundRetryDecide, ExecutorOutputCollect, OrchVerify, CollectUntouched,
         CollectUnreadable, CollectRejected, CollectVerdict, QualityGate,
         RoundFeedbackPrep, AgentWritesOutbox, AgentChangesWorktree, AgentExits,
         StragglerWritesOutbox, Cancel, vars, files
  <1> QED BY <1>4, <1>5, <1>6, <1>7, <1>2, <1>3
          DEF Next, Progress, Interruption, Environment, Exited

\* Without stragglers, only the reviewer moves the outbox during a review, so
\* every verdict that is saved is its own.
LEMMA OriginStep ==
  ASSUME ~Stragglers
  PROVE  ControlInv /\ OutboxInv /\ OriginInv /\ [Next]_vars => (OutboxInv /\ OriginInv)'
  <1> SUFFICES ASSUME ControlInv, OutboxInv, OriginInv, [Next]_vars
               PROVE  (OutboxInv /\ OriginInv)'
    OBVIOUS
  <1>0. /\ outbox \in [body : Bodies, touched : BOOLEAN,
                       by : Roles \cup {"earlier", "orchestrator"}]
        /\ reviewResult \in Decisions \cup {"none"}
        /\ Locks /\ RoleOfPhase
    BY DEF ControlInv, TypeOK
  <1> USE <1>0
      DEF OutboxInv, OriginInv, RoleOfPhase, Locks, LocksFollowTheAgent, Roles,
          ExecutorStates, ReviewerStates, Decisions,
          Terminal, attemptVars, reviewVars, files, In, Goto, DispatchState,
          MonitorState, CollectState
  <1>1. CASE LoopHead
    BY <1>1 DEF LoopHead, Aborted
  <1>2. CASE Exit
    BY <1>2 DEF Exit
  <1>3. CASE ValidateInputs
    BY <1>3 DEF ValidateInputs
  <1>4. CASE ContextPrep
    BY <1>4 DEF ContextPrep, GitCheckFailures
  <1>5. CASE SessionBind
    BY <1>5 DEF SessionBind
  <1>6. CASE RoundRetryDecide
    BY <1>6 DEF RoundRetryDecide, BudgetSpent
  <1>7. CASE ExecutorOutputCollect
    BY <1>7 DEF ExecutorOutputCollect
  <1>8. CASE OrchVerify
    BY <1>8 DEF OrchVerify
  <1>9. CASE CollectUntouched
    BY <1>9 DEF CollectUntouched, RetryReviewer
  <1>10. CASE CollectUnreadable
    BY <1>10 DEF CollectUnreadable, RetryReviewer
  <1>11. CASE CollectRejected
    BY <1>11 DEF CollectRejected, RetryReviewer
  <1>12. CASE CollectVerdict
    BY <1>12 DEF CollectVerdict, RetryReviewer, SaveVerdict, OutboxUntouched
  <1>13. CASE QualityGate
    BY <1>13, AfterGateDecides DEF QualityGate
  <1>14. CASE RoundFeedbackPrep
    BY <1>14 DEF RoundFeedbackPrep
  <1>15. ASSUME NEW r \in Roles, DispatchLocked(r) PROVE (OutboxInv /\ OriginInv)'
    BY <1>15 DEF DispatchLocked
  <1>16. ASSUME NEW r \in Roles, DispatchRequestChanged(r) PROVE (OutboxInv /\ OriginInv)'
    BY <1>16 DEF DispatchRequestChanged, RequestIntact
  <1>17. ASSUME NEW r \in Roles, Dispatch(r) PROVE (OutboxInv /\ OriginInv)'
    BY <1>17 DEF Dispatch, RequestIntact, ResetOutbox, Baseline
  <1>18. ASSUME NEW r \in Roles, MonitorSuccess(r) PROVE (OutboxInv /\ OriginInv)'
    BY <1>18 DEF MonitorSuccess, Release, HasContent
  <1>19. ASSUME NEW r \in Roles, MonitorFailed(r) PROVE (OutboxInv /\ OriginInv)'
    BY <1>19 DEF MonitorFailed, Release
  <1>20. ASSUME NEW r \in Roles, MonitorCancelled(r) PROVE (OutboxInv /\ OriginInv)'
    BY <1>20 DEF MonitorCancelled, Release
  <1>21. ASSUME NEW r \in Roles, DispatchFails(r) PROVE (OutboxInv /\ OriginInv)'
    BY <1>21 DEF DispatchFails, RequestIntact
  <1>22. ASSUME NEW r \in Roles, MonitorHang(r) PROVE (OutboxInv /\ OriginInv)'
    BY <1>22 DEF MonitorHang, Release
  <1>23. ASSUME NEW r \in Roles, MonitorFinalize(r) PROVE (OutboxInv /\ OriginInv)'
    BY <1>23 DEF MonitorFinalize
  <1>24. ASSUME NEW r \in Roles, MonitorServiceCap(r) PROVE (OutboxInv /\ OriginInv)'
    BY <1>24 DEF MonitorServiceCap, Release
  <1>25. ASSUME NEW r \in Roles, MonitorFails(r) PROVE (OutboxInv /\ OriginInv)'
    BY <1>25 DEF MonitorFails
  <1>26. ASSUME NEW r \in Roles, CollectFails(r) PROVE (OutboxInv /\ OriginInv)'
    BY <1>26 DEF CollectFails, SaveVerdict, OutboxUntouched
  <1>27. ASSUME NEW r \in Roles, OtherLocks(r) PROVE (OutboxInv /\ OriginInv)'
    BY <1>27 DEF OtherLocks, World
  <1>28. ASSUME NEW r \in Roles, OtherUnlocks(r) PROVE (OutboxInv /\ OriginInv)'
    BY <1>28 DEF OtherUnlocks, World
  <1>29. CASE AgentWritesOutbox
    BY <1>29 DEF AgentWritesOutbox, World
  <1>30. CASE AgentChangesWorktree
    BY <1>30 DEF AgentChangesWorktree, World
  <1>31. CASE AgentExits
    BY <1>31 DEF AgentExits, World
  <1>32. CASE StragglerWritesOutbox
    BY <1>32 DEF StragglerWritesOutbox, World
  <1>33. CASE InboxEdited
    BY <1>33 DEF InboxEdited, World
  <1>34. CASE Cancel
    BY <1>34 DEF Cancel, World
  <1>35. CASE UNCHANGED vars
    BY <1>35 DEF vars
  <1> QED
    BY <1>1, <1>2, <1>3, <1>4, <1>5, <1>6, <1>7, <1>8, <1>9, <1>10, <1>11, <1>12, <1>13, <1>14, <1>15, <1>16, <1>17, <1>18, <1>19, <1>20, <1>21, <1>22, <1>23, <1>24, <1>25, <1>26, <1>27, <1>28, <1>29, <1>30, <1>31, <1>32, <1>33, <1>34, <1>35
    DEF Next, Progress, Interruption, Environment, Exited

-----------------------------------------------------------------------------
(***************************************************************************)
(* The theorems.                                                           *)
(***************************************************************************)

\* All that is preserved without an assumption on the stragglers.
RoundInv == /\ ControlInv /\ SpentIsAccountedFor /\ LateDispatchIsLast
            /\ VerdictInv /\ CleanupInv /\ FeedbackAsksForRevision

\* The inductive invariant of a round holds when a run starts.
LEMMA RoundInit == Init => RoundInv
  <1> SUFFICES ASSUME Init PROVE RoundInv
    OBVIOUS
  <1>1. /\ runState = "RunInit" /\ failures = 0 /\ spent = 0 /\ lateDispatches = 0
        /\ currentRole = "none" /\ reviewResult = "none" /\ verdictOrigin = "none"
        /\ yamlRejected = FALSE /\ inbox.template = "none"
    BY DEF Init, EmptyRequest
  <1>2. SpentIsAccountedFor /\ LateDispatchIsLast
    BY <1>1, LimitAssumption
    DEF SpentIsAccountedFor, DispatchBudget, BeforeDelivery, AfterDelivery,
        ExecutorStates, ReviewerStates, LateDispatchIsLast
  <1>3. VerdictInv /\ CleanupInv /\ FeedbackAsksForRevision
    BY <1>1 DEF VerdictInv, CleanupInv, FeedbackAsksForRevision, BeforeDelivery,
        AfterDelivery, ExecutorStates
  <1> QED BY <1>2, <1>3, ControlInit DEF RoundInv

\* Every step of a run keeps the inductive invariant.
LEMMA RoundStep == RoundInv /\ [Next]_vars => RoundInv'
  <1>1. ControlInv => lateDispatches \in Nat
    BY DEF ControlInv, TypeOK
  <1> QED BY <1>1, ControlStep, BudgetStep, LateStep, VerdictStep, FeedbackStep DEF RoundInv

\* The inductive invariant holds throughout a run.
LEMMA RoundInvariant == Spec => []RoundInv
  BY RoundInit, RoundStep, PTL DEF Spec

\* While the run goes on, a lock is held and an agent lives exactly while its
\* attempt is monitored.
THEOREM LocksAreDisciplined == Spec => []LocksFollowTheAgent
  <1>1. RoundInv => LocksFollowTheAgent
    BY DEF RoundInv, ControlInv, Locks
  <1> QED BY <1>1, RoundInvariant, PTL

\* However the attempts of a semantic round end, it costs at most Limit + 1
\* dispatches.
THEOREM RetriesAreBounded == Spec => []DispatchBudget
  <1>1. RoundInv => DispatchBudget
    BY DEF RoundInv, SpentIsAccountedFor
  <1> QED BY <1>1, RoundInvariant, PTL

\* At most one agent is started with the cancel flag set.
THEOREM CancelIsPrompt == Spec => []CancelBound
  <1>1. RoundInv => CancelBound
    BY DEF RoundInv, ControlInv, TypeOK, LateDispatchIsLast, CancelBound
  <1> QED BY <1>1, RoundInvariant, PTL

\* A saved verdict travels only with a cleanup request, a rejected one never
\* beside a saved one.
THEOREM VerdictsDoNotMix == Spec => []OneVerdictAtATime
  <1>1. RoundInv => OneVerdictAtATime
    BY DEF RoundInv, CleanupInv, AfterDelivery, OneVerdictAtATime
  <1> QED BY <1>1, RoundInvariant, PTL

\* The executor is sent back only with the verdict `revise`.
THEOREM FeedbackIsARevision == Spec => []FeedbackAsksForRevision
  <1>1. RoundInv => FeedbackAsksForRevision
    BY DEF RoundInv
  <1> QED BY <1>1, RoundInvariant, PTL

\* Unless a child of the executor outlives it, the gate acts on a verdict the
\* reviewer wrote about the latest delivery.
THEOREM GateActsOnTheReview == ASSUME ~Stragglers PROVE Spec => []VerdictIsCurrent
  <1> DEFINE Inv == RoundInv /\ OutboxInv /\ OriginInv
  <1>1. Init => Inv
    BY RoundInit DEF Init, OutboxInv, OriginInv
  <1>2. Inv /\ [Next]_vars => Inv'
    BY RoundStep, OriginStep DEF RoundInv
  <1>3. Inv => VerdictIsCurrent
    BY DEF RoundInv, VerdictInv, OriginInv, VerdictIsCurrent, Terminal
  <1> HIDE DEF Inv
  <1> QED BY <1>1, <1>2, <1>3, PTL DEF Spec

-----------------------------------------------------------------------------
(***************************************************************************)
(* What the steps of a review may not do.                                  *)
(***************************************************************************)

\* Only the phase after a delivery drops a verdict; collecting keeps the one
\* it has.
LEMMA SurvivalStep ==
  [Next]_vars => (reviewResult \notin {"none", reviewResult'} => runState = "OrchVerify")
  <1> SUFFICES ASSUME [Next]_vars, reviewResult # "none", reviewResult' # reviewResult
               PROVE  runState = "OrchVerify"
    OBVIOUS
  <1>1. ASSUME NEW r \in Roles,
               \/ DispatchLocked(r) \/ DispatchRequestChanged(r) \/ Dispatch(r)
               \/ DispatchFails(r) \/ MonitorSuccess(r) \/ MonitorFailed(r)
               \/ MonitorCancelled(r) \/ MonitorHang(r) \/ MonitorFinalize(r)
               \/ MonitorServiceCap(r) \/ MonitorFails(r) \/ CollectFails(r)
               \/ OtherLocks(r) \/ OtherUnlocks(r)
        PROVE  FALSE
    BY <1>1 DEF DispatchLocked, DispatchRequestChanged, Dispatch, DispatchFails,
         MonitorSuccess, MonitorFailed, MonitorCancelled, MonitorHang, MonitorFinalize,
         MonitorServiceCap, MonitorFails, CollectFails, SaveVerdict, OtherLocks,
         OtherUnlocks, World, reviewVars
  <1>2. ASSUME \/ LoopHead \/ Exit \/ ValidateInputs \/ ContextPrep \/ SessionBind
               \/ RoundRetryDecide \/ ExecutorOutputCollect
               \/ CollectUntouched \/ CollectUnreadable \/ CollectRejected
               \/ QualityGate \/ RoundFeedbackPrep \/ AgentWritesOutbox
               \/ AgentChangesWorktree \/ AgentExits \/ StragglerWritesOutbox
               \/ InboxEdited \/ Cancel \/ UNCHANGED vars
        PROVE  FALSE
    BY <1>2 DEF LoopHead, Exit, ValidateInputs, ContextPrep, GitCheckFailures, SessionBind,
         RoundRetryDecide, ExecutorOutputCollect, CollectUntouched, CollectUnreadable,
         CollectRejected, QualityGate, RoundFeedbackPrep, AgentWritesOutbox,
         AgentChangesWorktree, AgentExits, StragglerWritesOutbox, InboxEdited, Cancel,
         vars, World, reviewVars
  <1>3. CASE CollectVerdict
    BY <1>3 DEF CollectVerdict, SaveVerdict
  <1>4. CASE OrchVerify
    BY <1>4 DEF OrchVerify, In
  <1> QED BY <1>1, <1>2, <1>3, <1>4 DEF Next, Progress, Interruption, Environment, Exited

\* A saved verdict is not replaced or lost before the executor delivers again.
THEOREM SavedVerdictsSurvive == Spec => VerdictSurvives
  BY SurvivalStep, PTL DEF Spec, VerdictSurvives

\* The lines a reviewer is asked to clean up are none it was given.
LeftoversAreNew == leftovers \cap baseline = {}

\* Every step keeps the lines to clean up apart from the baseline: the baseline
\* is not captured again while there are any.
LEMMA LeftoversStep == LeftoversAreNew /\ [Next]_vars => LeftoversAreNew'
  <1> SUFFICES ASSUME LeftoversAreNew, [Next]_vars PROVE LeftoversAreNew'
    OBVIOUS
  <1>1. ASSUME NEW r \in Roles, Dispatch(r) \/ DispatchFails(r) PROVE LeftoversAreNew'
    <2>1. UNCHANGED leftovers /\ baseline' \in {baseline, Baseline(r)}
      BY <1>1 DEF Dispatch, DispatchFails, reviewVars
    <2> QED BY <2>1 DEF Baseline, LeftoversAreNew
  <1>2. ASSUME NEW r \in Roles,
               \/ DispatchLocked(r) \/ DispatchRequestChanged(r)
               \/ MonitorSuccess(r) \/ MonitorFailed(r)
               \/ MonitorCancelled(r) \/ MonitorHang(r) \/ MonitorFinalize(r)
               \/ MonitorServiceCap(r) \/ MonitorFails(r) \/ CollectFails(r)
               \/ OtherLocks(r) \/ OtherUnlocks(r)
        PROVE  UNCHANGED <<leftovers, baseline>>
    BY <1>2 DEF DispatchLocked, DispatchRequestChanged,
         MonitorSuccess, MonitorFailed, MonitorCancelled, MonitorHang, MonitorFinalize,
         MonitorServiceCap, MonitorFails, CollectFails, OtherLocks, OtherUnlocks, World,
         reviewVars
  <1>3. ASSUME \/ LoopHead \/ Exit \/ ValidateInputs \/ ContextPrep \/ SessionBind
               \/ RoundRetryDecide \/ ExecutorOutputCollect
               \/ CollectUntouched \/ CollectUnreadable \/ CollectRejected
               \/ QualityGate \/ RoundFeedbackPrep \/ AgentWritesOutbox
               \/ AgentChangesWorktree \/ AgentExits \/ StragglerWritesOutbox
               \/ InboxEdited \/ Cancel \/ UNCHANGED vars
        PROVE  UNCHANGED <<leftovers, baseline>>
    BY <1>3 DEF LoopHead, Exit, ValidateInputs, ContextPrep, GitCheckFailures, SessionBind,
         RoundRetryDecide, ExecutorOutputCollect, CollectUntouched, CollectUnreadable,
         CollectRejected, QualityGate, RoundFeedbackPrep, AgentWritesOutbox,
         AgentChangesWorktree, AgentExits, StragglerWritesOutbox, InboxEdited, Cancel,
         vars, World, reviewVars
  <1>4. CASE CollectVerdict
    BY <1>4 DEF CollectVerdict, LeftoversAreNew
  <1>5. CASE OrchVerify
    BY <1>5 DEF OrchVerify, LeftoversAreNew
  <1>6. UNCHANGED <<leftovers, baseline>> => LeftoversAreNew'
    BY DEF LeftoversAreNew
  <1> QED BY <1>1, <1>2, <1>3, <1>4, <1>5, <1>6
          DEF Next, Progress, Interruption, Environment, Exited

\* The gate is entered only by collecting a verdict over a clean worktree.
LEMMA GateStep ==
  LeftoversAreNew /\ TypeOK /\ RoleOfPhase /\ [Next]_vars =>
    (runState' = "QualityGate" /\ runState # "QualityGate" => leftovers \cap worktree = {})
  <1> SUFFICES ASSUME LeftoversAreNew, TypeOK, RoleOfPhase, [Next]_vars,
                      runState' = "QualityGate", runState # "QualityGate"
               PROVE  leftovers \cap worktree = {}
    OBVIOUS
  <1>1. ASSUME NEW r \in Roles,
               \/ DispatchLocked(r) \/ DispatchRequestChanged(r) \/ Dispatch(r)
               \/ DispatchFails(r) \/ MonitorSuccess(r) \/ MonitorFailed(r)
               \/ MonitorCancelled(r) \/ MonitorHang(r) \/ MonitorFinalize(r)
               \/ MonitorServiceCap(r) \/ MonitorFails(r) \/ CollectFails(r)
               \/ OtherLocks(r) \/ OtherUnlocks(r)
        PROVE  FALSE
    BY <1>1 DEF DispatchLocked, DispatchRequestChanged, Dispatch, DispatchFails,
         MonitorSuccess, MonitorFailed, MonitorCancelled, MonitorHang, MonitorFinalize,
         MonitorServiceCap, MonitorFails, CollectFails, OtherLocks, OtherUnlocks, World,
         Goto, MonitorState, CollectState
  <1>2. ASSUME \/ LoopHead \/ Exit \/ ValidateInputs \/ ContextPrep \/ SessionBind
               \/ ExecutorOutputCollect \/ OrchVerify
               \/ CollectUntouched \/ CollectUnreadable \/ CollectRejected
               \/ RoundFeedbackPrep \/ AgentWritesOutbox
               \/ AgentChangesWorktree \/ AgentExits \/ StragglerWritesOutbox
               \/ InboxEdited \/ Cancel \/ UNCHANGED vars
        PROVE  FALSE
    BY <1>2 DEF LoopHead, Exit, ValidateInputs, ContextPrep, GitCheckFailures, SessionBind,
         ExecutorOutputCollect, OrchVerify, CollectUntouched, CollectUnreadable,
         CollectRejected, RetryReviewer, RoundFeedbackPrep, AgentWritesOutbox,
         AgentChangesWorktree, AgentExits, StragglerWritesOutbox, InboxEdited, Cancel,
         vars, World, Goto
  <1>3. CASE RoundRetryDecide
    BY <1>3 DEF RoundRetryDecide, Goto, DispatchState
  <1>4. CASE QualityGate
    BY <1>4 DEF QualityGate, In
  <1>5. CASE CollectVerdict
    <2>1. leftovers' = worktree \ baseline
      BY <1>5 DEF CollectVerdict
    <2>2. leftovers' = {}
      BY <1>5 DEF CollectVerdict, RetryReviewer, Goto
    <2> QED BY <2>1, <2>2 DEF LeftoversAreNew
  <1> QED BY <1>1, <1>2, <1>3, <1>4, <1>5
          DEF Next, Progress, Interruption, Environment, Exited

\* Lines the reviewer was asked to clean up are gone when the gate is reached.
THEOREM CleanupHolds == Spec => CleanupIsEnforced
  <1> DEFINE Inv == RoundInv /\ LeftoversAreNew
  <1>1. Init => Inv
    BY RoundInit DEF Init, LeftoversAreNew
  <1>2. Inv /\ [Next]_vars => Inv'
    BY RoundStep, LeftoversStep
  <1>3. Inv /\ [Next]_vars =>
          [runState' = "QualityGate" /\ runState # "QualityGate" =>
             leftovers \cap worktree = {}]_vars
    BY GateStep DEF RoundInv, ControlInv
  <1> HIDE DEF Inv
  <1> QED BY <1>1, <1>2, <1>3, PTL DEF Spec, CleanupIsEnforced

=============================================================================
