------------------------- MODULE MonitoredRunProofs -------------------------
(***************************************************************************)
(* A run with its probe loop is a run: MonitoredRun implements             *)
(* Orchestrator for all thresholds, limits and worktree lines, so that     *)
(* what is proved of a run whose attempts just end holds of one whose      *)
(* attempts are watched.                                                   *)
(***************************************************************************)
EXTENDS MonitoredRun, OrchestratorRefinement

-----------------------------------------------------------------------------
(***************************************************************************)
(* What a probe has seen when it ends an attempt.                          *)
(***************************************************************************)

\* A probe that collects has reaped the agent; only an executor's attempt is
\* collected without a result.
LEMMA CollectedIsDead ==
  ASSUME Mon!Collect
  PROVE  ~pid /\ (HasContent(outbox.body) \/ Kind(currentRole) # "review")
  <1>1. Mon!Classify(Mon!Snapshot) \in {"Success", "SoftSuccess"}
    BY DEF Mon!Collect, Mon!Probe
  <1>2. Mon!Snapshot.successContract \/ Mon!Snapshot.softSuccess
    BY <1>1 DEF Mon!Classify
  <1>3. Mon!SuccessContract \/ Mon!SoftSuccessContract
    BY <1>2 DEF Mon!Snapshot
  <1> QED BY <1>3 DEF Mon!SuccessContract, Mon!SoftSuccessContract, Mon!Executor

\* So has one that retries, and it has found no result; of an implementer it has
\* found no changes either, or their grace period would be running or over.
LEMMA RetriedIsDead ==
  ASSUME Mon!FailSilent \/ Mon!FailProtocol
  PROVE  /\ ~pid /\ ~HasContent(outbox.body)
         /\ Kind(currentRole) = "implement" => worktree = status /\ ~committed
  <1> DEFINE s == Mon!Snapshot
  <1>1. Mon!Classify(s) \in {"FailedSilent", "FailedProtocol"}
    BY DEF Mon!FailSilent, Mon!FailProtocol, Mon!Probe
  <1>2. /\ ~s.successContract /\ ~s.softSuccess /\ s.grace # "running"
        /\ s.exited \/ s.protocolInvalid
    <2> HIDE DEF s
    <2> QED BY <1>1 DEF Mon!Classify, Mon!FinalResultBoundaryReached
  <1>3. /\ ~Mon!SuccessContract /\ ~Mon!SoftSuccessContract
        /\ Mon!Grace # "running" /\ ~pid
    BY <1>2 DEF Mon!Snapshot
  <1>4. ~HasContent(outbox.body)
    BY <1>3 DEF Mon!SuccessContract
  <1>5. ASSUME Kind(currentRole) = "implement" PROVE worktree = status /\ ~committed
    <2>1. Mon!Grace = "none"
      BY <1>3, <1>4, <1>5 DEF Mon!SoftSuccessContract, Mon!Executor, Mon!Grace, Mon!GraceOf
    <2>2. Mon!OutboxGraceNow = {} /\ Mon!CommitGraceNow = {}
      BY <2>1 DEF Mon!Grace, Mon!GraceOf
    <2> QED BY <1>4, <1>5, <2>2 DEF Mon!OutboxGraceNow, Mon!CommitGraceNow, Mon!Executor
  <1> QED BY <1>3, <1>4, <1>5

\* A hang is confirmed of an agent that was not reaped.
LEMMA HungIsAlive ==
  ASSUME Mon!ConfirmHang
  PROVE  pid
  <1> DEFINE s == Mon!Snapshot
  <1>1. Mon!Classify(s) = "HangConfirmed"
    BY DEF Mon!ConfirmHang, Mon!Probe
  <1>2. ~s.exited
    <2> HIDE DEF s
    <2> QED BY <1>1 DEF Mon!Classify, Mon!HangConfirmed, Mon!CeilingReached
  <1> QED BY <1>2 DEF Mon!Snapshot

\* An attempt is stopped as cancelled only when the flag is set.
LEMMA CancelledIsCancelled ==
  ASSUME Mon!SeeCancel \/ Mon!CancelProbe
  PROVE  cancel
  <1> DEFINE s == Mon!Snapshot
  <1>1. CASE Mon!SeeCancel
    BY <1>1 DEF Mon!SeeCancel, Mon!IsCancelled
  <1>2. CASE Mon!CancelProbe
    <2>1. Mon!Classify(s) = "Cancelled"
      BY <1>2 DEF Mon!CancelProbe, Mon!Probe
    <2>2. s.cancelled
      <3> HIDE DEF s
      <3> QED BY <2>1 DEF Mon!Classify
    <2> QED BY <2>2 DEF Mon!Snapshot, Mon!IsCancelled
  <1> QED BY <1>1, <1>2

-----------------------------------------------------------------------------
(***************************************************************************)
(* The inductive invariant.                                                *)
(***************************************************************************)

\* An attempt is monitored, or about to be.
Monitored == at \in {"loop", "step"} /\ runState = MonitorState(currentRole)

\* What the run knows of the agent is what the monitor knows, and a process
\* that is alive is known to be; a hang was confirmed of a live agent and a
\* cancellation has its flag.
Tie ==
  /\ process \in {"running", "exited"}
  /\ process = "running" => agent = "running" /\ at # "exited"
  /\ Monitored =>
       /\ pid \in BOOLEAN
       /\ agent = IF pid THEN "running" ELSE "exited"
       /\ pc = "stopHang" => pid
       /\ pc = "stopCancel" => cancel

ComposedInv == ControlInv /\ Tie

\* A monitored attempt is that of a role, and the run is not over.
LEMMA WatchedRole ==
  ASSUME ControlInv, Watched
  PROVE  /\ currentRole \in Roles /\ In(MonitorState(currentRole)) /\ Monitored
         /\ runState \notin Terminal
         /\ Kind(currentRole) # "review" => currentRole = "executor"
  BY DEF ControlInv, RoleOfPhase, Watched, Monitored, MonitorState, In, Roles, Kind,
         ExecutorStates, ReviewerStates, Terminal

-----------------------------------------------------------------------------
(***************************************************************************)
(* Every step is a step of Orchestrator, or none.                          *)
(***************************************************************************)

\* Outside of do_monitor the steps are those of Orchestrator.
LEMMA LoopIsRun ==
  ASSUME \/ ComposedLoopHead \/ (\E r \in Roles : ComposedDispatch(r)) \/ ComposedExit
         \/ Handler \/ UnwatchedAgent \/ ComposedStraggler \/ Others \/ Exited
  PROVE  [Next]_vars
  BY DEF ComposedLoopHead, ComposedDispatch, ComposedExit, Handler, UnwatchedAgent,
         ComposedStraggler, Others, Exited, Next, Progress, Interruption, Environment

\* A probe changes what the run knows only by finding its agent dead, which is
\* then the agent's exit.
LEMMA WatchingIsRun ==
  ASSUME ComposedInv, Watching
  PROVE  [Next]_vars
  <1>1. /\ currentRole \in Roles /\ Monitored /\ at # "exited"
        /\ agent = IF pid THEN "running" ELSE "exited"
    BY WatchedRole DEF ComposedInv, Tie, Watching, Watched
  <1>2. UNCHANGED <<loopVars, failures, locks, outboxPresent, currentRole, preOutbox, files,
                    baseline, reviewVars, history>>
    BY DEF Watching, Kept
  <1>3. agent' = IF pid' THEN agent ELSE "exited"
    BY DEF Watching
  <1>4. CASE agent' = agent
    BY <1>2, <1>4 DEF loopVars, files, reviewVars, history, vars
  <1>5. CASE agent' # agent
    <2>1. agent = "running" /\ agent' = "exited"
      BY <1>1, <1>3, <1>5
    <2>2. AgentExits
      BY <1>1, <1>2, <2>1 DEF AgentExits, World, loopVars, files, reviewVars, history
    <2> QED BY <2>2 DEF Next, Environment
  <1> QED BY <1>4, <1>5

\* The arms of do_monitor find the guards of the phases met.
LEMMA ArmIsRun ==
  ASSUME ComposedInv,
         \/ ArmCollect \/ ArmFailed \/ ArmHang \/ ArmServiceCap \/ ArmCancelled \/ ProbeError
  PROVE  [Next]_vars
  <1>0. Watched
    BY DEF ArmCollect, ArmFailed, ArmHang, ArmServiceCap, ArmCancelled, ProbeError
  <1>1. /\ currentRole \in Roles /\ In(MonitorState(currentRole)) /\ Monitored
        /\ Kind(currentRole) # "review" => currentRole = "executor"
    BY <1>0, WatchedRole DEF ComposedInv
  <1>2. /\ agent = IF pid THEN "running" ELSE "exited"
        /\ pc = "stopHang" => pid
        /\ pc = "stopCancel" => cancel
    BY <1>1 DEF ComposedInv, Tie
  <1> USE DEF Kept, attemptVars
  <1>3. CASE ArmCollect
    <2>1. ~pid /\ (HasContent(outbox.body) \/ currentRole = "executor")
      BY <1>1, <1>3, CollectedIsDead DEF ArmCollect
    <2>2. MonitorSuccess(currentRole)
      BY <1>1, <1>2, <1>3, <2>1 DEF ArmCollect, MonitorSuccess
    <2> QED BY <1>1, <2>2 DEF Next, Progress
  <1>4. CASE ArmFailed
    <2>1. ~pid /\ ~HasContent(outbox.body)
      BY <1>4, RetriedIsDead DEF ArmFailed
    <2>2. MonitorFailed(currentRole)
      BY <1>1, <1>2, <1>4, <2>1 DEF ArmFailed, MonitorFailed
    <2> QED BY <1>1, <2>2 DEF Next, Progress
  <1>5. CASE ArmHang
    <2>1. pid
      BY <1>2, <1>5 DEF ArmHang, Mon!StopHung
    <2>2. MonitorHang(currentRole)
      BY <1>1, <1>2, <1>5, <2>1 DEF ArmHang, MonitorHang
    <2> QED BY <1>1, <2>2 DEF Next, Interruption
  <1>6. CASE ArmServiceCap
    <2>1. MonitorServiceCap(currentRole)
      BY <1>1, <1>6 DEF ArmServiceCap, MonitorServiceCap
    <2> QED BY <1>1, <2>1 DEF Next, Interruption
  <1>7. CASE ArmCancelled
    <2>1. cancel
      BY <1>2, <1>7 DEF ArmCancelled, Mon!StopCancelled
    <2>2. MonitorCancelled(currentRole)
      BY <1>1, <1>7, <2>1 DEF ArmCancelled, MonitorCancelled
    <2> QED BY <1>1, <2>2 DEF Next, Progress
  <1>8. CASE ProbeError
    <2>1. MonitorFails(currentRole)
      BY <1>1, <1>8 DEF ProbeError, MonitorFails
    <2> QED BY <1>1, <2>1 DEF Next, Interruption
  <1> QED BY <1>3, <1>4, <1>5, <1>6, <1>7, <1>8

\* What a watched agent does, the run's agent may do.
LEMMA WatchedAgentIsRun ==
  ASSUME ComposedInv, WatchedAgentWrites \/ WatchedAgentWorks \/ WatchedAside
  PROVE  [Next]_vars
  <1>1. CASE WatchedAside
    BY <1>1 DEF WatchedAside
  <1>2. CASE WatchedAgentWrites
    <2>1. agent = "running" /\ at # "exited" /\ UNCHANGED cancel
      BY <1>2 DEF WatchedAgentWrites, Watched, Mon!AgentWrites, ComposedInv, Tie
    <2>2. \E body \in Bodies : outbox' = [body |-> body, by |-> currentRole, touched |-> TRUE]
      BY <1>2, WritesAssumption DEF WatchedAgentWrites
    <2>3. AgentWritesOutbox
      BY <1>2, <2>1, <2>2 DEF WatchedAgentWrites, AgentWritesOutbox, World, loopVars, attemptVars
    <2> QED BY <2>3 DEF Next, Environment
  <1>3. CASE WatchedAgentWorks
    <2>1. agent = "running" /\ at # "exited" /\ UNCHANGED cancel
      BY <1>3 DEF WatchedAgentWorks, Watched, Mon!AgentWorks, ComposedInv, Tie
    <2>2. UNCHANGED <<runState, at, failures, currentRole, preOutbox, agent, locks, inbox,
                      outbox, baseline, outboxPresent, reviewVars, history>>
      BY <1>3 DEF WatchedAgentWorks, loopVars, attemptVars
    <2>3. CASE worktree' = worktree
      BY <2>1, <2>2, <2>3 DEF vars, reviewVars, history
    <2>4. CASE \E line \in Lines : worktree' = worktree \cup {line} \/ worktree' = worktree \ {line}
      <3>1. AgentChangesWorktree
        BY <2>1, <2>2, <2>4 DEF AgentChangesWorktree, World
      <3> QED BY <3>1 DEF Next, Environment
    <2> QED BY <1>3, <2>3, <2>4 DEF WatchedAgentWorks
  <1> QED BY <1>1, <1>2, <1>3

\* Every step of a monitored run is a step of the run or leaves it alone.
LEMMA ComposedStepIsRun ==
  ComposedInv /\ [ComposedNext]_<<vars, probeVars>> => [Next]_vars
  <1> SUFFICES ASSUME ComposedInv, [ComposedNext]_<<vars, probeVars>> PROVE [Next]_vars
    OBVIOUS
  <1>1. CASE UNCHANGED <<vars, probeVars>>
    BY <1>1
  <1>2. CASE ComposedNext
    BY <1>2, LoopIsRun, WatchingIsRun, ArmIsRun, WatchedAgentIsRun DEF ComposedNext
  <1> QED BY <1>1, <1>2

-----------------------------------------------------------------------------
(***************************************************************************)
(* Every step keeps the invariant.                                         *)
(***************************************************************************)

\* A run starts without an agent.
LEMMA ComposedStart == ComposedInit => Init /\ ComposedInv
  <1> SUFFICES ASSUME ComposedInit PROVE Tie
    BY ControlInit DEF ComposedInit, ComposedInv
  <1>1. /\ process = "exited" /\ runState = "RunInit" /\ currentRole = "none"
    BY DEF ComposedInit, Init
  <1> QED BY <1>1 DEF Tie, Monitored, MonitorState

\* No handler but a dispatch begins a monitored attempt.
LEMMA HandlerEndsMonitoring ==
  ASSUME ControlInv, Handler
  PROVE  runState' \notin {"ExecutorMonitor", "ReviewerMonitor"} /\ at' = "loop" /\ UNCHANGED agent
  <1> USE DEF Goto, In, DispatchState, CollectState, attemptVars, Roles
  <1>1. CASE ValidateInputs \/ ContextPrep \/ SessionBind
    BY <1>1 DEF ValidateInputs, ContextPrep, SessionBind, GitCheckFailures
  <1>2. ASSUME NEW r \in Roles,
               DispatchLocked(r) \/ DispatchRequestChanged(r) \/ DispatchFails(r) \/ CollectFails(r)
        PROVE  runState' \notin {"ExecutorMonitor", "ReviewerMonitor"} /\ at' = "loop" /\ UNCHANGED agent
    BY <1>2 DEF DispatchLocked, DispatchRequestChanged, DispatchFails, CollectFails
  <1>3. CASE RoundRetryDecide
    BY <1>3 DEF RoundRetryDecide
  <1>4. CASE ExecutorOutputCollect \/ OrchVerify \/ RoundFeedbackPrep
    BY <1>4 DEF ExecutorOutputCollect, OrchVerify, RoundFeedbackPrep
  <1>5. CASE CollectUntouched \/ CollectUnreadable \/ CollectRejected \/ CollectVerdict
    BY <1>5 DEF CollectUntouched, CollectUnreadable, CollectRejected, CollectVerdict, RetryReviewer
  <1>6. CASE QualityGate
    <2>1. reviewResult # "none" => AfterGate(reviewResult) \in Terminal \cup {"RoundFeedbackPrep"}
      BY AfterGateType DEF ControlInv, TypeOK
    <2> QED BY <1>6, <2>1 DEF QualityGate, Terminal
  <1> QED BY <1>1, <1>2, <1>3, <1>4, <1>5, <1>6 DEF Handler

\* The loop, a dispatch and the end of the run: a dispatch begins with an agent
\* that is known to be alive, and nothing else begins an attempt.
LEMMA LoopKeepsTie ==
  ASSUME ComposedInv,
         \/ ComposedLoopHead \/ (\E r \in Roles : ComposedDispatch(r)) \/ ComposedExit
         \/ Handler /\ UNCHANGED probeVars
         \/ (Others \/ Exited) /\ UNCHANGED probeVars
  PROVE  Tie'
  <1> USE DEF ComposedInv, Tie
  <1>1. CASE ComposedLoopHead
    <2>1. UNCHANGED <<process, cancel, agent, currentRole>> /\ at' # "exited"
      BY <1>1 DEF ComposedLoopHead, LoopHead, attemptVars
    <2>2. CASE Monitored'
      <3>1. Monitored /\ at' = "step" /\ runState' = MonitorState(currentRole)
        BY <1>1, <2>1, <2>2 DEF Monitored, ComposedLoopHead, LoopHead, MonitorState, Terminal
      <3>2. UNCHANGED probeVars
        BY <1>1, <2>1, <3>1 DEF ComposedLoopHead
      <3> QED BY <2>1, <3>1, <3>2 DEF probeVars
    <2> QED BY <2>1, <2>2
  <1>2. ASSUME NEW r \in Roles, ComposedDispatch(r) PROVE Tie'
    BY <1>2 DEF ComposedDispatch, Dispatch, Goto
  <1>3. CASE ComposedExit
    BY <1>3 DEF ComposedExit, Exit, Monitored
  <1>4. CASE Handler /\ UNCHANGED probeVars
    <2>1. ~Monitored' /\ at' # "exited" /\ UNCHANGED <<agent, process>>
      BY <1>4, HandlerEndsMonitoring DEF Monitored, MonitorState, probeVars
    <2> QED BY <2>1
  <1>5. CASE (Others \/ Exited) /\ UNCHANGED probeVars
    <2>1. UNCHANGED <<runState, at, agent, currentRole>> /\ (cancel => cancel')
      BY <1>5 DEF Others, Exited, InboxEdited, Cancel, OtherLocks, OtherUnlocks, World, vars
    <2> QED BY <1>5, <2>1 DEF probeVars, Monitored
  <1> QED BY <1>1, <1>2, <1>3, <1>4, <1>5

\* A probe learns of the agent's end, and stops it only when it was found to
\* hang or cancelled.
LEMMA WatchingKeepsTie ==
  ASSUME ComposedInv, Watching
  PROVE  Tie'
  <1>1. /\ Monitored /\ UNCHANGED <<runState, at, cancel, currentRole>>
        /\ agent' = IF pid' THEN agent ELSE "exited"
    BY WatchedRole DEF Watching, ComposedInv, Kept, loopVars
  <1>2. /\ pid \in BOOLEAN /\ agent = (IF pid THEN "running" ELSE "exited")
        /\ pc = "stopHang" => pid
        /\ pc = "stopCancel" => cancel
        /\ process \in {"running", "exited"} /\ (process = "running" => agent = "running")
    BY <1>1 DEF ComposedInv, Tie
  <1>3. /\ pid' \in BOOLEAN /\ (pid' => pid)
        /\ process' \in {"running", "exited"} /\ (process' = "running" => pid')
        /\ pc' = "stopHang" => pid'
        /\ pc' = "stopCancel" => cancel
    <2> USE DEF Mon!world, Mon!timers
    <2>1. CASE Mon!Tick
      BY <1>2, <2>1 DEF Mon!Tick
    <2>2. CASE Mon!SeeCancel
      BY <1>2, <2>2, CancelledIsCancelled DEF Mon!SeeCancel
    <2>3. CASE Mon!Poll
      BY <1>2, <2>3 DEF Mon!Poll
    <2>4. CASE Mon!ConfirmHang
      BY <1>2, <2>4, HungIsAlive DEF Mon!ConfirmHang, Mon!Probe, Mon!Proceed
    <2>5. CASE Mon!CancelProbe
      BY <1>2, <2>5, CancelledIsCancelled DEF Mon!CancelProbe, Mon!Probe, Mon!Proceed
    <2>6. CASE Mon!KeepWatching \/ Mon!Finalize
      BY <1>2, <2>6 DEF Mon!KeepWatching, Mon!Finalize, Mon!Probe, Mon!Proceed
    <2>7. CASE Mon!StopFinalizing
      BY <1>2, <2>7 DEF Mon!StopFinalizing, Mon!Terminated, Mon!Proceed
    <2> QED BY <2>1, <2>2, <2>3, <2>4, <2>5, <2>6, <2>7 DEF Watching
  <1> QED BY <1>1, <1>2, <1>3 DEF Tie, Monitored

\* An arm leaves the attempt; an agent that lives on is still known to.
LEMMA ArmKeepsTie ==
  ASSUME ComposedInv,
         \/ ArmCollect \/ ArmFailed \/ ArmHang \/ ArmServiceCap \/ ArmCancelled \/ ProbeError
  PROVE  Tie'
  <1>1. ~Monitored' /\ at' # "exited"
    BY DEF ArmCollect, ArmFailed, ArmHang, ArmServiceCap, ArmCancelled, ProbeError, Goto,
           CollectState, Monitored, MonitorState
  <1> USE DEF Mon!world, ComposedInv, Tie
  <1>2. process' \in {"running", "exited"} /\ (process' = "running" => agent' = "running")
    <2>1. CASE ArmCollect
      BY <2>1 DEF ArmCollect, Mon!Collect, Mon!Probe
    <2>2. CASE ArmFailed
      BY <2>2 DEF ArmFailed, Mon!FailSilent, Mon!FailProtocol, Mon!Probe
    <2>3. CASE ArmHang
      BY <2>3 DEF ArmHang, Mon!StopHung, Mon!Terminated
    <2>4. CASE ArmServiceCap
      BY <2>4 DEF ArmServiceCap, Mon!ServiceCap, Mon!Probe
    <2>5. CASE ArmCancelled
      BY <2>5 DEF ArmCancelled, Mon!StopCancelled, Mon!Terminated
    <2>6. CASE ProbeError
      BY <2>6 DEF ProbeError, Mon!ProbeFails
    <2> QED BY <2>1, <2>2, <2>3, <2>4, <2>5, <2>6
  <1> QED BY <1>1, <1>2

\* An agent at work leaves the monitor where it is, and one that dies is not
\* known to have.
LEMMA AgentKeepsTie ==
  ASSUME ComposedInv,
         \/ WatchedAgentWrites \/ WatchedAgentWorks \/ WatchedAside \/ UnwatchedAgent
         \/ ComposedStraggler
  PROVE  Tie'
  <1> USE DEF ComposedInv, Tie, Mon!World, Monitored
  <1>1. CASE WatchedAgentWrites
    BY <1>1 DEF WatchedAgentWrites, Mon!AgentWrites, loopVars, attemptVars
  <1>2. CASE WatchedAgentWorks
    BY <1>2 DEF WatchedAgentWorks, Mon!AgentWorks, loopVars, attemptVars
  <1>3. CASE WatchedAside
    BY <1>3 DEF WatchedAside, vars, Mon!AgentForks, Mon!AgentExits, Mon!LogWritten,
         Mon!LogRemoved, Mon!Diagnostics
  <1>4. CASE UnwatchedAgent
    <2>1. CASE AgentWritesOutbox /\ UNCHANGED process
      BY <1>4, <2>1 DEF UnwatchedAgent, AgentWritesOutbox, World
    <2>2. CASE AgentChangesWorktree /\ UNCHANGED process
      BY <1>4, <2>2 DEF UnwatchedAgent, AgentChangesWorktree, World
    <2>3. CASE runState \in Terminal /\ AgentExits /\ process' = "exited"
      BY <1>4, <2>3 DEF UnwatchedAgent, AgentExits, World, Terminal, MonitorState
    <2> QED BY <1>4, <2>1, <2>2, <2>3 DEF UnwatchedAgent
  <1>5. CASE ComposedStraggler
    BY <1>5 DEF ComposedStraggler, StragglerWritesOutbox, World
  <1> QED BY <1>1, <1>2, <1>3, <1>4, <1>5

\* So the invariant of a run and the tie to its monitor carry each other.
LEMMA ComposedStep ==
  ComposedInv /\ [ComposedNext]_<<vars, probeVars>> => ComposedInv'
  <1> SUFFICES ASSUME ComposedInv, [ComposedNext]_<<vars, probeVars>> PROVE Tie'
    BY ComposedStepIsRun, ControlStep DEF ComposedInv
  <1>1. CASE UNCHANGED <<vars, probeVars>>
    BY <1>1 DEF vars, probeVars, ComposedInv, Tie, Monitored
  <1>2. CASE ComposedNext
    BY <1>2, LoopKeepsTie, WatchingKeepsTie, ArmKeepsTie, AgentKeepsTie DEF ComposedNext
  <1> QED BY <1>1, <1>2

LEMMA ComposedInvariant == ComposedSpec => []ComposedInv
  BY ComposedStart, ComposedStep, PTL DEF ComposedSpec

-----------------------------------------------------------------------------
(***************************************************************************)
(* The theorems.                                                           *)
(***************************************************************************)

\* The probe loop refines the monitor actions of Orchestrator: for all
\* thresholds, and wherever the agent's steps fall between those of a probe, a
\* run whose attempts are watched is a run.
THEOREM MonitoredRunIsARun == ComposedSpec => ImplementsTheRun
  BY ComposedStart, ComposedStepIsRun, ComposedInvariant, PTL
     DEF ComposedSpec, Spec, ImplementsTheRun

\* So everything that is proved of a run holds of a monitored one: it implements
\* ReviewLoop and LockView, its retries and late dispatches are bounded, a cleanup
\* is enforced and its loop winds down.
THEOREM MonitoredRunIsSafe ==
  ComposedSpec => /\ KeepsTheContract /\ UsesLocksAsSeen
                  /\ [](LocksFollowTheAgent /\ DispatchBudget /\ CancelBound)
                  /\ CleanupIsEnforced /\ WindsDown
  BY MonitoredRunIsARun, ContractIsKept, RunUsesLocks, LocksAreDisciplined,
     RetriesAreBounded, CancelIsPrompt, CleanupHolds, RunsWindDown, PTL DEF ImplementsTheRun

\* Without processes that outlive their executor, its gate acts on a verdict that
\* the reviewer wrote about the latest delivery.
THEOREM MonitoredGateActsOnTheReview ==
  ASSUME ~Stragglers PROVE ComposedSpec => []VerdictIsCurrent
  BY MonitoredRunIsARun, GateActsOnTheReview, PTL DEF ImplementsTheRun

\* No process outlives its attempt in a run that goes on, or the run.
THEOREM NoAgentIsUnwatched == ComposedSpec => []AgentIsWatched
  <1>1. ComposedInv => AgentIsWatched
    BY DEF ComposedInv, Tie, ControlInv, Locks, LocksFollowTheAgent, RoleOfPhase,
           AgentIsWatched, MonitorState, Roles
  <1> QED BY <1>1, ComposedInvariant, PTL

\* An implementer that fell silent over its own changes is reviewed: the grace
\* periods it is given are measured against the worktree of its dispatch.
THEOREM ChangesAreReviewedInARun == ComposedSpec => ChangesAreNotRetried
  <1> DEFINE Safe == runState = "ExecutorMonitor" /\ runState' = "RoundRetryDecide" =>
                       agent' = "none" \/ Work = "document" \/ (worktree = status /\ ~committed)
  <1>1. ComposedInv /\ [ComposedNext]_<<vars, probeVars>> => [Safe]_<<vars, probeVars>>
    <2> SUFFICES ASSUME ComposedInv, ComposedNext, runState = "ExecutorMonitor",
                        runState' = "RoundRetryDecide", agent' # "none", Work # "document"
                 PROVE  worktree = status /\ ~committed
      BY DEF Safe
    <2>1. currentRole = "executor" /\ Kind(currentRole) = "implement"
      BY WorkAssumption DEF ComposedInv, ControlInv, RoleOfPhase, ExecutorStates, Kind
    <2>2. ArmFailed
      <3>1. ~ComposedLoopHead /\ ~(\E r \in Roles : ComposedDispatch(r)) /\ ~ComposedExit
        BY DEF ComposedLoopHead, LoopHead, ComposedDispatch, Dispatch, Goto, MonitorState,
               ComposedExit, Exit, Terminal
      <3>2. ~Handler
        BY DEF Handler, In, Goto, ValidateInputs, ContextPrep, SessionBind, DispatchLocked,
               DispatchRequestChanged, DispatchFails, CollectFails, DispatchState, CollectState,
               RoundRetryDecide, ExecutorOutputCollect, OrchVerify, CollectUntouched,
               CollectUnreadable, CollectRejected, CollectVerdict, QualityGate, RoundFeedbackPrep
      <3>3. ~Watching /\ ~ArmCollect /\ ~ArmHang /\ ~ArmServiceCap /\ ~ArmCancelled /\ ~ProbeError
        BY DEF Watching, loopVars, ArmCollect, ArmHang, ArmServiceCap, ArmCancelled, ProbeError,
               Goto, CollectState
      <3>4. /\ ~WatchedAgentWrites /\ ~WatchedAgentWorks /\ ~WatchedAside /\ ~UnwatchedAgent
            /\ ~ComposedStraggler /\ ~Others /\ ~Exited
        BY DEF WatchedAgentWrites, WatchedAgentWorks, WatchedAside, UnwatchedAgent,
               ComposedStraggler, StragglerWritesOutbox, Others, InboxEdited, Cancel, OtherLocks,
               OtherUnlocks, AgentWritesOutbox, AgentChangesWorktree, AgentExits, World, Exited,
               loopVars, vars
      <3> QED BY <3>1, <3>2, <3>3, <3>4 DEF ComposedNext
    <2> QED BY <2>1, <2>2, RetriedIsDead DEF ArmFailed
  <1> QED BY <1>1, ComposedInvariant, PTL DEF ComposedSpec, ChangesAreNotRetried
=============================================================================
