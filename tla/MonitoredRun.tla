---------------------------- MODULE MonitoredRun ----------------------------
(***************************************************************************)
(* A run with its probe loop: Orchestrator, with Monitor in the place of   *)
(* its monitor actions.                                                    *)
(*                                                                         *)
(* do_monitor is one step of the loop of Orchestrator; while it is on, the *)
(* steps are those of Monitor (Watching and the agent's), and every way    *)
(* Monitor has to end is an arm of the match at the end of do_monitor, with *)
(* what that arm does to the context.  None of Orchestrator's guards on the *)
(* agent and the outbox is repeated here: that they hold is what           *)
(* ImplementsTheRun claims.                                                *)
(*                                                                         *)
(* The agent of Orchestrator is what the run knows of the process, its     *)
(* true state is process.                                                  *)
(***************************************************************************)
EXTENDS Orchestrator

CONSTANTS
  Work,           (* what the workflow asks of the executor: "implement" or *)
                  (* "document"                                             *)
  Writes,         (* what an agent, or what is left of one, may write into *)
                  (* the outbox                                            *)
  HangConfirm, HangMax, CommitGrace, OutboxGrace, FinalizingKill
                  (* the thresholds of Monitor                              *)

ASSUME WorkAssumption == Work \in {"implement", "document"}
ASSUME WritesAssumption == Writes \subseteq Bodies
ASSUME ThresholdsAssumption ==
  {HangConfirm, HangMax, CommitGrace, OutboxGrace, FinalizingKill} \subseteq Nat \ {0}

VARIABLES
  \* Those of Monitor that the run has no use for
  pc, ending, pid, age, idle, graceCommit, graceOutbox, seen, signal,
  children, written, committed, artifact, log, cap,
  process,   \* the child process: "running" or "exited"
  status     \* git status at the dispatch

probeVars == <<pc, ending, pid, age, idle, graceCommit, graceOutbox, seen, signal,
               children, written, committed, artifact, log, cap, process, status>>

\* The attempt under way, as Monitor sees it.
Kind(r) == IF r = "reviewer" THEN "review" ELSE Work
Mon == INSTANCE Monitor WITH
  Kinds <- {"review", Work},
  kind <- Kind(currentRole),
  agent <- process,
  content <- HasContent(outbox.body),
  dirty <- worktree # status

\* No attempt is under way; nothing reads the data of the last one.
Forgotten ==
  /\ pc' = "ended" /\ ending' = "none" /\ pid' = FALSE
  /\ age' = 0 /\ idle' = 0 /\ graceCommit' = {} /\ graceOutbox' = {}
  /\ seen' = FALSE /\ signal' = FALSE /\ children' = FALSE /\ written' = {}
  /\ committed' = FALSE /\ artifact' = FALSE /\ log' = {} /\ cap' = FALSE
  /\ status' = {}

ComposedInit ==
  /\ Init
  /\ pc = "ended" /\ ending = "none" /\ pid = FALSE
  /\ age = 0 /\ idle = 0 /\ graceCommit = {} /\ graceOutbox = {}
  /\ seen = FALSE /\ signal = FALSE /\ children = FALSE /\ written = {}
  /\ committed = FALSE /\ artifact = FALSE /\ log = {} /\ cap = FALSE
  /\ status = {} /\ process = "exited"

\* do_monitor is on.
Watched == at = "step" /\ runState = MonitorState(currentRole)

-----------------------------------------------------------------------------
(***************************************************************************)
(* The loop outside of do_monitor.                                         *)
(***************************************************************************)

ComposedLoopHead ==
  /\ LoopHead
  /\ UNCHANGED process
  /\ IF at' = "step" /\ runState' = MonitorState(currentRole)
     THEN UNCHANGED probeVars ELSE Forgotten

\* The process is spawned and ctx.attempt is made anew.
ComposedDispatch(r) ==
  /\ Dispatch(r)
  /\ process' = "running" /\ pid' = TRUE /\ children' = FALSE
  /\ pc' = "poll" /\ ending' = "none"
  /\ age' = 0 /\ idle' = 0 /\ graceCommit' = {} /\ graceOutbox' = {}
  /\ seen' = FALSE /\ signal' = TRUE
  /\ written' = {} /\ status' = worktree /\ committed' = FALSE
  /\ artifact' \in (IF Kind(r) = "document" THEN BOOLEAN ELSE {FALSE})
  /\ log' \in {{}, {HangConfirm}} /\ cap' = FALSE

\* kill_on_drop
ComposedExit ==
  /\ Exit
  /\ process' = "exited" /\ children' = FALSE
  /\ UNCHANGED <<pc, ending, pid, age, idle, graceCommit, graceOutbox, seen, signal,
                 written, committed, artifact, log, cap, status>>

\* Every other handler leaves the attempt alone.
Handler ==
  \/ ValidateInputs \/ ContextPrep \/ SessionBind
  \/ \E r \in Roles : \/ DispatchLocked(r) \/ DispatchRequestChanged(r) \/ DispatchFails(r)
                      \/ CollectFails(r)
  \/ RoundRetryDecide \/ ExecutorOutputCollect \/ OrchVerify
  \/ CollectUntouched \/ CollectUnreadable \/ CollectRejected \/ CollectVerdict
  \/ QualityGate \/ RoundFeedbackPrep

-----------------------------------------------------------------------------
(***************************************************************************)
(* do_monitor.                                                             *)
(***************************************************************************)

\* What no part of do_monitor touches.
Kept == <<currentRole, preOutbox, files, baseline, reviewVars, history, status>>

\* The probes that go on; one may find that the process has ended.
Watching ==
  /\ Watched
  /\ UNCHANGED <<loopVars, failures, locks, outboxPresent, Kept>>
  /\ \/ Mon!Tick \/ Mon!SeeCancel \/ Mon!Poll
     \/ Mon!ConfirmHang \/ Mon!CancelProbe \/ Mon!KeepWatching \/ Mon!Finalize
     \/ Mon!StopFinalizing
  /\ agent' = IF pid' THEN agent ELSE "exited"

\* AttemptState::Success and SoftSuccess
ArmCollect ==
  /\ Watched
  /\ outboxPresent' = HasContent(outbox.body)
  /\ locks' = Release(currentRole)
  /\ Goto(CollectState(currentRole))
  /\ UNCHANGED <<agent, failures, Kept>>
  /\ Mon!Collect

\* FailedSilent and FailedProtocol
ArmFailed ==
  /\ Watched
  /\ locks' = Release(currentRole)
  /\ failures' = failures + 1
  /\ Goto("RoundRetryDecide")
  /\ UNCHANGED <<agent, outboxPresent, Kept>>
  /\ Mon!FailSilent \/ Mon!FailProtocol

\* HangConfirmed; terminate_active_child takes the process out of the context.
ArmHang ==
  /\ Watched
  /\ agent' = "none"
  /\ locks' = Release(currentRole)
  /\ failures' = failures + 1
  /\ Goto("RoundRetryDecide")
  /\ UNCHANGED <<outboxPresent, Kept>>
  /\ Mon!StopHung

ArmServiceCap ==
  /\ Watched
  /\ locks' = Release(currentRole)
  /\ Goto("RunFailedServiceCap")
  /\ UNCHANGED <<agent, failures, outboxPresent, Kept>>
  /\ Mon!ServiceCap

\* Only the arm of Cancelled releases the lock, the two tests before a probe
\* leave it to the context.
ArmCancelled ==
  /\ Watched
  /\ agent' = "none"
  /\ locks' \in {locks, Release(currentRole)}
  /\ Goto("RunAborted")
  /\ UNCHANGED <<failures, outboxPresent, Kept>>
  /\ Mon!StopCancelled

ProbeError ==
  /\ Watched
  /\ Goto("RunFailedInternal")
  /\ UNCHANGED <<agent, failures, locks, outboxPresent, Kept>>
  /\ Mon!ProbeFails

-----------------------------------------------------------------------------
(***************************************************************************)
(* The world.                                                              *)
(***************************************************************************)

\* The agent at work, under the eyes of the monitor.
WatchedAgentWrites ==
  /\ Watched
  /\ \E body \in Writes : outbox' = [body |-> body, by |-> currentRole, touched |-> TRUE]
  /\ UNCHANGED <<loopVars, failures, attemptVars, locks, inbox, worktree, baseline,
                 outboxPresent, reviewVars, history, process, status>>
  /\ Mon!AgentWrites

WatchedAgentWorks ==
  /\ Watched
  /\ worktree' \in {worktree} \cup {worktree \cup {line} : line \in Lines}
                              \cup {worktree \ {line} : line \in Lines}
  /\ UNCHANGED <<loopVars, failures, attemptVars, locks, outbox, inbox, baseline,
                 outboxPresent, reviewVars, history, process, status>>
  /\ Mon!AgentWorks

\* What Orchestrator knows nothing of.
WatchedAside ==
  /\ Watched
  /\ UNCHANGED <<vars, status>>
  /\ \/ Mon!AgentForks \/ Mon!AgentExits \/ Mon!LogWritten \/ Mon!LogRemoved
     \/ Mon!Diagnostics

\* Between the spawn and the first probe a write is not seen as one, and an
\* agent the run has left behind lives until the context is dropped.
UnwatchedAgent ==
  /\ ~Watched /\ process = "running"
  /\ \/ AgentWritesOutbox /\ outbox'.body \in Writes /\ UNCHANGED process
     \/ runState \in Terminal /\ AgentChangesWorktree /\ UNCHANGED process
     \/ runState \in Terminal /\ AgentExits /\ process' = "exited"
  /\ UNCHANGED <<pc, ending, pid, age, idle, graceCommit, graceOutbox, seen, signal,
                 children, written, committed, artifact, log, cap, status>>

\* To the monitor a straggler's write is a write.
ComposedStraggler ==
  /\ StragglerWritesOutbox /\ outbox'.body \in Writes
  /\ IF Watched
     THEN written' = (IF HasContent(outbox'.body) THEN {0} ELSE {}) /\ signal' = TRUE
     ELSE UNCHANGED <<written, signal>>
  /\ UNCHANGED <<pc, ending, pid, age, idle, graceCommit, graceOutbox, seen, children,
                 committed, artifact, log, cap, process, status>>

Others ==
  \/ InboxEdited \/ Cancel
  \/ \E r \in Roles : OtherLocks(r) \/ OtherUnlocks(r)

ComposedNext ==
  \/ ComposedLoopHead \/ (\E r \in Roles : ComposedDispatch(r)) \/ ComposedExit
  \/ Handler /\ UNCHANGED probeVars
  \/ Watching
  \/ ArmCollect \/ ArmFailed \/ ArmHang \/ ArmServiceCap \/ ArmCancelled \/ ProbeError
  \/ WatchedAgentWrites \/ WatchedAgentWorks \/ WatchedAside \/ UnwatchedAgent
  \/ ComposedStraggler
  \/ Others /\ UNCHANGED probeVars
  \/ Exited /\ UNCHANGED probeVars

ComposedSpec == ComposedInit /\ [][ComposedNext]_<<vars, probeVars>>

-----------------------------------------------------------------------------
(***************************************************************************)
(* Properties.                                                             *)
(***************************************************************************)

\* With the probe loop in it a run is still a run of Orchestrator: whatever the
\* agent does between two steps of a probe, an attempt ends in a state in which
\* the guards of the phases hold.
ImplementsTheRun == Spec

\* The process itself, whatever the run knows of it, lives only while its
\* attempt is monitored under the lock of its session, until the run is over;
\* then until the context is dropped, and never longer.
AgentIsWatched ==
  process = "running" =>
    /\ at # "exited"
    /\ runState \notin Terminal =>
         runState = MonitorState(currentRole) /\ locks[currentRole] = "mine"

\* An implementer that changed the repository since its dispatch and exited
\* without a report is not dispatched again on top of its own work.
ChangesAreNotRetried ==
  [][runState = "ExecutorMonitor" /\ runState' = "RoundRetryDecide" =>
       agent' = "none" \/ Work = "document" \/ (worktree = status /\ ~committed)]_<<vars, probeVars>>
=============================================================================
