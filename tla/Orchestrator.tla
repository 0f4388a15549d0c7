---------------------------- MODULE Orchestrator ----------------------------
(***************************************************************************)
(* One run of the orchestrator: the loop of src/src/orchestrator/mod.rs    *)
(* and the phase handlers of src/src/orchestrator/phases.rs, with the two  *)
(* agents, the transport files, the git worktree, the session locks and    *)
(* the operator around them.                                               *)
(*                                                                         *)
(* A run alternates between an executor, which works in the repository,    *)
(* and a reviewer, which judges the work.  Each of their attempts is       *)
(* dispatched (inbox.txt is written, a provider process is spawned under a *)
(* session lock), monitored until it ends, and its result collected from   *)
(* outbox.txt.  The probe loop of an attempt (orchestrator/monitor.rs) is  *)
(* abstracted here to the ways it can end.                                 *)
(*                                                                         *)
(* Data is kept only as far as the control tells it apart: the outbox is   *)
(* what parse_reviewer_yaml makes of it and whether its mtime moved since  *)
(* the attempt was dispatched; git status is a set of lines; the session   *)
(* of a role stands for its (provider, session id).                        *)
(***************************************************************************)
EXTENDS Naturals, FiniteSets

CONSTANTS
  Limit,      (* CONSECUTIVE_FAILURE_LIMIT                                 *)
  Lines,      (* the git status lines an agent can add to the worktree     *)
  Stragglers  (* whether a process an ended executor attempt left behind   *)
              (* can still write the outbox during the review              *)

ASSUME LimitAssumption == Limit \in Nat \ {0}
ASSUME StragglersAssumption == Stragglers \in BOOLEAN

Roles == {"executor", "reviewer"}
Decisions == {"accept", "revise", "blocked", "irreconcilable", "poisoned"}

\* What a reader finds in outbox.txt: nothing, bytes that are not UTF-8, text
\* that is no acceptable verdict, or a verdict.
Bodies == Decisions \cup {"absent", "empty", "unreadable", "text"}
HasContent(body) == body \notin {"absent", "empty"}

Templates == {"ExecutorInitial", "ExecutorFeedback", "ReviewerReview",
              "ReviewerRepairYaml", "ReviewerRepairWorkspace"}

Terminal == {"RunDone", "RunAborted", "RunFailedInvalidInput",
             "RunFailedDirtyWorktree", "RunFailedSessionBind",
             "RunFailedServiceCap", "RunFailedConsecutiveFailureLimit",
             "RunFailedExternalBlocker", "RunFailedIrreconcilableDisagreement",
             "RunFailedPoisonedSession", "RunFailedProtocol",
             "RunFailedSessionLocked", "RunFailedInternal"}

RunStates == Terminal \cup
  {"RunInit", "ContextPrep", "SessionBind", "ExecutorDispatch",
   "ExecutorMonitor", "RoundRetryDecide", "ExecutorOutputCollect",
   "OrchVerify", "ReviewerDispatch", "ReviewerMonitor",
   "ReviewerOutputCollect", "QualityGate", "RoundFeedbackPrep"}

DispatchState(r) == IF r = "executor" THEN "ExecutorDispatch" ELSE "ReviewerDispatch"
MonitorState(r)  == IF r = "executor" THEN "ExecutorMonitor" ELSE "ReviewerMonitor"
CollectState(r)  == IF r = "executor" THEN "ExecutorOutputCollect"
                                      ELSE "ReviewerOutputCollect"

VARIABLES
  runState,          \* ctx.run_state
  at,                \* "loop": head of the loop of run; "step": inside step;
                     \* "done": loop left; "exited": the context is dropped
  cancel,            \* CANCEL_FLAG
  failures,          \* ctx.consecutive_failure_count
  currentRole,       \* ctx.current_role, and the role of ctx.attempt
  preOutbox,         \* attempt.pre_reviewer_outbox_mtime is Some
  agent,             \* ctx.active_process
  locks,             \* the flock on the session of each role
  outbox,            \* outbox.txt
  inbox,             \* inbox.txt
  worktree,          \* git status --short --untracked-files=all
  baseline,          \* ctx.pre_reviewer_git_status
  outboxPresent,     \* ctx.outbox_present
  reviewResult,      \* ctx.review_result (and its raw text)
  yamlRejected,      \* ctx.reviewer_yaml_rejection is Some
  leftovers,         \* the lines named by ctx.reviewer_workspace_rejection,
                     \* {} when it is None
  \* History variables, read by no action:
  verdictOrigin,     \* who wrote the verdict held in reviewResult, "stale"
                     \* once the executor has delivered again
  spent,             \* agents dispatched since the last pass of the gate
  lateDispatches     \* agents dispatched with the cancel flag already set

loopVars   == <<runState, at, cancel>>
attemptVars == <<currentRole, preOutbox, agent>>
reviewVars == <<reviewResult, yamlRejected, leftovers, verdictOrigin>>
history    == <<spent, lateDispatches>>
files      == <<outbox, inbox, worktree>>
vars == <<runState, at, cancel, failures, currentRole, preOutbox, agent, locks,
          outbox, inbox, worktree, baseline, outboxPresent, reviewResult,
          yamlRejected, leftovers, verdictOrigin, spent, lateDispatches>>

-----------------------------------------------------------------------------
(***************************************************************************)
(* The main loop.                                                          *)
(***************************************************************************)

\* inbox.txt before a request is written into it.
EmptyRequest == [template |-> "none", verdict |-> "none", intact |-> FALSE]

\* The transport files and the worktree are what an earlier run or the user
\* left; another orchestrator may hold either session.
Init ==
  /\ runState = "RunInit" /\ at = "step" /\ cancel = FALSE
  /\ failures = 0
  /\ currentRole = "none" /\ preOutbox = FALSE /\ agent = "none"
  /\ locks \in [Roles -> {"free", "other"}]
  /\ \E body \in Bodies : outbox = [body |-> body, by |-> "earlier", touched |-> FALSE]
  /\ inbox = EmptyRequest
  /\ worktree \in SUBSET Lines
  /\ baseline = {}
  /\ outboxPresent = FALSE
  /\ reviewResult = "none" /\ yamlRejected = FALSE /\ leftovers = {}
  /\ verdictOrigin = "none" /\ spent = 0 /\ lateDispatches = 0

\* One pass of the loop head: a cancelled run is aborted, a terminal one is
\* left, any other takes one step.
CancelIgnored == FALSE
Aborted == cancel /\ runState \notin Terminal

LoopHead ==
  /\ at = "loop"
  /\ runState' = IF Aborted THEN "RunAborted" ELSE runState
  /\ at' = IF runState' \in Terminal THEN "done" ELSE "step"
  /\ UNCHANGED <<cancel, failures, attemptVars, locks, files, baseline,
                 outboxPresent, reviewVars, history>>

In(s) == at = "step" /\ runState = s
Goto(s) == runState' = s /\ at' = "loop" /\ UNCHANGED cancel

\* run returns its report and the context is dropped: the lock files close and
\* an agent still alive is killed (kill_on_drop).
Exit ==
  /\ at = "done"
  /\ at' = "exited"
  /\ locks' = [r \in Roles |-> IF locks[r] = "mine" THEN "free" ELSE locks[r]]
  /\ agent' = "none"
  /\ UNCHANGED <<runState, cancel, failures, currentRole, preOutbox, files,
                 baseline, outboxPresent, reviewVars, history>>

Exited == at = "exited" /\ UNCHANGED vars

-----------------------------------------------------------------------------
(***************************************************************************)
(* Start of a run.                                                         *)
(***************************************************************************)

\* validate_inputs and validate_provider_models; neither reads the flag.
ValidateInputs ==
  /\ In("RunInit")
  /\ \E s \in {"ContextPrep", "RunFailedInvalidInput"} : Goto(s)
  /\ UNCHANGED <<failures, attemptVars, locks, files, baseline, outboxPresent,
                 reviewVars, history>>

\* The checks of the repository (top level, no lock files, no operation in
\* progress, no unmerged entries, a branch, a HEAD) reject it or fail to run.
GitCheckFailures == {"RunFailedInvalidInput", "RunFailedInternal"}

\* Before the last two, the worktree must be found clean.
ContextPrep ==
  /\ In("ContextPrep")
  /\ \/ \E s \in GitCheckFailures : Goto(s)
     \/ worktree # {} /\ Goto("RunFailedDirtyWorktree")
     \/ worktree = {} /\ Goto("SessionBind")
  /\ UNCHANGED <<failures, attemptVars, locks, files, baseline, outboxPresent,
                 reviewVars, history>>

SessionBind ==
  /\ In("SessionBind")
  /\ \E s \in {"ExecutorDispatch", "RunFailedSessionBind", "RunFailedInternal"} : Goto(s)
  /\ UNCHANGED <<failures, attemptVars, locks, files, baseline, outboxPresent,
                 reviewVars, history>>

-----------------------------------------------------------------------------
(***************************************************************************)
(* EXECUTOR_DISPATCH and REVIEWER_DISPATCH (dispatch_role).                *)
(***************************************************************************)

Template(r) ==
  IF r = "executor"
  THEN IF reviewResult # "none" THEN "ExecutorFeedback" ELSE "ExecutorInitial"
  ELSE IF leftovers # {} THEN "ReviewerRepairWorkspace"
  ELSE IF yamlRejected THEN "ReviewerRepairYaml" ELSE "ReviewerReview"

Request(r) == [template |-> Template(r), verdict |-> reviewResult, intact |-> TRUE]

\* An executor dispatch truncates both files, a reviewer dispatch the inbox only.
ResetOutbox(r) ==
  IF r = "executor"
  THEN [body |-> "empty", by |-> "orchestrator", touched |-> FALSE]
  ELSE outbox

\* The worktree the reviewer is given.  While it cleans up it keeps the one it
\* was given first, so that its leftovers are not accepted.
RecapturedBaseline(r) == IF r = "reviewer" THEN worktree ELSE baseline
Baseline(r) == IF r = "reviewer" /\ leftovers = {} THEN worktree ELSE baseline

\* The history counters stop one above what DispatchBudget and CancelBound allow.
Counted(n, bound) == IF n < bound THEN n + 1 ELSE n

\* The request of the previous dispatch is still in the inbox, if there was one.
RequestIntact == currentRole = "none" \/ inbox.intact

\* try_lock_exclusive fails for whoever holds the session, this run included.
DispatchLocked(r) ==
  /\ In(DispatchState(r))
  /\ locks[r] # "free"
  /\ Goto("RunFailedSessionLocked")
  /\ UNCHANGED <<failures, attemptVars, locks, files, baseline, outboxPresent,
                 reviewVars, history>>

DispatchRequestChanged(r) ==
  /\ In(DispatchState(r))
  /\ locks[r] = "free"
  /\ ~RequestIntact
  /\ locks' = [locks EXCEPT ![r] = "mine"]
  /\ Goto("RunFailedInternal")
  /\ UNCHANGED <<failures, attemptVars, files, baseline, outboxPresent,
                 reviewVars, history>>

\* The lock, git, the file system or the spawn fails: each effect of the
\* dispatch may have happened, in this order, none is undone.
DispatchFails(r) ==
  /\ In(DispatchState(r))
  /\ locks[r] = "free"
  /\ RequestIntact
  /\ \E done \in 0..4 :
       /\ locks' = IF done >= 1 THEN [locks EXCEPT ![r] = "mine"] ELSE locks
       /\ outbox' = IF done >= 2 THEN ResetOutbox(r) ELSE outbox
       /\ baseline' = IF done >= 3 THEN Baseline(r) ELSE baseline
       /\ inbox' = CASE done < 2     -> inbox
                     [] done \in 2..3 -> EmptyRequest
                     [] OTHER         -> Request(r)
  /\ Goto("RunFailedInternal")
  /\ UNCHANGED <<failures, attemptVars, worktree, outboxPresent, reviewVars, history>>

Dispatch(r) ==
  /\ In(DispatchState(r))
  /\ locks[r] = "free"
  /\ RequestIntact
  /\ locks' = [locks EXCEPT ![r] = "mine"]
  /\ outbox' = [ResetOutbox(r) EXCEPT !.touched = FALSE]
  /\ preOutbox' = (r = "reviewer" /\ outbox.body # "absent")
  /\ baseline' = Baseline(r)
  /\ inbox' = Request(r)
  /\ agent' = "running"
  /\ currentRole' = r
  /\ spent' = Counted(spent, Limit + 2)
  /\ lateDispatches' = IF cancel THEN Counted(lateDispatches, 2) ELSE lateDispatches
  /\ Goto(MonitorState(r))
  /\ UNCHANGED <<failures, worktree, outboxPresent, reviewVars>>

-----------------------------------------------------------------------------
(***************************************************************************)
(* EXECUTOR_MONITOR and REVIEWER_MONITOR (do_monitor), by outcome.         *)
(***************************************************************************)

ReleaseForgotten(r) == locks
Release(r) == [locks EXCEPT ![r] = "free"]

\* Success (outbox written) and, for the executor, SoftSuccess (no outbox).
MonitorSuccess(r) ==
  /\ In(MonitorState(r))
  /\ agent = "exited"
  /\ HasContent(outbox.body) \/ r = "executor"
  /\ outboxPresent' = HasContent(outbox.body)
  /\ locks' = Release(r)
  /\ Goto(CollectState(r))
  /\ UNCHANGED <<failures, attemptVars, files, baseline, reviewVars, history>>

\* FailedSilent and FailedProtocol: the agent ended without a result.
MonitorFailed(r) ==
  /\ In(MonitorState(r))
  /\ agent = "exited"
  /\ ~HasContent(outbox.body)
  /\ locks' = Release(r)
  /\ failures' = failures + 1
  /\ Goto("RoundRetryDecide")
  /\ UNCHANGED <<attemptVars, files, baseline, outboxPresent, reviewVars, history>>

\* HangConfirmed: the agent is terminated before the lock is released.
MonitorHang(r) ==
  /\ In(MonitorState(r))
  /\ agent = "running"
  /\ agent' = "none"
  /\ locks' = Release(r)
  /\ failures' = failures + 1
  /\ Goto("RoundRetryDecide")
  /\ UNCHANGED <<currentRole, preOutbox, files, baseline, outboxPresent,
                 reviewVars, history>>

\* Finalizing: an agent that does not exit after writing its result is
\* stopped, and the next probe sees an exited process.
MonitorFinalize(r) ==
  /\ In(MonitorState(r))
  /\ agent = "running"
  /\ outbox.touched /\ HasContent(outbox.body)
  /\ agent' = "exited"
  /\ UNCHANGED <<runState, at, cancel, failures, currentRole, preOutbox, locks,
                 files, baseline, outboxPresent, reviewVars, history>>

MonitorServiceCap(r) ==
  /\ In(MonitorState(r))
  /\ locks' = Release(r)
  /\ Goto("RunFailedServiceCap")
  /\ UNCHANGED <<failures, attemptVars, files, baseline, outboxPresent,
                 reviewVars, history>>

\* The flag is read before the sleep, after it (the lock stays held until the
\* context is dropped) and by the classifier (the lock is released).
MonitorCancelled(r) ==
  /\ In(MonitorState(r))
  /\ cancel
  /\ agent' = "none"
  /\ locks' \in {locks, Release(r)}
  /\ Goto("RunAborted")
  /\ UNCHANGED <<failures, currentRole, preOutbox, files, baseline,
                 outboxPresent, reviewVars, history>>

\* A signal that cannot be read ends the run; the agent lives until Exit.
MonitorFails(r) ==
  /\ In(MonitorState(r))
  /\ Goto("RunFailedInternal")
  /\ UNCHANGED <<failures, attemptVars, locks, files, baseline, outboxPresent,
                 reviewVars, history>>

BudgetOffByOne == failures > Limit
BudgetSpent == failures >= Limit

RoundRetryDecide ==
  /\ In("RoundRetryDecide")
  /\ IF BudgetSpent
     THEN Goto("RunFailedConsecutiveFailureLimit")
     ELSE Goto(DispatchState(currentRole))
  /\ UNCHANGED <<failures, attemptVars, locks, files, baseline, outboxPresent,
                 reviewVars, history>>

-----------------------------------------------------------------------------
(***************************************************************************)
(* Collecting the result of an attempt.                                    *)
(***************************************************************************)

ExecutorOutputCollect ==
  /\ In("ExecutorOutputCollect")
  /\ verdictOrigin' = IF verdictOrigin = "none" THEN "none" ELSE "stale"
  /\ Goto("OrchVerify")
  /\ UNCHANGED <<failures, attemptVars, locks, files, baseline, outboxPresent,
                 reviewResult, yamlRejected, leftovers, history>>

\* The verdict on the previous delivery does not outlive it.
OrchVerify ==
  /\ In("OrchVerify")
  /\ reviewResult' = "none" /\ verdictOrigin' = "none"
  /\ yamlRejected' = FALSE
  /\ leftovers' = {}
  /\ Goto("ReviewerDispatch")
  /\ UNCHANGED <<failures, attemptVars, locks, files, baseline, outboxPresent, history>>

\* retry_reviewer_output_failure
RetryUncounted == UNCHANGED failures /\ Goto("RoundRetryDecide")
RetryReviewer == failures' = failures + 1 /\ Goto("RoundRetryDecide")

UntouchedUnchecked == FALSE
OutboxUntouched == preOutbox /\ ~outbox.touched

CollectUntouched ==
  /\ In("ReviewerOutputCollect")
  /\ OutboxUntouched
  /\ RetryReviewer
  /\ UNCHANGED <<attemptVars, locks, files, baseline, outboxPresent, reviewVars, history>>

CollectUnreadable ==
  /\ In("ReviewerOutputCollect")
  /\ ~OutboxUntouched
  /\ reviewResult = "none"
  /\ outbox.body \in {"absent", "unreadable"}
  /\ RetryReviewer
  /\ UNCHANGED <<attemptVars, locks, files, baseline, outboxPresent, reviewVars, history>>

CollectRejected ==
  /\ In("ReviewerOutputCollect")
  /\ ~OutboxUntouched
  /\ reviewResult = "none"
  /\ outbox.body \in {"empty", "text"}
  /\ yamlRejected' = TRUE
  /\ RetryReviewer
  /\ UNCHANGED <<attemptVars, locks, files, baseline, outboxPresent,
                 reviewResult, leftovers, verdictOrigin, history>>

\* A saved verdict is kept, whatever the outbox says now; otherwise the outbox
\* holds one and it is saved.
VerdictReparsed ==
  IF outbox.body \in Decisions
  THEN reviewResult' = outbox.body /\ verdictOrigin' = outbox.by /\ yamlRejected' = FALSE
  ELSE UNCHANGED <<reviewResult, verdictOrigin, yamlRejected>>
RejectionKept ==
  /\ UNCHANGED yamlRejected
  /\ \/ reviewResult # "none" /\ UNCHANGED <<reviewResult, verdictOrigin>>
     \/ /\ reviewResult = "none" /\ outbox.body \in Decisions
        /\ reviewResult' = outbox.body /\ verdictOrigin' = outbox.by
SaveVerdict ==
  \/ /\ reviewResult # "none"
     /\ UNCHANGED <<reviewResult, verdictOrigin, yamlRejected>>
  \/ /\ reviewResult = "none"
     /\ outbox.body \in Decisions
     /\ reviewResult' = outbox.body
     /\ verdictOrigin' = outbox.by
     /\ yamlRejected' = FALSE

\* git or the file system fails in a collect handler; the reviewer's verdict
\* may have been saved by then.
CollectFails(r) ==
  /\ In(CollectState(r))
  /\ \/ UNCHANGED <<reviewResult, yamlRejected, verdictOrigin>>
     \/ r = "reviewer" /\ ~OutboxUntouched /\ SaveVerdict
  /\ Goto("RunFailedInternal")
  /\ UNCHANGED <<failures, attemptVars, locks, files, baseline, outboxPresent,
                 leftovers, history>>

\* Then the worktree must hold nothing the reviewer added.
CollectVerdict ==
  /\ In("ReviewerOutputCollect")
  /\ ~OutboxUntouched
  /\ SaveVerdict
  /\ leftovers' = worktree \ baseline
  /\ IF leftovers' # {} THEN RetryReviewer
                        ELSE Goto("QualityGate") /\ UNCHANGED failures
  /\ UNCHANGED <<attemptVars, locks, files, baseline, outboxPresent, history>>

\* The terminal state of a decision that ends the run, and the next phase of
\* the one that does not.
AfterGate(d) ==
  CASE d = "accept"         -> "RunDone"
    [] d = "revise"         -> "RoundFeedbackPrep"
    [] d = "blocked"        -> "RunFailedExternalBlocker"
    [] d = "irreconcilable" -> "RunFailedIrreconcilableDisagreement"
    [] d = "poisoned"       -> "RunFailedPoisonedSession"

QualityGate ==
  /\ In("QualityGate")
  /\ IF reviewResult = "none"
     THEN Goto("RunFailedProtocol") /\ UNCHANGED <<failures, spent>>
     ELSE Goto(AfterGate(reviewResult)) /\ failures' = 0 /\ spent' = 0
  /\ UNCHANGED <<attemptVars, locks, files, baseline, outboxPresent, reviewVars,
                 lateDispatches>>

RoundFeedbackPrep ==
  /\ In("RoundFeedbackPrep")
  /\ Goto("ExecutorDispatch")
  /\ UNCHANGED <<failures, attemptVars, locks, files, baseline, outboxPresent,
                 reviewVars, history>>

-----------------------------------------------------------------------------
(***************************************************************************)
(* The world: the agents, the operator, other orchestrators.               *)
(***************************************************************************)

World ==
  /\ at # "exited"
  /\ UNCHANGED <<runState, at, failures, currentRole, preOutbox, baseline,
                 outboxPresent, reviewVars, history>>

\* A verdict is only a verdict to whoever parses it: the executor may leave
\* one in its report too.
AgentWritesOutbox ==
  /\ agent = "running"
  /\ World
  /\ \E body \in Bodies :
       outbox' = [body |-> body, by |-> currentRole, touched |-> TRUE]
  /\ UNCHANGED <<cancel, agent, locks, inbox, worktree>>

\* An agent edits a file, or commits or reverts an edit.
AgentChangesWorktree ==
  /\ agent = "running"
  /\ World
  /\ \E line \in Lines : \/ worktree' = worktree \cup {line}
                         \/ worktree' = worktree \ {line}
  /\ UNCHANGED <<cancel, agent, locks, inbox, outbox>>

AgentExits ==
  /\ agent = "running"
  /\ World
  /\ agent' = "exited"
  /\ UNCHANGED <<cancel, locks, inbox, outbox, worktree>>

\* A child process that outlives its executor; only the direct child of the
\* orchestrator is ever terminated.
StragglerWritesOutbox ==
  /\ Stragglers /\ currentRole = "reviewer"
  /\ World
  /\ \E body \in Bodies :
       outbox' = [body |-> body, by |-> "executor", touched |-> TRUE]
  /\ UNCHANGED <<cancel, agent, locks, inbox, worktree>>

\* An agent or the user changes the request after it was written.
InboxEdited ==
  /\ World
  /\ inbox' = [inbox EXCEPT !.intact = FALSE]
  /\ UNCHANGED <<cancel, agent, locks, outbox, worktree>>

Cancel ==
  /\ World
  /\ cancel' = TRUE
  /\ UNCHANGED <<agent, locks, outbox, inbox, worktree>>

OtherLocks(r) ==
  /\ locks[r] = "free"
  /\ World
  /\ locks' = [locks EXCEPT ![r] = "other"]
  /\ UNCHANGED <<cancel, agent, outbox, inbox, worktree>>

OtherUnlocks(r) ==
  /\ locks[r] = "other"
  /\ World
  /\ locks' = [locks EXCEPT ![r] = "free"]
  /\ UNCHANGED <<cancel, agent, outbox, inbox, worktree>>

-----------------------------------------------------------------------------
\* Steps the loop takes on its own once the agent has ended or the operator
\* has cancelled.
Progress ==
  \/ LoopHead \/ Exit
  \/ ValidateInputs \/ ContextPrep \/ SessionBind
  \/ \E r \in Roles : \/ DispatchLocked(r) \/ DispatchRequestChanged(r) \/ Dispatch(r)
                      \/ MonitorSuccess(r) \/ MonitorFailed(r) \/ MonitorCancelled(r)
  \/ RoundRetryDecide \/ ExecutorOutputCollect \/ OrchVerify
  \/ CollectUntouched \/ CollectUnreadable \/ CollectRejected \/ CollectVerdict
  \/ QualityGate \/ RoundFeedbackPrep

\* Steps nothing obliges the run to take: the probes that give up on a live
\* agent, and failures of git, the file system or a provider.
Interruption ==
  \E r \in Roles : \/ DispatchFails(r) \/ MonitorHang(r) \/ MonitorFinalize(r)
                   \/ MonitorServiceCap(r) \/ MonitorFails(r) \/ CollectFails(r)

Environment ==
  \/ AgentWritesOutbox \/ AgentChangesWorktree \/ AgentExits
  \/ StragglerWritesOutbox \/ InboxEdited \/ Cancel
  \/ \E r \in Roles : OtherLocks(r) \/ OtherUnlocks(r)

Next == Progress \/ Interruption \/ Environment \/ Exited

Spec == Init /\ [][Next]_vars

\* The runtime keeps polling the loop, and an agent's process ends some day;
\* nothing else is promised.
FairSpec == Spec /\ WF_vars(Progress) /\ WF_vars(AgentExits)

-----------------------------------------------------------------------------
(***************************************************************************)
(* Properties.                                                             *)
(***************************************************************************)

\* Every field of the context and of the world has a value of its type, and
\* the failure count never passes CONSECUTIVE_FAILURE_LIMIT.
TypeOK ==
  /\ runState \in RunStates
  /\ at \in {"loop", "step", "done", "exited"}
  /\ cancel \in BOOLEAN
  /\ failures \in 0..Limit
  /\ currentRole \in Roles \cup {"none"}
  /\ preOutbox \in BOOLEAN
  /\ agent \in {"none", "running", "exited"}
  /\ locks \in [Roles -> {"free", "mine", "other"}]
  /\ outbox \in [body : Bodies, touched : BOOLEAN,
                 by : Roles \cup {"earlier", "orchestrator"}]
  /\ inbox \in [template : Templates \cup {"none"},
                verdict : Decisions \cup {"none"}, intact : BOOLEAN]
  /\ worktree \subseteq Lines
  /\ baseline \subseteq Lines
  /\ outboxPresent \in BOOLEAN
  /\ reviewResult \in Decisions \cup {"none"}
  /\ yamlRejected \in BOOLEAN
  /\ leftovers \subseteq Lines
  /\ verdictOrigin \in Roles \cup {"none", "earlier", "orchestrator", "stale"}
  /\ spent \in 0..(Limit + 2)
  /\ lateDispatches \in 0..2

\* The gate acts on a verdict the reviewer wrote about the executor's latest
\* delivery: never on one left from an earlier round, never on text the
\* executor put into the outbox.
VerdictIsCurrent ==
  runState \in {"QualityGate", "RunDone", "RoundFeedbackPrep"} =>
    /\ reviewResult # "none"
    /\ verdictOrigin = "reviewer"

\* While the run goes on, its locks are held exactly while an attempt is
\* monitored, and an agent is alive only then.  So a retry never meets the
\* lock of its own previous attempt, and the transport files are never
\* rewritten under an agent.
LocksFollowTheAgent ==
  (runState \notin Terminal) =>
    /\ \A r \in Roles : locks[r] = "mine" <=> runState = MonitorState(r)
    /\ agent = "running" => runState = MonitorState(currentRole)

\* Retries are bounded over a whole semantic round: executor and reviewer
\* attempts together spend at most Limit + 1 dispatches between two passes of
\* the gate, whatever mixture of crashes, hangs, rejected verdicts and dirty
\* worktrees ends them.
DispatchBudget == spent <= Limit + 1

\* A saved verdict and a rejected one exclude each other, and a saved verdict
\* reaches the reviewer again only as a request to clean up: a new review is
\* never asked for and then ignored in favour of an older one.
OneVerdictAtATime ==
  /\ yamlRejected => reviewResult = "none"
  /\ runState \in {"ReviewerDispatch", "ReviewerMonitor", "ReviewerOutputCollect"} =>
       (reviewResult # "none" <=> leftovers # {})

\* What the executor is asked to rework is a `revise`: no other decision and
\* no retry turns into feedback.
FeedbackAsksForRevision ==
  inbox.template = "ExecutorFeedback" => inbox.verdict = "revise"

\* After the cancel flag is set at most one more agent is started: the one
\* whose dispatch had begun.
CancelBound == lateDispatches <= 1

\* A saved verdict is not replaced or lost, whatever the reviewer writes while
\* it cleans up and however often it is retried, until the executor has
\* delivered again.
VerdictSurvives ==
  [][reviewResult \notin {"none", reviewResult'} => runState = "OrchVerify"]_vars

\* Once the reviewer was asked to clean lines up, the gate is passed only when
\* none of those lines is left.
CleanupIsEnforced ==
  [][runState' = "QualityGate" /\ runState # "QualityGate" =>
       leftovers \cap worktree = {}]_vars

\* A cancelled run ends, whatever its agent does.
CancelledRunExits == cancel ~> at = "exited"

\* When every agent's process ends some day, the run ends unless the reviewer
\* asks for revisions forever: no mixture of failures retries forever.
EndsUnlessRevisedForever ==
  <>(at = "exited") \/ []<>(runState = "RoundFeedbackPrep")

-----------------------------------------------------------------------------
(***************************************************************************)
(* The run as ReviewLoop sees it.                                          *)
(***************************************************************************)

WorkingStates == {"ExecutorMonitor", "ExecutorOutputCollect", "OrchVerify",
                  "ReviewerMonitor", "ReviewerOutputCollect"}

Stage ==
  CASE runState \in {"RunInit", "ContextPrep", "SessionBind"} -> "setup"
    [] runState = "QualityGate" -> "judged"
    [] runState = "RunDone" -> "accepted"
    [] runState \in Terminal \ {"RunDone"} -> "stopped"
    [] runState \in {"ReviewerDispatch", "ReviewerMonitor", "ReviewerOutputCollect"} -> "reviewer"
    [] runState = "RoundRetryDecide" -> currentRole
    [] OTHER -> "executor"

Contract == INSTANCE ReviewLoop WITH
  stage <- Stage, working <- runState \in WorkingStates,
  fails <- failures, verdict <- reviewResult

\* A run keeps the promise of ReviewLoop: no attempt once the failures are used
\* up, a delivery voids the old verdict, the first verdict on a delivery is the
\* one that is judged, and only "accept" ends in RunDone.
KeepsTheContract == Contract!Loop

\* The locks of the run (module LockView) and where it is with them.
LockPhase ==
  IF at = "exited" THEN "closed"
  ELSE IF runState \in Terminal THEN "leaving"
  ELSE IF runState \in {"ExecutorMonitor", "ReviewerMonitor"} THEN "attempt"
  ELSE "between"

Locking == INSTANCE LockView WITH lock <- locks, phase <- LockPhase

\* A run takes and gives up its locks as LockView has it, and what OtherLocks and
\* OtherUnlocks have the other processes do is what LockView leaves to them.
UsesLocksAsSeen == Locking!OneRunsLocks

-----------------------------------------------------------------------------
(***************************************************************************)
(* What comments and documents say of the program and the code does not    *)
(* do: each is violated by a run of its own.                               *)
(***************************************************************************)

\* phases.rs: "Cleanup must not require regenerating the verdict"; the cleanup
\* prompt: outbox.txt "is not required to change mtime".  With a verdict saved
\* and the worktree clean, collecting the reviewer's output reaches the gate.
CleanupNeedsNoNewVerdict ==
  [][runState = "ReviewerOutputCollect" /\ reviewResult # "none" /\ worktree \subseteq baseline
       => runState' # "RoundRetryDecide"]_vars
=============================================================================
