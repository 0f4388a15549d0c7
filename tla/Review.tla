------------------------------- MODULE Review -------------------------------
(***************************************************************************)
(* The conversation of the orchestrator with its two agents: the requests  *)
(* it renders (Prompts), the documents the reviewer answers with and what  *)
(* is made of them (VerdictCheck), from dispatch_role to do_quality_gate   *)
(* of src/src/orchestrator/phases.rs.                                      *)
(*                                                                         *)
(* Orchestrator has the same phases with all that surrounds them (locks,   *)
(* cancel, errors, the worktree); there a document either is a verdict or  *)
(* is not, and a request is the name of its template.  Here an attempt is  *)
(* one dispatch and one ending, and what ends a run from outside is left   *)
(* out: it would stop the conversation at any point.                       *)
(***************************************************************************)
EXTENDS Prompts

CONSTANTS
  Limit,      (* CONSECUTIVE_FAILURE_LIMIT                                 *)
  Arguments,  (* the command lines: providers, workflow and policies       *)
  Written,    (* the documents a reviewer may write                        *)
  None        (* a field that has no value                                 *)

Roles == {"executor", "reviewer"}

ArgumentsType == [executor : Providers, reviewer : Providers, workflow : Workflows,
                  notion : NotionPolicies, remote : RemotePolicies]

ASSUME LimitAssumption == Limit \in Nat \ {0}
ASSUME ArgumentsAssumption == Arguments \subseteq ArgumentsType
ASSUME WrittenAssumption == Written \subseteq ReviewerYaml
ASSUME NoneAssumption == None \notin Written /\ None \notin AllFaults

Terminal == {"RunDone", "RunFailedExternalBlocker", "RunFailedPoisonedSession",
             "RunFailedIrreconcilableDisagreement",
             "RunFailedConsecutiveFailureLimit"}
RunStates == Terminal \cup
  {"ExecutorDispatch", "ExecutorMonitor", "OrchVerify", "ReviewerDispatch",
   "ReviewerMonitor", "ReviewerOutputCollect", "RoundRetryDecide",
   "QualityGate", "RoundFeedbackPrep"}

DispatchState(r) == IF r = "executor" THEN "ExecutorDispatch" ELSE "ReviewerDispatch"
MonitorState(r)  == IF r = "executor" THEN "ExecutorMonitor" ELSE "ReviewerMonitor"

\* What outbox.txt holds, to the orchestrator and to an agent.
Texts == {"empty", "unreadable", "report", "document"}
Outbox(text, doc, by) == [text |-> text, doc |-> doc, by |-> by]
Truncated == Outbox("empty", None, "orchestrator")

VARIABLES
  args,           \* ctx.args
  runState,       \* ctx.run_state
  role,           \* ctx.current_role
  failures,       \* ctx.consecutive_failure_count
  request,        \* inbox.txt: the template and the values it was rendered with
  outbox,         \* outbox.txt: what it holds and who wrote it
  touched,        \* its mtime is not the one before the dispatch
  dirty,          \* the worktree holds lines the baseline does not
  outboxPresent,  \* ctx.outbox_present
  rejection,      \* ctx.reviewer_yaml_rejection
  leftovers,      \* ctx.reviewer_workspace_rejection is Some
  review,         \* ctx.review_result
  \* History variables; no action's guard reads them:
  heard,          \* the templates each role has read
  told,           \* the rules for its document the reviewer has read of, or
                  \* None once it has broken one of them
  unfair,         \* documents rejected before that for a rule they break
  report,         \* the delivery under review came with a report
  reviewed        \* the reviewer has read a request to review this delivery

context == <<args, role, failures, outboxPresent, rejection, leftovers, review>>
files   == <<request, outbox, touched, dirty>>
history == <<heard, told, unfair, report, reviewed>>
vars == <<args, runState, role, failures, request, outbox, touched, dirty,
          outboxPresent, rejection, leftovers, review, heard, told,
          unfair, report, reviewed>>

NoRequest == [template |-> None, outboxPresent |-> FALSE, rejection |-> None]

\* The first executor dispatch of a run, over the files of earlier ones.
Init ==
  /\ args \in Arguments
  /\ runState = "ExecutorDispatch" /\ role = None /\ failures = 0
  /\ request = NoRequest
  /\ outbox = Truncated /\ touched = FALSE /\ dirty = FALSE
  /\ outboxPresent = FALSE /\ rejection = None /\ leftovers = FALSE /\ review = None
  /\ heard = [r \in Roles |-> {}] /\ told = {} /\ unfair = 0
  /\ report = FALSE /\ reviewed = FALSE

-----------------------------------------------------------------------------
(***************************************************************************)
(* dispatch_role                                                           *)
(***************************************************************************)

Template(r) ==
  IF r = "executor"
  THEN IF review # None THEN "ExecutorFeedback" ELSE "ExecutorInitial"
  ELSE IF leftovers THEN "ReviewerRepairWorkspace"
  ELSE IF rejection # None THEN "ReviewerRepairYaml" ELSE "ReviewerReview"

\* build_template_values, as far as the template uses the values.
Values(r) ==
  [template |-> Template(r),
   outboxPresent |-> r = "reviewer" /\ outboxPresent,
   rejection |-> IF r = "reviewer" THEN rejection ELSE None]

\* The instructions of the request for a role.
Says(r) == Render(request.template,
                  [provider |-> args[r], workflow |-> args.workflow, remote |-> args.remote,
                   outboxPresent |-> request.outboxPresent, rejection |-> request.rejection])

\* An executor dispatch truncates the outbox, a reviewer dispatch keeps it; the
\* worktree the reviewer is given is the new baseline unless it is to clean up.
Dispatch(r) ==
  /\ runState = DispatchState(r)
  /\ request' = Values(r)
  /\ role' = r
  /\ outbox' = IF r = "executor" THEN Truncated ELSE outbox
  /\ touched' = FALSE
  /\ dirty' = (dirty /\ leftovers)
  /\ runState' = MonitorState(r)
  /\ UNCHANGED <<args, failures, outboxPresent, rejection, leftovers, review, history>>

-----------------------------------------------------------------------------
(***************************************************************************)
(* The agents.                                                             *)
(***************************************************************************)

\* An agent that worked has read its request.
Reads(r) ==
  /\ heard' = [heard EXCEPT ![r] = @ \cup {request.template}]
  /\ reviewed' = (reviewed \/ request.template = "ReviewerReview")

\* One that failed may have read it.
MayRead(r) == Reads(r) \/ UNCHANGED <<heard, reviewed>>

\* The rules a reviewer knows once it has read its request.
RulesRead == told \cup (Says("reviewer") \cap AllFaults)

\* Success and SoftSuccess of the executor (do_monitor).
FlagIsSticky ==
  /\ runState = "ExecutorMonitor"
  /\ \E text \in {"report", "empty"} :
       /\ outbox' = IF text = "report" THEN Outbox(text, None, "executor") ELSE outbox
       /\ outboxPresent' = (outboxPresent \/ text = "report") /\ report' = (text = "report")
  /\ Reads("executor")
  /\ runState' = "OrchVerify"
  /\ UNCHANGED <<args, role, failures, request, touched, dirty, rejection, leftovers,
                 review, told, unfair>>
ExecutorDelivers ==
  /\ runState = "ExecutorMonitor"
  /\ \E text \in {"report", "empty"} :
       /\ outbox' = IF text = "report" THEN Outbox(text, None, "executor") ELSE outbox
       /\ outboxPresent' = (text = "report") /\ report' = (text = "report")
  /\ Reads("executor")
  /\ runState' = "OrchVerify"
  /\ UNCHANGED <<args, role, failures, request, touched, dirty, rejection, leftovers,
                 review, told, unfair>>

\* The reviewer writes a document and exits, with or without changes of its own
\* in the worktree; a cleanup may also remove them.
ReviewerWrites(d) ==
  /\ runState = "ReviewerMonitor"
  /\ outbox' = Outbox("document", d, "reviewer") /\ touched' = TRUE
  /\ dirty' \in BOOLEAN
  /\ outboxPresent' = TRUE
  /\ Reads("reviewer")
  /\ told' = IF told # None /\ Breaches(d, args.notion) \cap RulesRead = {}
             THEN RulesRead ELSE None
  /\ runState' = "ReviewerOutputCollect"
  /\ UNCHANGED <<args, role, failures, request, rejection, leftovers, review, unfair,
                 report>>

\* It writes what is no UTF-8, or leaves the outbox alone, which is a success
\* as long as the outbox is not empty.
ReviewerWritesNothing ==
  /\ runState = "ReviewerMonitor"
  /\ \/ outbox' = Outbox("unreadable", None, "reviewer") /\ touched' = TRUE
     \/ outbox.text # "empty" /\ UNCHANGED <<outbox, touched>>
  /\ dirty' \in BOOLEAN
  /\ outboxPresent' = TRUE
  /\ MayRead("reviewer")
  /\ runState' = "ReviewerOutputCollect"
  /\ UNCHANGED <<args, role, failures, request, rejection, leftovers, review, told,
                 unfair, report>>

\* The attempt fails (FailedSilent, FailedProtocol, HangConfirmed), with the
\* outbox in any state the agent may have brought it into.
AgentFails(r) ==
  /\ runState = MonitorState(r)
  /\ \/ UNCHANGED outbox
     \/ \E text \in {"empty", "unreadable"} : outbox' = Outbox(text, None, r)
  /\ dirty' \in IF r = "reviewer" THEN BOOLEAN ELSE {dirty}
  /\ failures' = failures + 1
  /\ MayRead(r)
  /\ runState' = "RoundRetryDecide"
  /\ UNCHANGED <<args, role, request, touched, outboxPresent, rejection, leftovers,
                 review, told, unfair, report>>

-----------------------------------------------------------------------------
(***************************************************************************)
(* The phases after an attempt.                                            *)
(***************************************************************************)

BudgetOffByOne ==
  /\ runState = "RoundRetryDecide"
  /\ runState' = IF failures > Limit THEN "RunFailedConsecutiveFailureLimit"
                                     ELSE DispatchState(role)
  /\ UNCHANGED <<context, files, history>>
RoundRetryDecide ==
  /\ runState = "RoundRetryDecide"
  /\ runState' = IF failures >= Limit THEN "RunFailedConsecutiveFailureLimit"
                                      ELSE DispatchState(role)
  /\ UNCHANGED <<context, files, history>>

OrchVerify ==
  /\ runState = "OrchVerify"
  /\ review' = None /\ rejection' = None /\ leftovers' = FALSE
  /\ reviewed' = FALSE
  /\ runState' = "ReviewerDispatch"
  /\ UNCHANGED <<args, role, failures, outboxPresent, files, heard, told,
                 unfair, report>>

Collecting == runState = "ReviewerOutputCollect"
Retry == failures' = failures + 1 /\ runState' = "RoundRetryDecide"

\* The outbox was not touched, or cannot be read as text.
UntouchedIsRejected ==
  /\ Collecting
  /\ ~touched \/ (review = None /\ outbox.text = "unreadable")
  /\ Retry
  /\ rejection' = "unparsable"
  /\ UNCHANGED <<args, role, outboxPresent, leftovers, review, files, history>>
CollectNothing ==
  /\ Collecting
  /\ ~touched \/ (review = None /\ outbox.text = "unreadable")
  /\ Retry
  /\ UNCHANGED <<args, role, outboxPresent, rejection, leftovers, review, files, history>>

\* A document is looked at only while no verdict is saved.
Document == outbox.doc
ToBeParsed == Collecting /\ touched /\ review = None /\ outbox.text = "document"

CollectRejected ==
  /\ ToBeParsed
  /\ ~Taken(Document, args.notion)
  /\ rejection' = FirstFault(Document, args.notion)
  /\ unfair' = IF told # None /\ rejection' \notin Document.misread THEN unfair + 1 ELSE unfair
  /\ Retry
  /\ UNCHANGED <<args, role, outboxPresent, leftovers, review, files, heard, told,
                 report, reviewed>>

\* The verdict is saved, or was saved before the cleanup; then the worktree
\* must be as the reviewer found it.
CollectVerdict ==
  /\ \/ /\ ToBeParsed
        /\ Taken(Document, args.notion)
        /\ review' = Document /\ rejection' = None
     \/ /\ Collecting /\ touched /\ review # None
        /\ UNCHANGED <<review, rejection>>
  /\ leftovers' = dirty
  /\ IF dirty THEN Retry ELSE runState' = "QualityGate" /\ UNCHANGED failures
  /\ UNCHANGED <<args, role, outboxPresent, files, history>>

AfterGate(decision) ==
  CASE decision = "accept"         -> "RunDone"
    [] decision = "revise"         -> "RoundFeedbackPrep"
    [] decision = "blocked"        -> "RunFailedExternalBlocker"
    [] decision = "irreconcilable" -> "RunFailedIrreconcilableDisagreement"
    [] decision = "poisoned"       -> "RunFailedPoisonedSession"

QualityGate ==
  /\ runState = "QualityGate"
  /\ failures' = 0
  /\ runState' = AfterGate(review.decision)
  /\ UNCHANGED <<args, role, outboxPresent, rejection, leftovers, review, files, history>>

RoundFeedbackPrep ==
  /\ runState = "RoundFeedbackPrep"
  /\ runState' = "ExecutorDispatch"
  /\ UNCHANGED <<context, files, history>>

Ended == runState \in Terminal /\ UNCHANGED vars

-----------------------------------------------------------------------------
Next ==
  \/ \E r \in Roles : Dispatch(r) \/ AgentFails(r)
  \/ ExecutorDelivers \/ (\E d \in Written : ReviewerWrites(d)) \/ ReviewerWritesNothing
  \/ RoundRetryDecide \/ OrchVerify
  \/ CollectNothing \/ CollectRejected \/ CollectVerdict
  \/ QualityGate \/ RoundFeedbackPrep \/ Ended

Spec == Init /\ [][Next]_vars

-----------------------------------------------------------------------------
(***************************************************************************)
(* Properties.                                                             *)
(***************************************************************************)

\* Every variable has a value of its type, and the failures do not pass the
\* limit.
TypeOK ==
  /\ args \in Arguments
  /\ runState \in RunStates
  /\ role \in Roles \cup {None}
  /\ failures \in 0..Limit
  /\ request \in [template : Templates \cup {None}, outboxPresent : BOOLEAN,
                   rejection : AllFaults \cup {None}]
  /\ outbox \in [text : Texts, doc : Written \cup {None}, by : Roles \cup {"orchestrator"}]
  /\ touched \in BOOLEAN /\ dirty \in BOOLEAN
  /\ outboxPresent \in BOOLEAN
  /\ rejection \in AllFaults \cup {None}
  /\ leftovers \in BOOLEAN
  /\ review \in Written \cup {None}
  /\ heard \in [Roles -> SUBSET Templates]
  /\ told \in (SUBSET AllFaults) \cup {None} /\ unfair \in Nat
  /\ report \in BOOLEAN /\ reviewed \in BOOLEAN

\* What the gate acts on, and what the executor is asked to rework or the
\* operator is told afterwards, is a verdict that keeps the strict rules of the
\* protocol and the Notion policy of the run, by whatever detour of rejections,
\* repairs and cleanups it got there.
VerdictsAreSound ==
  runState \in {"QualityGate", "RoundFeedbackPrep"} \cup
               (Terminal \ {"RunFailedConsecutiveFailureLimit"})
    => review # None /\ Sound(review, args.notion)

\* A reviewer that breaks no rule it was told is rejected at most four times in
\* a run for rules it does break, however many rounds, crashes and cleanups there
\* are: the requests leave five rules unsaid, the repair requests and the reasons
\* of the rejections supply them, and its session remembers.  Such rejections
\* alone never use up the five failures of a round.  Rejections for text the
\* prescan misreads (yaml_check.rs:81-108) are not counted and have no bound: no
\* request says what to avoid, so the same reviewer may be rejected for them
\* until the failures are used up.
ObedientReviewerIsHeard == unfair <= 4

\* A verdict passes the gate only after the reviewer has read a request to
\* review this delivery: a request to mend a document or to clean up never
\* stands in for the review.
EachDeliveryIsReviewed == runState = "QualityGate" => reviewed

\* As long as the reviewer has not written to the outbox, the request for a
\* review says that a report is there exactly when the executor left one, and it
\* is there: an empty delivery after one with a report included.
ReviewIsRequested ==
  runState = "ReviewerMonitor" /\ request.template = "ReviewerReview"
ReportIsWhereItIsSaid ==
  ReviewIsRequested /\ outbox.by # "reviewer" =>
    /\ request.outboxPresent <=> report
    /\ report <=> outbox.text = "report"

\* An agent at work has been told the protocols and the remote policy it must
\* keep, now or earlier in its session, though not every template repeats
\* them; and the reviewer is not asked to check what the executor was not told.
Briefings(r) ==
  UNION {Render(t, [provider |-> args[r], workflow |-> args.workflow, remote |-> args.remote,
                    outboxPresent |-> FALSE, rejection |-> "schema"]) : t \in heard[r]}
AgentsAreBriefed ==
  \A r \in Roles : runState = MonitorState(r) =>
    /\ ProtocolPaths \cup RemotePolicySection(args.remote) \subseteq Says(r) \cup Briefings(r)
    /\ \A check \in Says(r) \cap DOMAIN DemandOf : DemandOf[check] \in Briefings("executor")

-----------------------------------------------------------------------------
(***************************************************************************)
(* The conversation as ReviewLoop sees it.                                 *)
(***************************************************************************)

WorkingStates == {"ExecutorMonitor", "OrchVerify", "ReviewerMonitor", "ReviewerOutputCollect"}

Stage ==
  CASE runState = "QualityGate" -> "judged"
    [] runState = "RunDone" -> "accepted"
    [] runState \in Terminal \ {"RunDone"} -> "stopped"
    [] runState \in {"ReviewerDispatch", "ReviewerMonitor", "ReviewerOutputCollect"} -> "reviewer"
    [] runState = "RoundRetryDecide" -> role
    [] OTHER -> "executor"

Contract == INSTANCE ReviewLoop WITH
  stage <- Stage, working <- runState \in WorkingStates,
  fails <- failures, verdict <- IF review = None THEN "none" ELSE review.decision

\* What is made of the reviewer's documents keeps the promise that the run
\* around it keeps in Orchestrator: a delivery voids the verdict on the one
\* before, the first document taken on it is the one that is judged, whatever
\* is written during repairs and cleanups, and failures are bounded.
KeepsTheContract == Contract!LoopOnceBegun
=============================================================================
