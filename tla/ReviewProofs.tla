----------------------------- MODULE ReviewProofs -----------------------------
(***************************************************************************)
(* Theorems about Review for every failure limit, every set of command     *)
(* lines and every set of documents a reviewer may write.                  *)
(***************************************************************************)
EXTENDS Review, TLAPS

(***************************************************************************)
(* The inductive invariant, in parts.                                      *)
(***************************************************************************)

\* Only the retry decision ever sees the failures used up.
FailuresLeft ==
  runState \notin Terminal \cup {"RoundRetryDecide"} => failures < Limit

ReviewerStates == {"ReviewerMonitor", "ReviewerOutputCollect", "QualityGate",
                   "RoundFeedbackPrep"}

\* The phase tells whose attempt is the current one.
RoleOfPhase ==
  /\ runState \in {"ExecutorMonitor", "OrchVerify"} => role = "executor"
  /\ runState \in ReviewerStates => role = "reviewer"
  /\ runState = "RoundRetryDecide" => role \in Roles

\* A request is pending while it is worked on.
RequestOfPhase ==
  /\ runState = "ExecutorMonitor" => request.template \in {"ExecutorInitial", "ExecutorFeedback"}
  /\ runState = "ReviewerMonitor" =>
       /\ request.template \in Templates \ {"ExecutorInitial", "ExecutorFeedback"}
       /\ request.template = "ReviewerRepairYaml" => request.rejection \in AllFaults

\* A document stands in the outbox exactly when its text is one.
DocumentInv == outbox.text = "document" <=> outbox.doc # None

\* A verdict that is held has passed the checks, and past the gate one is held.
VerdictInv ==
  /\ review # None => Taken(review, args.notion)
  /\ runState \in {"QualityGate", "RoundFeedbackPrep"} \cup
                  (Terminal \ {"RunFailedConsecutiveFailureLimit"})
       => review # None

\* Between the delivery and the gate: the states in which the round is at its
\* reviewer.
AtReview ==
  \/ runState \in {"ReviewerDispatch", "ReviewerMonitor", "ReviewerOutputCollect", "QualityGate"}
  \/ runState = "RoundRetryDecide" /\ role = "reviewer"

\* What a reviewer left behind, a rejection, leftovers or a verdict, comes from
\* a review of this delivery; without any, a request for a review is next.
ReviewedInv ==
  AtReview =>
    /\ (rejection # None \/ leftovers \/ review # None) => reviewed
    /\ runState = "ReviewerMonitor" =>
         ~touched /\ (reviewed \/ request.template = "ReviewerReview")
    /\ runState = "ReviewerOutputCollect" =>
         reviewed \/ ~touched \/ outbox.text # "document"
    /\ runState = "QualityGate" => reviewed

\* Until the reviewer writes, the outbox is as the executor's delivery left it.
ReportInv ==
  /\ runState = "ExecutorMonitor" => outbox = Truncated
  /\ (AtReview \/ runState = "OrchVerify") /\ outbox.by # "reviewer" =>
       /\ outboxPresent <=> report
       /\ report <=> outbox.text = "report"
       /\ outbox.text \in {"report", "empty"}
  /\ runState = "ReviewerMonitor" => (request.outboxPresent <=> outboxPresent)

IInv == TypeOK /\ FailuresLeft /\ RoleOfPhase /\ RequestOfPhase /\ DocumentInv /\
        VerdictInv /\ ReviewedInv /\ ReportInv

-----------------------------------------------------------------------------
(***************************************************************************)
(* The verdict check.                                                      *)
(***************************************************************************)

\* The checks by name.
LEMMA CheckNames ==
  AllFaults = FormFaults \cup
    {"score_range", "rationale", "accept_score", "accept_contract", "accept_blockers",
     "feedback", "blocking_reason", "irreconcilable_reason", "poisoned_reason",
     "notion_absent", "notion_unmet"}
<1>1. /\ CheckOrder[1] = "fence" /\ CheckOrder[2] = "separator" /\ CheckOrder[3] = "anchor"
      /\ CheckOrder[4] = "alias" /\ CheckOrder[5] = "tag" /\ CheckOrder[6] = "unparsable"
      /\ CheckOrder[7] = "documents" /\ CheckOrder[8] = "unknown_field"
      /\ CheckOrder[9] = "schema"
      /\ CheckOrder[10] = "score_range" /\ CheckOrder[11] = "rationale"
      /\ CheckOrder[12] = "accept_score" /\ CheckOrder[13] = "accept_contract"
      /\ CheckOrder[14] = "accept_blockers" /\ CheckOrder[15] = "feedback"
      /\ CheckOrder[16] = "blocking_reason" /\ CheckOrder[17] = "irreconcilable_reason"
      /\ CheckOrder[18] = "poisoned_reason" /\ CheckOrder[19] = "notion_absent"
      /\ CheckOrder[20] = "notion_unmet"
  BY DEF CheckOrder
<1>2. 1..20 = {1, 2, 3, 4, 5, 6, 7, 8, 9, 10, 11, 12, 13, 14, 15, 16, 17, 18, 19, 20}
  OBVIOUS
<1> QED BY <1>1, <1>2 DEF AllFaults, FormFaults, PrescanFaults, Textual

\* Whatever a document gets wrong has a name.
LEMMA FaultsHaveNames ==
  ASSUME NEW d \in ReviewerYaml, NEW policy \in NotionPolicies
  PROVE  Faults(d, policy) \subseteq AllFaults
<1>1. DecisionFaults(d) \subseteq AllFaults
  BY CheckNames DEF ReviewerYaml, Decisions, DecisionFaults, AcceptFaults, When
<1>2. ValidateFaults(d) \subseteq AllFaults
  BY <1>1, CheckNames DEF ValidateFaults, When
<1>3. NotionFaults(d, policy) \subseteq AllFaults
  BY CheckNames DEF NotionFaults, When
<1>4. d.form \subseteq AllFaults
  BY CheckNames DEF ReviewerYaml
<1> QED BY <1>2, <1>3, <1>4 DEF Faults

\* A set of positions among the twenty checks has a first one.
LEMMA FirstPosition ==
  ASSUME NEW hits, hits \subseteq 1..20, hits # {}
  PROVE  \E i \in hits : \A j \in hits : i <= j
<1> DEFINE Below(n) == \A j \in hits : j >= n
<1>1. ASSUME NEW n \in 1..20, Below(n), n \notin hits  PROVE Below(n + 1)
  BY <1>1
<1>2. ASSUME NEW n \in 1..20, Below(n), n \in hits
      PROVE  \E i \in hits : \A j \in hits : i <= j
  BY <1>2
<1> SUFFICES ASSUME ~ \E i \in hits : \A j \in hits : i <= j PROVE FALSE
  OBVIOUS
<1>3. Below(1)
  OBVIOUS
<1>4. ASSUME NEW n \in 1..20, Below(n)  PROVE Below(n + 1)
  BY <1>1, <1>2, <1>4
<1> HIDE DEF Below
<1>5. Below(2) /\ Below(3) /\ Below(4) /\ Below(5) /\ Below(6) /\ Below(7) /\ Below(8)
  BY <1>3, <1>4
<1>6. Below(9) /\ Below(10) /\ Below(11) /\ Below(12) /\ Below(13) /\ Below(14)
  BY <1>4, <1>5
<1>7. Below(15) /\ Below(16) /\ Below(17) /\ Below(18) /\ Below(19) /\ Below(20) /\ Below(21)
  BY <1>4, <1>6
<1>8. ASSUME NEW j \in hits  PROVE FALSE
  BY <1>7, <1>8 DEF Below
<1> QED BY <1>8

\* The reason of a rejection names a check the document fails, as the repair
\* request needs.
LEMMA RejectionNamesACheck ==
  ASSUME NEW d \in ReviewerYaml, NEW policy \in NotionPolicies, ~Taken(d, policy)
  PROVE  FirstFault(d, policy) \in AllFaults /\ FirstFault(d, policy) \in Faults(d, policy)
<1> DEFINE hits == {i \in 1..20 : CheckOrder[i] \in Faults(d, policy)}
<1>1. hits # {}
  BY FaultsHaveNames DEF Taken, AllFaults
<1>2. PICK i \in hits : \A j \in hits : i <= j
  BY <1>1, FirstPosition
<1>3. (CHOOSE k \in hits : \A j \in hits : k <= j) \in hits
  BY <1>2
<1> QED BY <1>3 DEF FirstFault, AllFaults

\* What passes the checks keeps the strict rules.
LEMMA TakenIsSound ==
  ASSUME NEW d \in ReviewerYaml, NEW policy \in NotionPolicies, Taken(d, policy)
  PROVE  Sound(d, policy)
<1>1. d.form \subseteq d.misread /\ ValidateFaults(d) = {} /\ NotionFaults(d, policy) = {}
  BY DEF Taken, Faults
<1>2. d.score \in 0..10 /\ d.rationale /\ DecisionFaults(d) = {}
  BY <1>1 DEF ValidateFaults, When, ScoreRange, ReviewerYaml
<1>3. policy = "required" => d.notion # "absent" /\ (d.decision = "accept" => d.notion = "met")
  BY <1>1 DEF NotionFaults, When, ReviewerYaml
<1>4. d.decision = "accept" => d.score >= 8 /\ d.contract /\ ~d.blockers
  BY <1>2 DEF DecisionFaults, AcceptFaults, When, MinAcceptScore, ReviewerYaml
<1>5. d.decision = "revise" => d.feedback
  BY <1>2 DEF DecisionFaults, When, ReviewerYaml
<1>6. d.decision \notin {"accept", "revise"} => d.reason
  BY <1>2 DEF DecisionFaults, When, ReviewerYaml, Decisions
<1> QED BY <1>1, <1>2, <1>3, <1>4, <1>5, <1>6 DEF Sound

-----------------------------------------------------------------------------
(***************************************************************************)
(* The verdict check does what the documentation says it does.             *)
(***************************************************************************)

\* A document that keeps the strict rules and whose text is not misread fails no
\* check.
LEMMA SoundIsTaken ==
  ASSUME NEW d \in ReviewerYaml, NEW policy \in NotionPolicies, Sound(d, policy),
         d.misread = {}
  PROVE  Taken(d, policy)
<1>1. d.decision \in Decisions /\ d.notion \in {"absent", "met", "unmet"}
  BY DEF ReviewerYaml
<1>2. AcceptFaults(d) = {} \/ d.decision # "accept"
  BY DEF Sound, AcceptFaults, When, MinAcceptScore, ReviewerYaml
<1>3. DecisionFaults(d) = {}
  BY <1>1, <1>2 DEF Sound, DecisionFaults, When, Decisions
<1>4. ValidateFaults(d) = {}
  BY <1>3 DEF Sound, ValidateFaults, When, ScoreRange
<1>5. NotionFaults(d, policy) = {}
  BY <1>1 DEF Sound, NotionFaults, When
<1> QED BY <1>4, <1>5 DEF Sound, Taken, Faults

\* The reported check is the first in the order of the checks that fails.
LEMMA FirstFaultIsFirst ==
  ASSUME NEW d \in ReviewerYaml, NEW policy \in NotionPolicies, ~Taken(d, policy)
  PROVE  \E i \in 1..20 : /\ FirstFault(d, policy) = CheckOrder[i]
                          /\ CheckOrder[i] \in Faults(d, policy)
                          /\ \A j \in 1..20 : CheckOrder[j] \in Faults(d, policy) => i <= j
<1> DEFINE hits == {i \in 1..20 : CheckOrder[i] \in Faults(d, policy)}
           first == CHOOSE i \in hits : \A j \in hits : i <= j
<1>1. hits # {}
  BY FaultsHaveNames DEF Taken, AllFaults
<1>2. first \in hits /\ \A j \in hits : first <= j
  BY <1>1, FirstPosition
<1>3. FirstFault(d, policy) = CheckOrder[first]
  BY DEF FirstFault
<1> QED BY <1>2, <1>3

\* The checks of yaml_check.rs and of the Notion policy take a document exactly
\* when it keeps the format and the strict rules of the README and no pattern of
\* the prescan is found in its text all the same; they report the first that
\* fails.
THEOREM ChecksAreExact ==
  \A d \in ReviewerYaml, policy \in NotionPolicies :
    /\ Taken(d, policy) <=> Sound(d, policy) /\ d.misread = {}
    /\ ~Taken(d, policy) =>
         \E i \in 1..20 : /\ FirstFault(d, policy) = CheckOrder[i]
                          /\ CheckOrder[i] \in Faults(d, policy)
                          /\ \A j \in 1..(i - 1) : CheckOrder[j] \notin Faults(d, policy)
<1> SUFFICES ASSUME NEW d \in ReviewerYaml, NEW policy \in NotionPolicies
             PROVE  /\ Taken(d, policy) <=> Sound(d, policy) /\ d.misread = {}
                    /\ ~Taken(d, policy) =>
                         \E i \in 1..20 : /\ FirstFault(d, policy) = CheckOrder[i]
                                          /\ CheckOrder[i] \in Faults(d, policy)
                                          /\ \A j \in 1..(i - 1) : CheckOrder[j] \notin Faults(d, policy)
  OBVIOUS
<1>1. Taken(d, policy) <=> Sound(d, policy) /\ d.misread = {}
  BY TakenIsSound, SoundIsTaken DEF Taken, Faults, ReviewerYaml
<1>2. ASSUME ~Taken(d, policy)
      PROVE  \E i \in 1..20 : /\ FirstFault(d, policy) = CheckOrder[i]
                              /\ CheckOrder[i] \in Faults(d, policy)
                              /\ \A j \in 1..(i - 1) : CheckOrder[j] \notin Faults(d, policy)
  <2>1. PICK i \in 1..20 : /\ FirstFault(d, policy) = CheckOrder[i]
                           /\ CheckOrder[i] \in Faults(d, policy)
                           /\ \A j \in 1..20 : CheckOrder[j] \in Faults(d, policy) => i <= j
    BY <1>2, FirstFaultIsFirst
  <2>2. \A j \in 1..(i - 1) : j \in 1..20 /\ ~(i <= j)
    OBVIOUS
  <2> QED BY <2>1, <2>2
<1> QED BY <1>1, <1>2

\* A reviewer that mends the reported fault and makes no new one is next told of
\* a later check: the repair requests never go round in circles.  (A fault serde
\* had not come to counts as new, and prose left as it is as not mended.)
THEOREM RepairsGoForward ==
  ASSUME NEW d \in ReviewerYaml, NEW e \in ReviewerYaml, NEW policy \in NotionPolicies,
         ~Taken(d, policy), ~Taken(e, policy),
         Faults(e, policy) \subseteq Faults(d, policy) \ {FirstFault(d, policy)}
  PROVE  \E i, j \in 1..20 : /\ FirstFault(d, policy) = CheckOrder[i]
                             /\ FirstFault(e, policy) = CheckOrder[j]
                             /\ i < j
<1>1. PICK i \in 1..20 : /\ FirstFault(d, policy) = CheckOrder[i]
                         /\ \A k \in 1..20 : CheckOrder[k] \in Faults(d, policy) => i <= k
  BY FirstFaultIsFirst
<1>2. PICK j \in 1..20 : /\ FirstFault(e, policy) = CheckOrder[j]
                         /\ CheckOrder[j] \in Faults(e, policy)
  BY FirstFaultIsFirst
<1>3. CheckOrder[j] \in Faults(d, policy) /\ i <= j
  BY <1>1, <1>2
<1>4. i # j
  BY <1>1, <1>2
<1> QED BY <1>1, <1>2, <1>3, <1>4

-----------------------------------------------------------------------------
(***************************************************************************)
(* The invariant is inductive.                                             *)
(***************************************************************************)

\* The decisions of the gate end the run or go back to the executor.
LEMMA AfterGateType ==
  ASSUME NEW decision \in Decisions
  PROVE  AfterGate(decision) \in
           (Terminal \ {"RunFailedConsecutiveFailureLimit"}) \cup {"RoundFeedbackPrep"}
  BY DEF Decisions, AfterGate, Terminal

\* The command line and the documents have their types.
LEMMA DataTypes ==
  ASSUME TypeOK
  PROVE  /\ args \in ArgumentsType /\ args.notion \in NotionPolicies
         /\ review # None => review \in Written /\ review \in ReviewerYaml
         /\ outbox.doc # None => outbox.doc \in Written /\ outbox.doc \in ReviewerYaml
  BY ArgumentsAssumption, WrittenAssumption DEF TypeOK, ArgumentsType

\* What an agent has heard stays a set of templates.
LEMMA ReadsType ==
  ASSUME TypeOK, RequestOfPhase, NEW r \in Roles, runState = MonitorState(r), MayRead(r)
  PROVE  heard' \in [Roles -> SUBSET Templates] /\ reviewed' \in BOOLEAN
<1>1. CASE Reads(r)
  <2>1. request.template \in Templates
    BY DEF RequestOfPhase, MonitorState, Roles, Templates
  <2> QED BY <1>1, <2>1 DEF Reads, TypeOK
<1>2. CASE UNCHANGED <<heard, reviewed>>
  BY <1>2 DEF TypeOK
<1> QED BY <1>1, <1>2 DEF MayRead

LEMMA InitIInv == Init => IInv
<1> SUFFICES ASSUME Init PROVE IInv
  OBVIOUS
<1> USE DEF Init, NoRequest, Truncated, Outbox
<1>1. TypeOK
  <2>1. heard \in [Roles -> SUBSET Templates] /\ failures \in 0..Limit /\ runState \in RunStates
    BY LimitAssumption DEF RunStates
  <2>2. request \in [template : Templates \cup {None}, outboxPresent : BOOLEAN,
                     rejection : AllFaults \cup {None}]
    OBVIOUS
  <2>3. outbox \in [text : Texts, doc : Written \cup {None}, by : Roles \cup {"orchestrator"}]
    BY DEF Texts
  <2> QED BY <2>1, <2>2, <2>3 DEF TypeOK
<1>2. FailuresLeft /\ RoleOfPhase /\ RequestOfPhase /\ DocumentInv
  BY LimitAssumption
     DEF FailuresLeft, RoleOfPhase, RequestOfPhase, DocumentInv, ReviewerStates
<1>3. VerdictInv /\ ReviewedInv /\ ReportInv
  BY DEF VerdictInv, ReviewedInv, ReportInv, AtReview, Terminal
<1> QED BY <1>1, <1>2, <1>3 DEF IInv

\* Types and the counting of failures.
LEMMA TypeStep == IInv /\ [Next]_vars => TypeOK'
<1> SUFFICES ASSUME IInv, [Next]_vars PROVE TypeOK'
  OBVIOUS
<1> USE DEF IInv, TypeOK, context, files, history
<1>1. ASSUME NEW r \in Roles, Dispatch(r)  PROVE TypeOK'
  <2>1. Template(r) \in Templates
    BY DEF Template, Templates
  <2>2. request' \in [template : Templates \cup {None}, outboxPresent : BOOLEAN,
                      rejection : AllFaults \cup {None}]
    BY <1>1, <2>1 DEF Dispatch, Values
  <2>3. outbox' \in [text : Texts, doc : Written \cup {None}, by : Roles \cup {"orchestrator"}]
    BY <1>1 DEF Dispatch, Truncated, Outbox, Texts
  <2>4. runState' \in RunStates
    BY <1>1 DEF Dispatch, MonitorState, RunStates
  <2> QED BY <1>1, <2>2, <2>3, <2>4 DEF Dispatch
<1>2. ASSUME NEW r \in Roles, AgentFails(r)  PROVE TypeOK'
  <2>1. outbox' \in [text : Texts, doc : Written \cup {None}, by : Roles \cup {"orchestrator"}]
    BY <1>2 DEF AgentFails, Outbox, Texts
  <2>2. failures' \in 0..Limit /\ runState' \in RunStates
    BY <1>2, LimitAssumption
       DEF AgentFails, FailuresLeft, MonitorState, RunStates, Terminal, Roles
  <2>3. heard' \in [Roles -> SUBSET Templates] /\ reviewed' \in BOOLEAN
    BY <1>2, ReadsType DEF AgentFails
  <2>4. dirty' \in BOOLEAN
    BY <1>2 DEF AgentFails
  <2> QED BY <1>2, <2>1, <2>2, <2>3, <2>4 DEF AgentFails
<1>3. CASE ExecutorDelivers
  <2>1. outbox' \in [text : Texts, doc : Written \cup {None}, by : Roles \cup {"orchestrator"}]
    BY <1>3 DEF ExecutorDelivers, Outbox, Texts, Roles
  <2>2. heard' \in [Roles -> SUBSET Templates] /\ reviewed' \in BOOLEAN
    BY <1>3, ReadsType DEF ExecutorDelivers, MayRead, MonitorState, Roles
  <2> QED BY <1>3, <2>1, <2>2 DEF ExecutorDelivers, RunStates
<1>4. ASSUME NEW d \in Written, ReviewerWrites(d)  PROVE TypeOK'
  <2>1. outbox' \in [text : Texts, doc : Written \cup {None}, by : Roles \cup {"orchestrator"}]
    BY <1>4 DEF ReviewerWrites, Outbox, Texts, Roles
  <2>2. heard' \in [Roles -> SUBSET Templates] /\ reviewed' \in BOOLEAN
    BY <1>4, ReadsType DEF ReviewerWrites, MayRead, MonitorState, Roles
  <2>3. told' \in (SUBSET AllFaults) \cup {None}
    BY <1>4 DEF ReviewerWrites, RulesRead
  <2> QED BY <1>4, <2>1, <2>2, <2>3 DEF ReviewerWrites, RunStates
<1>5. CASE ReviewerWritesNothing
  <2>1. /\ outbox' \in [text : Texts, doc : Written \cup {None}, by : Roles \cup {"orchestrator"}]
        /\ touched' \in BOOLEAN
    <3>1. CASE outbox' = Outbox("unreadable", None, "reviewer") /\ touched' = TRUE
      BY <3>1 DEF Outbox, Texts, Roles
    <3>2. CASE UNCHANGED <<outbox, touched>>
      BY <3>2
    <3> QED BY <1>5, <3>1, <3>2 DEF ReviewerWritesNothing
  <2>2. heard' \in [Roles -> SUBSET Templates] /\ reviewed' \in BOOLEAN
    BY <1>5, ReadsType DEF ReviewerWritesNothing, MonitorState, Roles
  <2> QED BY <1>5, <2>1, <2>2 DEF ReviewerWritesNothing, RunStates
<1>6. CASE RoundRetryDecide
  BY <1>6 DEF RoundRetryDecide, DispatchState, RunStates, Terminal
<1>7. CASE OrchVerify
  BY <1>7 DEF OrchVerify, RunStates
<1>8. CASE CollectNothing
  <2>1. failures' \in 0..Limit
    BY <1>8, LimitAssumption DEF CollectNothing, Retry, Collecting, FailuresLeft, Terminal
  <2> QED BY <1>8, <2>1 DEF CollectNothing, Retry, RunStates
<1>9. CASE CollectRejected
  <2>1. failures' \in 0..Limit
    BY <1>9, LimitAssumption
       DEF CollectRejected, ToBeParsed, Retry, Collecting, FailuresLeft, Terminal
  <2>2. rejection' \in AllFaults
    <3>1. outbox.doc # None
      BY <1>9 DEF CollectRejected, ToBeParsed, DocumentInv
    <3> QED BY <1>9, <3>1, DataTypes, RejectionNamesACheck DEF CollectRejected, Document
  <2>3. unfair' \in Nat
    BY <1>9 DEF CollectRejected
  <2> QED BY <1>9, <2>1, <2>2, <2>3 DEF CollectRejected, Retry, RunStates
<1>10. CASE CollectVerdict
  <2>1. failures' \in 0..Limit /\ runState' \in RunStates
    BY <1>10, LimitAssumption
       DEF CollectVerdict, ToBeParsed, Retry, Collecting, FailuresLeft, Terminal, RunStates
  <2>2. review' \in Written \cup {None} /\ rejection' \in AllFaults \cup {None}
    BY <1>10 DEF CollectVerdict, Document
  <2> QED BY <1>10, <2>1, <2>2 DEF CollectVerdict
<1>11. CASE QualityGate
  <2>1. runState' \in RunStates
    BY <1>11, DataTypes, AfterGateType DEF QualityGate, VerdictInv, RunStates, ReviewerYaml
  <2> QED BY <1>11, <2>1, LimitAssumption DEF QualityGate
<1>12. CASE RoundFeedbackPrep
  BY <1>12 DEF RoundFeedbackPrep, RunStates
<1>13. CASE UNCHANGED vars
  BY <1>13 DEF vars
<1> QED BY <1>1, <1>2, <1>3, <1>4, <1>5, <1>6, <1>7, <1>8, <1>9, <1>10, <1>11, <1>12, <1>13
        DEF Next, Ended

\* The failures, the roles and the requests of the phases.
LEMMA ControlStep == IInv /\ [Next]_vars => (FailuresLeft /\ RoleOfPhase /\ RequestOfPhase)'
<1> SUFFICES ASSUME IInv, [Next]_vars PROVE (FailuresLeft /\ RoleOfPhase /\ RequestOfPhase)'
  OBVIOUS
<1> USE DEF IInv, TypeOK, FailuresLeft, RoleOfPhase, RequestOfPhase, ReviewerStates, Terminal, Roles, Templates,
           context, files, history
<1>1. ASSUME NEW r \in Roles, Dispatch(r)  PROVE (FailuresLeft /\ RoleOfPhase /\ RequestOfPhase)'
  BY <1>1 DEF Dispatch, DispatchState, MonitorState, Values, Template
<1>2. ASSUME NEW r \in Roles, AgentFails(r)  PROVE (FailuresLeft /\ RoleOfPhase /\ RequestOfPhase)'
  BY <1>2 DEF AgentFails, MonitorState
<1>3. CASE ExecutorDelivers
  BY <1>3 DEF ExecutorDelivers
<1>4. ASSUME NEW d \in Written, ReviewerWrites(d)  PROVE (FailuresLeft /\ RoleOfPhase /\ RequestOfPhase)'
  BY <1>4 DEF ReviewerWrites
<1>5. CASE ReviewerWritesNothing
  BY <1>5 DEF ReviewerWritesNothing
<1>6. CASE RoundRetryDecide
  BY <1>6, LimitAssumption DEF RoundRetryDecide, DispatchState
<1>7. CASE OrchVerify
  BY <1>7 DEF OrchVerify
<1>8. CASE CollectNothing
  BY <1>8 DEF CollectNothing, Retry, Collecting
<1>9. CASE CollectRejected
  BY <1>9 DEF CollectRejected, ToBeParsed, Retry, Collecting
<1>10. CASE CollectVerdict
  BY <1>10 DEF CollectVerdict, ToBeParsed, Retry, Collecting
<1>11. CASE QualityGate
  BY <1>11, LimitAssumption, DataTypes, AfterGateType DEF QualityGate, VerdictInv, ReviewerYaml
<1>12. CASE RoundFeedbackPrep
  BY <1>12 DEF RoundFeedbackPrep
<1>13. CASE UNCHANGED vars
  BY <1>13 DEF vars
<1> QED BY <1>1, <1>2, <1>3, <1>4, <1>5, <1>6, <1>7,
           <1>8, <1>9, <1>10, <1>11, <1>12, <1>13
        DEF Next, Ended

\* The text of the outbox and its document.
LEMMA DocumentStep == IInv /\ [Next]_vars => DocumentInv'
<1> SUFFICES ASSUME IInv, [Next]_vars PROVE DocumentInv'
  OBVIOUS
<1> USE DEF IInv, TypeOK, DocumentInv, context, files, history
<1>1. ASSUME NEW r \in Roles, Dispatch(r)  PROVE DocumentInv'
  BY <1>1 DEF Dispatch, Truncated, Outbox
<1>2. ASSUME NEW r \in Roles, AgentFails(r)  PROVE DocumentInv'
  BY <1>2 DEF AgentFails, Outbox
<1>3. CASE ExecutorDelivers
  BY <1>3 DEF ExecutorDelivers, Outbox
<1>4. ASSUME NEW d \in Written, ReviewerWrites(d)  PROVE DocumentInv'
  BY <1>4, NoneAssumption DEF ReviewerWrites, Outbox
<1>5. CASE ReviewerWritesNothing
  BY <1>5 DEF ReviewerWritesNothing, Outbox
<1>6. CASE RoundRetryDecide
  BY <1>6 DEF RoundRetryDecide
<1>7. CASE OrchVerify
  BY <1>7 DEF OrchVerify
<1>8. CASE CollectNothing
  BY <1>8 DEF CollectNothing
<1>9. CASE CollectRejected
  BY <1>9 DEF CollectRejected
<1>10. CASE CollectVerdict
  BY <1>10 DEF CollectVerdict
<1>11. CASE QualityGate
  BY <1>11 DEF QualityGate
<1>12. CASE RoundFeedbackPrep
  BY <1>12 DEF RoundFeedbackPrep
<1>13. CASE UNCHANGED vars
  BY <1>13 DEF vars
<1> QED BY <1>1, <1>2, <1>3, <1>4, <1>5, <1>6, <1>7,
           <1>8, <1>9, <1>10, <1>11, <1>12, <1>13
        DEF Next, Ended

\* The verdict that is held.
LEMMA VerdictStep == IInv /\ [Next]_vars => VerdictInv'
<1> SUFFICES ASSUME IInv, [Next]_vars PROVE VerdictInv'
  OBVIOUS
<1> USE DEF IInv, TypeOK, VerdictInv, Terminal, Roles, context, files, history
<1>1. ASSUME NEW r \in Roles, Dispatch(r)  PROVE VerdictInv'
  BY <1>1 DEF Dispatch, MonitorState
<1>2. ASSUME NEW r \in Roles, AgentFails(r)  PROVE VerdictInv'
  BY <1>2 DEF AgentFails, MonitorState
<1>3. CASE ExecutorDelivers
  BY <1>3 DEF ExecutorDelivers
<1>4. ASSUME NEW d \in Written, ReviewerWrites(d)  PROVE VerdictInv'
  BY <1>4 DEF ReviewerWrites
<1>5. CASE ReviewerWritesNothing
  BY <1>5 DEF ReviewerWritesNothing
<1>6. CASE RoundRetryDecide
  BY <1>6 DEF RoundRetryDecide, DispatchState
<1>7. CASE OrchVerify
  BY <1>7 DEF OrchVerify
<1>8. CASE CollectNothing
  BY <1>8 DEF CollectNothing, Retry
<1>9. CASE CollectRejected
  BY <1>9 DEF CollectRejected, Retry
<1>10. CASE CollectVerdict
  BY <1>10 DEF CollectVerdict, Retry, ToBeParsed, Collecting, Document, DocumentInv
<1>11. CASE QualityGate
  BY <1>11 DEF QualityGate
<1>12. CASE RoundFeedbackPrep
  BY <1>12 DEF RoundFeedbackPrep
<1>13. CASE UNCHANGED vars
  BY <1>13 DEF vars
<1> QED BY <1>1, <1>2, <1>3, <1>4, <1>5, <1>6, <1>7,
           <1>8, <1>9, <1>10, <1>11, <1>12, <1>13
        DEF Next, Ended

\* What the reviewer left behind and the review it comes from.
LEMMA ReviewedStep == IInv /\ [Next]_vars => ReviewedInv'
<1> SUFFICES ASSUME IInv, [Next]_vars PROVE ReviewedInv'
  OBVIOUS
<1> USE DEF IInv, TypeOK, RoleOfPhase, ReviewedInv, AtReview, ReviewerStates, Terminal, Roles,
           context, files, history
<1>1. ASSUME NEW r \in Roles, Dispatch(r)  PROVE ReviewedInv'
  BY <1>1 DEF Dispatch, MonitorState, DispatchState, Values, Template
<1>2. ASSUME NEW r \in Roles, AgentFails(r)  PROVE ReviewedInv'
  BY <1>2 DEF AgentFails, MonitorState, MayRead, Reads
<1>3. CASE ExecutorDelivers
  BY <1>3 DEF ExecutorDelivers, Reads
<1>4. ASSUME NEW d \in Written, ReviewerWrites(d)  PROVE ReviewedInv'
  BY <1>4 DEF ReviewerWrites, Reads, Outbox
<1>5. CASE ReviewerWritesNothing
  <2>1. reviewed => reviewed'
    BY <1>5 DEF ReviewerWritesNothing, MayRead, Reads
  <2>2. ~touched' \/ outbox'.text # "document"
    BY <1>5 DEF ReviewerWritesNothing, Outbox
  <2> QED BY <1>5, <2>1, <2>2 DEF ReviewerWritesNothing
<1>6. CASE RoundRetryDecide
  BY <1>6 DEF RoundRetryDecide, DispatchState
<1>7. CASE OrchVerify
  BY <1>7 DEF OrchVerify
<1>8. CASE CollectNothing
  BY <1>8 DEF CollectNothing, Retry, Collecting
<1>9. CASE CollectRejected
  BY <1>9 DEF CollectRejected, ToBeParsed, Retry, Collecting
<1>10. CASE CollectVerdict
  BY <1>10 DEF CollectVerdict, ToBeParsed, Retry, Collecting
<1>11. CASE QualityGate
  BY <1>11, DataTypes, AfterGateType DEF QualityGate, VerdictInv, ReviewerYaml
<1>12. CASE RoundFeedbackPrep
  BY <1>12 DEF RoundFeedbackPrep
<1>13. CASE UNCHANGED vars
  BY <1>13 DEF vars
<1> QED BY <1>1, <1>2, <1>3, <1>4, <1>5, <1>6, <1>7,
           <1>8, <1>9, <1>10, <1>11, <1>12, <1>13
        DEF Next, Ended

\* The report in the outbox and what is said of it.
LEMMA ReportStep == IInv /\ [Next]_vars => ReportInv'
<1> SUFFICES ASSUME IInv, [Next]_vars PROVE ReportInv'
  OBVIOUS
<1> USE DEF IInv, TypeOK, RoleOfPhase, ReportInv, AtReview, ReviewerStates, Terminal, Roles,
           context, files, history
<1>1. ASSUME NEW r \in Roles, Dispatch(r)  PROVE ReportInv'
  BY <1>1 DEF Dispatch, MonitorState, DispatchState, Values, Truncated, Outbox
<1>2. ASSUME NEW r \in Roles, AgentFails(r)  PROVE ReportInv'
  BY <1>2 DEF AgentFails, MonitorState, Outbox
<1>3. CASE ExecutorDelivers
  <2> PICK text \in {"report", "empty"} :
           /\ outbox' = IF text = "report" THEN Outbox(text, None, "executor") ELSE outbox
           /\ outboxPresent' = (text = "report") /\ report' = (text = "report")
    BY <1>3 DEF ExecutorDelivers
  <2>1. runState' = "OrchVerify" /\ outbox = Truncated
    BY <1>3 DEF ExecutorDelivers
  <2>2. CASE text = "report"
    BY <2>1, <2>2 DEF Outbox
  <2>3. CASE text = "empty"
    BY <2>1, <2>3 DEF Truncated, Outbox
  <2> QED BY <2>2, <2>3
<1>4. ASSUME NEW d \in Written, ReviewerWrites(d)  PROVE ReportInv'
  BY <1>4 DEF ReviewerWrites, Outbox
<1>5. CASE ReviewerWritesNothing
  BY <1>5 DEF ReviewerWritesNothing, Outbox
<1>6. CASE RoundRetryDecide
  BY <1>6 DEF RoundRetryDecide, DispatchState
<1>7. CASE OrchVerify
  BY <1>7 DEF OrchVerify
<1>8. CASE CollectNothing
  BY <1>8 DEF CollectNothing, Retry, Collecting
<1>9. CASE CollectRejected
  BY <1>9 DEF CollectRejected, ToBeParsed, Retry, Collecting
<1>10. CASE CollectVerdict
  BY <1>10 DEF CollectVerdict, ToBeParsed, Retry, Collecting
<1>11. CASE QualityGate
  BY <1>11, DataTypes, AfterGateType DEF QualityGate, VerdictInv, ReviewerYaml
<1>12. CASE RoundFeedbackPrep
  BY <1>12 DEF RoundFeedbackPrep
<1>13. CASE UNCHANGED vars
  BY <1>13 DEF vars
<1> QED BY <1>1, <1>2, <1>3, <1>4, <1>5, <1>6, <1>7,
           <1>8, <1>9, <1>10, <1>11, <1>12, <1>13
        DEF Next, Ended

LEMMA IInvHolds == Spec => []IInv
<1>1. IInv /\ [Next]_vars => IInv'
  BY TypeStep, ControlStep, DocumentStep, VerdictStep, ReviewedStep, ReportStep DEF IInv
<1> QED BY InitIInv, <1>1, PTL DEF Spec

-----------------------------------------------------------------------------
(***************************************************************************)
(* The theorems.                                                           *)
(***************************************************************************)

\* Type correctness: above all, the failures do not pass the limit, and the
\* reason of a rejection is always one of the checks.
THEOREM TypeCorrect == Spec => []TypeOK
<1>1. IInv => TypeOK
  BY DEF IInv
<1> QED BY IInvHolds, <1>1, PTL

\* What the gate acts on, and what follows from it, keeps the strict rules of
\* the protocol and the Notion policy.
THEOREM VerdictsKeepTheRules == Spec => []VerdictsAreSound
<1>1. IInv => VerdictsAreSound
  <2> SUFFICES ASSUME IInv, review # None PROVE Sound(review, args.notion)
    BY DEF IInv, VerdictInv, VerdictsAreSound
  <2> QED BY DataTypes, TakenIsSound DEF IInv, VerdictInv
<1> QED BY IInvHolds, <1>1, PTL

\* No delivery passes the gate on a mended document or a cleanup alone.
THEOREM DeliveriesAreReviewed == Spec => []EachDeliveryIsReviewed
<1>1. IInv => EachDeliveryIsReviewed
  BY DEF IInv, ReviewedInv, AtReview, EachDeliveryIsReviewed
<1> QED BY IInvHolds, <1>1, PTL

\* The request for a review says truly whether there is a report.
THEOREM ReportsAreFound == Spec => []ReportIsWhereItIsSaid
<1>1. IInv => ReportIsWhereItIsSaid
  BY DEF IInv, ReportInv, AtReview, ReviewIsRequested, ReportIsWhereItIsSaid
<1> QED BY IInvHolds, <1>1, PTL

-----------------------------------------------------------------------------
(***************************************************************************)
(* The reviewer that obeys.                                                *)
(***************************************************************************)

\* The rules a request for a review does not state, and those of them a repair
\* request does not state unless they were broken.
LEMMA UnsaidRules ==
  /\ AllFaults \subseteq ReviewStates \cup
       {"unknown_field", "rationale", "accept_score", "blocking_reason", "irreconcilable_reason"}
  /\ {"blocking_reason", "irreconcilable_reason"} \subseteq RepairStates
  BY CheckNames DEF FormFaults, PrescanFaults, Textual, ReviewStates, RepairStates

\* What the reviewer's requests say of the rules.
LEMMA SaysTheRules ==
  /\ request.template = "ReviewerReview" => ReviewStates \subseteq Says("reviewer")
  /\ request.template = "ReviewerRepairYaml" =>
       RepairStates \cup {request.rejection} \subseteq Says("reviewer")
<1>1. ASSUME NEW v  PROVE Render("ReviewerReview", v) = ReviewerReview(v)
  BY DEF Render
<1>2. ASSUME NEW v  PROVE Render("ReviewerRepairYaml", v) = ReviewerRepairYaml(v)
  BY DEF Render
<1>3. ASSUME NEW v  PROVE ReviewStates \subseteq ReviewerReview(v)
  BY DEF ReviewerReview
<1>4. ASSUME NEW v  PROVE RepairStates \cup {v.rejection} \subseteq ReviewerRepairYaml(v)
  BY DEF ReviewerRepairYaml
<1> QED BY <1>1, <1>2, <1>3, <1>4 DEF Says

\* Every rule a template states is a check.
LEMMA StatedRules == ReviewStates \subseteq AllFaults /\ RepairStates \subseteq AllFaults
  BY CheckNames DEF FormFaults, PrescanFaults, Textual, ReviewStates, RepairStates

\* A verdict and a rejection exclude each other, leftovers are asked to be
\* removed beside a verdict only, and an executor's attempt starts with neither
\* rejection nor leftovers.
DetourInv ==
  /\ review # None => rejection = None
  /\ leftovers => review # None
  /\ runState \in {"ExecutorDispatch", "ExecutorMonitor", "OrchVerify"} => rejection = None
  /\ runState = "RoundRetryDecide" /\ role = "executor" => rejection = None

\* The reviewer works on the request its rejection called for.
RequestInv ==
  runState = "ReviewerMonitor" =>
    request.template = Template("reviewer") /\ request.rejection = rejection

\* How many of the three rules that no template states are among some rules.
Supplied(rules) == (IF "unknown_field" \in rules THEN 1 ELSE 0) +
                   (IF "rationale" \in rules THEN 1 ELSE 0) +
                   (IF "accept_score" \in rules THEN 1 ELSE 0)

\* What a reviewer that obeys has learnt: the rules of a review once it has been
\* rejected, those of a repair once it has read the request for one, and one of
\* the three others for every unfair rejection but the first.
LearntInv ==
  /\ unfair <= 4
  /\ told # None =>
       /\ unfair > 0 \/ rejection # None => ReviewStates \subseteq told
       /\ unfair > 0 => /\ RepairStates \subseteq told \/ rejection # None
                        /\ unfair <= 1 + Supplied(told \cup {rejection})

\* The document it hands in breaks none of them.
AnswerInv ==
  told # None /\ ToBeParsed =>
    /\ ReviewStates \subseteq told
    /\ rejection # None => RepairStates \cup {rejection} \subseteq told
    /\ Breaches(outbox.doc, args.notion) \cap told = {}

ObedientInv == DetourInv /\ RequestInv /\ LearntInv /\ AnswerInv

\* With more rules there are not fewer of the three.
LEMMA MoreSupplied ==
  ASSUME NEW few, NEW many, few \subseteq many
  PROVE  Supplied(few) <= Supplied(many) /\ Supplied(many) <= 3
  BY DEF Supplied

\* What a reviewer that obeys has read when it hands in a document.
LEMMA Reading ==
  ASSUME IInv, ObedientInv, runState = "ReviewerMonitor", told # None
  PROVE  /\ told \subseteq RulesRead
         /\ review = None =>
              /\ ReviewStates \subseteq RulesRead
              /\ rejection # None => RepairStates \cup {rejection} \subseteq RulesRead
<1>1. request.template = Template("reviewer") /\ request.rejection = rejection
  BY DEF ObedientInv, RequestInv
<1>2. CASE rejection = None
  BY <1>1, <1>2, SaysTheRules, StatedRules
     DEF ObedientInv, DetourInv, Template, RulesRead
<1>3. CASE rejection # None
  <2>1. ReviewStates \subseteq told /\ rejection \in AllFaults
    BY <1>3 DEF ObedientInv, LearntInv, IInv, TypeOK
  <2>2. review = None => request.template = "ReviewerRepairYaml"
    BY <1>1, <1>3 DEF ObedientInv, DetourInv, Template
  <2> QED BY <1>1, <1>3, <2>1, <2>2, SaysTheRules, StatedRules DEF RulesRead
<1> QED BY <1>2, <1>3

\* A document that breaks no rule its author knows is rejected for text that is
\* misread, or for one of five rules after a review, and for one of the three
\* that remain after a repair.
LEMMA UnfairRejection ==
  ASSUME IInv, ObedientInv, CollectRejected, told # None
  PROVE  /\ rejection' \in AllFaults /\ ReviewStates \subseteq told
         /\ rejection' \notin outbox.doc.misread =>
              /\ rejection' \notin told
              /\ unfair > 0 => rejection' \in {"unknown_field", "rationale", "accept_score"}
<1>1. outbox.doc \in ReviewerYaml /\ args.notion \in NotionPolicies
  BY DataTypes DEF CollectRejected, ToBeParsed, IInv, DocumentInv
<1>2. ~Taken(outbox.doc, args.notion) /\ rejection' = FirstFault(outbox.doc, args.notion)
  BY DEF CollectRejected, Document
<1>3. rejection' \in AllFaults /\ rejection' \in Faults(outbox.doc, args.notion)
  BY <1>1, <1>2, RejectionNamesACheck
<1>4. /\ ReviewStates \subseteq told
      /\ Breaches(outbox.doc, args.notion) \cap told = {}
      /\ unfair > 0 => RepairStates \subseteq told
  BY DEF CollectRejected, ObedientInv, AnswerInv, LearntInv
<1> QED BY <1>3, <1>4, UnsaidRules DEF Breaches

LEMMA ObedientInit == Init => ObedientInv
  BY DEF Init, ObedientInv, DetourInv, RequestInv, LearntInv, AnswerInv, ToBeParsed, Collecting

\* The detours and the request of the reviewer.
LEMMA DetourStep == IInv /\ ObedientInv /\ [Next]_vars => (DetourInv /\ RequestInv)'
<1> SUFFICES ASSUME IInv, ObedientInv, [Next]_vars PROVE (DetourInv /\ RequestInv)'
  OBVIOUS
<1> USE DEF IInv, TypeOK, RoleOfPhase, ReviewerStates, VerdictInv, ObedientInv, DetourInv,
            RequestInv, Template, Roles, Terminal, context, files, history
<1>1. ASSUME NEW r \in Roles, Dispatch(r)  PROVE (DetourInv /\ RequestInv)'
  <2>1. /\ runState = DispatchState(r) /\ runState' = MonitorState(r) /\ request' = Values(r)
        /\ UNCHANGED <<rejection, leftovers, review>>
    BY <1>1 DEF Dispatch
  <2>2. CASE r = "executor"
    BY <2>1, <2>2 DEF DispatchState, MonitorState
  <2>3. CASE r = "reviewer"
    BY <2>1, <2>3 DEF DispatchState, MonitorState, Values
  <2> QED BY <2>2, <2>3
<1>2. ASSUME NEW r \in Roles, AgentFails(r)  PROVE (DetourInv /\ RequestInv)'
  <2>1. /\ runState = MonitorState(r) /\ runState' = "RoundRetryDecide"
        /\ UNCHANGED <<role, rejection, leftovers, review>>
    BY <1>2 DEF AgentFails
  <2> QED BY <2>1 DEF MonitorState
<1>3. CASE ExecutorDelivers
  BY <1>3 DEF ExecutorDelivers
<1>4. ASSUME NEW d \in Written, ReviewerWrites(d)  PROVE (DetourInv /\ RequestInv)'
  BY <1>4 DEF ReviewerWrites
<1>5. CASE ReviewerWritesNothing
  BY <1>5 DEF ReviewerWritesNothing
<1>6. CASE RoundRetryDecide
  BY <1>6 DEF RoundRetryDecide, DispatchState
<1>7. CASE OrchVerify
  BY <1>7 DEF OrchVerify
<1>8. CASE CollectNothing
  BY <1>8 DEF CollectNothing, Retry, Collecting
<1>9. CASE CollectRejected
  BY <1>9 DEF CollectRejected, ToBeParsed, Retry, Collecting
<1>10. CASE CollectVerdict
  BY <1>10, NoneAssumption DEF CollectVerdict, ToBeParsed, Retry, Collecting, Document, DocumentInv
<1>11. CASE QualityGate
  BY <1>11, DataTypes, AfterGateType DEF QualityGate, ReviewerYaml
<1>12. CASE RoundFeedbackPrep
  BY <1>12 DEF RoundFeedbackPrep
<1>13. CASE UNCHANGED vars
  BY <1>13 DEF vars
<1> QED BY <1>1, <1>2, <1>3, <1>4, <1>5, <1>6, <1>7,
           <1>8, <1>9, <1>10, <1>11, <1>12, <1>13
        DEF Next, Ended

\* The rules that are known, and the rejections in spite of them.
LEMMA LearntStep == IInv /\ ObedientInv /\ [Next]_vars => (LearntInv /\ AnswerInv)'
<1> SUFFICES ASSUME IInv, ObedientInv, [Next]_vars PROVE (LearntInv /\ AnswerInv)'
  OBVIOUS
<1>0. unfair \in Nat /\ (runState = "ReviewerMonitor" => ~touched)
  BY DEF IInv, TypeOK, ReviewedInv, AtReview
<1>a. ASSUME UNCHANGED <<told, unfair, rejection>>, ~ToBeParsed'
      PROVE  (LearntInv /\ AnswerInv)'
  BY <1>a DEF ObedientInv, LearntInv, AnswerInv
<1> USE DEF context, files, history
<1>1. ASSUME NEW r \in Roles, Dispatch(r)  PROVE (LearntInv /\ AnswerInv)'
  BY <1>1, <1>a DEF Dispatch, MonitorState, ToBeParsed, Collecting
<1>2. ASSUME NEW r \in Roles, AgentFails(r)  PROVE (LearntInv /\ AnswerInv)'
  BY <1>2, <1>a DEF AgentFails, ToBeParsed, Collecting
<1>3. CASE ExecutorDelivers
  BY <1>3, <1>a DEF ExecutorDelivers, ToBeParsed, Collecting
<1>4. ASSUME NEW d \in Written, ReviewerWrites(d)  PROVE (LearntInv /\ AnswerInv)'
  <2>1. /\ runState = "ReviewerMonitor" /\ outbox'.doc = d /\ args' = args
        /\ rejection' = rejection /\ review' = review /\ unfair' = unfair
    BY <1>4 DEF ReviewerWrites, Outbox
  <2>2. told' # None =>
          told # None /\ told' = RulesRead /\ Breaches(d, args.notion) \cap RulesRead = {}
    BY <1>4 DEF ReviewerWrites
  <2>3. ASSUME told' # None  PROVE Supplied(told \cup {rejection}) <= Supplied(told' \cup {rejection})
    BY <2>1, <2>2, <2>3, Reading, MoreSupplied
  <2>4. LearntInv'
    <3>1. ASSUME told' # None
          PROVE  /\ unfair > 0 \/ rejection # None => ReviewStates \subseteq told'
                 /\ unfair > 0 => RepairStates \subseteq told' \/ rejection # None
      BY <2>1, <2>2, <3>1, Reading DEF ObedientInv, LearntInv
    <3>2. ASSUME told' # None, unfair > 0
          PROVE  unfair <= 1 + Supplied(told' \cup {rejection})
      BY <1>0, <2>2, <2>3, <3>2 DEF ObedientInv, LearntInv, Supplied
    <3> QED BY <2>1, <3>1, <3>2 DEF ObedientInv, LearntInv
  <2>5. AnswerInv'
    BY <2>1, <2>2, Reading DEF AnswerInv, ToBeParsed
  <2> QED BY <2>4, <2>5
<1>5. CASE ReviewerWritesNothing
  <2>1. ~ToBeParsed'
    BY <1>0, <1>5 DEF ReviewerWritesNothing, ToBeParsed, Outbox
  <2> QED BY <1>5, <1>a, <2>1 DEF ReviewerWritesNothing
<1>6. CASE RoundRetryDecide
  BY <1>6, <1>a DEF RoundRetryDecide, DispatchState, ToBeParsed, Collecting
<1>7. CASE OrchVerify
  <2>1. UNCHANGED rejection
    BY <1>7 DEF OrchVerify, ObedientInv, DetourInv
  <2> QED BY <1>7, <1>a, <2>1 DEF OrchVerify, ToBeParsed, Collecting
<1>8. CASE CollectNothing
  BY <1>8, <1>a DEF CollectNothing, Retry, ToBeParsed, Collecting
<1>9. CASE CollectRejected
  <2>1. /\ told' = told /\ ~ToBeParsed'
        /\ unfair' = IF told # None /\ rejection' \notin outbox.doc.misread THEN unfair + 1 ELSE unfair
    BY <1>9 DEF CollectRejected, Retry, ToBeParsed, Collecting, Document
  <2>2. CASE told = None
    BY <2>1, <2>2 DEF ObedientInv, LearntInv, AnswerInv
  <2>3. CASE told # None
    <3>1. /\ rejection' \in AllFaults /\ ReviewStates \subseteq told
          /\ rejection' \notin outbox.doc.misread =>
               /\ rejection' \notin told
               /\ unfair > 0 => rejection' \in {"unknown_field", "rationale", "accept_score"}
      BY <1>9, <2>3, UnfairRejection
    <3>2. Supplied(told \cup {rejection}) = Supplied(told)
      <4>1. told \cup {rejection} = told \/ rejection = None
        BY <1>9, <2>3 DEF CollectRejected, ObedientInv, AnswerInv
      <4> QED BY <4>1, NoneAssumption, CheckNames DEF Supplied, FormFaults
    <3>3. unfair > 0 => unfair <= 1 + Supplied(told)
      BY <2>3, <3>2 DEF ObedientInv, LearntInv
    <3>4. ASSUME unfair' > 0  PROVE unfair' <= 1 + Supplied(told \cup {rejection'})
      <4>1. CASE rejection' \in outbox.doc.misread
        BY <2>1, <3>3, <3>4, <4>1 DEF Supplied
      <4>2. CASE rejection' \notin outbox.doc.misread
        <5>1. unfair' = unfair + 1
          BY <2>1, <2>3, <4>2
        <5>2. unfair > 0 => Supplied(told) + 1 <= Supplied(told \cup {rejection'})
          BY <3>1, <4>2 DEF Supplied
        <5> QED BY <1>0, <3>3, <5>1, <5>2 DEF Supplied
      <4> QED BY <4>1, <4>2
    <3>5. unfair' <= 4
      BY <1>0, <2>1, <3>4 DEF Supplied
    <3> QED BY <2>1, <2>3, <3>1, <3>4, <3>5, NoneAssumption DEF LearntInv, AnswerInv
  <2> QED BY <2>2, <2>3
<1>10. CASE CollectVerdict
  <2>1. told' = told /\ unfair' = unfair /\ ~ToBeParsed'
    BY <1>10, NoneAssumption DEF CollectVerdict, Retry, ToBeParsed, Collecting, Document, IInv, DocumentInv
  <2>2. CASE UNCHANGED rejection
    BY <1>a, <2>1, <2>2
  <2>3. CASE ToBeParsed /\ rejection' = None
    <3>1. told # None /\ rejection # None => Supplied(told \cup {rejection}) <= Supplied(told \cup {None})
      BY <2>3, MoreSupplied DEF ObedientInv, AnswerInv
    <3>2. CASE rejection = None
      BY <1>a, <2>1, <2>3, <3>2
    <3>3. CASE rejection # None
      BY <1>0, <2>1, <2>3, <3>1, <3>3 DEF ObedientInv, LearntInv, AnswerInv, Supplied
    <3> QED BY <3>2, <3>3
  <2> QED BY <1>10, <2>2, <2>3 DEF CollectVerdict
<1>11. CASE QualityGate
  BY <1>11, <1>a, DataTypes, AfterGateType
     DEF QualityGate, ToBeParsed, Collecting, IInv, VerdictInv, ReviewerYaml, Terminal
<1>12. CASE RoundFeedbackPrep
  BY <1>12, <1>a DEF RoundFeedbackPrep, ToBeParsed, Collecting
<1>13. CASE UNCHANGED vars
  BY <1>13 DEF vars, ObedientInv, LearntInv, AnswerInv, ToBeParsed, Collecting
<1> QED BY <1>1, <1>2, <1>3, <1>4, <1>5, <1>6, <1>7,
           <1>8, <1>9, <1>10, <1>11, <1>12, <1>13
        DEF Next, Ended

\* A reviewer that breaks no rule it was told is rejected at most four times in a
\* run for rules its documents do break; the rejections for text that is misread
\* are not among them.
THEOREM ObedienceIsHeard == Spec => []ObedientReviewerIsHeard
<1>1. IInv /\ ObedientInv /\ [Next]_vars => ObedientInv'
  BY DetourStep, LearntStep DEF ObedientInv
<1>2. ObedientInv => ObedientReviewerIsHeard
  BY DEF ObedientInv, LearntInv, ObedientReviewerIsHeard
<1> QED BY IInvHolds, ObedientInit, <1>1, <1>2, PTL DEF Spec

-----------------------------------------------------------------------------
(***************************************************************************)
(* What the agents have been told.                                         *)
(***************************************************************************)

\* A reviewer that reviewed has heard the request for it, and past the first
\* delivery the executor has heard the task.
HeardInv ==
  /\ reviewed => "ReviewerReview" \in heard["reviewer"]
  /\ AtReview \/ runState = "OrchVerify" \/ review # None =>
       "ExecutorInitial" \in heard["executor"]
  /\ runState = "ExecutorMonitor" /\ request.template # "ExecutorInitial" =>
       "ExecutorInitial" \in heard["executor"]

\* The section on the remote policy.
LEMMA RemoteSection ==
  ASSUME NEW policy \in RemotePolicies
  PROVE  /\ "remote_policy" \in RemotePolicySection(policy)
         /\ RemotePolicySection(policy) \subseteq
              {"remote_policy", "no_remote_access", "report_remote_actions", "no_db_mutation"}
<1>1. CASE policy = "forbidden"
  BY <1>1 DEF RemotePolicySection
<1>2. CASE policy = "read_only"
  BY <1>2 DEF RemotePolicySection
<1>3. CASE policy = "operational"
  BY <1>3 DEF RemotePolicySection
<1> QED BY <1>1, <1>2, <1>3 DEF RemotePolicies

\* What a review checks, the task has asked for in the same workflow.
LEMMA DemandsAreMade ==
  ASSUME NEW v, NEW e, v.workflow \in Workflows, v.remote \in RemotePolicies,
         e.workflow = v.workflow, e.remote = v.remote,
         NEW check \in ReviewerReview(v) \cap DOMAIN DemandOf
  PROVE  DemandOf[check] \in ExecutorInitial(e)
<1> DEFINE wf == v.workflow
<1>1. check \in ReviewerWorkflowRules(wf) \cup {"check_profiles", "check_commits", "check_remote_policy"}
  BY RemoteSection
     DEF ReviewerReview, DemandOf, WorkflowContract, RunPaths, ProtocolPaths, ReviewerProfiles,
         SubagentRule, OutboxSection, OpencodeOutboxRule, ArtifactStructure, ReviewStates, When
<1>2. {"report_profiles", "commit", "remote_policy"} \subseteq ExecutorInitial(e)
  BY RemoteSection DEF ExecutorInitial, ExecutorProfiles, ExecutorWorkingRules
<1>3. CASE check \in {"check_profiles", "check_commits", "check_remote_policy"}
  BY <1>2, <1>3 DEF DemandOf
<1>4. CASE check \in ReviewerWorkflowRules(wf)
  <2>1. InputArtifactRules(wf) \cup ExecutorWorkflowRules(wf) \cup ArtifactStructure(wf)
           \subseteq ExecutorInitial(e)
    BY DEF ExecutorInitial
  <2>2. DemandOf[check] \in InputArtifactRules(wf) \cup ExecutorWorkflowRules(wf) \cup ArtifactStructure(wf)
    BY <1>4 DEF Workflows, DemandOf, ReviewerWorkflowRules, InputArtifactRules,
                ExecutorWorkflowRules, ArtifactStructure, When
  <2> QED BY <2>1, <2>2
<1> QED BY <1>1, <1>3, <1>4

\* The other requests check nothing.
LEMMA OthersDemandNothing ==
  ASSUME NEW v, v.workflow \in Workflows, v.remote \in RemotePolicies
  PROVE  /\ ExecutorInitial(v) \cap DOMAIN DemandOf = {}
         /\ ExecutorFeedback(v) \cap DOMAIN DemandOf = {}
         /\ v.rejection \in AllFaults => ReviewerRepairYaml(v) \cap DOMAIN DemandOf = {}
         /\ ReviewerRepairWorkspace(v) \cap DOMAIN DemandOf = {}
<1> USE DEF WorkflowContract, RunPaths, ProtocolPaths, ExecutorProfiles, SubagentRule,
            OpencodeOutboxRule, ArtifactStructure, InputArtifactRules, ExecutorWorkflowRules,
            ExecutorWorkingRules, When, DemandOf
<1>1. ExecutorInitial(v) \cap DOMAIN DemandOf = {}
  BY RemoteSection DEF ExecutorInitial
<1>2. ExecutorFeedback(v) \cap DOMAIN DemandOf = {}
  BY RemoteSection DEF ExecutorFeedback
<1>3. v.rejection \in AllFaults => ReviewerRepairYaml(v) \cap DOMAIN DemandOf = {}
  BY CheckNames, StatedRules DEF ReviewerRepairYaml, FormFaults, PrescanFaults, Textual
<1>4. ReviewerRepairWorkspace(v) \cap DOMAIN DemandOf = {}
  BY DEF ReviewerRepairWorkspace
<1> QED BY <1>1, <1>2, <1>3, <1>4

\* Who reads what.
LEMMA HeardStep == IInv /\ HeardInv /\ [Next]_vars => HeardInv'
<1> SUFFICES ASSUME IInv, HeardInv, [Next]_vars PROVE HeardInv'
  OBVIOUS
<1>0. /\ heard \in [Roles -> SUBSET Templates]
      /\ runState \in {"ExecutorMonitor", "OrchVerify"} => role = "executor"
      /\ runState \in ReviewerStates => role = "reviewer"
      /\ runState = "RoundRetryDecide" => role \in Roles
  BY DEF IInv, TypeOK, RoleOfPhase
<1> USE DEF HeardInv, AtReview, ReviewerStates, Roles, context, files, history
<1>1. ASSUME NEW r \in Roles, Dispatch(r)  PROVE HeardInv'
  BY <1>1 DEF Dispatch, DispatchState, MonitorState, Values, Template
<1>2. ASSUME NEW r \in Roles, AgentFails(r)  PROVE HeardInv'
  <2>1. /\ runState = MonitorState(r) /\ runState' = "RoundRetryDecide"
        /\ UNCHANGED <<role, review>> /\ MayRead(r)
    BY <1>2 DEF AgentFails
  <2>2. \A q \in Roles : heard[q] \subseteq heard'[q]
    BY <1>0, <2>1 DEF MayRead, Reads
  <2>3. reviewed' => "ReviewerReview" \in heard'["reviewer"]
    <3>1. CASE Reads(r)
      BY <1>0, <2>1, <2>2, <3>1 DEF Reads, MonitorState, IInv, RequestOfPhase
    <3>2. CASE UNCHANGED <<heard, reviewed>>
      BY <3>2
    <3> QED BY <2>1, <3>1, <3>2 DEF MayRead
  <2> QED BY <1>0, <2>1, <2>2, <2>3 DEF MonitorState
<1>3. CASE ExecutorDelivers
  <2>1. /\ runState = "ExecutorMonitor" /\ runState' = "OrchVerify"
        /\ heard' = [heard EXCEPT !["executor"] = @ \cup {request.template}]
        /\ reviewed' = (reviewed \/ request.template = "ReviewerReview")
        /\ request.template # "ReviewerReview"
    BY <1>3 DEF ExecutorDelivers, Reads, IInv, RequestOfPhase
  <2> QED BY <1>0, <2>1
<1>4. ASSUME NEW d \in Written, ReviewerWrites(d)  PROVE HeardInv'
  <2>1. /\ runState = "ReviewerMonitor" /\ runState' = "ReviewerOutputCollect"
        /\ heard' = [heard EXCEPT !["reviewer"] = @ \cup {request.template}]
        /\ reviewed' = (reviewed \/ request.template = "ReviewerReview")
    BY <1>4 DEF ReviewerWrites, Reads
  <2> QED BY <1>0, <2>1
<1>5. CASE ReviewerWritesNothing
  <2>1. /\ runState = "ReviewerMonitor" /\ runState' = "ReviewerOutputCollect"
        /\ MayRead("reviewer")
    BY <1>5 DEF ReviewerWritesNothing
  <2>2. CASE Reads("reviewer")
    BY <1>0, <2>1, <2>2 DEF Reads
  <2>3. CASE UNCHANGED <<heard, reviewed>>
    BY <2>1, <2>3
  <2> QED BY <2>1, <2>2, <2>3 DEF MayRead
<1>6. CASE RoundRetryDecide
  BY <1>0, <1>6 DEF RoundRetryDecide, DispatchState
<1>7. CASE OrchVerify
  BY <1>7 DEF OrchVerify
<1>8. CASE CollectNothing
  BY <1>0, <1>8 DEF CollectNothing, Retry, Collecting
<1>9. CASE CollectRejected
  BY <1>0, <1>9 DEF CollectRejected, ToBeParsed, Retry, Collecting
<1>10. CASE CollectVerdict
  BY <1>0, <1>10 DEF CollectVerdict, ToBeParsed, Retry, Collecting
<1>11. CASE QualityGate
  BY <1>11, DataTypes, AfterGateType DEF QualityGate, IInv, VerdictInv, ReviewerYaml, Terminal
<1>12. CASE RoundFeedbackPrep
  BY <1>12 DEF RoundFeedbackPrep
<1>13. CASE UNCHANGED vars
  BY <1>13 DEF vars
<1> QED BY <1>1, <1>2, <1>3, <1>4, <1>5, <1>6, <1>7,
           <1>8, <1>9, <1>10, <1>11, <1>12, <1>13
        DEF Next, Ended

\* What a request that was read has said counts as said.
LEMMA BriefingsInclude ==
  ASSUME NEW r \in Roles, NEW t \in heard[r]
  PROVE  Render(t, [provider |-> args[r], workflow |-> args.workflow, remote |-> args.remote,
                    outboxPresent |-> FALSE, rejection |-> "schema"]) \subseteq Briefings(r)
  BY DEF Briefings

\* The names of the templates.
LEMMA Rendered ==
  ASSUME NEW v
  PROVE  /\ Render("ExecutorInitial", v) = ExecutorInitial(v)
         /\ Render("ExecutorFeedback", v) = ExecutorFeedback(v)
         /\ Render("ReviewerReview", v) = ReviewerReview(v)
         /\ Render("ReviewerRepairYaml", v) = ReviewerRepairYaml(v)
         /\ Render("ReviewerRepairWorkspace", v) = ReviewerRepairWorkspace(v)
  BY DEF Render

\* An agent at work has been told the protocols and the remote policy, in this
\* request or before, and a reviewer checks nothing the executor was not told.
THEOREM AgentsKnowTheirTask == Spec => []AgentsAreBriefed
<1>1. Init => HeardInv
  BY DEF Init, HeardInv, AtReview
<1>2. IInv /\ HeardInv => AgentsAreBriefed
  <2> SUFFICES ASSUME IInv, HeardInv, NEW r \in Roles, runState = MonitorState(r)
               PROVE  /\ ProtocolPaths \cup RemotePolicySection(args.remote)
                            \subseteq Says(r) \cup Briefings(r)
                      /\ \A check \in Says(r) \cap DOMAIN DemandOf :
                           DemandOf[check] \in Briefings("executor")
    BY DEF AgentsAreBriefed
  <2> DEFINE now  == [provider |-> args[r], workflow |-> args.workflow, remote |-> args.remote,
                      outboxPresent |-> request.outboxPresent, rejection |-> request.rejection]
             then(q) == [provider |-> args[q], workflow |-> args.workflow, remote |-> args.remote,
                         outboxPresent |-> FALSE, rejection |-> "schema"]
  <2>1. args.workflow \in Workflows /\ args.remote \in RemotePolicies
    BY DataTypes DEF ArgumentsType, IInv
  <2>2. Says(r) = Render(request.template, now)
    BY DEF Says
  <2>3. ASSUME NEW v
        PROVE  /\ ProtocolPaths \cup RemotePolicySection(v.remote) \subseteq ExecutorInitial(v)
               /\ ProtocolPaths \cup RemotePolicySection(v.remote) \subseteq ReviewerReview(v)
    BY DEF ExecutorInitial, ReviewerReview
  <2>4. "ExecutorInitial" \in heard["executor"] => ExecutorInitial(then("executor")) \subseteq Briefings("executor")
    BY Rendered, BriefingsInclude DEF Roles
  <2>5. "ReviewerReview" \in heard["reviewer"] => ReviewerReview(then("reviewer")) \subseteq Briefings("reviewer")
    BY Rendered, BriefingsInclude DEF Roles
  <2>6. CASE r = "executor"
    <3>1. request.template \in {"ExecutorInitial", "ExecutorFeedback"}
      BY <2>6 DEF IInv, RequestOfPhase, MonitorState
    <3>2. request.template = "ExecutorInitial" \/ "ExecutorInitial" \in heard["executor"]
      BY <2>6 DEF HeardInv, MonitorState
    <3>3. ProtocolPaths \cup RemotePolicySection(args.remote) \subseteq Says(r) \cup Briefings(r)
      <4>1. CASE request.template = "ExecutorInitial"
        BY <2>2, <2>3, <4>1, Rendered
      <4>2. CASE "ExecutorInitial" \in heard["executor"]
        BY <2>3, <2>4, <2>6, <4>2
      <4> QED BY <3>2, <4>1, <4>2
    <3>4. Says(r) \cap DOMAIN DemandOf = {}
      BY <2>1, <2>2, <3>1, Rendered, OthersDemandNothing
    <3> QED BY <3>3, <3>4
  <2>7. CASE r = "reviewer"
    <3>1. /\ request.template \in {"ReviewerReview", "ReviewerRepairYaml", "ReviewerRepairWorkspace"}
          /\ request.template = "ReviewerRepairYaml" => request.rejection \in AllFaults
      BY <2>7 DEF IInv, RequestOfPhase, MonitorState, Templates
    <3>2. /\ request.template = "ReviewerReview" \/ "ReviewerReview" \in heard["reviewer"]
          /\ "ExecutorInitial" \in heard["executor"]
      BY <2>7 DEF IInv, ReviewedInv, HeardInv, AtReview, MonitorState
    <3>3. ProtocolPaths \cup RemotePolicySection(args.remote) \subseteq Says(r) \cup Briefings(r)
      <4>1. CASE request.template = "ReviewerReview"
        BY <2>2, <2>3, <4>1, Rendered
      <4>2. CASE "ReviewerReview" \in heard["reviewer"]
        BY <2>3, <2>5, <2>7, <4>2
      <4> QED BY <3>2, <4>1, <4>2
    <3>4. CASE request.template = "ReviewerReview"
      <4>1. Says(r) = ReviewerReview(now)
        BY <2>2, <3>4, Rendered
      <4>2. ASSUME NEW check \in ReviewerReview(now) \cap DOMAIN DemandOf
            PROVE  DemandOf[check] \in ExecutorInitial(then("executor"))
        BY <2>1, DemandsAreMade
      <4> QED BY <2>4, <3>2, <3>3, <4>1, <4>2
    <3>5. CASE request.template # "ReviewerReview"
      <4>1. Says(r) \cap DOMAIN DemandOf = {}
        BY <2>1, <2>2, <3>1, <3>5, Rendered, OthersDemandNothing
      <4> QED BY <3>3, <4>1
    <3> QED BY <3>4, <3>5
  <2> QED BY <2>6, <2>7 DEF Roles
<1> QED BY IInvHolds, HeardStep, <1>1, <1>2, PTL DEF Spec
-----------------------------------------------------------------------------
(***************************************************************************)
(* The conversation implements ReviewLoop.                                 *)
(***************************************************************************)

\* The verdict of the contract; a document that is held has a decision.
Verdict == IF review = None THEN "none" ELSE review.decision

LEMMA VerdictType ==
  ASSUME IInv
  PROVE  /\ review = None => Verdict = "none"
         /\ review # None => Verdict = review.decision /\ Verdict \in Decisions /\ Verdict # "none"
<1>1. review # None => review \in ReviewerYaml
  BY DataTypes DEF IInv, TypeOK
<1> QED BY <1>1 DEF Verdict, ReviewerYaml, Decisions

\* Between two phases of the same stage nothing happens for the contract.
LEMMA SameStage ==
  ASSUME Stage' = Stage, (runState \in WorkingStates) <=> (runState' \in WorkingStates),
         UNCHANGED <<failures, review>>
  PROVE  UNCHANGED Contract!abstractVars
BY DEF Contract!abstractVars

\* A dispatch begins an attempt; the failures are not used up.
LEMMA AttemptStep ==
  ASSUME IInv, NEW r \in Roles, Dispatch(r)
  PROVE  Contract!Attempt
<1>1. runState = DispatchState(r) /\ runState' = MonitorState(r) /\ UNCHANGED <<failures, review>>
  BY DEF Dispatch
<1>2. Stage = r /\ Stage' = r
  BY <1>1 DEF Stage, DispatchState, MonitorState, Roles, Terminal
<1>3. runState \notin WorkingStates /\ runState' \in WorkingStates
  BY <1>1 DEF WorkingStates, DispatchState, MonitorState, Roles
<1>4. failures < Limit
  BY <1>1 DEF IInv, FailuresLeft, DispatchState, Roles, Terminal
<1> QED BY <1>1, <1>2, <1>3, <1>4 DEF Contract!Attempt, Roles

\* An attempt without a result, or with one that is not accepted as a verdict,
\* is a failure of its role.
LEMMA FailStep ==
  ASSUME IInv, (\E r \in Roles : AgentFails(r)) \/ CollectNothing \/ CollectRejected
  PROVE  Contract!Fail
<1>1. /\ runState \in {"ExecutorMonitor", "ReviewerMonitor", "ReviewerOutputCollect"}
      /\ runState' = "RoundRetryDecide" /\ failures' = failures + 1
      /\ UNCHANGED <<role, review>>
  BY DEF AgentFails, CollectNothing, CollectRejected, Collecting, ToBeParsed, Retry, MonitorState,
         Roles
<1>2. role = IF runState = "ExecutorMonitor" THEN "executor" ELSE "reviewer"
  BY <1>1 DEF IInv, RoleOfPhase, ReviewerStates
<1>3. Stage = role /\ Stage' = role
  BY <1>1, <1>2 DEF Stage, Terminal
<1>4. runState \in WorkingStates /\ runState' \notin WorkingStates /\ failures < Limit
  BY <1>1 DEF WorkingStates, IInv, FailuresLeft, Terminal
<1> QED BY <1>1, <1>3, <1>4 DEF Contract!Fail

\* The verdict that is collected is the first on its delivery, or the one held.
LEMMA CollectStep ==
  ASSUME IInv, IInv', CollectVerdict
  PROVE  Contract!GiveAndFail \/ Contract!Submit
<1>1. runState = "ReviewerOutputCollect" /\ UNCHANGED role /\ review' # None
  BY DEF CollectVerdict, ToBeParsed, Collecting, IInv, DocumentInv, Document
<1>2. Contract!Give
  <2>1. CASE review = None
    <3>1. review' \in ReviewerYaml
      BY <1>1, WrittenAssumption DEF IInv, TypeOK
    <3>2. review'.decision \in Decisions
      BY <3>1 DEF ReviewerYaml
    <3> QED BY <1>1, <2>1, <3>2 DEF Contract!Give
  <2>2. CASE review # None
    <3>1. UNCHANGED review
      BY <2>2 DEF CollectVerdict, ToBeParsed
    <3>2. Verdict # "none" /\ Verdict' = Verdict
      BY <2>2, <3>1, VerdictType DEF Verdict
    <3> QED BY <3>2 DEF Contract!Give, Verdict
  <2> QED BY <2>1, <2>2
<1>3. Stage = "reviewer" /\ runState \in WorkingStates /\ failures < Limit /\ role = "reviewer"
  BY <1>1 DEF Stage, WorkingStates, IInv, FailuresLeft, RoleOfPhase, ReviewerStates, Terminal
<1>4. CASE dirty
  <2>1. runState' = "RoundRetryDecide" /\ failures' = failures + 1
    BY <1>4 DEF CollectVerdict, Retry
  <2>2. Stage' = "reviewer" /\ runState' \notin WorkingStates
    BY <1>1, <1>3, <2>1 DEF Stage, WorkingStates, Terminal
  <2> QED BY <1>2, <1>3, <2>1, <2>2 DEF Contract!GiveAndFail
<1>5. CASE ~dirty
  <2>1. runState' = "QualityGate" /\ UNCHANGED failures
    BY <1>5 DEF CollectVerdict
  <2>2. Stage' = "judged" /\ runState' \notin WorkingStates
    BY <2>1 DEF Stage, WorkingStates, Terminal
  <2> QED BY <1>2, <1>3, <2>1, <2>2 DEF Contract!Submit
<1> QED BY <1>4, <1>5

\* The gate ends the run or asks for another round, as the decision says.
LEMMA JudgeStep ==
  ASSUME IInv, QualityGate
  PROVE  Contract!Judge
<1>1. /\ runState = "QualityGate" /\ failures' = 0 /\ UNCHANGED review
      /\ runState' = AfterGate(review.decision) /\ review # None
  BY DEF QualityGate, IInv, VerdictInv
<1>2. review.decision \in Decisions /\ Verdict = review.decision
  BY <1>1, VerdictType
<1>3. Stage = "judged" /\ runState \notin WorkingStates
  BY <1>1 DEF Stage, WorkingStates, Terminal
<1>4. ASSUME NEW d \in Decisions, review.decision = d
      PROVE  Contract!Judge
  <2>1. runState' = AfterGate(d) /\ Verdict = d
    BY <1>1, <1>2, <1>4
  <2>2. CASE d = "accept"
    <3>1. runState' = "RunDone" /\ Stage' = "accepted" /\ runState' \notin WorkingStates
      BY <2>1, <2>2 DEF AfterGate, Stage, WorkingStates
    <3> QED BY <1>1, <1>3, <2>1, <2>2, <3>1 DEF Contract!Judge, Verdict
  <2>3. CASE d = "revise"
    <3>1. runState' = "RoundFeedbackPrep" /\ Stage' = "executor" /\ runState' \notin WorkingStates
      BY <2>1, <2>3 DEF AfterGate, Stage, WorkingStates, Terminal
    <3> QED BY <1>1, <1>3, <2>1, <2>3, <3>1 DEF Contract!Judge, Verdict
  <2>4. CASE d \in {"blocked", "irreconcilable", "poisoned"}
    <3>1. runState' \in Terminal \ {"RunDone"}
      BY <2>1, <2>4 DEF AfterGate, Terminal
    <3>2. Stage' = "stopped" /\ runState' \notin WorkingStates
      BY <3>1 DEF Stage, WorkingStates, Terminal
    <3> QED BY <1>1, <1>3, <2>1, <2>4, <3>2 DEF Contract!Judge, Verdict
  <2> QED BY <2>2, <2>3, <2>4 DEF Decisions
<1> QED BY <1>2, <1>4

\* Every step of the conversation is one of the contract or nothing to it.
LEMMA ContractStep ==
  IInv /\ IInv' /\ [Next]_vars => [Contract!Step]_(Contract!abstractVars)
<1> SUFFICES ASSUME IInv, IInv', [Next]_vars PROVE [Contract!Step]_(Contract!abstractVars)
  OBVIOUS
<1>1. CASE \/ ExecutorDelivers \/ (\E d \in Written : ReviewerWrites(d))
           \/ ReviewerWritesNothing \/ RoundFeedbackPrep
  BY <1>1, SameStage DEF ExecutorDelivers, ReviewerWrites, ReviewerWritesNothing,
     RoundFeedbackPrep, context, Stage, WorkingStates, Terminal
<1>2. CASE Ended \/ UNCHANGED vars
  BY <1>2 DEF Ended, vars, Contract!abstractVars, Stage
<1>3. CASE RoundRetryDecide
  <2>1. /\ runState = "RoundRetryDecide" /\ role \in Roles
        /\ UNCHANGED <<failures, review, role>>
        /\ runState' \in {"RunFailedConsecutiveFailureLimit", DispatchState(role)}
    BY <1>3 DEF RoundRetryDecide, context, IInv, RoleOfPhase
  <2>2. Stage = role /\ runState \notin WorkingStates
    BY <2>1 DEF Stage, WorkingStates, Terminal
  <2>3. CASE runState' = DispatchState(role)
    <3>1. Stage' = role /\ runState' \notin WorkingStates
      BY <2>1, <2>3 DEF Stage, DispatchState, WorkingStates, Terminal, Roles
    <3> QED BY <2>1, <2>2, <3>1, SameStage
  <2>4. CASE runState' = "RunFailedConsecutiveFailureLimit"
    <3>1. Stage' = "stopped" /\ runState' \notin WorkingStates
      BY <2>4 DEF Stage, WorkingStates, Terminal
    <3>2. Contract!Stop
      BY <2>1, <2>2, <3>1 DEF Contract!Stop, Roles
    <3> QED BY <3>2 DEF Contract!Step
  <2> QED BY <2>1, <2>3, <2>4
<1>4. CASE OrchVerify
  <2>1. Contract!Deliver
    BY <1>4 DEF OrchVerify, Contract!Deliver, Stage, WorkingStates, Terminal
  <2> QED BY <2>1 DEF Contract!Step
<1>5. ASSUME NEW r \in Roles, Dispatch(r) PROVE Contract!Step
  BY <1>5, AttemptStep DEF Contract!Step
<1>6. CASE (\E r \in Roles : AgentFails(r)) \/ CollectNothing \/ CollectRejected
  BY <1>6, FailStep DEF Contract!Step
<1>7. CASE CollectVerdict
  BY <1>7, CollectStep DEF Contract!Step
<1>8. CASE QualityGate
  BY <1>8, JudgeStep DEF Contract!Step
<1> QED BY <1>1, <1>2, <1>3, <1>4, <1>5, <1>6, <1>7, <1>8 DEF Next

\* The conversation keeps the contract that Orchestrator keeps, for every limit,
\* command line and set of documents.
THEOREM ConversationKeepsTheContract == Spec => KeepsTheContract
<1>1. Init => Contract!Begun
  BY DEF Init, Contract!Begun, Stage, WorkingStates, Terminal
<1> QED
  BY <1>1, ContractStep, IInvHolds, PTL DEF Spec, KeepsTheContract, Contract!LoopOnceBegun
=============================================================================
