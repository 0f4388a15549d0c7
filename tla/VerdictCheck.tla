---------------------------- MODULE VerdictCheck ----------------------------
(***************************************************************************)
(* What the orchestrator makes of the document a reviewer leaves in        *)
(* outbox.txt (src/src/yaml_check.rs, and enforce_reviewer_notion_policy   *)
(* of orchestrator/phases.rs).                                             *)
(*                                                                         *)
(* A document is what the parser finds wrong with its form, and what it    *)
(* says once that is mended.  The checks stop at the first fault, and that *)
(* one alone is reported back to the reviewer.                             *)
(*                                                                         *)
(* The first tests look at the text and not at the YAML: a hit need not be *)
(* a breach of the protocol.  Such a hit is "misread".                     *)
(***************************************************************************)
EXTENDS Integers, Sequences

Decisions == {"accept", "revise", "blocked", "irreconcilable", "poisoned"}
NotionPolicies == {"required", "optional"}

MinAcceptScore == 8
ScoreRange == 0..10

\* prescan_reviewer_yaml: patterns searched for anywhere in the raw text, then
\* the text is loaded once.
Textual == {"fence", "separator", "anchor", "alias", "tag"}
PrescanFaults == Textual \cup {"unparsable", "documents"}

\* serde: a field it does not know, or one missing or of the wrong type.
FormFaults == PrescanFaults \cup {"unknown_field", "schema"}

\* The order of the checks: form, then validate_reviewer_yaml (score,
\* rationale, the rules of the decision), then the Notion policy.
CheckOrder ==
  <<"fence", "separator", "anchor", "alias", "tag", "unparsable", "documents",
    "unknown_field", "schema", "score_range", "rationale", "accept_score", "accept_contract",
    "accept_blockers", "feedback", "blocking_reason", "irreconcilable_reason",
    "poisoned_reason", "notion_absent", "notion_unmet">>

AllFaults == {CheckOrder[i] : i \in 1..20}

\* The outbox as a ReviewerYaml.  form holds the checks of its form it fails;
\* serde stops at the first fault it meets, so of its two there is one at most.
\* misread holds the patterns that are found but where the protocol is kept:
\* prose with ``` or `x: &str` or a line *emphasised*, a leading `---`.
\* feedback says whether the list has an item, reason whether the reason field
\* of the decision holds more than blanks.  What the three free-form fields
\* hold is never looked at.
ReviewerYaml ==
  {d \in [form : SUBSET FormFaults, misread : SUBSET Textual, decision : Decisions,
          score : Int, rationale : BOOLEAN, contract : BOOLEAN, blockers : BOOLEAN,
          feedback : BOOLEAN, reason : BOOLEAN, notion : {"absent", "met", "unmet"}] :
     d.misread \subseteq d.form /\ ~({"unknown_field", "schema"} \subseteq d.form)}

-----------------------------------------------------------------------------
When(x, holds) == IF holds THEN {x} ELSE {}

AcceptFaultsOffByOne(d) ==
  When("accept_score", d.score < MinAcceptScore - 1) \cup
  When("accept_contract", ~d.contract) \cup When("accept_blockers", d.blockers)
AcceptFaults(d) ==
  When("accept_score", d.score < MinAcceptScore) \cup
  When("accept_contract", ~d.contract) \cup When("accept_blockers", d.blockers)

DecisionFaults(d) ==
  (IF d.decision = "accept" THEN AcceptFaults(d) ELSE {}) \cup
  When("feedback", d.decision = "revise" /\ ~d.feedback) \cup
  When("blocking_reason", d.decision = "blocked" /\ ~d.reason) \cup
  When("irreconcilable_reason", d.decision = "irreconcilable" /\ ~d.reason) \cup
  When("poisoned_reason", d.decision = "poisoned" /\ ~d.reason)

\* validate_reviewer_yaml
ValidateFaults(d) ==
  When("score_range", d.score \notin ScoreRange) \cup
  When("rationale", ~d.rationale) \cup DecisionFaults(d)

\* enforce_reviewer_notion_policy
NotionFaults(d, policy) ==
  IF policy # "required" THEN {}
  ELSE When("notion_absent", d.notion = "absent") \cup
       When("notion_unmet", d.decision = "accept" /\ d.notion = "unmet")

\* A document is taken when no check fails.
Faults(d, policy) == d.form \cup ValidateFaults(d) \cup NotionFaults(d, policy)
Taken(d, policy) == Faults(d, policy) = {}

\* The check that fails first is the one that is reported.
FirstFault(d, policy) ==
  LET hits == {i \in 1..20 : CheckOrder[i] \in Faults(d, policy)}
  IN  CheckOrder[CHOOSE i \in hits : \A j \in hits : i <= j]

-----------------------------------------------------------------------------
\* The rules of the protocol a document really breaks.
Breaches(d, policy) == Faults(d, policy) \ d.misread

\* What a verdict the gate acts on has to be: the format and the strict rules
\* of src/README.md 271-300.
Sound(d, policy) ==
  /\ d.form \subseteq d.misread /\ d.score \in 0..10 /\ d.rationale
  /\ policy = "required" => d.notion # "absent"
  /\ d.decision = "accept" => /\ d.score >= 8 /\ d.contract /\ ~d.blockers
                              /\ policy = "required" => d.notion = "met"
  /\ d.decision = "revise" => d.feedback
  /\ d.decision \notin {"accept", "revise"} => d.reason
=============================================================================
