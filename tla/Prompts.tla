------------------------------ MODULE Prompts ------------------------------
(***************************************************************************)
(* What a request says (src/src/workflow.rs).  A rendered template is the  *)
(* set of the instructions it holds, each under a name; the wording is     *)
(* left out.  An instruction that a template has for some providers,       *)
(* workflows, policies or results only is there exactly for those.         *)
(*                                                                         *)
(* A value record v holds the fields of TemplateValues that decide about   *)
(* an instruction: provider, workflow, remote, outboxPresent.              *)
(***************************************************************************)
EXTENDS VerdictCheck

Providers == {"claude", "opencode", "codex"}
Workflows == {"plan", "investigate", "implement"}
RemotePolicies == {"forbidden", "read_only", "operational"}

Templates == {"ExecutorInitial", "ExecutorFeedback", "ReviewerReview",
              "ReviewerRepairYaml", "ReviewerRepairWorkspace"}

-----------------------------------------------------------------------------
(***************************************************************************)
(* Parts the templates share.                                              *)
(***************************************************************************)

\* workflow_contract_text names the artifact of the workflow, if it has one.
WorkflowContract(wf) ==
  {"local_commit", "outbox_not_empty"} \cup When("plan_file", wf = "plan") \cup
  When("investigation_file", wf = "investigate") \cup
  When("clean_worktree", wf = "implement")

\* run_paths_section
RunPaths == {"workspace_root", "absolute_paths"}

\* The paths of the protocol documents.
ProtocolPaths == {"notion_protocol", "gitlab_protocol"}

\* claude_subagent_rule, opencode_outbox_write_rule and
\* opencode_reviewer_outbox_read_rule
SubagentRule(provider) == When("subagents", provider = "claude")
OpencodeOutboxRule(provider) == When("read_before_write", provider = "opencode")

\* remote_network_policy_section; only the strictest says nothing of reporting
\* remote actions.
RemotePolicySection(policy) ==
  CASE policy = "forbidden"   -> {"remote_policy", "no_remote_access"}
    [] policy = "read_only"   -> {"remote_policy", "report_remote_actions"}
    [] policy = "operational" -> {"remote_policy", "report_remote_actions", "no_db_mutation"}

\* project_profiles_common_section, and what each role reports of it.
ExecutorProfiles == {"profiles", "report_profiles"}
ReviewerProfiles == {"profiles", "check_profiles"}

\* artifact_structure_name and artifact_structure_items
ArtifactStructure(wf) == When("artifact_structure", wf # "implement")

\* plan_investigation_rule, implement_plan_rule, existing_artifact_refine_rule
InputArtifactRules(wf) ==
  When("use_investigation", wf = "plan") \cup When("use_plan", wf = "implement") \cup
  When("refine_artifact", wf # "implement")

\* executor_breakage_block_rule, executor_implement_verification_scope_rule,
\* executor_plan_test_coverage_rule, executor_investigation_causal_chain_rule
ExecutorWorkflowRules(wf) ==
  When("what_could_break", wf # "investigate") \cup
  When("no_full_build", wf = "implement") \cup
  (IF wf = "plan" THEN {"materializable_steps", "automated_tests"} ELSE {}) \cup
  (IF wf = "investigate" THEN {"causal_chain", "evidence"} ELSE {})

\* Rules on git and on the outbox in both executor templates.
ExecutorWorkingRules ==
  {"read_inbox", "reread_artifacts", "truncate_then_write", "no_push",
   "no_history_rewrite", "commit", "english", "report_verification"}

-----------------------------------------------------------------------------
(***************************************************************************)
(* The templates.                                                          *)
(***************************************************************************)

ProfilesNotNamed(v) ==
  {"user_prompt"} \cup WorkflowContract(v.workflow) \cup RunPaths \cup ProtocolPaths \cup
  RemotePolicySection(v.remote) \cup SubagentRule(v.provider) \cup
  OpencodeOutboxRule(v.provider) \cup ArtifactStructure(v.workflow) \cup
  InputArtifactRules(v.workflow) \cup ExecutorWorkflowRules(v.workflow) \cup
  ExecutorWorkingRules
ExecutorInitial(v) ==
  {"user_prompt"} \cup WorkflowContract(v.workflow) \cup RunPaths \cup ProtocolPaths \cup
  RemotePolicySection(v.remote) \cup ExecutorProfiles \cup SubagentRule(v.provider) \cup
  OpencodeOutboxRule(v.provider) \cup ArtifactStructure(v.workflow) \cup
  InputArtifactRules(v.workflow) \cup ExecutorWorkflowRules(v.workflow) \cup
  ExecutorWorkingRules

\* The executor is not told the protocols and its input artifacts again.
ExecutorFeedback(v) ==
  {"user_prompt", "git_facts", "review_result", "feedback", "answer_each_item"} \cup
  WorkflowContract(v.workflow) \cup RunPaths \cup RemotePolicySection(v.remote) \cup
  ExecutorProfiles \cup SubagentRule(v.provider) \cup OpencodeOutboxRule(v.provider) \cup
  ArtifactStructure(v.workflow) \cup ExecutorWorkflowRules(v.workflow) \cup
  ExecutorWorkingRules

\* reviewer_artifact_compliance_requirements,
\* reviewer_investigate_independent_validation_rule and
\* reviewer_workflow_coverage_rule: what the reviewer holds against the work.
\* The item on the plan stands in every review, for the workflow "implement".
ReviewerWorkflowRules(wf) ==
  {"check_coverage"} \cup
  (IF wf = "plan" THEN {"check_structure", "check_steps", "check_tests"} ELSE {}) \cup
  (IF wf = "investigate" THEN {"check_structure", "check_causal_chain", "check_evidence"} ELSE {}) \cup
  When("check_plan_items", wf = "implement")

\* The outbox section: either there is a report to read, or there is none.
OutboxSection(v) ==
  IF v.outboxPresent THEN {"read_report"} \cup OpencodeOutboxRule(v.provider)
                     ELSE {"no_report"}

\* The rules of VerdictCheck a template states.  The review lists the fields
\* there must be, and not that there may be no others; it does not say that the
\* rationale must not be blank, asks for the reason of a block for a breach of
\* the remote policy only and for that of a disagreement nowhere, and says that
\* thresholds are applied automatically instead of naming one.  What it says of
\* fences, anchors, aliases and tags is about YAML: nothing is said of the
\* patterns that are searched for in the text (VerdictCheck, misread).
ReviewStates ==
  {"fence", "separator", "anchor", "alias", "tag", "unparsable", "documents",
   "schema", "score_range", "accept_contract", "accept_blockers", "feedback",
   "poisoned_reason", "notion_absent", "notion_unmet"}

ReviewerReview(v) ==
  {"user_prompt", "git_facts", "full_review", "only_outbox", "no_history_rewrite",
   "reread_artifacts", "check_commits", "check_remote_policy", "no_formatters", "english"} \cup
  WorkflowContract(v.workflow) \cup RunPaths \cup ProtocolPaths \cup
  RemotePolicySection(v.remote) \cup ReviewerProfiles \cup SubagentRule(v.provider) \cup
  OutboxSection(v) \cup ArtifactStructure(v.workflow) \cup
  ReviewerWorkflowRules(v.workflow) \cup ReviewStates

\* STRICT_FIELDS_CHECKLIST and the "minimal schema", which again does not say
\* that it is all there may be; with them goes the rule reported broken last.
RepairStates ==
  {"fence", "separator", "unparsable", "documents", "schema", "score_range",
   "accept_contract", "accept_blockers", "feedback", "blocking_reason",
   "irreconcilable_reason", "poisoned_reason", "notion_absent"}

ReasonNotGiven(v) ==
  {"fix_protocol_only", "keep_protocols", "english"} \cup RunPaths \cup
  SubagentRule(v.provider) \cup RepairStates
ReviewerRepairYaml(v) ==
  {"fix_protocol_only", "keep_protocols", "english", v.rejection} \cup RunPaths \cup
  SubagentRule(v.provider) \cup RepairStates

ReviewerRepairWorkspace(v) ==
  {"clean_only", "keep_outbox", "keep_protocols", "commit_or_revert", "no_push",
   "no_history_rewrite"} \cup RunPaths \cup SubagentRule(v.provider)

\* render_template
Render(template, v) ==
  CASE template = "ExecutorInitial"         -> ExecutorInitial(v)
    [] template = "ExecutorFeedback"        -> ExecutorFeedback(v)
    [] template = "ReviewerReview"          -> ReviewerReview(v)
    [] template = "ReviewerRepairYaml"      -> ReviewerRepairYaml(v)
    [] template = "ReviewerRepairWorkspace" -> ReviewerRepairWorkspace(v)

-----------------------------------------------------------------------------
\* What the reviewer is asked to check, and the instruction to the executor
\* that makes it a fair demand.
DemandOf ==
  [check_structure |-> "artifact_structure", check_steps |-> "materializable_steps",
   check_tests |-> "automated_tests", check_causal_chain |-> "causal_chain",
   check_evidence |-> "evidence", check_plan_items |-> "use_plan",
   check_profiles |-> "report_profiles", check_commits |-> "commit",
   check_remote_policy |-> "remote_policy"]
=============================================================================
