------------------------------ MODULE MCReview ------------------------------
(***************************************************************************)
(* Instance of Review for TLC.                                             *)
(***************************************************************************)
EXTENDS Review, FiniteSets

CONSTANT MaxFaults  (* faults in one document *)

\* Every provider in either role, every workflow and every policy.
MCArguments ==
  {[executor |-> "claude", reviewer |-> "opencode", workflow |-> "plan",
    notion |-> "required", remote |-> "forbidden"],
   [executor |-> "codex", reviewer |-> "claude", workflow |-> "investigate",
    notion |-> "required", remote |-> "read_only"],
   [executor |-> "opencode", reviewer |-> "codex", workflow |-> "implement",
    notion |-> "optional", remote |-> "operational"]}

\* Fields no rule of the decision reads have one value, and the two reasons
\* beside "blocked" are like it.  The faults of form come with the decision
\* of most rules.
Relevant(d) ==
  /\ d.decision # "accept" => ~d.contract /\ d.blockers /\ d.score # 7
  /\ d.decision # "revise" => ~d.feedback
  /\ d.decision \in {"accept", "revise"} => ~d.reason
  /\ d.score = 11 => d.decision = "revise"
  /\ d.decision = "poisoned" => d.rationale
  /\ d.notion # "met" => d.decision \in {"accept", "revise"}
  /\ d.misread \subseteq d.form
  /\ d.form # {} => d.decision = "accept" /\ d.notion = "met"

\* One pattern of the text, found for an anchor or in prose, stands for all.
MCWritten ==
  {d \in [form : SUBSET {"anchor", "unknown_field"}, misread : SUBSET {"anchor"},
          decision : {"accept", "revise", "blocked", "poisoned"},
          score : {7, 8, 11}, rationale : BOOLEAN, contract : BOOLEAN, blockers : BOOLEAN,
          feedback : BOOLEAN, reason : BOOLEAN, notion : {"absent", "met", "unmet"}] :
     Relevant(d) /\ Cardinality(Faults(d, "required")) <= MaxFaults}
=============================================================================
