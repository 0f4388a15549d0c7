----------------------------- MODULE ReviewLoop -----------------------------
(***************************************************************************)
(* What a run promises, without agents, files, locks or git: rounds of     *)
(* attempts by an executor and a reviewer, a bounded number of failures    *)
(* per round, and acceptance only through a verdict on the latest          *)
(* delivery.  Orchestrator implements it, and so does Review from the      *)
(* first dispatch on.                                                      *)
(***************************************************************************)
EXTENDS Naturals

CONSTANTS
  Limit,      (* failures a round may have                                 *)
  Decisions   (* what a verdict can say; "accept" and "revise" go on       *)

VARIABLES
  stage,      \* whose turn it is, or how the run ended
  working,    \* an attempt is under way
  fails,      \* failed attempts since the last judgement
  verdict     \* the verdict on the latest delivery, "none" before it is given

abstractVars == <<stage, working, fails, verdict>>

Start ==
  /\ stage = "setup" /\ ~working /\ fails = 0 /\ verdict = "none"

Begin ==
  /\ stage = "setup" /\ stage' = "executor"
  /\ UNCHANGED <<working, fails, verdict>>

\* No attempt begins once the failures are used up.
Attempt ==
  /\ stage \in {"executor", "reviewer"} /\ ~working /\ fails < Limit
  /\ working' = TRUE
  /\ UNCHANGED <<stage, fails, verdict>>

Fail ==
  /\ working /\ fails < Limit
  /\ working' = FALSE /\ fails' = fails + 1
  /\ UNCHANGED <<stage, verdict>>

\* A delivery voids the verdict on the one before.
Deliver ==
  /\ stage = "executor" /\ working
  /\ stage' = "reviewer" /\ working' = FALSE /\ verdict' = "none"
  /\ UNCHANGED fails

\* The first verdict on a delivery counts, though the reviewer may be sent
\* back (a failed attempt) before it is judged.
Give == verdict' \in IF verdict = "none" THEN Decisions ELSE {verdict}

GiveAndFail ==
  /\ stage = "reviewer" /\ working /\ fails < Limit
  /\ Give
  /\ working' = FALSE /\ fails' = fails + 1
  /\ UNCHANGED stage

Submit ==
  /\ stage = "reviewer" /\ working
  /\ Give
  /\ stage' = "judged" /\ working' = FALSE
  /\ UNCHANGED fails

Judge ==
  /\ stage = "judged"
  /\ stage' = CASE verdict = "accept" -> "accepted"
                [] verdict = "revise" -> "executor"
                [] OTHER -> "stopped"
  /\ fails' = 0
  /\ UNCHANGED <<working, verdict>>

\* A run may stop at any moment: cancelled, out of retries, or on an error,
\* which may come after the verdict was given.
Stop ==
  /\ stage \notin {"accepted", "stopped"}
  /\ \/ UNCHANGED verdict
     \/ stage = "reviewer" /\ working /\ Give
  /\ stage' = "stopped" /\ working' = FALSE
  /\ UNCHANGED fails

Step == Begin \/ Attempt \/ Fail \/ Deliver \/ GiveAndFail \/ Submit \/ Judge \/ Stop

Loop == Start /\ [][Step]_abstractVars

\* The same promise from the moment the set-up is behind the run.
Begun ==
  /\ stage = "executor" /\ ~working /\ fails = 0 /\ verdict = "none"

LoopOnceBegun == Begun /\ [][Step]_abstractVars
=============================================================================
