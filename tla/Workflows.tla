----------------------------- MODULE Workflows -----------------------------
(***************************************************************************)
(* The shipped workflows that produce an answer: workflows/full-team.yaml, *)
(* the default pipeline (triage, plan with one re-grounding round, the     *)
(* build loop and its judges, review and rework, escalation and recovery,  *)
(* the independent check), lean.yaml, verify-first.yaml and                *)
(* answer-and-recompute.yaml.                                              *)
(***************************************************************************)
EXTENDS WorkflowSpec

CONSTANTS
  MaxIterations,       \* max_iterations
  RecoveryAttempts,    \* escalation_recovery_attempts
  ReworkAttempts       \* review_rework_attempts

ASSUME BudgetAssumption ==
  /\ MaxIterations \in Nat /\ RecoveryAttempts \in Nat /\ ReworkAttempts \in Nat

-----------------------------------------------------------------------------
(***************************************************************************)
(* What the phases and checks a workflow's nodes run may answer            *)
(* (autornd/engine/phases.py through autornd/graph/adapter.py, and         *)
(* autornd/graph/checks.py).  A verdict is abstracted to the fields that a *)
(* condition, a check or the executor reads.                               *)
(***************************************************************************)

(* implement: its green, done and blocked_on together.  "unmet" names an   *)
(* ask it cannot satisfy.                                                  *)
Green == {"green", "green undone"}
UndoneOutputs == {"green undone", "red undone"}
RedOf(implement) ==
  IF implement = "green" THEN "red"
  ELSE IF implement = "green undone" THEN "red undone" ELSE implement

Verdict(pass) == {IF pass THEN "passed" ELSE "failed"}

(* judges_agree over the two judges of the build fold, and over the fold   *)
(* and the review.                                                         *)
BuildAgrees(outputs) ==
  outputs["implement"] \in Green /\ outputs["validate"] = "green"

ReviewAgrees(outputs) ==
  outputs["judges"] = "passed" /\ outputs["rework_review"] = "ship"

(* Novel unknowns to look up: none for a ready plan, nor after a round.    *)
MayReground(outputs) ==
  outputs["plan"] = "unready" /\ outputs["reground_lookup"] = None

Answers(n, outputs) ==
  CASE n = "triage" -> {"recallable", "unrecallable"}
    [] n = "plan" -> {"ready", "unready"}
    [] n = "reground_context" -> Verdict(MayReground(outputs)) \cup {"failed"}
    [] n = "implement" -> Green \cup {"red", "red undone", "unmet"}
    [] n = "blocked_check" -> Verdict(outputs["implement"] # "unmet")
    [] n = "validate" -> {"green", "red"}
    [] n = "judges" -> Verdict(BuildAgrees(outputs))
    [] n = "review_fold" -> Verdict(ReviewAgrees(outputs))
    [] n = "escalation" -> {"recoverable", "human"}
    [] n \in {"review", "rework_review"} -> {"ship", "hold"}
    [] n = "independent_check" -> {"ship", "veto", "skipped"}
    [] n = "recompute" -> {"sampled", "skipped"}
    [] OTHER -> {"done"}

(* The outputs a node leaves.  domain_review also turns the implementation *)
(* red, in place, when a concern is critical.                              *)
PhaseOutcomes(n, outputs) ==
  LET stored == {[outputs EXCEPT ![n] = a] : a \in Answers(n, outputs)}
  IN IF n = "domain_review"
     THEN stored \cup {[o EXCEPT !["implement"] = RedOf(@)] : o \in stored}
     ELSE stored

-----------------------------------------------------------------------------
(* The graphs. *)

Build_NoBlockedCheck == <<"implement", "blocked_gate", "domain_review",
                          "coverage", "consistency", "validate", "judges">>

Build == <<"implement", "blocked_check", "blocked_gate", "domain_review",
           "coverage", "consistency", "validate", "judges">>
Rework_ReviewFirst == <<"implement", "blocked_check", "blocked_terminal", "rework_review",
                        "domain_review", "coverage", "consistency", "validate", "judges",
                        "review_fold">>
Rework == <<"implement", "blocked_check", "blocked_terminal", "domain_review",
            "coverage", "consistency", "validate", "judges",
            "rework_review", "review_fold">>

FullTeamGraph ==
  [file |->
     <<"triage", "asks", "asks_anchored", "context", "plan", "feasibility",
       "reground_context", "reground_lookup", "regrounding_loop", "plan_ready",
       "verify_grounding", "implement", "blocked_check", "blocked_gate",
       "blocked_terminal", "domain_review", "coverage", "consistency",
       "validate", "judges", "build_loop", "escalation", "recoverable",
       "recovery_loop", "review", "review_clean", "rework_review",
       "review_fold", "review_rework_loop", "independent_check",
       "independent_verdict">>,
   node |->
     [triage |-> Ai({}),
      asks |-> Ai({"triage"}),
      asks_anchored |-> Check({"asks"}),
      context |-> Check({"asks_anchored"}),
      plan |-> Ai({"context", "asks_anchored"}),
      feasibility |-> [Ai({"regrounding_loop"}) EXCEPT !.when = Test("plan", {"ready"})],
      reground_context |-> Check({}),
      reground_lookup |-> [Check({}) EXCEPT !.when = Passed("reground_context")],
      regrounding_loop |->
        RepeatUntil({"context"}, <<"plan", "reground_context", "reground_lookup">>,
                    Test("reground_context", {"failed"}), 2),
      plan_ready |-> Gate({"regrounding_loop"}, Test("plan", {"ready"}), "blocked"),
      verify_grounding |-> Check({"plan_ready"}),
      implement |-> Ai({}),
      blocked_check |-> Check({"implement"}),
      blocked_gate |-> Gate({"blocked_check"}, Passed("blocked_check"), "escalation"),
      blocked_terminal |-> Gate({"blocked_check"}, Passed("blocked_check"), "blocked"),
      domain_review |-> [Ai({"implement"}) EXCEPT !.when = Test("implement", Green)],
      coverage |-> Check({"implement"}),
      consistency |-> Check({"implement"}),
      validate |-> Ai({"coverage", "consistency", "domain_review"}),
      judges |-> Check({"implement", "coverage", "consistency", "validate"}),
      build_loop |->
        [RepeatUntil({"verify_grounding"}, Build, Passed("judges"), MaxIterations)
           EXCEPT !.onExhausted = "escalation"],
      escalation |-> Ai({}),
      recoverable |-> Gate({"escalation"}, Test("escalation", {"recoverable"}), "blocked"),
      recovery_loop |->
        [RepeatUntil({"recoverable"}, Rework, Passed("review_fold"), RecoveryAttempts)
           EXCEPT !.exhaustedStatus = "escalated"],
      review |-> Ai({"build_loop"}),
      review_clean |-> Gate({"review"}, Test("review", {"ship"}), "review_rework_loop"),
      rework_review |-> Ai({"validate"}),
      review_fold |-> Check({"judges", "rework_review"}),
      review_rework_loop |->
        [RepeatUntil({}, Rework, Passed("review_fold"), ReworkAttempts)
           EXCEPT !.onExhausted = "escalation"],
      independent_check |->
        [Ai({"review_clean"}) EXCEPT !.when = Test("triage", {"unrecallable"})],
      independent_verdict |->
        [Gate({"independent_check"}, Test("independent_check", {"ship", "skipped"}), "blocked")
           EXCEPT !.when = Test("triage", {"unrecallable"})]]]

-----------------------------------------------------------------------------
Intake == [triage |-> Ai({}),
           asks |-> Ai({"triage"}),
           asks_anchored |-> Check({"asks"}),
           context |-> Check({"asks_anchored"})]

(* plan, build until the two paid judges agree, review; budget is          *)
(* max_iterations.  The review's verdict is not gated.                     *)
Lean(budget) ==
  [file |-> <<"triage", "asks", "asks_anchored", "context", "plan", "plan_ready",
              "implement", "coverage", "validate", "judges", "build_loop", "review">>,
   node |-> Intake @@
     [plan |-> Ai({"context", "asks_anchored"}),
      plan_ready |-> Gate({"plan"}, Test("plan", {"ready"}), "blocked"),
      implement |-> Ai({}),
      coverage |-> Check({"implement"}),
      validate |-> Ai({"coverage"}),
      judges |-> Check({"implement", "coverage", "validate"}),
      build_loop |->
        [RepeatUntil({"plan_ready"}, <<"implement", "coverage", "validate", "judges">>,
                     Passed("judges"), budget)
           EXCEPT !.exhaustedStatus = "escalated"],
      review |-> Ai({"build_loop"})]]

(* No plan: answer, check, have another lineage judge, at most twice.      *)
VerifyFirst ==
  [file |-> <<"triage", "asks", "asks_anchored", "context", "implement", "blocked_check",
              "blocked_gate", "coverage", "consistency", "validate", "judges",
              "verify_loop">>,
   node |-> Intake @@
     [implement |-> Ai({}),
      blocked_check |-> Check({"implement"}),
      blocked_gate |-> Gate({"blocked_check"}, Passed("blocked_check"), "blocked"),
      coverage |-> Check({"implement"}),
      consistency |-> Check({"implement"}),
      validate |-> Ai({"coverage", "consistency"}),
      judges |-> Check({"implement", "coverage", "consistency", "validate"}),
      verify_loop |->
        [RepeatUntil({"context"},
                     <<"implement", "blocked_check", "blocked_gate", "coverage",
                       "consistency", "validate", "judges">>,
                     Passed("judges"), 2)
           EXCEPT !.exhaustedStatus = "escalated"]]]

(* One answer, and an advisory blind recomputation of it.                  *)
AnswerAndRecompute ==
  [file |-> <<"triage", "asks", "asks_anchored", "context", "implement", "blocked_check",
              "blocked_gate", "coverage", "consistency", "recompute", "recompute_vote">>,
   node |-> Intake @@
     [implement |-> Ai({"context"}),
      blocked_check |-> Check({"implement"}),
      blocked_gate |-> Gate({"blocked_check"}, Passed("blocked_check"), "blocked"),
      coverage |-> Check({"implement"}),
      consistency |-> Check({"implement"}),
      recompute |-> [Ai({"consistency"}) EXCEPT !.advisory = TRUE],
      recompute_vote |-> Check({"recompute"})]]

-----------------------------------------------------------------------------
(* The graphs the runs walk: those, and one of the features none of them   *)
(* uses, a gate with no on_fail, a loop with no on_exhausted, a condition  *)
(* on a node that may have been skipped.                                   *)
Features ==
  [file |-> <<"triage", "context", "plan", "plan_ready", "implement", "validate",
              "judges", "build_loop", "review", "review_clean">>,
   node |->
     [triage |-> Ai({}),
      context |-> [Check({"triage"}) EXCEPT !.when = Test("triage", {"recallable"})],
      plan |-> [Ai({"context"}) EXCEPT !.when = Test("context", {"done"})],
      plan_ready |-> Gate({"plan"}, Test("plan", {"ready"}), None),
      implement |-> Ai({}),
      validate |-> Ai({"implement"}),
      judges |-> Check({"implement", "validate"}),
      build_loop |-> RepeatUntil({"plan_ready"}, <<"implement", "validate", "judges">>,
                                 Passed("judges"), 2),
      review |-> Ai({"build_loop"}),
      review_clean |-> Gate({"review"}, Test("review", {"ship"}), "escalated")]]

AllWorkflows ==
  [full_team |-> FullTeamGraph, lean |-> Lean(3), verify_first |-> VerifyFirst,
   answer_and_recompute |-> AnswerAndRecompute, features |-> Features]

AllRequirements ==
  [w \in DOMAIN AllWorkflows |->
     CASE w = "full_team" -> {"build", "review"}
       [] w \in {"lean", "verify_first"} -> {"build"}
       [] OTHER -> {}]
=============================================================================
