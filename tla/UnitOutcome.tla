---------------------------- MODULE UnitOutcome ----------------------------
(***************************************************************************)
(* How a unit of the tier-3 and tier-4 experiments ends: the classes of    *)
(* run_unit (evals/tier3/runner.py) and run_tier4_unit                     *)
(* (evals/tier4/runner.py).  Arms A, B, C, D and D-pages call a serving    *)
(* themselves; arms E and F run a workflow through run_scenario.           *)
(***************************************************************************)
EXTENDS Integers

SingleCall == {"A", "D", "D-pages"}
Pipelines == {"E", "F"}
Arms == SingleCall \cup {"B", "C"} \cup Pipelines

(* The classes a unit that started ends in.                                *)
Ran == {"delivered", "refusal", "serving_error", "deadline", "incomplete"}
Statuses == Ran \cup {"skipped", "not_run"}

(* An empty reply is the model's refusal unless the serving failed it.     *)
AnswerStatus(text, lastFinish) ==
  IF text = "text" THEN "delivered"
  ELSE IF lastFinish = "error" THEN "serving_error" ELSE "refusal"

(* answer_of: a run that completed ships its implementation; one that did  *)
(* not is read for the iteration its judges approved, then for its         *)
(* unendorsed candidate.                                                   *)
AnswerOf(run) ==
  IF run.status = "completed" THEN "shipped"
  ELSE IF run.approved THEN "approved, not shipped"
  ELSE IF run.candidate THEN "unendorsed candidate" ELSE "no answer"

PipelineStatus(kind) == IF kind = "no answer" THEN "incomplete" ELSE "delivered"

(* UnitResult.delivered: a pipeline delivers only what it shipped.         *)
Delivered(arm, status, kind) ==
  status = "delivered" /\ (arm \in Pipelines => kind = "shipped")

(* What the end of a unit tells the sweep: its class, whether the account  *)
(* is out of credit (a 402), and whether its spend was booked.  Arms A-D   *)
(* book in run_unit whatever ended them; a pipeline books in run_scenario, *)
(* which the unit's outer deadline cancels before it gets there, and the   *)
(* handler's own booking for that case never runs (its run is unassigned). *)
Outcome(status, credit, booked) ==
  [status |-> status, credit |-> credit, booked |-> booked]

UnitOutcomes(arm) ==
  IF arm \in Pipelines
  THEN [status : {"delivered", "incomplete"}, credit : BOOLEAN, booked : {TRUE}]
       \cup {Outcome("deadline", FALSE, FALSE)}
  ELSE [status : Ran, credit : {FALSE}, booked : {TRUE}]
       \cup {Outcome("incomplete", TRUE, TRUE)}
=============================================================================
