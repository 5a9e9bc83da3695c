---------------------------- MODULE PlanRecord -----------------------------
(***************************************************************************)
(* What an experiment promises of its results: "a restart skips every unit *)
(* already recorded - nothing runs twice or out of order"                  *)
(* (evals/tier3/manifest.json, execution/resume).  The results are a       *)
(* sequence in the plan's order that only ever grows at its end, one unit  *)
(* at a time; a unit that was never run has none.                          *)
(***************************************************************************)
EXTENDS Integers, Sequences

CONSTANTS Units, Classes

VARIABLE results

Init == results = <<>>

Settle(status) ==
  /\ Len(results) < Units
  /\ results' = Append(results, status)

Next == \E status \in Classes : Settle(status)

Spec == Init /\ [][Next]_results
=============================================================================
