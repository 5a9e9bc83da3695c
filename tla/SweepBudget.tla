---------------------------- MODULE SweepBudget ----------------------------
(***************************************************************************)
(* SweepBudget of autornd/evals/runner.py: one ceiling across every unit   *)
(* of an invocation.  Money is counted in whole units, so the comparisons  *)
(* carry no tolerance (_BUDGET_EPSILON is far below one).  NoCap stands    *)
(* for an absent per-unit cap.                                             *)
(***************************************************************************)
EXTENDS Integers

NoCap == -1

Remaining(spent, cap) == IF spent < cap THEN cap - spent ELSE 0

(* The fit rule: a unit starts only if it could not overrun the sweep.     *)
CanStart_IgnoresUnit(spent, cap, unitCap) == spent < cap

(* With a per-unit cap the fit rule decides, without one the backstop.     *)
CanStart(spent, cap, unitCap) ==
  IF unitCap # NoCap THEN spent + unitCap <= cap ELSE spent < cap

UnitCeiling_WholeCap(spent, cap, unitCap) ==
  IF unitCap = NoCap THEN cap ELSE unitCap

(* The spend ceiling of the unit's client.                                 *)
UnitCeiling(spent, cap, unitCap) ==
  IF unitCap = NoCap \/ Remaining(spent, cap) < unitCap
  THEN Remaining(spent, cap) ELSE unitCap

SkipReason_Exhausted(spent, cap, unitCap) == "exhausted"

(* SweepBudget.skip: why a unit was not started. *)
SkipReason(spent, cap, unitCap) ==
  IF unitCap # NoCap /\ Remaining(spent, cap) > 0 THEN "fit" ELSE "exhausted"

(* What the configuration guarantees before anything is paid.              *)
UnitsThatCanEverStart(cap, unitCap) == cap \div unitCap
=============================================================================
