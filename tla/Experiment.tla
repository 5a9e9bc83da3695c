---------------------------- MODULE Experiment -----------------------------
(***************************************************************************)
(* run_experiment (evals/tier3/runner.py) and _run_tier4_experiment        *)
(* (evals/tier4/runner.py): the units of a plan run in order under one     *)
(* SweepBudget and one append-only results log, through kills, restarts    *)
(* and the provider's credit running out.  A unit is its place in the      *)
(* plan.  Of the log the model keeps what the code reads back: the         *)
(* unit_started lines, the units with a line that is evidence of a run,    *)
(* and each unit's last line.                                              *)
(***************************************************************************)
EXTENDS UnitOutcome, SweepBudget, Sequences, FiniteSets, FiniteSetsExt

CONSTANTS
  Tiers,            \* the runners checked, of "tier3" and "tier4"
  Units,            \* how many units the plan has
  Arm,              \* the arm of each
  Ceiling,          \* its per-unit ceiling
  Cap,              \* the authorised total
  Liabilities,      \* what a unit's calls that cannot be reconciled may have cost
  Overshoot,        \* how far the calls in flight carry a unit past its ceiling
  MaxLaunches       \* bounds the launches

Places == 1..Units

ASSUME ExperimentAssumption ==
  /\ Tiers \subseteq {"tier3", "tier4"}
  /\ Units \in Nat
  /\ Arm \in [Places -> Arms]
  /\ Ceiling \in [Places -> Nat]
  /\ Cap \in Nat /\ \A u \in Places : Ceiling[u] <= Cap
  /\ Liabilities \subseteq Nat /\ Overshoot \in Nat
  /\ MaxLaunches \in Nat

VARIABLES
  tier,        \* which runner
  pc,          \* where the invocation is
  place,       \* the unit its loop is at
  recorded,    \* recorded_units() as it read them at its start
  spent,       \* its SweepBudget's spent
  header,      \* the plan the results file holds: "none", "this" or "other"
  starts,      \* the unit_started lines
  evidence,    \* the units with a line whose status is not not_run
  last,        \* the status of each unit's last line, "none" when it has none
  marker,      \* the authorisation's claim file, and who it names
  rival,       \* a launcher of another results file on the same authorisation
  launches,    \* launches so far
  paid,        \* ghost: what this invocation's units were billed, at most
  unbooked,    \* ghost: the part of it the budget was never told
  killed       \* ghost: the unit the last kill cut, 0 for none

log == <<header, starts, evidence, last>>
money == <<spent, paid, unbooked>>
vars == <<tier, pc, place, recorded, spent, header, starts, evidence, last,
          marker, rival, launches, paid, unbooked, killed>>

Init ==
  /\ tier \in Tiers
  /\ pc = "down" /\ place = 1 /\ recorded = {}
  /\ header \in {"none", "other"}
  /\ starts = <<>> /\ evidence = {} /\ last = [u \in Places |-> "none"]
  /\ marker = "none" /\ rival = "idle" /\ launches = 0
  /\ spent = 0 /\ paid = 0 /\ unbooked = 0 /\ killed = 0

-----------------------------------------------------------------------------
(* The start of an invocation. *)

(* The gates and the free preflight passed.                                *)
Launch ==
  /\ pc \in {"down", "done"} /\ launches < MaxLaunches
  /\ launches' = launches + 1
  /\ pc' = IF tier = "tier4" THEN "claiming" ELSE "opening"
  /\ UNCHANGED <<tier, place, recorded, log, money, marker, rival, killed>>

Claim_UnreadableIsOurs ==
  /\ pc = "claiming"
  /\ marker' = IF marker = "none" THEN "blank" ELSE marker
  /\ pc' = CASE marker = "none" -> "signing"
             [] marker \in {"ours", "blank"} -> "opening"
             [] OTHER -> "down"
  /\ UNCHANGED <<tier, place, recorded, log, money, rival, launches, killed>>

(* claim_authorization: an exclusive create; a claim that names this       *)
(* results file is the same run resuming, any other refuses.               *)
Claim ==
  /\ pc = "claiming"
  /\ marker' = IF marker = "none" THEN "blank" ELSE marker
  /\ pc' = CASE marker = "none" -> "signing"
             [] marker = "ours" -> "opening"
             [] OTHER -> "down"
  /\ UNCHANGED <<tier, place, recorded, log, money, rival, launches, killed>>

Sign ==
  /\ pc = "signing"
  /\ marker' = "ours" /\ pc' = "opening"
  /\ UNCHANGED <<tier, place, recorded, log, money, rival, launches, killed>>

(* Another launcher, recording to a file of its own.                       *)
RivalClaims ==
  /\ tier = "tier4" /\ rival = "idle" /\ marker = "none"
  /\ marker' = "blank" /\ rival' = "signing"
  /\ UNCHANGED <<tier, pc, place, recorded, log, money, launches, killed>>

RivalRuns ==
  /\ rival = "signing"
  /\ marker' = "theirs" /\ rival' = "running"
  /\ UNCHANGED <<tier, pc, place, recorded, log, money, launches, killed>>

Done == {u \in Places : last[u] # "none"}

(* in_flight: the last unit_started with no unit record.                   *)
InFlight ==
  LET open == {i \in DOMAIN starts : starts[i] \notin Done}
  IN IF open = {} THEN 0 ELSE starts[Max(open)]

Resume_Uncharged ==
  /\ pc = "opening"
  /\ IF header = "other" THEN pc' = "down" /\ UNCHANGED <<header, place, recorded, money>>
     ELSE /\ header' = "this" /\ pc' = "loop" /\ place' = 1
          /\ recorded' = evidence
          /\ spent' = 0 /\ paid' = 0 /\ unbooked' = 0
  /\ UNCHANGED <<tier, starts, evidence, last, marker, rival, launches, killed>>

(* _check_plan_unchanged refuses a file that holds another plan; then the  *)
(* header, once, and a fresh budget charged for the unit in flight.        *)
Resume ==
  /\ pc = "opening"
  /\ IF header = "other" THEN pc' = "down" /\ UNCHANGED <<header, place, recorded, money>>
     ELSE /\ header' = "this" /\ pc' = "loop" /\ place' = 1
          /\ recorded' = evidence
          /\ spent' = IF InFlight = 0 THEN 0 ELSE Ceiling[InFlight]
          /\ paid' = 0 /\ unbooked' = 0
  /\ UNCHANGED <<tier, starts, evidence, last, marker, rival, launches, killed>>

-----------------------------------------------------------------------------
(* The loop over the plan. *)

PassRecorded ==
  /\ pc = "loop" /\ place \in recorded
  /\ place' = place + 1
  /\ UNCHANGED <<tier, pc, recorded, log, money, marker, rival, launches, killed>>

StartUnit_Again ==
  /\ pc = "loop" /\ place \in Places
  /\ starts' = Append(starts, place) /\ pc' = "unit"
  /\ UNCHANGED <<tier, place, recorded, header, evidence, last, money, marker,
                 rival, launches, killed>>

StartUnit ==
  /\ pc = "loop" /\ place \in Places \ recorded
  /\ starts' = Append(starts, place) /\ pc' = "unit"
  /\ UNCHANGED <<tier, place, recorded, header, evidence, last, money, marker,
                 rival, launches, killed>>

(* A unit's line is written and the loop goes on, or, after a 402, turns   *)
(* to the units that will not run.                                         *)
Record(status, credit) ==
  /\ last' = [last EXCEPT ![place] = status]
  /\ evidence' = evidence \cup {place}
  /\ pc' = IF credit THEN "starved" ELSE "loop"
  /\ place' = place + 1
  /\ killed' = 0
  /\ UNCHANGED <<tier, recorded, header, starts, marker, rival, launches>>

SkipUnit ==
  /\ pc = "unit" /\ ~CanStart(spent, Cap, Ceiling[place])
  /\ Record("skipped", FALSE)
  /\ UNCHANGED money

(* The unit's own client adds up what it is billed and ends the unit once  *)
(* that passes the unit's ceiling: by a call or a round of them when its   *)
(* rate table is empty and the guard refuses nothing beforehand, as in a   *)
(* paid run, and by nothing when the table is filled, as in the dry run.   *)
(* The sweep is told what was booked, not the liability.                   *)
RunUnit ==
  /\ pc = "unit" /\ CanStart(spent, Cap, Ceiling[place])
  /\ \E o \in UnitOutcomes(Arm[place]), cost \in 0..(Ceiling[place] + Overshoot), owed \in Liabilities :
       /\ Record(o.status, o.credit)
       /\ paid' = paid + cost + owed
       /\ spent' = IF o.booked THEN spent + cost ELSE spent
       /\ unbooked' = unbooked + IF o.booked THEN owed ELSE cost + owed

(* Every unit after the 402 is written not_run; tier 3 leaves out those    *)
(* already recorded, tier 4 does not look.                                 *)
WriteNotRun ==
  /\ pc = "starved" /\ place \in Places
  /\ last' = IF tier = "tier3" /\ place \in recorded THEN last
             ELSE [last EXCEPT ![place] = "not_run"]
  /\ place' = place + 1
  /\ UNCHANGED <<tier, pc, recorded, header, starts, evidence, money, marker,
                 rival, launches, killed>>

Finish ==
  /\ pc \in {"loop", "starved"} /\ place > Units
  /\ pc' = "done"
  /\ UNCHANGED <<tier, place, recorded, log, money, marker, rival, launches, killed>>

(* The process is killed: in a unit, what that unit was billed is in no    *)
(* line of the log.                                                        *)
Kill ==
  /\ pc \notin {"down", "done"}
  /\ pc' = "down"
  /\ killed' = IF pc = "unit" THEN place ELSE killed
  /\ UNCHANGED <<tier, place, recorded, log, money, marker, rival, launches>>

Step ==
  \/ Claim \/ Sign \/ Resume \/ PassRecorded \/ StartUnit \/ SkipUnit \/ RunUnit
  \/ WriteNotRun \/ Finish

Next == Launch \/ Step \/ RivalClaims \/ RivalRuns \/ Kill

Spec == Init /\ [][Next]_vars

-----------------------------------------------------------------------------
(* Properties. *)

Points == {"down", "claiming", "signing", "opening", "loop", "unit", "starved", "done"}

TypeOK ==
  /\ tier \in {"tier3", "tier4"} /\ pc \in Points /\ place \in 1..(Units + 1)
  /\ recorded \subseteq Places /\ evidence \subseteq Places
  /\ header \in {"none", "this", "other"}
  /\ starts \in Seq(Places)
  /\ last \in [Places -> Statuses \cup {"none"}]
  /\ marker \in {"none", "blank", "ours", "theirs"}
  /\ rival \in {"idle", "signing", "running"}
  /\ launches \in Nat /\ killed \in 0..Units
  /\ spent \in Nat /\ paid \in Nat /\ unbooked \in Nat

(* What an invocation is billed exceeds the authorised total by no more    *)
(* than one unit's overshoot and what its units never booked: the calls    *)
(* they could not reconcile and a pipeline the outer deadline cut.  The    *)
(* fit rule keeps overshoots from adding up: a sweep that is past the      *)
(* total starts no unit.                                                   *)
BilledWithinCap == paid <= Cap + Overshoot + unbooked

(* R11, "one authorisation pays for one run": two launchers that race for  *)
(* a claim, one of them killed in it and restarted, never both run.        *)
OnePaidRun == tier = "tier4" => ~(rival = "running" /\ starts # <<>>)

(* The unit a kill cut is charged its full ceiling by the invocation that  *)
(* resumes, unless a not_run line of an earlier 402 hides it.              *)
ResumeCharges ==
  [][pc = "opening" /\ pc' = "loop" /\ killed # 0 /\ last[killed] = "none"
       => spent' = Ceiling[killed]]_vars

(* "Counted, not dropped": an invocation that ends leaves every planned    *)
(* unit a line, whatever was killed, skipped or starved before.            *)
DoneIsWhole == pc = "done" => Done = Places

-----------------------------------------------------------------------------
(* The results read as the plan promises them: in plan order, each once,   *)
(* never rewritten.                                                        *)

Results == [i \in 1..Cardinality(evidence) |-> last[i]]
Plan == INSTANCE PlanRecord WITH results <- Results, Classes <- Statuses \ {"not_run"}
RunsThePlan == Plan!Spec
=============================================================================
