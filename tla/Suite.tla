------------------------------- MODULE Suite -------------------------------
(***************************************************************************)
(* One invocation of the eval CLI (autornd/evals/cli.py): the preflight    *)
(* gate, then every scenario of every compared workflow, repeated          *)
(* (run_repeated), each a run_scenario of autornd/evals/runner.py, under   *)
(* one SweepBudget and one append-only results file.                       *)
(***************************************************************************)
EXTENDS SweepBudget, PinGate

CONSTANTS
  Targets,       \* the workflows compared, in order
  Scenarios,     \* the scenarios, in order
  Pin,           \* the workflow a scenario names, "" for none
  Unmet,         \* the <<scenario, workflow>> that cannot be answered there
  Repeat,        \* runs per scenario
  Cap,           \* --max-spend-sweep
  UnitCaps,      \* --max-spend, or NoCap when it is not given
  Debts,         \* what a run's unreconciled calls may have cost
  ModelMaps,     \* the models by tier the harness may be set up with
  PinLines,      \* the provider-order lines
  EndpointMaps,  \* the endpoints of the models there are
  ReadableSets   \* the models whose endpoints the preflight can read

ASSUME SuiteAssumption ==
  /\ Repeat \in Nat \ {0} /\ Cap \in Nat
  /\ UnitCaps \subseteq (Nat \ {0}) \cup {NoCap}
  /\ Debts \subseteq Nat

(* What the preflight may find: the lines may be anything, and the models  *)
(* are set and listed.                                                     *)
Configuration(models, line, endpoints, readable) ==
  [models |-> models, line |-> line, catalogue |-> DOMAIN endpoints,
   endpoints |-> endpoints, readable |-> readable]

ASSUME GateAssumption ==
  \A models \in ModelMaps, endpoints \in EndpointMaps :
    Configured(Configuration(models, <<>>, endpoints, {}))
ASSUME LinesAssumption == PinLines \subseteq Seq([name : STRING, provider : STRING])

VARIABLES
  unitCap,    \* the per-run cap of this invocation
  pc,         \* "gate", "next", "run", "score" or "exit"
  todo,       \* the scenario repetitions still to run, by job
  rep,        \* the repetition of the first of them
  run,        \* the run in progress
  spent,      \* the budget
  file,       \* the results file's unit lines
  code,       \* the exit code
  billed,     \* ghost: what the runs were billed, at most
  owed        \* ghost: the part of it that is liability

vars == <<unitCap, pc, todo, rep, run, spent, file, code, billed, owed>>

Job(s, w) == [scenario |-> s, workflow |-> w]

(* For each target the scenarios that name no other workflow, then those   *)
(* that do, each on its own: a pinned scenario runs once per target.       *)
JobsFor(w) ==
  LET chosen == SelectSeq(Scenarios, LAMBDA s : Pin[s] \in {"", w})
      pinned == SelectSeq(Scenarios, LAMBDA s : Pin[s] \notin {"", w})
  IN [i \in DOMAIN chosen |-> Job(chosen[i], w)]
     \o [i \in DOMAIN pinned |-> Job(pinned[i], Pin[pinned[i]])]

Jobs == FlattenSeq([i \in DOMAIN Targets |-> JobsFor(Targets[i])])

JobSet ==
  {Job(s, w) : s \in ToSet(Scenarios), w \in ToSet(Targets) \cup {Pin[s] : s \in ToSet(Scenarios)}}

(* What the jobs are, said for the proofs, to which SelectSeq is opaque.   *)
ASSUME JobsAssumption == Jobs \in Seq(JobSet)

NoRun == [own |-> "", status |-> "", stop |-> FALSE, error |-> FALSE, guarded |-> FALSE]

Init ==
  /\ unitCap \in UnitCaps
  /\ pc = "gate" /\ todo = Jobs /\ rep = 1 /\ run = NoRun
  /\ spent = 0 /\ file = <<>> /\ code = -1
  /\ billed = 0 /\ owed = 0

(* preflight_gate: it passes, or the operator skips it; *)
Gate ==
  /\ pc = "gate"
  /\ pc' = "next"
  /\ UNCHANGED <<unitCap, todo, rep, run, spent, file, code, billed, owed>>

(* one that fails or cannot run refuses the sweep before any file exists.  *)
Refuse ==
  /\ pc = "gate"
  /\ pc' = "exit" /\ code' = 3
  /\ UNCHANGED <<unitCap, todo, rep, run, spent, file, billed, owed>>

-----------------------------------------------------------------------------
(* run_scenario. *)

job == Head(todo)

(* What a unit's line says: why it never ran, "" when it did, and whether  *)
(* it passed.                                                              *)
Line(why, passed) ==
  [job |-> Len(Jobs) - Len(todo) + 1, rep |-> rep, why |-> why,
   skipped |-> why # "", passed |-> passed]

NextJob == todo' = Tail(todo) /\ rep' = 1

(* run_repeated after a run: a skipped one is not repeated.                *)
NextRepetition ==
  IF rep < Repeat THEN rep' = rep + 1 /\ UNCHANGED todo ELSE NextJob

Answerable == <<job.scenario, job.workflow>> \notin Unmet

Skip ==
  /\ pc = "next" /\ todo # <<>>
  /\ ~Answerable \/ ~CanStart(spent, Cap, unitCap)
  /\ file' = Append(file, Line(IF Answerable THEN SkipReason(spent, Cap, unitCap)
                               ELSE "not applicable", FALSE))
  /\ NextJob
  /\ UNCHANGED <<unitCap, pc, run, spent, code, billed, owed>>

Start ==
  /\ pc = "next" /\ todo # <<>>
  /\ Answerable /\ CanStart(spent, Cap, unitCap)
  /\ run' = NoRun /\ pc' = "run"
  /\ UNCHANGED <<unitCap, todo, rep, spent, file, code, billed, owed>>

(* state.end: the workflow reaches a terminal of its own.                  *)
ReachesTerminal ==
  /\ pc = "run" /\ run.own = ""
  /\ \E s \in {"completed", "escalated", "blocked"} :
       run' = [run EXCEPT !.own = s, !.status = s]
  /\ UNCHANGED <<unitCap, pc, todo, rep, spent, file, code, billed, owed>>

Returns ==
  /\ pc = "run" /\ run.own # ""
  /\ pc' = "score"
  /\ UNCHANGED <<unitCap, todo, rep, run, spent, file, code, billed, owed>>

(* The exceptions that always leave a stop reason; a call or spend ceiling *)
(* and an unexpected error leave one only on a run still going             *)
(* (_end_on_bound).                                                        *)
AlwaysNamed == {"deadline", "http error", "credit", "provider failure"}
Stops == AlwaysNamed \cup {"ceiling", "error"}

(* The terminal is set once: a run that reached its own keeps it.          *)
StoppedRun(kind) ==
  [run EXCEPT !.status = IF run.own = "" THEN "blocked" ELSE run.own,
              !.stop = (kind \in AlwaysNamed \/ run.own = ""),
              !.error = TRUE, !.guarded = (kind = "ceiling")]

Stopped ==
  /\ pc = "run"
  /\ \E kind \in Stops : run' = StoppedRun(kind)
  /\ pc' = "score"
  /\ UNCHANGED <<unitCap, todo, rep, spent, file, code, billed, owed>>

(* A crash scores nothing but the failed run; a guarded stop scores        *)
(* everything and keeps that failure.  No run with an error passes.        *)
Passes(ok) == ok /\ ~run.error

(* The client's spend guard keeps the run within its ceiling, what it may  *)
(* owe included; the sweep is told what was billed, whatever ended it.     *)
Score ==
  /\ pc = "score"
  /\ \E cost \in 0..UnitCeiling(spent, Cap, unitCap), debt \in Debts, ok \in BOOLEAN :
       /\ cost + debt <= UnitCeiling(spent, Cap, unitCap)
       /\ spent' = spent + cost
       /\ billed' = billed + cost + debt
       /\ owed' = owed + debt
       /\ file' = Append(file, Line("", Passes(ok)))
  /\ NextRepetition
  /\ pc' = "next"
  /\ UNCHANGED <<unitCap, run, code>>

-----------------------------------------------------------------------------
(* The report and the exit code. *)

RunsOf(j) == {i \in DOMAIN file : file[i].job = j}
AllSkipped(j) == \A i \in RunsOf(j) : file[i].skipped

(* RepeatedRun.passed: "only a clean sweep counts".                        *)
JobPassed(j) == ~AllSkipped(j) /\ \A i \in RunsOf(j) : file[i].passed

(* sweep_summary, printed at the end when a unit was skipped for money.    *)
Summary == IF Remaining(spent, Cap) = 0 THEN "exhausted" ELSE "fit"

ExitCode ==
  IF \A j \in DOMAIN Jobs : JobPassed(j) \/ AllSkipped(j) THEN 0 ELSE 1

Exit ==
  /\ pc = "next" /\ todo = <<>>
  /\ pc' = "exit" /\ code' = ExitCode
  /\ UNCHANGED <<unitCap, todo, rep, run, spent, file, billed, owed>>

Next ==
  \/ Gate \/ Refuse \/ Skip \/ Start \/ ReachesTerminal \/ Returns \/ Stopped \/ Score \/ Exit

Spec == Init /\ [][Next]_vars

-----------------------------------------------------------------------------
(* Properties. *)

(* "The gate refuses exactly what the client would fail on" (A6,           *)
(* preflight.py:136), whichever configuration the sweep is run under.      *)
GateRefusesWhatFails ==
  pc = "gate" =>
    \A models \in ModelMaps, line \in PinLines, endpoints \in EndpointMaps,
       readable \in ReadableSets :
      GateAgrees(Configuration(models, line, endpoints, readable))

Started == Cardinality({i \in DOMAIN file : ~file[i].skipped})

(* "Every scenario, every repetition, every compared workflow": the whole  *)
(* invocation is billed no more than the sweep cap and what its runs still *)
(* owe, in both enforcement modes and over the pinned scenarios too.       *)
SweepWithinCap == billed <= Cap + owed

(* What units_that_can_ever_start prints is guaranteed: a sweep that       *)
(* skipped a unit it could answer started at least that many.              *)
PermittedUnitsStart ==
  unitCap # NoCap /\ (\E i \in DOMAIN file :
      file[i].skipped
      /\ <<Jobs[file[i].job].scenario, Jobs[file[i].job].workflow>> \notin Unmet)
  => Started >= UnitsThatCanEverStart(Cap, unitCap)

(* "31% of a cap is not exhaustion" (B19, SweepBudget.skip): a unit is     *)
(* said to be skipped by the fit rule only when money was left that could  *)
(* not cover a unit, and for exhaustion only when none was; the line       *)
(* printed at the end gives the reason every one of those units gave; and  *)
(* no fewer units start than the sweep said could.                         *)
SkipsAreExplained ==
  /\ \A i \in DOMAIN file :
       LET line == file[i]
       IN /\ line.why = "fit" => spent < Cap /\ unitCap # NoCap /\ spent + unitCap > Cap
          /\ line.why = "exhausted" => spent >= Cap
          /\ pc = "exit" /\ line.why \in {"fit", "exhausted"} => line.why = Summary
  /\ PermittedUnitsStart
=============================================================================
