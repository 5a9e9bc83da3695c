-------------------------- MODULE ExperimentReport --------------------------
(***************************************************************************)
(* The experiment with the unit lines of its results log kept whole, and   *)
(* the reports read from them.  It is run on a plan of three units, one of *)
(* them a pipeline, whose ceilings add up to more than the authorised      *)
(* total, through three launches: a kill, a 402, a top-up and a kill after *)
(* it.                                                                     *)
(***************************************************************************)
EXTENDS Experiment, Sequences, SequencesExt, FiniteSets, FiniteSetsExt, Functions

-----------------------------------------------------------------------------
(***************************************************************************)
(* What the experiments report of a results log: compute_measures,         *)
(* failure_census and the re-measurement's report of                       *)
(* evals/tier3/runner.py, and tier4_summarize of evals/tier4/runner.py.  A *)
(* line is a unit record: its unit (the question, repetition and arm that  *)
(* key it), its status, the kind of answer a pipeline gave, "" for none,   *)
(* and the scorer's verdict, "NOT_SCORED" for a unit with nothing to       *)
(* score.                                                                  *)
(***************************************************************************)

(* The kinds of answer_of. *)
Kinds == {"shipped", "approved, not shipped", "unendorsed candidate", "no answer"}

Key(line) == <<line.question, line.repetition, line.arm>>

FinalRecords_Raw(lines) == lines

(* _final_unit_records: each unit's last line, in the order the units      *)
(* first appear.                                                           *)
FinalRecords(lines) ==
  LET firsts == SelectSeq([i \in DOMAIN lines |-> i], LAMBDA i :
                  \A j \in 1..(i - 1) : Key(lines[j]) # Key(lines[i]))
      LastOf(i) == Max({j \in DOMAIN lines : Key(lines[j]) = Key(lines[i])})
  IN [i \in DOMAIN firsts |-> lines[LastOf(firsts[i])]]

Counting(records, Test(_)) == Cardinality({i \in DOMAIN records : Test(records[i])})
OfArm(records, arm) == SelectSeq(records, LAMBDA r : r.arm = arm)
Questions(records) == {records[i].question : i \in DOMAIN records}
ByStatus(records) ==
  [s \in Statuses |-> Counting(records, LAMBDA r : r.status = s)]

(* The records the measures count, and how many are reported beside them.  *)
Counted(lines) == SelectSeq(FinalRecords(lines), LAMBDA r : r.status # "not_run")
NotRun(lines) == Counting(FinalRecords(lines), LAMBDA r : r.status = "not_run")

-----------------------------------------------------------------------------
(* The five measures. *)

(* _effective_verdict: the readers' verdict where they read.               *)
EffectiveVerdict(r, readings) ==
  IF Key(r) \in DOMAIN readings THEN readings[Key(r)] ELSE r.verdict

Correct(r, readings) ==
  /\ EffectiveVerdict(r, readings) = "PASS"
  /\ Delivered(r.arm, r.status, r.kind) \/ r.kind = "shipped"

DeliveredCorrectness(lines, readings, arm) ==
  LET records == OfArm(Counted(lines), arm)
  IN [planned |-> Len(records),
      correct |-> Counting(records, LAMBDA r : Correct(r, readings)),
      not_delivered |-> Counting(records, LAMBDA r : ~Delivered(r.arm, r.status, r.kind)),
      approved_not_shipped |->
        Counting(records, LAMBDA r : r.kind = "approved, not shipped")]

(* The correct repetitions of each question an arm has a record of.        *)
CorrectCounts(lines, readings, arm) ==
  LET records == OfArm(Counted(lines), arm)
  IN [q \in Questions(records) |->
        Counting(records, LAMBDA r : r.question = q /\ Correct(r, readings))]

(* per_question_repeat_outcomes: how many questions had each count.        *)
RepeatOutcomes(lines, readings, arm) ==
  LET counts == CorrectCounts(lines, readings, arm)
  IN [n \in Range(counts) |-> Cardinality({q \in DOMAIN counts : counts[q] = n})]

(* _paired: over the questions of the reference arm; an arm with no record *)
(* of one has zero correct there.                                          *)
Paired(lines, readings, reference, arm) ==
  LET theirs == CorrectCounts(lines, readings, reference)
      own == CorrectCounts(lines, readings, arm)
      Own(q) == IF q \in DOMAIN own THEN own[q] ELSE 0
  IN [wins |-> Cardinality({q \in DOMAIN theirs : Own(q) > theirs[q]}),
      losses |-> Cardinality({q \in DOMAIN theirs : Own(q) < theirs[q]}),
      ties |-> Cardinality({q \in DOMAIN theirs : Own(q) = theirs[q]})]

Totals(lines) ==
  LET records == Counted(lines)
  IN [units |-> Len(records), by_status |-> ByStatus(records)]

(* failure_census: every final record by its class, a pipeline's by the    *)
(* kind of its answer too.                                                 *)
Census(lines) ==
  LET records == FinalRecords(lines)
  IN [status |-> ByStatus(records),
      delivery |-> [k \in Kinds |->
        Counting(records, LAMBDA r : r.arm \in Pipelines /\ r.kind = k)]]

(* tier4_summarize's: every line is a unit of its arm.                     *)
Tier4SummaryRow(lines, arm) ==
  LET records == OfArm(lines, arm)
  IN [units |-> Len(records), statuses |-> ByStatus(records),
      delivered |-> Counting(records, LAMBDA r : r.status = "delivered")]

-----------------------------------------------------------------------------
(* The re-measurement's report, which counts for itself. *)

(* _delivered: arms A-D on the status, a pipeline on the kind.             *)
ReportDelivered(r) ==
  IF r.arm \in Pipelines THEN r.kind = "shipped" ELSE r.status = "delivered"

PerArm(lines, arm) ==
  LET records == OfArm(Counted(lines), arm)
  IN [planned |-> Len(records),
      delivered |-> Counting(records, ReportDelivered),
      correct |-> Counting(records, LAMBDA r : ReportDelivered(r) /\ r.verdict = "PASS")]

(* Table 3: per question, the correct repetitions of each arm.             *)
Pairing(lines, question, arm) ==
  Counting(OfArm(Counted(lines), arm), LAMBDA r :
    r.question = question /\ ReportDelivered(r) /\ r.verdict = "PASS")

(* Table 6: a pipeline's answers that did not ship against those that did. *)
Candidates(lines, arm) ==
  LET unresolved == SelectSeq(OfArm(Counted(lines), arm),
                      LAMBDA r : r.kind \in {"unendorsed candidate", "approved, not shipped"})
      delivered == SelectSeq(OfArm(Counted(lines), arm), LAMBDA r : r.kind = "shipped")
      Wrong(records) == Counting(records, LAMBDA r : r.verdict = "FAIL")
  IN [unresolved |-> Len(unresolved), delivered |-> Len(delivered),
      candidates_wrong |-> Wrong(unresolved), delivered_wrong |-> Wrong(delivered)]

-----------------------------------------------------------------------------

CONSTANTS Question, Repetition   \* of each unit of the plan

ASSUME ReportAssumption ==
  \A u, v \in Places :
    <<Question[u], Repetition[u], Arm[u]>> = <<Question[v], Repetition[v], Arm[v]>> => u = v

VARIABLE lines    \* the unit lines, in the order they were appended

(* A unit's record: only a unit that left an answer has a verdict, and     *)
(* only a pipeline's answer has a kind.                                    *)
UnitRecord(u, status, kind, verdict) ==
  [question |-> Question[u], repetition |-> Repetition[u], arm |-> Arm[u],
   status |-> status, kind |-> kind, verdict |-> verdict]

KindsOf(arm, status) ==
  IF arm \notin Pipelines THEN {""}
  ELSE IF status \in {"delivered", "incomplete"} THEN {k \in Kinds : PipelineStatus(k) = status}
  ELSE IF status = "skipped" THEN {"no answer"}
  ELSE {""}

Verdicts(status) == IF status = "delivered" THEN {"PASS", "FAIL"} ELSE {"NOT_SCORED"}

UnitLine ==
  /\ SkipUnit \/ RunUnit
  /\ \E k \in KindsOf(Arm[place], last'[place]), v \in Verdicts(last'[place]) :
       lines' = Append(lines, UnitRecord(place, last'[place], k, v))

NotRunLine ==
  /\ WriteNotRun
  /\ lines' = IF tier = "tier3" /\ place \in recorded THEN lines
              ELSE Append(lines, UnitRecord(place, "not_run", "", "NOT_SCORED"))

ReportInit == Init /\ lines = <<>>

Quiet ==
  \/ Launch \/ Claim \/ Sign \/ RivalClaims \/ RivalRuns \/ Resume
  \/ PassRecorded \/ StartUnit \/ Finish \/ Kill

ReportNext == (Quiet /\ UNCHANGED lines) \/ UnitLine \/ NotRunLine

ReportSpec == ReportInit /\ [][ReportNext]_<<vars, lines>>

-----------------------------------------------------------------------------
(* The measures against the re-measurement's own count of the same log.    *)
ReportsAgree ==
  \A arm \in Range(Arm) :
    LET measured == DeliveredCorrectness(lines, <<>>, arm)
        reported == PerArm(lines, arm)
        outcomes == RepeatOutcomes(lines, <<>>, arm)
        paired == Paired(lines, <<>>, "A", arm)
        Beats(x, y) == {q \in Questions(OfArm(Counted(lines), "A")) :
                          Pairing(lines, q, x) > Pairing(lines, q, y)}
    IN /\ measured.planned = reported.planned
       /\ measured.planned - measured.not_delivered = reported.delivered
       /\ measured.correct = reported.correct
       /\ measured.correct = MapThenSumSet(LAMBDA n : n * outcomes[n], DOMAIN outcomes)
       /\ paired.wins = Cardinality(Beats(arm, "A"))
       /\ paired.losses = Cardinality(Beats("A", arm))
       /\ arm \in Pipelines =>
            LET c == Candidates(lines, arm)
            IN c.delivered = reported.delivered /\ c.delivered - c.delivered_wrong = reported.correct

(* "Counted, not dropped": whatever kills, top-ups and resumes the log has *)
(* been through, the measures of a finished tier-3 run count every planned *)
(* unit once and under how it ended, and the re-measurement's report, with *)
(* its own code for the same counts, agrees with them.  Tier 4's summary   *)
(* counts every line: once each unit that ran, though it was first killed  *)
(* or left without credit, whose lines it counts beside.                   *)
CountedOnce ==
  LET Ended(s, arms) == Cardinality({u \in Places : last[u] = s /\ Arm[u] \in arms})
  IN pc = "done" =>
       IF tier = "tier4"
       THEN \A arm \in Range(Arm), s \in Statuses \ {"not_run"} :
              /\ Tier4SummaryRow(lines, arm).statuses[s] = Ended(s, {arm})
              /\ Tier4SummaryRow(lines, arm).delivered = Ended("delivered", {arm})
       ELSE /\ \A s \in Statuses :
                 /\ Census(lines).status[s] = Ended(s, Range(Arm))
                 /\ s # "not_run" => Totals(lines).by_status[s] = Census(lines).status[s]
            /\ NotRun(lines) + Totals(lines).units = Units
            /\ ReportsAgree

-----------------------------------------------------------------------------
(* The plan of the run. *)

PlanArms == <<"C", "E", "A">>
PlanCeilings == <<1, 2, 2>>
PlanQuestions == <<"Q1", "Q1", "Q1">>
PlanRepetitions == <<1, 1, 1>>
=============================================================================
