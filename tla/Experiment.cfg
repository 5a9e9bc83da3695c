SPECIFICATION ReportSpec
CONSTANTS
  Tiers = {"tier3", "tier4"}
  Units = 3
  Arm <- PlanArms
  Ceiling <- PlanCeilings
  Cap = 3
  Question <- PlanQuestions
  Repetition <- PlanRepetitions
  Liabilities = {0, 1}
  Overshoot = 1
  MaxLaunches = 3
INVARIANTS BilledWithinCap OnePaidRun CountedOnce
PROPERTIES ResumeCharges RunsThePlan
CHECK_DEADLOCK FALSE
