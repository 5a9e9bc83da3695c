-------------------------- MODULE ExperimentProofs --------------------------
(***************************************************************************)
(* Theorems of Experiment, for every plan, ceiling and authorised total.   *)
(***************************************************************************)
EXTENDS Experiment, FiniteSetTheorems, TLAPS

(* The recorded units are a prefix of the plan: in the loop, those the     *)
(* invocation found and those it has passed since.                         *)
PlanInv ==
  /\ \E k \in 0..Units : evidence = 1..k
  /\ \A u \in Places : u \in evidence <=> last[u] \notin {"none", "not_run"}
  /\ pc \in {"loop", "unit"} =>
       /\ \E j \in 0..Units : recorded = 1..j
       /\ evidence = recorded \cup 1..(place - 1)
  /\ pc = "unit" => place \in Places \ recorded
  /\ pc = "starved" =>
       /\ recorded \subseteq evidence /\ \A u \in evidence : u < place
       /\ \A u \in Places : u < place => last[u] # "none"
  /\ pc = "done" => \A u \in Places : last[u] # "none"

(* A unit started and not recorded is the next of the plan, and the last   *)
(* one started.                                                            *)
OpenInv ==
  \A i \in DOMAIN starts : last[starts[i]] = "none" =>
    /\ evidence = 1..(starts[i] - 1)
    /\ starts[Len(starts)] = starts[i]

(* The unit a kill cut is that one, until it is recorded.                  *)
KilledInv ==
  /\ killed # 0 => starts # <<>> /\ starts[Len(starts)] = killed
  /\ pc = "unit" => starts # <<>> /\ starts[Len(starts)] = place
  /\ killed # 0 => evidence = 1..(killed - 1) /\ pc \notin {"starved", "done"}

(* What was billed is what was booked and what was not.                    *)
MoneyInv == spent <= Cap + Overshoot /\ paid <= spent + unbooked

(* The claim file is created by one launcher and signed by the same one.   *)
ClaimInv ==
  tier = "tier4" =>
    /\ pc = "signing" => marker = "blank" /\ rival = "idle"
    /\ rival = "signing" => marker = "blank"
    /\ rival = "running" => marker = "theirs"
    /\ pc \in {"opening", "loop", "unit", "starved", "done"} => marker = "ours"
    /\ starts # <<>> => marker = "ours"

(* Every class a unit reports is a class a line may carry, and is neither  *)
(* not_run nor the absence of a line.                                      *)
LEMMA OutcomeClasses ==
  ASSUME NEW a, NEW o \in UnitOutcomes(a)
  PROVE  o.status \in Statuses /\ o.status \notin {"none", "not_run"}
<1>1. CASE a \in Pipelines
  <2>1. \/ o \in [status : {"delivered", "incomplete"}, credit : BOOLEAN, booked : {TRUE}]
        \/ o = [status |-> "deadline", credit |-> FALSE, booked |-> FALSE]
    BY <1>1, Zenon DEF UnitOutcomes, Outcome
  <2>2. CASE o \in [status : {"delivered", "incomplete"}, credit : BOOLEAN, booked : {TRUE}]
    BY <2>2 DEF Ran, Statuses
  <2>3. CASE o = [status |-> "deadline", credit |-> FALSE, booked |-> FALSE]
    BY <2>3 DEF Ran, Statuses
  <2> QED BY <2>1, <2>2, <2>3
<1>2. CASE a \notin Pipelines
  <2>1. \/ o \in [status : Ran, credit : {FALSE}, booked : {TRUE}]
        \/ o = [status |-> "incomplete", credit |-> TRUE, booked |-> TRUE]
    BY <1>2, Zenon DEF UnitOutcomes, Outcome
  <2>2. CASE o \in [status : Ran, credit : {FALSE}, booked : {TRUE}]
    BY <2>2 DEF Ran, Statuses
  <2>3. CASE o = [status |-> "incomplete", credit |-> TRUE, booked |-> TRUE]
    BY <2>3 DEF Ran, Statuses
  <2> QED BY <2>1, <2>2, <2>3
<1> QED BY <1>1, <1>2

(* The unit in flight, when there is one, is the last one started.         *)
LEMMA InFlightIsLastStarted ==
  ASSUME TypeOK, OpenInv
  PROVE  \/ InFlight = 0 /\ \A i \in DOMAIN starts : last[starts[i]] # "none"
         \/ /\ InFlight = starts[Len(starts)] /\ InFlight \in Places
            /\ last[InFlight] = "none"
<1> DEFINE open == {i \in DOMAIN starts : starts[i] \notin Done}
<1>1. starts \in Seq(Places) /\ DOMAIN starts = 1..Len(starts) /\ Len(starts) \in Nat
  BY DEF TypeOK
<1>2. \A i \in DOMAIN starts : i \in open <=> last[starts[i]] = "none"
  BY <1>1 DEF Done
<1>3. CASE open = {}
  BY <1>2, <1>3 DEF InFlight
<1>4. CASE open # {}
  <2>1. PICK i \in DOMAIN starts : last[starts[i]] = "none"
    BY <1>2, <1>4
  <2>2. Len(starts) \in open
    BY <1>1, <1>2, <2>1 DEF OpenInv
  <2>3. \A x \in open : x \in Int /\ Len(starts) >= x
    BY <1>1
  <2>5. Max(open) = Len(starts)
    <3> HIDE DEF open
    <3>1. Max(open) \in open /\ \A y \in open : Max(open) >= y
      BY <2>2, <2>3, Zenon DEF Max
    <3>2. Max(open) >= Len(starts) /\ Len(starts) >= Max(open) /\ Max(open) \in Int
      BY <2>2, <2>3, <3>1
    <3> QED BY <3>2, <1>1
  <2>6. InFlight = starts[Len(starts)]
    BY <1>4, <2>5 DEF InFlight
  <2> QED BY <2>2, <2>6, <1>1, <1>2
<1> QED BY <1>3, <1>4

(* In a unit, the units before it are exactly those recorded.              *)
LEMMA UnitIsNext ==
  ASSUME TypeOK, PlanInv, pc = "unit" \/ (pc = "loop" /\ place \in Places \ recorded)
  PROVE  evidence = 1..(place - 1) /\ place \in Places
<1>1. place \in Places /\ place \notin recorded /\ evidence = recorded \cup 1..(place - 1)
  BY DEF PlanInv
<1>2. PICK j \in 0..Units : recorded = 1..j
  BY DEF PlanInv
<1>3. place \in 1..Units
  BY <1>1 DEF Places
<1>4. j < place
  BY <1>1, <1>2, <1>3, ExperimentAssumption
<1>5. 1..j \cup 1..(place - 1) = 1..(place - 1)
  BY <1>2, <1>3, <1>4, ExperimentAssumption
<1> QED BY <1>1, <1>2, <1>5

-----------------------------------------------------------------------------
(* Every step of an invocation keeps the variables in their ranges.        *)
LEMMA TypeStep ==
  ASSUME TypeOK, OpenInv, PlanInv, [Next]_vars
  PROVE  TypeOK'
<1> USE ExperimentAssumption DEF Places
<1>1. CASE Launch
  BY <1>1 DEF TypeOK, Launch, log, money, Points
<1>2. CASE Claim
  BY <1>2 DEF TypeOK, Claim, log, money, Points
<1>3. CASE Sign
  BY <1>3 DEF TypeOK, Sign, log, money, Points
<1>4. CASE Resume
  <2>1. InFlight = 0 \/ InFlight \in Places
    BY InFlightIsLastStarted
  <2>2. spent' \in Nat
    BY <1>4, <2>1 DEF TypeOK, Resume, money
  <2>3. CASE header = "other"
    BY <1>4, <2>3 DEF TypeOK, Resume, money, Points
  <2>4. CASE header # "other"
    <3>1. 1 \in 1..(Units + 1)
      OBVIOUS
    <3>2. /\ pc' = "loop" /\ place' = 1 /\ recorded' = evidence /\ header' = "this"
          /\ paid' = 0 /\ unbooked' = 0
          /\ UNCHANGED <<tier, starts, evidence, last, marker, rival, launches, killed>>
      BY <1>4, <2>4 DEF Resume
    <3> QED BY <2>2, <3>1, <3>2 DEF TypeOK, Points
  <2> QED BY <2>3, <2>4
<1>5. CASE PassRecorded
  <2>1. place \in Places
    BY <1>5 DEF TypeOK, PassRecorded
  <2>2. place + 1 \in 1..(Units + 1)
    BY <2>1
  <2> QED BY <1>5, <2>2 DEF TypeOK, PassRecorded, log, money, Points
<1>6. CASE StartUnit
  BY <1>6 DEF TypeOK, StartUnit, money, Points
<1>7. CASE SkipUnit
  <2>1. "skipped" \in Statuses /\ place \in Places
    BY <1>7 DEF Statuses, PlanInv, SkipUnit
  <2> QED BY <1>7, <2>1 DEF TypeOK, SkipUnit, Record, money, Points
<1>8. CASE RunUnit
  <2>1. place \in Places
    BY <1>8 DEF PlanInv, RunUnit
  <2>2. PICK o \in UnitOutcomes(Arm[place]), cost \in 0..(Ceiling[place] + Overshoot), owed \in Liabilities :
          /\ Record(o.status, o.credit)
          /\ paid' = paid + cost + owed
          /\ spent' = IF o.booked THEN spent + cost ELSE spent
          /\ unbooked' = unbooked + IF o.booked THEN owed ELSE cost + owed
    BY <1>8 DEF RunUnit
  <2>3. o.status \in Statuses
    BY OutcomeClasses
  <2>4. cost \in Nat /\ owed \in Nat
    BY <2>1
  <2> QED BY <2>1, <2>2, <2>3, <2>4 DEF TypeOK, Record, Points
<1>9. CASE WriteNotRun
  BY <1>9 DEF TypeOK, WriteNotRun, money, Points, Statuses
<1>10. CASE Finish
  BY <1>10 DEF TypeOK, Finish, log, money, Points
<1>11. CASE RivalClaims
  BY <1>11 DEF TypeOK, RivalClaims, log, money
<1>12. CASE RivalRuns
  BY <1>12 DEF TypeOK, RivalRuns, log, money
<1>13. CASE Kill
  BY <1>13 DEF TypeOK, Kill, log, money, Points, PlanInv
<1>14. CASE UNCHANGED vars
  BY <1>14 DEF TypeOK, vars
<1> QED BY <1>1, <1>2, <1>3, <1>4, <1>5, <1>6, <1>7, <1>8, <1>9, <1>10, <1>11,
           <1>12, <1>13, <1>14 DEF Next, Step


-----------------------------------------------------------------------------
(* The plan. *)

(* Recording the unit the loop is at extends the recorded prefix by it, and *)
(* leaves no unit started and unrecorded.                                  *)
LEMMA RecordStep ==
  ASSUME TypeOK, PlanInv, OpenInv, KilledInv, pc = "unit",
         NEW status \in Statuses \ {"not_run"}, NEW credit, Record(status, credit)
  PROVE  PlanInv' /\ OpenInv' /\ KilledInv'
<1> USE ExperimentAssumption DEF Places
<1>1. /\ evidence = 1..(place - 1) /\ place \in 1..Units
      /\ evidence' = 1..place /\ place' = place + 1
  <2>1. evidence = 1..(place - 1) /\ place \in 1..Units
    BY UnitIsNext
  <2> QED BY <2>1 DEF Record
<1>2. /\ last' = [last EXCEPT ![place] = status] /\ killed' = 0
      /\ pc' = IF credit THEN "starved" ELSE "loop"
      /\ recorded' = recorded /\ starts' = starts
  BY DEF Record
<1>3. status \notin {"none", "not_run"}
  BY DEF Statuses, Ran
<1>4. \A u \in Places : /\ u # place => last'[u] = last[u]
                        /\ u = place => last'[u] = status
  BY <1>2 DEF TypeOK
<1>5. PlanInv'
  <2>1. \E k \in 0..Units : evidence' = 1..k
    BY <1>1
  <2>2. \A u \in Places : u \in evidence' <=> last'[u] \notin {"none", "not_run"}
    <3> SUFFICES ASSUME NEW u \in Places
                 PROVE  u \in evidence' <=> last'[u] \notin {"none", "not_run"}
      OBVIOUS
    <3>1. u \in evidence <=> last[u] \notin {"none", "not_run"}
      BY DEF PlanInv
    <3>2. CASE u = place
      BY <1>1, <1>3, <1>4, <3>2
    <3>3. CASE u # place
      <4>1. u \in evidence' <=> u \in evidence
        BY <1>1, <3>3
      <4> QED BY <1>4, <3>1, <3>3, <4>1
    <3> QED BY <3>2, <3>3
  <2>3. \E j \in 0..Units : recorded' = 1..j
    BY <1>2 DEF PlanInv
  <2>4. evidence' = recorded' \cup 1..(place' - 1)
    <3>1. PICK j \in 0..Units : recorded = 1..j
      BY DEF PlanInv
    <3>2. evidence = recorded \cup 1..(place - 1)
      BY DEF PlanInv
    <3>3. place' - 1 = place /\ evidence' = evidence \cup {place}
      BY <1>1 DEF Record
    <3> QED BY <1>1, <1>2, <3>2, <3>3
  <2>5. recorded' \subseteq evidence' /\ \A u \in evidence' : u < place'
    BY <1>1, <2>4
  <2>6. \A u \in Places : u < place' => last'[u] # "none"
    <3> SUFFICES ASSUME NEW u \in Places, u < place'
                 PROVE  last'[u] # "none"
      OBVIOUS
    <3>1. u \in evidence'
      BY <1>1
    <3> QED BY <2>2, <3>1
  <2>7. pc' \in {"loop", "starved"}
    BY <1>2
  <2> QED BY <2>1, <2>2, <2>3, <2>4, <2>5, <2>6, <2>7 DEF PlanInv
<1>6. OpenInv'
  <2> SUFFICES ASSUME NEW i \in DOMAIN starts, last'[starts[i]] = "none"
               PROVE  FALSE
    BY <1>2 DEF OpenInv
  <2>1. starts[i] \in Places
    BY DEF TypeOK
  <2>2. starts[i] # place /\ last[starts[i]] = "none"
    BY <1>3, <1>4, <2>1
  <2>3. 1..(starts[i] - 1) = 1..(place - 1)
    BY <1>1, <2>2 DEF OpenInv
  <2> QED BY <1>1, <2>1, <2>2, <2>3
<1>7. KilledInv'
  BY <1>2 DEF KilledInv
<1> QED BY <1>5, <1>6, <1>7

(* Only StartUnit, the records and WriteNotRun touch what OpenInv reads.   *)
LEMMA PlanStep ==
  ASSUME TypeOK, PlanInv, OpenInv, KilledInv, [Next]_vars
  PROVE  PlanInv' /\ OpenInv' /\ KilledInv'
<1> USE ExperimentAssumption DEF Places
<1>1. CASE Launch
  BY <1>1 DEF PlanInv, OpenInv, KilledInv, Launch, log
<1>2. CASE Claim
  BY <1>2 DEF PlanInv, OpenInv, KilledInv, Claim, log
<1>3. CASE Sign
  BY <1>3 DEF PlanInv, OpenInv, KilledInv, Sign, log
<1>4. CASE Resume
  <2>1. UNCHANGED <<starts, evidence, last, killed>> /\ pc' \in {"down", "loop"}
    BY <1>4 DEF Resume
  <2>2. CASE pc' = "down"
    BY <2>1, <2>2 DEF PlanInv, OpenInv, KilledInv
  <2>3. CASE pc' = "loop"
    <3>1. recorded' = evidence /\ place' = 1
      BY <1>4, <2>3 DEF Resume
    <3>2. evidence' = recorded' \cup 1..(place' - 1)
      BY <2>1, <3>1
    <3>3. PlanInv'
      BY <2>1, <2>3, <3>1, <3>2 DEF PlanInv
    <3> QED BY <2>1, <2>3, <3>3 DEF OpenInv, KilledInv
  <2> QED BY <2>1, <2>2, <2>3
<1>5. CASE PassRecorded
  <2>1. /\ UNCHANGED <<pc, recorded, starts, evidence, last, killed>>
        /\ pc = "loop" /\ place \in recorded /\ place' = place + 1
    BY <1>5 DEF PassRecorded, log
  <2>2. place \in Places /\ evidence = recorded \cup 1..(place - 1)
    BY <2>1 DEF TypeOK, PlanInv
  <2>3. 1..(place' - 1) = 1..(place - 1) \cup {place}
    BY <2>1, <2>2
  <2>4. evidence' = recorded' \cup 1..(place' - 1)
    BY <2>1, <2>2, <2>3
  <2>5. PlanInv'
    BY <2>1, <2>4 DEF PlanInv
  <2> QED BY <2>1, <2>5 DEF OpenInv, KilledInv
<1>6. CASE StartUnit
  <2>1. /\ UNCHANGED <<place, recorded, evidence, last, killed>>
        /\ pc = "loop" /\ pc' = "unit" /\ place \in Places \ recorded
        /\ starts' = Append(starts, place)
    BY <1>6 DEF StartUnit
  <2>2. evidence = 1..(place - 1) /\ place \in 1..Units
    BY <2>1, UnitIsNext
  <2>3. /\ Len(starts') = Len(starts) + 1 /\ starts'[Len(starts')] = place
        /\ starts' # <<>> /\ starts' \in Seq(Places)
        /\ \A i \in DOMAIN starts' : /\ i \in DOMAIN starts => starts'[i] = starts[i]
                                     /\ i \notin DOMAIN starts => i = Len(starts')
    BY <2>1 DEF TypeOK
  <2>4. PlanInv'
    BY <2>1 DEF PlanInv
  <2>5. OpenInv'
    <3> SUFFICES ASSUME NEW i \in DOMAIN starts', last[starts'[i]] = "none"
                 PROVE  evidence = 1..(starts'[i] - 1) /\ starts'[Len(starts')] = starts'[i]
      BY <2>1 DEF OpenInv
    <3>1. CASE i \notin DOMAIN starts
      BY <2>2, <2>3, <3>1
    <3>2. CASE i \in DOMAIN starts
      <4>1. starts'[i] = starts[i] /\ starts[i] \in 1..Units
        <5>1. starts'[i] = starts[i]
          BY <2>3, <3>2
        <5>2. starts \in Seq(1..Units)
          BY DEF TypeOK, Places
        <5> QED BY <3>2, <5>1, <5>2
      <4>2. evidence = 1..(starts[i] - 1)
        BY <3>2, <4>1 DEF OpenInv
      <4>3. starts[i] = place
        BY <2>2, <4>1, <4>2
      <4> QED BY <2>3, <4>1, <4>2, <4>3
    <3> QED BY <3>1, <3>2
  <2>6. KilledInv'
    <3>1. killed # 0 => killed = place
      <4> SUFFICES ASSUME killed # 0 PROVE killed = place
        OBVIOUS
      <4>1. 1..(killed - 1) = 1..(place - 1) /\ killed \in 1..Units
        BY <2>2 DEF KilledInv, TypeOK
      <4> QED BY <2>2, <4>1
    <3> QED BY <2>1, <2>2, <2>3, <3>1 DEF KilledInv
  <2> QED BY <2>4, <2>5, <2>6
<1>7. CASE SkipUnit
  <2>1. "skipped" \in Statuses \ {"not_run"}
    BY DEF Statuses
  <2> QED BY <1>7, <2>1, RecordStep DEF SkipUnit
<1>8. CASE RunUnit
  <2>1. PICK o \in UnitOutcomes(Arm[place]) : Record(o.status, o.credit)
    BY <1>8 DEF RunUnit
  <2>2. o.status \in Statuses \ {"not_run"}
    BY OutcomeClasses
  <2> QED BY <1>8, <2>1, <2>2, RecordStep DEF RunUnit
<1>9. CASE WriteNotRun
  <2>1. /\ UNCHANGED <<pc, recorded, starts, evidence, killed>>
        /\ pc = "starved" /\ place \in Places /\ place' = place + 1
    BY <1>9 DEF WriteNotRun
  <2>2. place \notin evidence /\ place \notin recorded
    BY <2>1 DEF PlanInv
  <2>3. last' = [last EXCEPT ![place] = "not_run"]
    BY <1>9, <2>2 DEF WriteNotRun
  <2>4. \A u \in Places : /\ u # place => last'[u] = last[u]
                          /\ u = place => last'[u] = "not_run"
    BY <2>3 DEF TypeOK
  <2>5. \A u \in Places : u \in evidence <=> last'[u] \notin {"none", "not_run"}
    BY <2>2, <2>4 DEF PlanInv
  <2>6. \A u \in Places : u < place' => last'[u] # "none"
    BY <2>1, <2>4 DEF PlanInv
  <2>7. \A u \in evidence : u < place'
    <3> SUFFICES ASSUME NEW u \in evidence PROVE u < place'
      OBVIOUS
    <3>1. u \in Places /\ u < place /\ place \in Places
      BY <2>1 DEF PlanInv, TypeOK
    <3> QED BY <2>1, <3>1
  <2>8. PlanInv'
    BY <2>1, <2>5, <2>6, <2>7 DEF PlanInv
  <2>9. OpenInv'
    <3> SUFFICES ASSUME NEW i \in DOMAIN starts, last'[starts[i]] = "none"
                 PROVE  evidence = 1..(starts[i] - 1) /\ starts[Len(starts)] = starts[i]
      BY <2>1 DEF OpenInv
    <3>1. starts[i] \in Places
      BY DEF TypeOK
    <3>2. last[starts[i]] = "none"
      BY <2>4, <3>1
    <3> QED BY <3>2 DEF OpenInv
  <2> QED BY <2>1, <2>8, <2>9 DEF KilledInv
<1>10. CASE Finish
  <2>1. /\ UNCHANGED <<recorded, place, starts, evidence, last, killed>>
        /\ pc \in {"loop", "starved"} /\ place > Units /\ pc' = "done"
    BY <1>10 DEF Finish, log
  <2>2. \A u \in Places : last[u] # "none"
    <3>1. CASE pc = "loop"
      <4>1. evidence = recorded \cup 1..(place - 1) /\ place \in 1..(Units + 1)
        BY <3>1 DEF PlanInv, TypeOK
      <4>2. \A u \in Places : u \in evidence
        BY <2>1, <4>1
      <4> QED BY <4>2 DEF PlanInv
    <3>2. CASE pc = "starved"
      BY <2>1, <3>2 DEF PlanInv, TypeOK
    <3> QED BY <2>1, <3>1, <3>2
  <2>3. PlanInv'
    BY <2>1, <2>2 DEF PlanInv
  <2>4. killed = 0
    <3>1. CASE pc = "starved"
      BY <3>1 DEF KilledInv
    <3>2. CASE pc = "loop"
      <4> SUFFICES ASSUME killed # 0 PROVE FALSE
        OBVIOUS
      <4>1. killed \in 1..Units /\ evidence = 1..(killed - 1)
        BY DEF KilledInv, TypeOK
      <4>2. evidence = recorded \cup 1..(place - 1) /\ place \in 1..(Units + 1)
        BY <3>2 DEF PlanInv, TypeOK
      <4>3. killed \in 1..(place - 1)
        <5>1. killed \in 1..Units /\ place \in 1..(Units + 1) /\ place > Units
          BY <2>1, <4>1, <4>2
        <5> QED BY <5>1
      <4>4. killed \in evidence
        BY <4>2, <4>3, Zenon
      <4>5. \A n \in 1..Units : n \notin 1..(n - 1)
        OBVIOUS
      <4> QED BY <4>1, <4>4, <4>5, Zenon
    <3> QED BY <2>1, <3>1, <3>2
  <2> QED BY <2>1, <2>3, <2>4 DEF OpenInv, KilledInv
<1>11. CASE RivalClaims
  BY <1>11 DEF PlanInv, OpenInv, KilledInv, RivalClaims, log
<1>12. CASE RivalRuns
  BY <1>12 DEF PlanInv, OpenInv, KilledInv, RivalRuns, log
<1>13. CASE Kill
  <2>1. /\ UNCHANGED <<recorded, place, starts, evidence, last>> /\ pc' = "down"
        /\ killed' = IF pc = "unit" THEN place ELSE killed
    BY <1>13 DEF Kill, log
  <2>2. PlanInv' /\ OpenInv'
    BY <2>1 DEF PlanInv, OpenInv
  <2>3. CASE pc = "unit"
    <3>1. evidence = 1..(place - 1)
      BY <2>3, UnitIsNext
    <3> QED BY <2>1, <2>2, <2>3, <3>1 DEF KilledInv
  <2>4. CASE pc # "unit"
    BY <2>1, <2>2, <2>4 DEF KilledInv
  <2> QED BY <2>3, <2>4
<1>14. CASE UNCHANGED vars
  BY <1>14 DEF PlanInv, OpenInv, KilledInv, vars
<1> QED BY <1>1, <1>2, <1>3, <1>4, <1>5, <1>6, <1>7, <1>8, <1>9, <1>10, <1>11,
           <1>12, <1>13, <1>14 DEF Next, Step

-----------------------------------------------------------------------------
(* Every step keeps what was billed within the booked and the unbooked.    *)
LEMMA MoneyStep ==
  ASSUME TypeOK, PlanInv, OpenInv, MoneyInv, [Next]_vars
  PROVE  MoneyInv'
<1> USE ExperimentAssumption DEF Places
<1>1. CASE Resume
  <2>1. InFlight = 0 \/ InFlight \in Places
    BY InFlightIsLastStarted
  <2>2. CASE header = "other"
    BY <1>1, <2>2 DEF Resume, MoneyInv, money
  <2>3. CASE header # "other"
    <3>1. paid' = 0 /\ unbooked' = 0 /\ spent' = IF InFlight = 0 THEN 0 ELSE Ceiling[InFlight]
      BY <1>1, <2>3 DEF Resume
    <3>2. spent' \in Nat /\ spent' <= Cap + Overshoot
      BY <2>1, <3>1
    <3> QED BY <3>1, <3>2 DEF MoneyInv
  <2> QED BY <2>2, <2>3
<1>2. CASE RunUnit
  <2>1. place \in Places
    BY <1>2 DEF PlanInv, RunUnit
  <2>2. PICK o \in UnitOutcomes(Arm[place]), cost \in 0..(Ceiling[place] + Overshoot), owed \in Liabilities :
          /\ paid' = paid + cost + owed
          /\ spent' = IF o.booked THEN spent + cost ELSE spent
          /\ unbooked' = unbooked + IF o.booked THEN owed ELSE cost + owed
    BY <1>2 DEF RunUnit
  <2>3. /\ cost \in Nat /\ owed \in Nat /\ Ceiling[place] \in Nat
        /\ cost <= Ceiling[place] + Overshoot
    BY <2>1
  <2>4. spent + Ceiling[place] <= Cap
    BY <1>2, <2>3 DEF RunUnit, CanStart, NoCap
  <2>5. spent \in Nat /\ paid \in Nat /\ unbooked \in Nat
    BY DEF TypeOK
  <2>6. CASE o.booked
    BY <2>2, <2>3, <2>4, <2>5, <2>6 DEF MoneyInv
  <2>7. CASE ~o.booked
    BY <2>2, <2>3, <2>5, <2>7 DEF MoneyInv
  <2> QED BY <2>6, <2>7
<1>3. CASE UNCHANGED money
  BY <1>3 DEF MoneyInv, money
<1>4. [Next]_vars => Resume \/ RunUnit \/ UNCHANGED money
  BY DEF Next, Step, Launch, Claim, Sign, PassRecorded, StartUnit, SkipUnit, WriteNotRun,
         Finish, RivalClaims, RivalRuns, Kill, vars, money
<1> QED BY <1>1, <1>2, <1>3, <1>4

(* Every step of either launcher keeps the claim file with its creator.    *)
LEMMA ClaimStep ==
  ASSUME TypeOK, ClaimInv, [Next]_vars
  PROVE  ClaimInv'
<1> USE DEF ClaimInv
<1>1. CASE Launch
  BY <1>1 DEF Launch, log
<1>2. CASE Claim
  BY <1>2 DEF Claim, log, TypeOK
<1>3. CASE Sign
  BY <1>3 DEF Sign, log
<1>4. CASE Resume
  BY <1>4 DEF Resume
<1>5. CASE PassRecorded
  BY <1>5 DEF PassRecorded, log
<1>6. CASE StartUnit
  BY <1>6 DEF StartUnit
<1>7. CASE SkipUnit
  BY <1>7 DEF SkipUnit, Record
<1>8. CASE RunUnit
  BY <1>8 DEF RunUnit, Record
<1>9. CASE WriteNotRun
  BY <1>9 DEF WriteNotRun
<1>10. CASE Finish
  BY <1>10 DEF Finish, log
<1>11. CASE RivalClaims
  BY <1>11 DEF RivalClaims, log
<1>12. CASE RivalRuns
  BY <1>12 DEF RivalRuns, log
<1>13. CASE Kill
  BY <1>13 DEF Kill, log
<1>14. CASE UNCHANGED vars
  BY <1>14 DEF vars
<1> QED BY <1>1, <1>2, <1>3, <1>4, <1>5, <1>6, <1>7, <1>8, <1>9, <1>10, <1>11,
           <1>12, <1>13, <1>14 DEF Next, Step

-----------------------------------------------------------------------------
(* The theorems. *)

Inv == TypeOK /\ PlanInv /\ OpenInv /\ KilledInv /\ MoneyInv /\ ClaimInv

(* The inductive invariant holds of every behaviour of the experiment.     *)
LEMMA InvHolds == Spec => []Inv
<1>1. Init => Inv
  <2> SUFFICES ASSUME Init PROVE Inv
    OBVIOUS
  <2> USE ExperimentAssumption DEF Init
  <2>1. TypeOK
    <3>1. 1 \in 1..(Units + 1) /\ <<>> \in Seq(Places) /\ 0 \in 0..Units
      OBVIOUS
    <3> QED BY <3>1 DEF TypeOK, Points
  <2>2. PlanInv
    <3>1. evidence = 1..0 /\ 0 \in 0..Units
      OBVIOUS
    <3> QED BY <3>1 DEF PlanInv
  <2>3. OpenInv /\ KilledInv /\ MoneyInv /\ ClaimInv
    BY DEF OpenInv, KilledInv, MoneyInv, ClaimInv
  <2> QED BY <2>1, <2>2, <2>3 DEF Inv
<1>2. Inv /\ [Next]_vars => Inv'
  BY TypeStep, PlanStep, MoneyStep, ClaimStep DEF Inv
<1> QED BY <1>1, <1>2, PTL DEF Spec

(* The budget of an invocation bounds what its units are billed, but for   *)
(* one unit's overshoot and what they never booked: SweepBudget under run_experiment's loop.        *)
THEOREM BilledIsBounded == Spec => []BilledWithinCap
<1>1. Inv => BilledWithinCap
  BY ExperimentAssumption DEF Inv, MoneyInv, TypeOK, BilledWithinCap
<1> QED BY <1>1, InvHolds, PTL

(* No two launchers run on one authorisation: claim_authorization.         *)
THEOREM AuthorisationIsClaimedOnce == Spec => []OnePaidRun
<1>1. Inv => OnePaidRun
  BY DEF Inv, ClaimInv, OnePaidRun
<1> QED BY <1>1, InvHolds, PTL

(* An invocation that ends leaves every planned unit a line: the loop of   *)
(* run_experiment and its not_run lines.                                   *)
THEOREM NothingIsDropped == Spec => []DoneIsWhole
<1>1. Inv => DoneIsWhole
  BY DEF Inv, PlanInv, TypeOK, DoneIsWhole, Done
<1> QED BY <1>1, InvHolds, PTL

(* The resumed invocation charges the unit the kill cut: in_flight finds   *)
(* that unit whatever was started and recorded before.                     *)
THEOREM TheKilledUnitIsCharged == Spec => ResumeCharges
<1>1. Inv /\ [Next]_vars =>
        [pc = "opening" /\ pc' = "loop" /\ killed # 0 /\ last[killed] = "none"
           => spent' = Ceiling[killed]]_vars
  <2> SUFFICES ASSUME Inv, [Next]_vars, pc = "opening", pc' = "loop", killed # 0,
                      last[killed] = "none"
               PROVE  spent' = Ceiling[killed]
    OBVIOUS
  <2>1. Resume
    BY DEF Next, Step, Launch, Claim, Sign, PassRecorded, StartUnit, SkipUnit, RunUnit,
           WriteNotRun, Finish, RivalClaims, RivalRuns, Kill, vars
  <2>2. spent' = IF InFlight = 0 THEN 0 ELSE Ceiling[InFlight]
    BY <2>1 DEF Resume
  <2>3. starts # <<>> /\ starts[Len(starts)] = killed /\ starts \in Seq(Places)
    BY DEF Inv, KilledInv, TypeOK
  <2>4. Len(starts) \in DOMAIN starts
    BY <2>3
  <2>5. InFlight = killed /\ InFlight \in Places
    BY <2>3, <2>4, InFlightIsLastStarted DEF Inv
  <2>6. InFlight # 0
    BY <2>5 DEF Places
  <2> QED BY <2>2, <2>5, <2>6
<1> QED BY <1>1, InvHolds, PTL DEF Spec, ResumeCharges

(* The results are the plan's record: one unit is added at a time, in the  *)
(* plan's order, and nothing recorded is rewritten or run again.           *)
THEOREM ResultsAreThePlans == Spec => RunsThePlan
<1> USE ExperimentAssumption DEF Places
<1>1. Init => Plan!Init
  <2> SUFFICES ASSUME Init PROVE Results = <<>>
    BY DEF Plan!Init
  <2>1. Cardinality(evidence) = 0
    BY FS_EmptySet DEF Init
  <2> QED BY <2>1 DEF Results
<1>2. Inv /\ [Next]_vars => [Plan!Next]_Results
  <2> SUFFICES ASSUME Inv, [Next]_vars PROVE [Plan!Next]_Results
    OBVIOUS
  <2>1. ASSUME pc = "unit", NEW status \in Statuses \ {"not_run"}, NEW credit,
               Record(status, credit)
        PROVE  Plan!Next
    <3>1. evidence = 1..(place - 1) /\ place \in 1..Units
      BY <2>1, UnitIsNext DEF Inv
    <3>2. evidence' = 1..place
      BY <2>1, <3>1 DEF Record
    <3>3. Cardinality(evidence) = place - 1 /\ Cardinality(evidence') = place
      BY <3>1, <3>2, FS_Interval
    <3>4. last' = [last EXCEPT ![place] = status] /\ last \in [1..Units -> Statuses \cup {"none"}]
      BY <2>1 DEF Record, Inv, TypeOK
    <3>5. Results = [i \in 1..(place - 1) |-> last[i]] /\ Results' = [i \in 1..place |-> last'[i]]
      BY <3>3 DEF Results
    <3>6. Results \in Seq(Statuses \cup {"none"}) /\ Len(Results) = place - 1
      BY <3>1, <3>4, <3>5
    <3>7. Results' = Append(Results, status)
      BY <2>1, <3>1, <3>4, <3>5, <3>6
    <3> QED BY <2>1, <3>1, <3>6, <3>7 DEF Plan!Next, Plan!Settle
  <2>2. CASE SkipUnit
    <3>1. "skipped" \in Statuses \ {"not_run"}
      BY DEF Statuses
    <3> QED BY <2>1, <2>2, <3>1 DEF SkipUnit
  <2>3. CASE RunUnit
    <3>1. PICK o \in UnitOutcomes(Arm[place]) : Record(o.status, o.credit)
      BY <2>3 DEF RunUnit
    <3>2. o.status \in Statuses \ {"not_run"}
      BY OutcomeClasses
    <3> QED BY <2>1, <2>3, <3>1, <3>2 DEF RunUnit
  <2>4. CASE WriteNotRun
    <3>1. evidence' = evidence /\ place \notin evidence
      <4>1. UNCHANGED evidence /\ pc = "starved" /\ place \in 1..Units
        BY <2>4 DEF WriteNotRun
      <4>2. \A u \in evidence : u < place
        BY <4>1 DEF Inv, PlanInv
      <4> QED BY <4>1, <4>2
    <3>2. \A u \in evidence : u \in Places /\ last'[u] = last[u]
      BY <2>4, <3>1 DEF WriteNotRun, Inv, TypeOK
    <3>3. PICK k \in 0..Units : evidence = 1..k
      BY DEF Inv, PlanInv
    <3>4. Cardinality(evidence) = k
      BY <3>3, FS_Interval
    <3>5. Results' = Results
      BY <3>1, <3>2, <3>3, <3>4 DEF Results
    <3> QED BY <3>5
  <2>5. CASE UNCHANGED <<evidence, last>>
    BY <2>5 DEF Results
  <2>6. SkipUnit \/ RunUnit \/ WriteNotRun \/ UNCHANGED <<evidence, last>>
    BY DEF Next, Step, Launch, Claim, Sign, Resume, PassRecorded, StartUnit, Finish,
           RivalClaims, RivalRuns, Kill, vars, log
  <2> QED BY <2>2, <2>3, <2>4, <2>5, <2>6
<1> QED BY <1>1, <1>2, InvHolds, PTL DEF Spec, RunsThePlan, Plan!Spec

=============================================================================
