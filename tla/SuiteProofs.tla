----------------------------- MODULE SuiteProofs -----------------------------
(***************************************************************************)
(* Proofs about Suite for any workflows, scenarios, pins, repetitions,     *)
(* sweep cap and per-run caps: the money of a sweep stays within its cap,  *)
(* and what it says of the units it skipped is true.                       *)
(***************************************************************************)
EXTENDS Suite, FiniteSetTheorems, TLAPS

Reasons == {"", "not applicable", "fit", "exhausted"}

LineSet == [job : Int, rep : Nat, why : Reasons, skipped : BOOLEAN, passed : BOOLEAN]

Types ==
  /\ unitCap \in UnitCaps
  /\ pc \in {"gate", "next", "run", "score", "exit"}
  /\ todo \in Seq(JobSet)
  /\ rep \in Nat
  /\ spent \in Nat /\ billed \in Nat /\ owed \in Nat
  /\ file \in Seq(LineSet)

(* What is billed and not owed is in the budget, and the budget stays      *)
(* within its cap.                                                         *)
Money == billed = spent + owed /\ spent <= Cap

(* A unit that is out was admitted with the budget there still is.         *)
Admitted ==
  pc \in {"run", "score"} => todo # <<>> /\ CanStart(spent, Cap, unitCap)

(* The jobs to do are the tail of the jobs.                                *)
TodoIsTail ==
  /\ Len(todo) <= Len(Jobs)
  /\ \A n \in 1 .. Len(todo) : todo[n] = Jobs[Len(Jobs) - Len(todo) + n]

(* What each line says, as it was true when it was written and still is:   *)
(* a unit skipped for money left a budget that admits no other.            *)
Explained(line, money, cap) ==
  /\ line.skipped = (line.why # "")
  /\ line.why = "not applicable" =>
       <<Jobs[line.job].scenario, Jobs[line.job].workflow>> \in Unmet
  /\ line.why = "fit" => money < Cap /\ cap # NoCap /\ money + cap > Cap
  /\ line.why = "exhausted" => money >= Cap

LinesExplained == \A i \in DOMAIN file : Explained(file[i], spent, unitCap)

(* Each started unit spent no more than the per-run cap.                   *)
StartedLines == {i \in DOMAIN file : ~file[i].skipped}

StartedCovers == unitCap # NoCap => spent <= Cardinality(StartedLines) * unitCap

IInv ==
  /\ Types /\ Money /\ Admitted /\ TodoIsTail
  /\ LinesExplained /\ StartedCovers

-----------------------------------------------------------------------------
(* Arithmetic. *)

LEMMA TimesMonotone ==
  ASSUME NEW p \in Nat, NEW q \in Nat, NEW u \in Nat, p <= q
  PROVE  p * u <= q * u
OBVIOUS

LEMMA TimesNext ==
  ASSUME NEW p \in Nat, NEW u \in Nat
  PROVE  (p + 1) * u = p * u + u
OBVIOUS

(* n units cover the quotient when one more would pass the whole.          *)
LEMMA QuotientCovered ==
  ASSUME NEW a \in Nat, NEW u \in Nat \ {0}, NEW n \in Nat, a < n * u + u
  PROVE  a \div u <= n
<1>1. PICK q \in Nat : q = a \div u /\ q * u <= a
  OBVIOUS
<1>2. SUFFICES ASSUME n + 1 <= q PROVE FALSE
  BY <1>1
<1>3. (n + 1) * u <= q * u
  BY <1>2, TimesMonotone
<1>4. (n + 1) * u = n * u + u
  BY TimesNext
<1>5. n * u \in Nat /\ q * u \in Nat
  OBVIOUS
<1>6. QED
  BY <1>1, <1>3, <1>4, <1>5

(* The caps as numbers.                                                    *)
LEMMA Caps ==
  ASSUME Types
  PROVE  /\ Cap \in Nat /\ unitCap \in Int
         /\ unitCap # NoCap => unitCap \in Nat \ {0}
BY SuiteAssumption DEF Types, NoCap

(* A budget that admits a unit has left what the unit may spend, and no    *)
(* unit was skipped for money yet.                                         *)
LEMMA CeilingWithinBudget ==
  ASSUME Types, Money
  PROVE  /\ UnitCeiling(spent, Cap, unitCap) \in Nat
         /\ spent + UnitCeiling(spent, Cap, unitCap) <= Cap
         /\ unitCap # NoCap => UnitCeiling(spent, Cap, unitCap) <= unitCap
<1>1. spent \in Nat /\ spent <= Cap
  BY DEF Types, Money
<1>2. Remaining(spent, Cap) \in Nat /\ spent + Remaining(spent, Cap) = Cap
  BY <1>1, Caps DEF Remaining
<1>3. QED
  BY <1>1, <1>2, Caps DEF UnitCeiling

LEMMA AdmittedNoneSkipped ==
  ASSUME Types, LinesExplained, CanStart(spent, Cap, unitCap), NEW i \in DOMAIN file
  PROVE  file[i].why \notin {"fit", "exhausted"}
<1>1. /\ file[i].why = "exhausted" => spent >= Cap
      /\ file[i].why = "fit" => spent + unitCap > Cap /\ unitCap # NoCap
  BY DEF LinesExplained, Explained
<1>2. spent \in Nat
  BY DEF Types
<1>3. spent < Cap
  BY <1>2, Caps DEF CanStart
<1>4. file[i].why # "exhausted"
  BY <1>1, <1>2, <1>3, Caps
<1>5. unitCap # NoCap => ~(spent + unitCap > Cap)
  BY <1>2, Caps DEF CanStart
<1>6. file[i].why # "fit"
  BY <1>1, <1>5
<1>7. QED
  BY <1>4, <1>6

LEMMA StartedFinite ==
  ASSUME Types
  PROVE  IsFiniteSet(StartedLines) /\ Cardinality(StartedLines) \in Nat
<1>1. DOMAIN file = 1 .. Len(file) /\ Len(file) \in Nat
  BY DEF Types
<1>2. IsFiniteSet(1 .. Len(file))
  BY <1>1, FS_Interval
<1>3. StartedLines \subseteq 1 .. Len(file)
  BY <1>1 DEF StartedLines
<1>4. IsFiniteSet(StartedLines)
  BY <1>2, <1>3, FS_Subset
<1>5. QED
  BY <1>4, FS_CardinalityType

-----------------------------------------------------------------------------
(* What one line does to the file. *)

LEMMA LineType ==
  ASSUME Types, NEW why \in Reasons, NEW passed \in BOOLEAN
  PROVE  /\ Line(why, passed) \in LineSet
         /\ Line(why, passed).why = why
         /\ Line(why, passed).skipped = (why # "")
         /\ Line(why, passed).job = Len(Jobs) - Len(todo) + 1
<1>1. Len(Jobs) \in Nat /\ Len(todo) \in Nat
  BY JobsAssumption DEF Types
<1>2. QED
  BY <1>1 DEF Line, LineSet, Types

LEMMA Appending ==
  ASSUME Types, NEW line \in LineSet, file' = Append(file, line)
  PROVE  /\ file' \in Seq(LineSet)
         /\ \A i \in DOMAIN file' : file'[i] = line \/ (i \in DOMAIN file /\ file'[i] = file[i])
         /\ StartedLines' = IF line.skipped THEN StartedLines
                            ELSE StartedLines \cup {Len(file) + 1}
         /\ Len(file) + 1 \notin StartedLines
<1>1. file \in Seq(LineSet) /\ Len(file) \in Nat /\ DOMAIN file = 1 .. Len(file)
  BY DEF Types
<1>2. /\ file' \in Seq(LineSet)
      /\ DOMAIN file' = 1 .. Len(file) + 1
      /\ \A i \in 1 .. Len(file) : file'[i] = file[i]
      /\ file'[Len(file) + 1] = line
  BY <1>1
<1>3. \A i \in DOMAIN file' : i \in DOMAIN file \/ i = Len(file) + 1
  BY <1>1, <1>2
<1>4. Len(file) + 1 \in DOMAIN file' /\ Len(file) + 1 \notin DOMAIN file
  BY <1>1, <1>2
<1>5. DOMAIN file \subseteq DOMAIN file'
  BY <1>1, <1>2
<1>6. \A i \in DOMAIN file' : file'[i] = line \/ (i \in DOMAIN file /\ file'[i] = file[i])
  BY <1>1, <1>2, <1>3
<1>7. StartedLines' = IF line.skipped THEN StartedLines ELSE StartedLines \cup {Len(file) + 1}
  BY <1>1, <1>2, <1>3, <1>4, <1>5 DEF StartedLines
<1>8. QED
  BY <1>2, <1>4, <1>6, <1>7 DEF StartedLines

(* Going on to the next job, or to the next repetition of this one, keeps  *)
(* the jobs to do a tail of the jobs.                                      *)
LEMMA Advancing ==
  ASSUME Types, TodoIsTail, todo # <<>>, NextJob \/ NextRepetition
  PROVE  TodoIsTail' /\ todo' \in Seq(JobSet) /\ rep' \in Nat
<1>1. /\ todo \in Seq(JobSet) /\ Len(todo) \in Nat /\ Len(todo) # 0
      /\ rep \in Nat /\ Len(Jobs) \in Nat
  BY JobsAssumption DEF Types
<1>2. CASE todo' = Tail(todo) /\ rep' = 1
  <2>1. /\ todo' \in Seq(JobSet) /\ Len(todo') = Len(todo) - 1
        /\ \A n \in 1 .. Len(todo') : todo'[n] = todo[n + 1]
    BY <1>1, <1>2
  <2>2. ASSUME NEW n \in 1 .. Len(todo')
        PROVE  todo'[n] = Jobs[Len(Jobs) - Len(todo') + n]
    <3>1. n + 1 \in 1 .. Len(todo) /\ todo'[n] = todo[n + 1]
      BY <1>1, <2>1
    <3>2. todo[n + 1] = Jobs[Len(Jobs) - Len(todo) + (n + 1)]
      BY <3>1 DEF TodoIsTail
    <3>3. Len(Jobs) - Len(todo) + (n + 1) = Len(Jobs) - Len(todo') + n
      BY <1>1, <2>1
    <3>4. QED
      BY <3>1, <3>2, <3>3
  <2>3. Len(todo') <= Len(Jobs)
    BY <1>1, <2>1 DEF TodoIsTail
  <2>4. QED
    BY <1>2, <2>1, <2>2, <2>3 DEF TodoIsTail
<1>3. CASE todo' = todo /\ rep' = rep + 1
  BY <1>1, <1>3 DEF TodoIsTail
<1>4. QED
  BY <1>2, <1>3 DEF NextRepetition, NextJob

-----------------------------------------------------------------------------
(* The invariant, one action at a time. *)

LEMMA InitInv == Init => IInv
<1> SUFFICES ASSUME Init PROVE IInv
  OBVIOUS
<1>1. Types
  BY JobsAssumption DEF Init, Types
<1>2. Money /\ Admitted
  BY SuiteAssumption DEF Init, Money, Admitted
<1>3. TodoIsTail
  BY JobsAssumption DEF Init, TodoIsTail
<1>4. DOMAIN file = {}
  BY DEF Init
<1>5. LinesExplained
  BY <1>4 DEF LinesExplained
<1>6. StartedCovers
  <2>1. StartedLines = {}
    BY <1>4 DEF StartedLines
  <2>2. Cardinality(StartedLines) = 0 /\ spent = 0
    BY <2>1, FS_EmptySet DEF Init
  <2>3. QED
    BY <1>1, <2>2, Caps DEF StartedCovers
<1>7. QED
  BY <1>1, <1>2, <1>3, <1>5, <1>6 DEF IInv

(* The steps that leave the jobs, the money and the file alone.            *)
LEMMA QuietStep ==
  ASSUME IInv, UNCHANGED <<unitCap, todo, rep, spent, file, billed, owed>>,
         pc' \in {"gate", "next", "run", "score", "exit"},
         pc' \in {"run", "score"} =>
           pc \in {"run", "score"} \/ (todo # <<>> /\ CanStart(spent, Cap, unitCap))
  PROVE  IInv'
<1>1. Types'
  BY DEF IInv, Types
<1>2. Money' /\ TodoIsTail'
  BY DEF IInv, Money, TodoIsTail
<1>3. Admitted'
  BY DEF IInv, Admitted
<1>4. LinesExplained' /\ StartedCovers'
  BY DEF IInv, LinesExplained, Explained, StartedCovers, StartedLines
<1>5. QED
  BY <1>1, <1>2, <1>3, <1>4 DEF IInv

(* A skipped unit's line is explained by the budget it was refused with.   *)
LEMMA SkipStep ==
  ASSUME IInv, Skip
  PROVE  IInv'
<1> DEFINE why == IF Answerable THEN SkipReason(spent, Cap, unitCap) ELSE "not applicable"
           line == Line(why, FALSE)
<1>t. Types /\ Money /\ TodoIsTail /\ LinesExplained /\ StartedCovers
  BY DEF IInv
<1>1. /\ todo # <<>> /\ file' = Append(file, line) /\ NextJob /\ pc' = "next"
      /\ UNCHANGED <<unitCap, spent, billed, owed>>
      /\ ~Answerable \/ ~CanStart(spent, Cap, unitCap)
  BY DEF Skip
<1>2. why \in Reasons \ {""}
  BY DEF SkipReason, Reasons
<1>3. /\ line \in LineSet /\ line.why = why /\ line.skipped
      /\ line.job = Len(Jobs) - Len(todo) + 1
  BY <1>t, <1>2, LineType
<1> HIDE DEF line
<1>4. /\ file' \in Seq(LineSet)
      /\ \A i \in DOMAIN file' : file'[i] = line \/ (i \in DOMAIN file /\ file'[i] = file[i])
      /\ StartedLines' = StartedLines
  BY <1>t, <1>1, <1>3, Appending
<1>5. TodoIsTail' /\ todo' \in Seq(JobSet) /\ rep' \in Nat
  BY <1>t, <1>1, Advancing
<1>6. Types'
  BY <1>t, <1>1, <1>4, <1>5 DEF Types
<1>7. Money' /\ Admitted' /\ StartedCovers'
  BY <1>t, <1>1, <1>4 DEF Money, Admitted, StartedCovers
<1>8. Explained(line, spent, unitCap)
  <2>1. Len(todo) # 0 /\ job = todo[1]
    BY <1>t, <1>1 DEF job, Types
  <2>2. job = Jobs[line.job]
    <3>1. todo[1] = Jobs[Len(Jobs) - Len(todo) + 1]
      BY <1>t, <2>1 DEF TodoIsTail, Types
    <3>2. QED
      BY <1>3, <2>1, <3>1
  <2>3. CASE ~Answerable
    BY <1>3, <2>2, <2>3 DEF Explained, Answerable
  <2>4. CASE Answerable
    <3>1. ~CanStart(spent, Cap, unitCap) /\ line.why = SkipReason(spent, Cap, unitCap)
      BY <1>1, <1>3, <2>4
    <3>2. spent \in Nat /\ spent <= Cap /\ Cap \in Nat
      BY <1>t, Caps DEF Types, Money
    <3>3. Remaining(spent, Cap) > 0 <=> spent < Cap
      BY <3>2 DEF Remaining
    <3>4. line.why \in {"fit", "exhausted"}
      BY <3>1 DEF SkipReason
    <3>5. ASSUME line.why = "fit"
          PROVE  spent < Cap /\ unitCap # NoCap /\ spent + unitCap > Cap
      <4>1. unitCap # NoCap /\ spent < Cap
        BY <3>1, <3>3, <3>5 DEF SkipReason
      <4>2. ~(spent + unitCap <= Cap) /\ unitCap \in Nat
        BY <1>t, <3>1, <4>1, Caps DEF CanStart
      <4>3. QED
        BY <3>2, <4>1, <4>2
    <3>6. ASSUME line.why = "exhausted" PROVE spent >= Cap
      BY <3>1, <3>2, <3>3, <3>6 DEF SkipReason, CanStart
    <3>7. QED
      BY <1>2, <1>3, <3>4, <3>5, <3>6 DEF Explained
  <2>5. QED
    BY <2>3, <2>4
<1>9. LinesExplained'
  <2>1. \A i \in DOMAIN file' : Explained(file'[i], spent, unitCap)
    BY <1>t, <1>4, <1>8 DEF LinesExplained
  <2>2. QED
    BY <1>1, <2>1 DEF LinesExplained
<1>10. QED
  BY <1>5, <1>6, <1>7, <1>9 DEF IInv

(* A scored unit spends at most its ceiling, which the budget still has.   *)
LEMMA ScoreStep ==
  ASSUME IInv, Score
  PROVE  IInv'
<1>t. Types /\ Money /\ Admitted /\ TodoIsTail /\ LinesExplained /\ StartedCovers
  BY DEF IInv
<1> DEFINE ceiling == UnitCeiling(spent, Cap, unitCap)
<1>1. PICK cost \in 0 .. ceiling, debt \in Debts, ok \in BOOLEAN :
        /\ cost + debt <= ceiling
        /\ spent' = spent + cost
        /\ billed' = billed + cost + debt
        /\ owed' = owed + debt
        /\ file' = Append(file, Line("", Passes(ok)))
  BY DEF Score
<1>2. /\ pc = "score" /\ pc' = "next" /\ NextRepetition
      /\ unitCap' = unitCap
  BY DEF Score
<1>3. todo # <<>> /\ CanStart(spent, Cap, unitCap)
  BY <1>t, <1>2 DEF Admitted
<1>4. /\ ceiling \in Nat /\ spent + ceiling <= Cap
      /\ unitCap # NoCap => ceiling <= unitCap
  BY <1>t, CeilingWithinBudget
<1>5. cost \in Nat /\ cost <= ceiling /\ debt \in Nat
  BY <1>4, SuiteAssumption
<1> HIDE DEF ceiling
<1> DEFINE line == Line("", Passes(ok))
<1>6. line \in LineSet /\ line.why = "" /\ line.skipped = FALSE
  <2>1. Passes(ok) \in BOOLEAN
    BY DEF Passes
  <2>2. QED
    BY <1>t, <2>1, LineType DEF Reasons
<1>7. file' = Append(file, line)
  BY <1>1
<1> HIDE DEF line
<1>8. /\ file' \in Seq(LineSet)
      /\ \A i \in DOMAIN file' : file'[i] = line \/ (i \in DOMAIN file /\ file'[i] = file[i])
      /\ StartedLines' = StartedLines \cup {Len(file) + 1}
      /\ Len(file) + 1 \notin StartedLines
  BY <1>t, <1>6, <1>7, Appending
<1>9. TodoIsTail' /\ todo' \in Seq(JobSet) /\ rep' \in Nat
  BY <1>t, <1>2, <1>3, Advancing
<1>10. spent \in Nat /\ billed \in Nat /\ owed \in Nat /\ Cap \in Nat
  BY <1>t, Caps DEF Types
<1>b. spent' = spent + cost /\ billed' = billed + cost + debt /\ owed' = owed + debt
  BY <1>1
<1>11. spent' \in Nat /\ billed' \in Nat /\ owed' \in Nat
  BY <1>b, <1>5, <1>10
<1>12. Types'
  BY <1>t, <1>2, <1>8, <1>9, <1>11 DEF Types
<1>13. Money'
  <2>1. billed = spent + owed /\ spent + ceiling <= Cap /\ ceiling \in Nat
    BY <1>t, <1>4 DEF Money
  <2>2. spent' <= Cap /\ billed' = spent' + owed'
    BY <1>b, <1>5, <1>10, <2>1
  <2>3. QED
    BY <2>2 DEF Money
<1>14. Admitted'
  BY <1>2 DEF Admitted
<1>15. LinesExplained'
  <2>1. ASSUME NEW i \in DOMAIN file' PROVE Explained(file'[i], spent', unitCap')
    <3>1. CASE file'[i] = line
      BY <1>6, <3>1 DEF Explained
    <3>2. CASE i \in DOMAIN file /\ file'[i] = file[i]
      <4>1. Explained(file[i], spent, unitCap) /\ file[i].why \notin {"fit", "exhausted"}
        BY <1>t, <1>3, <3>2, AdmittedNoneSkipped DEF LinesExplained
      <4>2. QED
        BY <3>2, <4>1 DEF Explained
    <3>3. QED
      BY <1>8, <3>1, <3>2
  <2>2. QED
    BY <2>1 DEF LinesExplained
<1>16. StartedCovers'
  <2>1. SUFFICES ASSUME unitCap # NoCap
                 PROVE  spent' <= Cardinality(StartedLines') * unitCap
    BY <1>2 DEF StartedCovers
  <2>2. Cardinality(StartedLines) \in Nat /\ IsFiniteSet(StartedLines)
    BY <1>t, StartedFinite
  <2>3. Cardinality(StartedLines') = Cardinality(StartedLines) + 1
    BY <1>8, <2>2, FS_AddElement
  <2>4. unitCap \in Nat /\ cost <= unitCap
    BY <1>t, <1>4, <1>5, <2>1, Caps
  <2>5. (Cardinality(StartedLines) + 1) * unitCap = Cardinality(StartedLines) * unitCap + unitCap
    BY <2>2, <2>4, TimesNext
  <2>6. spent <= Cardinality(StartedLines) * unitCap
    BY <1>t, <2>1 DEF StartedCovers
  <2>7. PICK whole \in Nat : whole = Cardinality(StartedLines) * unitCap
    BY <2>2, <2>4
  <2>8. spent + cost <= whole + unitCap
    BY <1>5, <1>10, <2>4, <2>6, <2>7
  <2>9. QED
    BY <1>1, <2>3, <2>5, <2>7, <2>8
<1>17. QED
  BY <1>9, <1>12, <1>13, <1>14, <1>15, <1>16 DEF IInv

LEMMA NextInv == IInv /\ [Next]_vars => IInv'
<1> SUFFICES ASSUME IInv, [Next]_vars PROVE IInv'
  OBVIOUS
<1>1. CASE Gate \/ Refuse \/ ReachesTerminal \/ Returns \/ Stopped \/ Exit \/ Start
  <2>1. UNCHANGED <<unitCap, todo, rep, spent, file, billed, owed>>
    BY <1>1 DEF Gate, Refuse, ReachesTerminal, Returns, Stopped, Exit, Start
  <2>2. /\ pc' \in {"gate", "next", "run", "score", "exit"}
        /\ pc' \in {"run", "score"} =>
             pc \in {"run", "score"} \/ (todo # <<>> /\ CanStart(spent, Cap, unitCap))
    BY <1>1 DEF Gate, Refuse, ReachesTerminal, Returns, Stopped, Exit, Start
  <2>3. QED
    BY <2>1, <2>2, QuietStep
<1>2. CASE Skip
  BY <1>2, SkipStep
<1>3. CASE Score
  BY <1>3, ScoreStep
<1>4. CASE UNCHANGED vars
  <2>1. pc' \in {"gate", "next", "run", "score", "exit"} /\ pc' = pc
    BY <1>4 DEF vars, IInv, Types
  <2>2. QED
    BY <1>4, <2>1, QuietStep DEF vars
<1>5. QED
  BY <1>1, <1>2, <1>3, <1>4 DEF Next

THEOREM SpecInv == Spec => []IInv
BY InitInv, NextInv, PTL DEF Spec

-----------------------------------------------------------------------------
(* The theorems. *)

(* Whatever the jobs, the caps, the stops and the costs, an invocation is  *)
(* billed no more than its sweep cap and what its runs still owe.          *)
THEOREM SpecSweepWithinCap == Spec => []SweepWithinCap
<1>1. IInv => SweepWithinCap
  BY Caps DEF IInv, Types, Money, SweepWithinCap
<1>2. QED
  BY <1>1, SpecInv, PTL

(* An answerable unit that was skipped was skipped for money, so as many   *)
(* units had started as the sweep said could.                              *)
LEMMA PermittedUnits == IInv => PermittedUnitsStart
<1> SUFFICES ASSUME IInv, unitCap # NoCap, NEW i \in DOMAIN file, file[i].skipped,
                    <<Jobs[file[i].job].scenario, Jobs[file[i].job].workflow>> \notin Unmet
             PROVE  Started >= UnitsThatCanEverStart(Cap, unitCap)
  BY DEF PermittedUnitsStart
<1>1. Types /\ LinesExplained /\ StartedCovers
  BY DEF IInv
<1>2. Cap \in Nat /\ unitCap \in Nat \ {0} /\ spent \in Nat
  BY <1>1, Caps DEF Types
<1>3. file[i].why \in Reasons
  <2>1. file[i] \in LineSet
    BY <1>1 DEF Types
  <2>2. QED
    BY <2>1 DEF LineSet
<1>4. Explained(file[i], spent, unitCap)
  BY <1>1 DEF LinesExplained
<1>e. file[i].why \in {"fit", "exhausted"}
  BY <1>3, <1>4 DEF Explained, Reasons
<1>5. Cap < spent + unitCap
  <2>1. spent + unitCap > Cap \/ spent >= Cap
    BY <1>4, <1>e DEF Explained
  <2>2. QED
    BY <1>2, <2>1
<1>6. Started = Cardinality(StartedLines) /\ Cardinality(StartedLines) \in Nat
  BY <1>1, StartedFinite DEF Started, StartedLines
<1>7. spent <= Started * unitCap /\ Started * unitCap \in Nat
  BY <1>1, <1>2, <1>6 DEF StartedCovers
<1>8. Cap < Started * unitCap + unitCap
  BY <1>2, <1>5, <1>7
<1>9. Cap \div unitCap <= Started
  BY <1>2, <1>6, <1>8, QuotientCovered
<1>10. QED
  BY <1>2, <1>6, <1>9 DEF UnitsThatCanEverStart

(* The reason on every line is true when it is read, not only when it was  *)
(* written: no run starts after a unit was skipped for money.              *)
THEOREM SpecSkipsAreExplained == Spec => []SkipsAreExplained
<1>1. IInv => SkipsAreExplained
  <2> SUFFICES ASSUME IInv PROVE SkipsAreExplained
    OBVIOUS
  <2>1. spent \in Nat /\ Cap \in Nat
    BY Caps DEF IInv, Types
  <2>2. ASSUME NEW i \in DOMAIN file
        PROVE  /\ file[i].why = "fit" => spent < Cap /\ unitCap # NoCap /\ spent + unitCap > Cap
               /\ file[i].why = "exhausted" => spent >= Cap
               /\ file[i].why \in {"fit", "exhausted"} => file[i].why = Summary
    <3>1. /\ file[i].why = "fit" => spent < Cap /\ unitCap # NoCap /\ spent + unitCap > Cap
          /\ file[i].why = "exhausted" => spent >= Cap
      BY DEF IInv, LinesExplained, Explained
    <3>2. Remaining(spent, Cap) = 0 <=> spent >= Cap
      BY <2>1 DEF Remaining
    <3>3. QED
      BY <2>1, <3>1, <3>2 DEF Summary
  <2>3. QED
    BY <2>2, PermittedUnits DEF SkipsAreExplained
<1>2. QED
  BY <1>1, SpecInv, PTL
-----------------------------------------------------------------------------
(* The gate. *)

(* Places of a line have a last one: the sets i .. n of those places are   *)
(* finite, so one of them holds no other.                                  *)
LEMMA LastPlace ==
  ASSUME NEW n \in Nat, NEW places \in SUBSET (1 .. n), places # {}
  PROVE  Max(places) \in places
<1> DEFINE From(i) == i .. n
           tails == {From(i) : i \in places}
<1>1. IsFiniteSet(1 .. n)
  BY FS_Interval
<1>2. IsWellFoundedOn(StrictSubsetOrdering(1 .. n), SUBSET (1 .. n))
  BY <1>1, FS_StrictSubsetOrderingWellFounded, FS_FiniteSubsetsOfFinite
<1>3. tails \subseteq SUBSET (1 .. n) /\ tails # {}
  <2>1. \A i \in places : From(i) \subseteq 1 .. n
    OBVIOUS
  <2> HIDE DEF From
  <2> QED BY <2>1
<1>4. PICK t \in tails : \A u \in tails : ~(<<u, t>> \in StrictSubsetOrdering(1 .. n))
  <2> HIDE DEF tails
  <2> QED BY <1>2, <1>3, WFMin
<1>5. PICK i \in places : t = From(i)
  OBVIOUS
<1>6. \A j \in places : i >= j
  <2> SUFFICES ASSUME NEW j \in places, j > i PROVE FALSE
    OBVIOUS
  <2>1. From(j) \subseteq From(i) /\ From(j) # From(i)
    OBVIOUS
  <2> QED BY <1>3, <1>4, <1>5, <2>1 DEF StrictSubsetOrdering
<1> QED BY <1>6 DEF Max

LEMMA PinIsPinned ==
  ASSUME NEW n \in Nat, NEW line, DOMAIN line = 1 .. n, NEW name \in Pins(line)
  PROVE  \E e \in ToSet(line) : /\ e.name = name /\ e.provider = LastPin(line, name)
                                /\ e.provider # NoProvider
<1>1. Pinned(line, name) \subseteq 1 .. n /\ Pinned(line, name) # {}
  BY DEF Pinned, Pins, ToSet
<1>2. Max(Pinned(line, name)) \in Pinned(line, name)
  BY <1>1, LastPlace
<1> QED BY <1>2 DEF Pinned, LastPin, ToSet

(* So a pin is of its function's order, and it is not the general list's.  *)
LEMMA PinIsInTheOrder ==
  ASSUME NEW n \in Nat, NEW line, DOMAIN line = 1 .. n, NEW name \in Pins(line)
  PROVE  LastPin(line, name) \in ProviderOrder(ToSet(line), name)
<1>1. PICK e \in ToSet(line) : /\ e.name = name /\ e.provider = LastPin(line, name)
                               /\ e.provider # NoProvider
  BY PinIsPinned
<1> QED BY <1>1 DEF ProviderOrder, Providers, Named

(* The gate's copy of whose model a call asks for is the client's.         *)
LEMMA SameModel ==
  ASSUME NEW models, NEW function \in PinFunctions
  PROVE  PinTarget(models, function) = CallModel(models, function)
BY DEF PinTarget, CallModel, PinFunctions, Required

(* What the client would fail on, the gate refuses.                        *)
LEMMA FailingIsRefused ==
  ASSUME NEW config, NEW n \in Nat, DOMAIN config.line = 1 .. n,
         NEW function \in CallsOf(config), Is404(config, function)
  PROVE  Refused(config)
<1> DEFINE line == config.line
           order == ProviderOrder(ToSet(line), function)
           model == CallModel(config.models, function)
<1>1. /\ order # {} /\ model # Unset /\ function \in PinFunctions
      /\ \A e \in config.endpoints[model] : ~Serves(e, order, function)
  BY DEF Is404, CallsOf
<1>2. CASE RequiredParameters(function) # {}
  <2>1. PICK p \in order : TRUE
    BY <1>1
  <2>2. \A e \in config.endpoints[model] : ~Serves(e, {p}, function)
    BY <1>1 DEF Serves
  <2>3. ParametersRefused(config, function)
    BY <1>1, <1>2, <2>2 DEF ParametersRefused
  <2> QED BY <1>1, <2>3 DEF Refused
<1>3. CASE RequiredParameters(function) = {}
  <2>1. \A e \in config.endpoints[model] : e.provider \notin order
    BY <1>1, <1>3 DEF Serves
  <2>2. \A S \in SUBSET order : ~Lists(config, model, S)
    BY <2>1 DEF Lists
  <2>3. model = PinTarget(config.models, function)
    BY <1>1, SameModel
  <2>4. CASE function \in Pins(line)
    <3>1. LastPin(line, function) \in order
      BY <2>4, PinIsInTheOrder
    <3>2. PinRefused(config, function)
      BY <1>1, <2>2, <2>3, <3>1 DEF PinRefused
    <3> QED BY <2>4, <3>2 DEF Refused
  <2>5. CASE function \notin Pins(line)
    <3>1. Named(ToSet(line), function) = {}
      <4> SUFFICES ASSUME Named(ToSet(line), function) # {} PROVE FALSE
        OBVIOUS
      <4>1. order = Providers(Named(ToSet(line), function))
        BY DEF ProviderOrder
      <4>2. PICK e \in ToSet(line) : e.name = function /\ e.provider # NoProvider
        BY <1>1, <4>1 DEF Providers, Named
      <4>3. function # General
        BY <1>1 DEF PinFunctions, Required, General
      <4> QED BY <2>5, <4>2, <4>3 DEF Pins
    <3>2. order = Providers(Named(ToSet(line), General))
      BY <3>1 DEF ProviderOrder
    <3>3. GeneralRefused(config, function)
      BY <1>1, <2>2, <2>3, <3>2 DEF GeneralRefused
    <3> QED BY <1>1, <2>5, <3>3 DEF Refused
  <2> QED BY <2>4, <2>5
<1> QED BY <1>2, <1>3

-----------------------------------------------------------------------------
(* In a plain line a function has one provider, or the general list's one. *)
LEMMA PlainOrder ==
  ASSUME NEW line, PlainLine(line), NEW function, NEW p \in ProviderOrder(ToSet(line), function)
  PROVE  ProviderOrder(ToSet(line), function) = {p}
<1> DEFINE name == IF Named(ToSet(line), function) = {} THEN General ELSE function
<1>1. \A e, f \in Named(ToSet(line), name) : e = f
  BY DEF PlainLine, Named, ToSet
<1> HIDE DEF name
<1>2. ProviderOrder(ToSet(line), function) = Providers(Named(ToSet(line), name))
  BY DEF ProviderOrder, name
<1> QED BY <1>1, <1>2 DEF Providers

(* The gate knows of every configured call a model whose endpoints it read,*)
(* when all could be.                                                      *)
LEMMA CallsAreReadable ==
  ASSUME NEW config, Configured(config), config.readable = DOMAIN config.endpoints,
         NEW function \in PinFunctions, CallModel(config.models, function) # Unset
  PROVE  CallModel(config.models, function) \in config.readable
BY DEF Configured, CallModel, IndependentModel, PinFunctions, Required, Optional

(* A configuration that would meet no failure is not refused.              *)
LEMMA RefusedIsFailing ==
  ASSUME NEW config, NEW n \in Nat, DOMAIN config.line = 1 .. n, Configured(config),
         PlainLine(config.line), config.readable = DOMAIN config.endpoints,
         \A f \in CallsOf(config) : ~Is404(config, f)
  PROVE  ~Refused(config)
<1> DEFINE line == config.line
           Model(f) == CallModel(config.models, f)
           Order(f) == ProviderOrder(ToSet(line), f)
<1>1. ASSUME NEW f \in PinFunctions, Model(f) # Unset, NEW p \in Order(f)
      PROVE  /\ Model(f) \in config.readable
             /\ \E e \in config.endpoints[Model(f)] : Serves(e, {p}, f)
  <2>1. f \in CallsOf(config)
    BY <1>1 DEF CallsOf
  <2>2. Order(f) = {p}
    BY <1>1, PlainOrder
  <2>3. \E e \in config.endpoints[Model(f)] : Serves(e, Order(f), f)
    BY <2>1, <2>2 DEF Is404
  <2> QED BY <1>1, <2>2, <2>3, CallsAreReadable
<1>2. ASSUME NEW t \in Required PROVE ~ModelRefused(config, t)
  BY DEF ModelRefused, Configured
<1>3. ASSUME NEW name \in Pins(line) PROVE ~PinRefused(config, name)
  <2>1. PICK e \in ToSet(line) : e.name = name
    BY DEF Pins
  <2>2. name \in PinFunctions \cup {"premium"}
    BY <2>1 DEF PlainLine, Pins
  <2>3. CASE name = "premium"
    BY <2>3 DEF PinRefused, PinTarget, Required, Optional
  <2>4. CASE name \in PinFunctions
    <3>1. PinTarget(config.models, name) = Model(name)
      BY <2>4, SameModel
    <3>2. name \in Required => Model(name) # Unset
      BY DEF CallModel, Configured, Required
    <3>3. LastPin(line, name) \in Order(name)
      BY PinIsInTheOrder
    <3>4. Model(name) # Unset => Lists(config, Model(name), {LastPin(line, name)})
      BY <1>1, <2>4, <3>3 DEF Lists, Serves
    <3> QED BY <2>4, <3>1, <3>2, <3>4 DEF PinRefused
  <2> QED BY <2>2, <2>3, <2>4
<1>4. ASSUME NEW f \in PinFunctions \ Pins(line) PROVE ~GeneralRefused(config, f)
  <2> DEFINE general == Providers(Named(ToSet(line), General))
  <2> SUFFICES ASSUME general # {}, Model(f) # Unset
               PROVE  Lists(config, Model(f), general)
    BY SameModel DEF GeneralRefused
  <2>1. f # General
    BY DEF PinFunctions, Required, General
  <2>2. Named(ToSet(line), f) = {}
    BY <2>1 DEF PlainLine, Named, Pins
  <2>3. Order(f) = general
    BY <2>2 DEF ProviderOrder
  <2>4. PICK p \in Order(f) : TRUE
    BY <2>3
  <2> QED BY <1>1, <2>3, <2>4 DEF Lists, Serves
<1>5. ASSUME NEW f \in PinFunctions PROVE ~ParametersRefused(config, f)
  BY <1>1 DEF ParametersRefused
<1> QED BY <1>2, <1>3, <1>4, <1>5 DEF Refused

(* "The gate refuses exactly what the client would fail on" (A6): of every *)
(* configuration whose models are set and listed, whatever its line, the   *)
(* gate refuses what some call of it would meet a 404 on, and nothing else *)
(* when its line is plain and every endpoint could be read.                *)
THEOREM GateIsExact ==
  ASSUME NEW config, NEW n \in Nat, DOMAIN config.line = 1 .. n, Configured(config)
  PROVE  GateAgrees(config)
BY FailingIsRefused, RefusedIsFailing DEF GateAgrees

(* So it is for the gate this sweep stands at, whichever models, lines and *)
(* endpoints there are.                                                    *)
THEOREM SpecGateRefusesWhatFails == Spec => []GateRefusesWhatFails
<1>1. ASSUME NEW models \in ModelMaps, NEW line \in PinLines,
             NEW endpoints \in EndpointMaps, NEW readable \in ReadableSets
      PROVE  GateAgrees(Configuration(models, line, endpoints, readable))
  <2> DEFINE config == Configuration(models, line, endpoints, readable)
  <2>1. Configured(config)
    BY GateAssumption DEF Configured, Configuration
  <2>2. PICK n \in Nat : DOMAIN config.line = 1 .. n
    BY LinesAssumption DEF Configuration
  <2> QED BY <2>1, <2>2, GateIsExact DEF Configuration
<1>2. GateRefusesWhatFails
  BY <1>1 DEF GateRefusesWhatFails
<1> QED BY <1>2, PTL
=============================================================================
