----------------------------- MODULE FreeChecks -----------------------------
(***************************************************************************)
(* The free checks of autornd/graph/checks.py that read text: does the     *)
(* answer mention what each ask is about, do its figures contradict the    *)
(* request's, and do two blind recomputations agree with each other and    *)
(* not with the answer?  Text is reduced to what the checks find in it.    *)
(***************************************************************************)
EXTENDS Integers, FiniteSets, SequencesExt

CONSTANTS
    Term,        \* the significant words asks and answers are made of
    Value,       \* the values a request or an answer writes, in tenths
    Figure       \* the figures an answer or a sample can state

-----------------------------------------------------------------------------
(* criteria_addressed *)

(* A criterion: its words; whether it has a prohibition marker, the parts  *)
(* that follow it (the parentheses in order, then the text outside them)   *)
(* with what each quotes and whether it says that must be present; the     *)
(* structural verb and the field names; the count it asserts.              *)
Parts == [quoted : SUBSET Term, present : {"no", "clear", "ambiguous"}]
Bounds == {"none", "percentage", "at least", "at most"}

Criteria ==
    [terms : SUBSET Term, marker : BOOLEAN, group : Parts, bare : Parts,
     structural : BOOLEAN, fields : 0 .. 2, bound : Bounds]

(* _forbidden_tokens: a parenthesis that says its words must be present is *)
(* passed over; so is the text around it when any of it says so.           *)
ForbiddenTokens(c) ==
    IF ~c.marker THEN {}
    ELSE IF c.group.present = "no" /\ c.group.quoted # {} THEN c.group.quoted
    ELSE IF c.group.present = "no" /\ c.bare.present = "no" THEN c.bare.quoted
    ELSE {}

(* _classify, in its order; _CARDINALITY does not know "at most", which    *)
(* _WORD_BOUND reads.                                                      *)
Classify(c) ==
    CASE ForbiddenTokens(c) # {} -> "prohibition"
      [] ForbiddenTokens(c) = {} /\ c.marker ->
           IF "clear" \in {c.group.present, c.bare.present} THEN "presence" ELSE "form"
      [] ~c.marker /\ c.structural -> IF c.fields = 1 THEN "presence" ELSE "form"
      [] ~c.marker /\ ~c.structural /\ c.bound \in {"percentage", "at least"} -> "form"
      [] OTHER -> "presence"

LeastWords == 2

(* What the check makes of one criterion and an answer, its words and how  *)
(* many it has: nothing wanted, abstained, addressed or missed.            *)
Judge(c, answer) ==
    LET shape == Classify(c)
        computed == ~c.marker /\ ~c.structural /\ c.bound = "at least"
    IN CASE c.terms = {} -> "nothing"
         [] c.terms # {} /\ shape = "form" ->
              IF ~computed THEN "abstained"
              ELSE IF answer.length >= LeastWords THEN "addressed" ELSE "missed"
         [] c.terms # {} /\ shape = "prohibition" ->
              IF ForbiddenTokens(c) \cap answer.words = {} THEN "addressed" ELSE "missed"
         [] OTHER ->
              IF 2 * Cardinality(c.terms \cap answer.words) < Cardinality(c.terms)
              THEN "missed" ELSE "addressed"

(* criteria_addressed over the asks, or over the whole request when none   *)
(* anchored.                                                               *)
CriteriaAddressed(criteria, answer, fallback) ==
    LET missed == {c \in criteria : Judge(c, answer) = "missed"}
    IN IF fallback THEN [passed |-> TRUE, checked |-> FALSE, missed |-> {}]
       ELSE IF criteria = {} THEN [passed |-> FALSE, checked |-> FALSE, missed |-> {}]
       ELSE [passed |-> missed = {}, checked |-> TRUE, missed |-> missed]

-----------------------------------------------------------------------------
(* numbers_consistent *)

(* A figure as written: its value in tenths and its significant figures.   *)
(* 100, 100.0 and 1x10^2 are one value of three, four and one.             *)
Digits(v) == Cardinality({k \in 0 .. 5 : v >= 10 ^ k})
Place(v, digits) == 10 ^ (Digits(v) - digits)
Written(v) == {d \in 1 .. Digits(v) : v % Place(v, d) = 0}
Figures == {f \in [value : Value, digits : 1 .. 5, unit : {"V", "s"}] :
              f.digits \in Written(f.value)}

(* A value to so many significant figures, halves to the even one. *)
Round(v, digits) ==
    LET p == Place(v, digits)
        q == v \div p
        up == \/ 2 * (v % p) > p
              \/ 2 * (v % p) = p /\ q % 2 = 1
    IN IF digits >= Digits(v) THEN v ELSE (IF up THEN q + 1 ELSE q) * p

Equal_AtTheMorePrecise(a, b) ==
    LET digits == IF a.digits > b.digits THEN a.digits ELSE b.digits
    IN Round(a.value, digits) = Round(b.value, digits)

(* _agree: equal at the precision of the less precise figure. *)
Equal(a, b) ==
    LET digits == IF a.digits < b.digits THEN a.digits ELSE b.digits
    IN a.value = b.value \/ Round(a.value, digits) = Round(b.value, digits)

UnitsOf(figures) == {f.unit : f \in figures}

(* A unit both use is in conflict when no figure of one agrees with a      *)
(* figure of the other.                                                    *)
NumbersConsistent(requested, built) ==
    LET shared == UnitsOf(requested) \cap UnitsOf(built)
        conflicts == {u \in shared : \A r \in requested, b \in built :
                        r.unit = u /\ b.unit = u => ~Equal(r, b)}
    IN [passed |-> conflicts = {}, checked |-> shared # {}]

-----------------------------------------------------------------------------
(* recompute_vote *)

(* A stated value: a number the reply's parser kept as it was written, a   *)
(* number the answer's typed field made a float, or text.                  *)
Stated(forms) == [figure : Figure, form : forms, unit : {"", "V"}]

(* What a sample comes to: its call failed, it stated nothing for the ask, *)
(* or it stated a value.                                                   *)
Failed == [outcome |-> "failed"]
Silent == [outcome |-> "silent"]
States(v) == [outcome |-> "states", value |-> v]

Samples(forms) == {Failed, Silent} \cup {States(v) : v \in Stated(forms)}

(* _recompute_ident: a float is printed with its decimal, and punctuation  *)
(* is dropped, so 12.0 reads 120.                                          *)
Ident(v) == IF v.form = "float" THEN 10 * v.figure ELSE v.figure

Gap(a, b) == IF a > b THEN a - b ELSE b - a

(* Within 3% of the magnitude of a; figures are positive. *)
Agrees(a, b) == 100 * Gap(a, b) <= 3 * a

(* _recompute_majority: the identifier most samples state, the first of    *)
(* them on a tie; else the mean of the first group of at least two that    *)
(* agree.  A majority is its sum over its support.                         *)
NoMajority == [sum |-> 0, support |-> 0]
LeastSupport == 2

Support(values, i, identity) ==
    {j \in DOMAIN values : IF identity THEN Ident(values[i]) = Ident(values[j])
                           ELSE Agrees(values[i].figure, values[j].figure)}

Majority(values, identity) ==
    LET group(i) == Support(values, i, identity)
        size(i) == Cardinality(group(i))
        enough == {i \in DOMAIN values : size(i) >= LeastSupport}
        wins(i) == IF identity THEN \A j \in enough : size(i) > size(j) \/ (size(i) = size(j) /\ i <= j)
                   ELSE \A j \in enough : i <= j
    IN IF enough = {} THEN NoMajority
       ELSE LET i == CHOOSE i \in enough : wins(i)
            IN IF identity
               THEN [sum |-> Ident(values[i]) * size(i), support |-> size(i)]
               ELSE [sum |-> FoldLeftDomain(LAMBDA s, j : IF j \in group(i) THEN s + values[j].figure ELSE s,
                                            0, values),
                     support |-> size(i)]

(* The answer against the majority: a different identifier, or a number    *)
(* more than 3% of the majority away from it.                              *)
Differs(answer, m, identity) ==
    IF identity THEN m.support * Ident(answer) # m.sum
    ELSE 100 * Gap(m.support * answer.figure, m.sum) > 3 * m.sum

(* What the recompute node leaves for the vote: what its samples came to;  *)
(* a skip with none where no tier is configured for it, or where the       *)
(* advisory node raised, was cut or was not started (skip_output).         *)
PhaseRecompute(ends, samples) ==
    [skipped |-> ends # "sampled", samples |-> IF ends = "sampled" THEN samples ELSE <<>>]

(* recompute_vote, on one ask the answer's results name. *)
Vote(answer, node, kind) ==
    LET parsed == SelectSeq(node.samples, LAMBDA s : s # Failed)
        stating == SelectSeq(parsed, LAMBDA s : s # Silent)
        values == [i \in DOMAIN stating |-> stating[i].value]
        inPlay == {answer} \cup ToSet(values)
        identity == kind = "verdict" \/ \E v \in inPlay : v.form = "text"
        comparable == identity \/ Cardinality({v.unit : v \in inPlay}) = 1
        m == IF comparable THEN Majority(values, identity) ELSE NoMajority
        flagged == m.support > 0 /\ Differs(answer, m, identity)
    IN IF node.skipped THEN [passed |-> FALSE, checked |-> FALSE, flagged |-> FALSE]
       ELSE IF Len(parsed) < 2 THEN [passed |-> TRUE, checked |-> FALSE, flagged |-> FALSE]
       ELSE [passed |-> ~flagged, checked |-> TRUE, flagged |-> flagged]

-----------------------------------------------------------------------------
(* A flag has two samples behind it that agree, and never falls on an      *)
(* answer that one of the majority gave: of three samples all of numbers   *)
(* or all of text, the answer is flagged only when two of them, near each  *)
(* other, both state something else, and never for want of a sample.       *)
FlagHasGround(answer, samples, v) ==
    v.flagged =>
      \E i, j \in DOMAIN samples :
         /\ i # j /\ samples[i].outcome = "states" /\ samples[j].outcome = "states"
         /\ Agrees(samples[i].value.figure, samples[j].value.figure)
         /\ samples[i].value.figure # answer.figure
         /\ samples[j].value.figure # answer.figure

FlagsHaveGround ==
    \A forms \in {{"float"}, {"text"}}, ends \in {"sampled", "given up", "unset"} :
      \A answer \in Stated(forms), a, b, c \in Samples(forms) :
        LET node == PhaseRecompute(ends, <<a, b, c>>)
            v == Vote(answer, node, "value")
        IN FlagHasGround(answer, node.samples, v) /\ (ends # "sampled" => ~v.passed)

(* "A quoted token that must be PRESENT rather than absent is not a        *)
(* forbidden token" (checks.py:758), and "an abstention never fails the    *)
(* check" (checks.py:1007).  Saying one word more makes an answer miss an  *)
(* ask only if the ask quotes that word in a part that does not ask for    *)
(* it, and makes it meet one only if the word is the ask's own and it      *)
(* forbids nothing, or its count is reached; an ask abstained on fails     *)
(* nothing, and the fallback is never judged.                              *)
NoWordFlips ==
    \A c \in Criteria, said \in SUBSET Term, word \in Term, n \in 0 .. LeastWords :
      LET less == [words |-> said, length |-> n]
          more == [words |-> said \cup {word}, length |-> n + 1]
          unasked == {p \in {c.group, c.bare} : p.present = "no"}
      IN /\ Judge(c, less) = "addressed" /\ Judge(c, more) = "missed" =>
              c.marker /\ word \in UNION {p.quoted : p \in unasked}
         /\ Judge(c, less) = "missed" /\ Judge(c, more) = "addressed" =>
              \/ word \in c.terms /\ ForbiddenTokens(c) = {}
              \/ c.bound = "at least" /\ n + 1 = LeastWords
         /\ LET alone == CriteriaAddressed({c}, less, FALSE)
            IN Judge(c, less) \in {"abstained", "nothing"} => alone.passed
         /\ CriteriaAddressed({c}, less, TRUE).passed

(* A figure of the request that the answer restates, rounded to fewer      *)
(* figures or written out with more, is no conflict, whatever else of that *)
(* unit either of them writes; nothing is compared without a shared unit.  *)
RoundingIsNoConflict ==
    \A f, other, extra \in Figures :
      /\ \A d \in 1 .. f.digits :
           LET restated == [f EXCEPT !.value = Round(f.value, d), !.digits = d]
               v == NumbersConsistent({f, other}, {restated, extra})
           IN other.unit = f.unit /\ extra.unit = f.unit => v.passed /\ v.checked
      /\ \A d \in Written(f.value) :
           NumbersConsistent({f}, {[f EXCEPT !.digits = d]}).passed
      /\ f.unit # other.unit =>
           LET v == NumbersConsistent({f}, {other}) IN v.passed /\ ~v.checked
=============================================================================
