-------------------------- MODULE PaidUnitProofs ---------------------------
(***************************************************************************)
(* Proofs about PaidUnit for any limits, prices, catalogue entries, lines  *)
(* and number of lost attempts: how a unit may end, what it may cost, who  *)
(* may serve it, and that the two readings of the catalogue agree.         *)
(***************************************************************************)
EXTENDS PaidUnit, FiniteSetTheorems, TLAPS

Callable == {"call", "draft", "check", "revise"}

(* The steps of each arm.                                                  *)
StepsOf(a) ==
  CASE a = "C" -> {"draft", "check", "revise", "ended"}
    [] a \in Pipelines -> {"pipeline", "ended"}
    [] OTHER -> {"call", "ended"}

-----------------------------------------------------------------------------
(* The catalogue. *)

(* The two readings of a catalogue agree on every id the client rates: the *)
(* client's price of a variant comes from its base exactly where the       *)
(* preflight resolves it there, but for a variant listed with a price of   *)
(* its own.                                                                *)
LEMMA ReadingsAgree ==
  ASSUME NEW bulk, NEW known
  PROVE  LET catalogue == FetchCatalogue(bulk, known, Servings)
             rates == CheckModels(bulk, known, Servings)
         IN \A s \in DOMAIN rates :
              IF Accepted(catalogue, s) /\ Readable(PriceOf(catalogue, s))
              THEN rates[s] = PriceOf(catalogue, s)
              ELSE Variant(s) /\ s \in DOMAIN bulk /\ bulk[s].price # NoPrice
<1> DEFINE catalogue == FetchCatalogue(bulk, known, Servings)
           rates == CheckModels(bulk, known, Servings)
           listed == DOMAIN bulk \cup Confirmed(bulk, known, Servings)
           rated == {s \in DOMAIN bulk : Readable(bulk[s].price) /\ ~CarriesMore(bulk[s].price)}
           lent == {s \in listed : s \notin rated /\ Variant(s) /\ BaseOf[s] \in rated}
<1>1. /\ DOMAIN catalogue = listed
      /\ \A s \in listed : catalogue[s] = IF s \in DOMAIN bulk THEN bulk[s] ELSE ConfirmedEntry
  BY DEF FetchCatalogue
<1>2. /\ DOMAIN rates = rated \cup lent
      /\ \A s \in rated : rates[s] = bulk[s].price
      /\ \A s \in lent : rates[s] = bulk[BaseOf[s]].price
  BY DEF CheckModels
<1>3. ASSUME NEW s \in rated
      PROVE  /\ s \in listed /\ catalogue[s] = bulk[s] /\ bulk[s].price # NoPrice
             /\ ~Unpriced(bulk[s].price) /\ Readable(bulk[s].price)
  <2>1. s \in DOMAIN bulk /\ Readable(bulk[s].price) /\ ~CarriesMore(bulk[s].price)
    OBVIOUS
  <2>2. bulk[s].price # NoPrice
    BY <2>1 DEF Readable, NoPrice, Missing
  <2>3. Missing \notin {bulk[s].price.prompt, bulk[s].price.completion}
    BY <2>1 DEF Readable, Missing
  <2> QED BY <1>1, <2>1, <2>2, <2>3 DEF Unpriced
<1> SUFFICES ASSUME NEW s \in rated \cup lent
             PROVE  IF Accepted(catalogue, s) /\ Readable(PriceOf(catalogue, s))
                    THEN rates[s] = PriceOf(catalogue, s)
                    ELSE Variant(s) /\ s \in DOMAIN bulk /\ bulk[s].price # NoPrice
  BY <1>2
<1>4. CASE s \in rated
  <2>1. Resolve(catalogue, s) = bulk[s]
    BY <1>3, <1>4 DEF Resolve
  <2>2. Accepted(catalogue, s) /\ Readable(PriceOf(catalogue, s))
    BY <1>1, <1>3, <1>4, <2>1 DEF Accepted, PriceOf
  <2> QED BY <1>2, <1>4, <2>1, <2>2 DEF PriceOf
<1>5. CASE s \in lent
  <2>1. s \in listed /\ s \notin rated /\ Variant(s) /\ BaseOf[s] \in rated
    BY <1>5
  <2>2. BaseOf[s] \in DOMAIN catalogue /\ catalogue[BaseOf[s]] = bulk[BaseOf[s]]
        /\ bulk[BaseOf[s]].price # NoPrice
    BY <1>1, <1>3, <2>1
  <2>3. CASE catalogue[s].price = NoPrice
    <3>1. Resolve(catalogue, s) = bulk[BaseOf[s]]
      BY <2>1, <2>2, <2>3 DEF Resolve
    <3>2. Accepted(catalogue, s) /\ Readable(PriceOf(catalogue, s))
      BY <1>1, <1>3, <2>1, <3>1 DEF Accepted, PriceOf
    <3> QED BY <1>2, <1>5, <3>1, <3>2 DEF PriceOf
  <2>4. CASE catalogue[s].price # NoPrice
    <3>1. s \in DOMAIN bulk /\ catalogue[s] = bulk[s]
      BY <1>1, <2>1, <2>4 DEF ConfirmedEntry
    <3>2. Resolve(catalogue, s) = bulk[s]
      BY <2>4, <3>1 DEF Resolve
    <3>3. ~(Accepted(catalogue, s) /\ Readable(PriceOf(catalogue, s)))
      BY <2>1, <3>1, <3>2 DEF Accepted, PriceOf, Unpriced
    <3> QED BY <2>1, <2>4, <3>1, <3>3
  <2> QED BY <2>3, <2>4
<1> QED BY <1>4, <1>5

(* What the client rates the preflight accepts, at the same price, unless  *)
(* it is a variant listed with a price of its own, in every catalogue.     *)
THEOREM SpecRatesAgree == UnitSpec => []RatesAgree
<1>1. RatesAgree
  BY ReadingsAgree DEF RatesAgree, Market
<1> QED BY <1>1, PTL

-----------------------------------------------------------------------------
(* The providers. *)

(* Places of a line have a last one: the sets i .. n of those places are   *)
(* finite, so one of them holds no other.                                  *)
LEMMA LastPlace ==
  ASSUME NEW n \in Nat, NEW places \in SUBSET (1 .. n), places # {}
  PROVE  Max(places) \in places
<1> DEFINE From(i) == i .. n
           tails == {From(i) : i \in places}
<1>1. IsFiniteSet(1 .. n)
  BY FS_Interval
<1>2. IsWellFoundedOn(StrictSubsetOrdering(1 .. n), SUBSET (1 .. n))
  BY <1>1, FS_StrictSubsetOrderingWellFounded, FS_FiniteSubsetsOfFinite
<1>3. tails \subseteq SUBSET (1 .. n) /\ tails # {}
  <2>1. \A i \in places : From(i) \subseteq 1 .. n
    OBVIOUS
  <2> HIDE DEF From
  <2> QED BY <2>1
<1>4. PICK t \in tails : \A u \in tails : ~(<<u, t>> \in StrictSubsetOrdering(1 .. n))
  <2> HIDE DEF tails
  <2> QED BY <1>2, <1>3, WFMin
<1>5. PICK i \in places : t = From(i)
  OBVIOUS
<1>6. \A j \in places : i >= j
  <2> SUFFICES ASSUME NEW j \in places, j > i PROVE FALSE
    OBVIOUS
  <2>1. From(j) \subseteq From(i) /\ From(j) # From(i)
    OBVIOUS
  <2> QED BY <1>3, <1>4, <1>5, <2>1 DEF StrictSubsetOrdering
<1> QED BY <1>6 DEF Max

(* The one entry under an arm's tier-4 name is the mapping's.              *)
LEMMA ArmPinIsRatified ==
  ASSUME NEW n \in Nat, NEW line, DOMAIN line = 1 .. n, NEW a \in SingleCall
  PROVE  ArmPin(line, a) \subseteq Providers(Named(ToSet(line), Tier3Name(a)))
<1> DEFINE places == Ratification(line, a)
           pin == IF places = {} THEN NoProvider ELSE line[Max(places)].provider
           b == IF a = "A" THEN "A" ELSE "D"
           own == [name |-> Tier4Name(a), provider |-> pin]
<1>1. Tier3Name(a) = Tier3Name(b) /\ Tier4Name(a) = Tier4Name(b)
      /\ Ratification(line, b) = places
  BY DEF Tier3Name, Tier4Name, SingleCall, Ratification
<1>2. Named(MapTier4Pins(line), Tier4Name(a)) = {own}
  <2>1. Tier4Name("A") # Tier4Name("D") /\ Tier4Name(a) \in Tier4Names
    BY DEF Tier4Name, Tier4Names, SingleCall
  <2>2. own \in MapTier4Pins(line)
    BY <1>1 DEF MapTier4Pins
  <2>3. ASSUME NEW e \in MapTier4Pins(line), e.name = Tier4Name(a) PROVE e = own
    <3>1. PICK c \in {"A", "D"} :
            e = [name |-> Tier4Name(c),
                 provider |-> IF Ratification(line, c) = {} THEN NoProvider
                              ELSE line[Max(Ratification(line, c))].provider]
      BY <2>1, <2>3 DEF MapTier4Pins
    <3>2. c = b
      BY <1>1, <2>1, <2>3, <3>1
    <3> QED BY <1>1, <3>1, <3>2
  <2> QED BY <2>2, <2>3 DEF Named
<1>3. ArmPin(line, a) = {pin} \ {NoProvider}
  <2>1. own.provider = pin
    OBVIOUS
  <2> HIDE DEF own, pin
  <2>2. ArmPin(line, a) = Providers({own})
    BY <1>2 DEF ArmPin, ProviderOrder
  <2>3. {e.provider : e \in {own}} = {own.provider}
    OBVIOUS
  <2> QED BY <2>1, <2>2, <2>3 DEF Providers
<1>4. CASE places = {}
  BY <1>3, <1>4
<1>5. CASE places # {}
  <2>1. places \in SUBSET (1 .. n)
    BY DEF Ratification
  <2>2. Max(places) \in places
    BY <1>5, <2>1, LastPlace
  <2>3. line[Max(places)] \in Named(ToSet(line), Tier3Name(a))
    BY <2>2 DEF Ratification, Named, ToSet
  <2> QED BY <1>3, <1>5, <2>3 DEF Providers
<1> QED BY <1>4, <1>5

LineIsASequence == \E n \in Nat : DOMAIN run.line = 1 .. n

LEMMA InitLine == UnitInit => LineIsASequence
<1> SUFFICES ASSUME UnitInit PROVE LineIsASequence
  OBVIOUS
<1>1. run.line \in Lines \cup {<<>>}
  BY DEF UnitInit
<1>2. CASE run.line = <<>>
  BY <1>2 DEF LineIsASequence
<1>3. CASE run.line \in Lines
  <2>1. PICK n \in 0 .. LineLength : run.line \in [1 .. n -> LineEntries]
    BY <1>3 DEF Lines
  <2> QED BY <2>1, PaidUnitAssumption DEF LineIsASequence
<1> QED BY <1>1, <1>2, <1>3

(* The run is what it was started with.                                    *)
LEMMA RunIsKept == [UnitNext]_unitVars => UNCHANGED <<run, arm>>
BY DEF UnitNext, unitVars, vars, Start, PaidReply, Reply, SingleReplies, ToolRound,
   ToolAnswer, Draft, Check, Revise, OverBudget, AttemptLost, PaidCallFails,
   CallFails, Pipeline, PipelineReturns, PipelineCut

(* R7: a result of a tier-4 single-call arm that is not flagged was served *)
(* by a provider the owner ratified for that arm, whatever the line, the   *)
(* fallbacks and the provider that answered.                               *)
THEOREM SpecUnflaggedIsRatified == UnitSpec => []UnflaggedIsRatified
<1>1. LineIsASequence /\ [UnitNext]_unitVars => LineIsASequence'
  BY RunIsKept DEF LineIsASequence
<1>2. LineIsASequence => UnflaggedIsRatified
  BY ArmPinIsRatified DEF LineIsASequence, UnflaggedIsRatified, ServingMismatch, Ratified
<1> QED BY InitLine, <1>1, <1>2, PTL DEF UnitSpec
-----------------------------------------------------------------------------
(* The protocol of a unit.  Whatever a paid run does to a unit is a step   *)
(* of ArmUnit: a call refused for money is a call that fails.              *)

THEOREM UnitImplementsArm == UnitSpec => Spec
<1>1. UnitInit => Init
  BY DEF UnitInit
<1>2. [UnitNext]_unitVars => [Next]_vars
  <2> SUFFICES ASSUME [UnitNext]_unitVars PROVE [Next]_vars
    OBVIOUS
  <2>1. CASE PaidReply
    BY <2>1 DEF PaidReply, Reply, Next
  <2>2. CASE OverBudget
    BY <2>2 DEF OverBudget, Calling, CallFails, Next
  <2>3. CASE PaidCallFails
    BY <2>3 DEF PaidCallFails, Next
  <2>4. CASE Pipeline
    BY <2>4 DEF Pipeline, Next
  <2>5. CASE Start \/ AttemptLost \/ UNCHANGED unitVars
    BY <2>5 DEF Start, AttemptLost, unitVars
  <2> QED BY <2>1, <2>2, <2>3, <2>4, <2>5 DEF UnitNext
<1> QED BY <1>1, <1>2, PTL DEF UnitSpec, Spec

(* Where the calls of an arm have got to.                                  *)
Shape ==
  /\ arm \in Arms /\ pc \in StepsOf(arm)
  /\ replies \in Seq(Replies)
  /\ asked \in Nat /\ invoked \in Nat
  /\ pc # "ended" => answer = 0 /\ end = NotEnded
  /\ pc \in Callable => Calls < SequenceCalls(arm)
  /\ pc = "draft" => Calls = 0
  /\ pc = "check" => Calls >= 1
  /\ pc = "revise" => Calls >= 2

Verdict == ParseCheckVerdict(check)

(* How it ended; what arm C's check said of the answer it delivers, and    *)
(* the finish reason a refusal was read from.                              *)
Earned ==
  /\ pc = "ended" => end \in UnitOutcomes(arm)
  /\ pc = "revise" => Verdict = "object"
  /\ arm = "C" /\ answer = 1 => Verdict # "object" \/ Calls = CallLimit
  /\ arm = "C" /\ answer \notin {0, 1} => Verdict = "object"
  /\ end.status = "refusal" =>
       /\ replies # <<>> /\ replies[Calls].finish # "error"
       /\ arm # "C" => answer = Calls

EndInv == Shape /\ Earned

LEMMA Limits ==
  /\ CallLimit \in Nat /\ CallLimit > 1 /\ ToolLimit \in Nat /\ ToolsPerReply \in Nat
  /\ \A a \in Arms : SequenceCalls(a) = IF a \in {"B", "C"} THEN CallLimit ELSE 1
BY PreflightAssumption, ArmUnitAssumption DEF SequenceCalls

(* An answer delivered is classified by its text and the last finish.      *)
LEMMA DeliveredIsClassified ==
  ASSUME NEW list \in Seq(Replies), list # <<>>, NEW i \in 1 .. Len(list),
         NEW a \in Arms \ Pipelines, Deliver(list, i)
  PROVE  /\ pc' = "ended" /\ answer' = i /\ end' \in UnitOutcomes(a)
         /\ end'.status = "refusal" => list[Len(list)].finish # "error"
<1>1. AnswerStatus(list[i].text, list[Len(list)].finish) \in
        {"delivered", "serving_error", "refusal"}
  BY DEF AnswerStatus
<1>2. AnswerStatus(list[i].text, list[Len(list)].finish) = "refusal" =>
        list[Len(list)].finish # "error"
  BY DEF AnswerStatus
<1> QED BY <1>1, <1>2 DEF Deliver, Close, Outcome, UnitOutcomes, Ran

(* A unit that fails, or is cut, delivers nothing it had not.              *)
LEMMA FailsIsEarned ==
  ASSUME EndInv, CallFails \/ PipelineReturns \/ PipelineCut
  PROVE  EndInv'
<1>1. UNCHANGED <<arm, replies, answer, check, asked, invoked>> /\ pc' = "ended"
  BY DEF CallFails, PipelineReturns, PipelineCut, Close
<1>2. end' \in UnitOutcomes(arm) /\ end'.status # "refusal"
  <2>1. CASE CallFails
    <3>1. arm \notin Pipelines
      BY <2>1 DEF EndInv, Shape, CallFails, StepsOf, Pipelines
    <3>2. PICK status \in {"deadline", "incomplete"}, credit \in BOOLEAN :
            (credit => status = "incomplete") /\ end' = Outcome(status, credit, TRUE)
      BY <2>1 DEF CallFails, Close
    <3>3. CASE credit
      BY <3>1, <3>2, <3>3 DEF Outcome, UnitOutcomes
    <3>4. CASE credit = FALSE
      BY <3>1, <3>2, <3>4 DEF Outcome, UnitOutcomes, Ran
    <3> QED BY <3>3, <3>4
  <2>2. CASE PipelineReturns
    <3>1. PICK final \in RunStates, credit \in BOOLEAN :
            end' = Outcome(PipelineStatus(AnswerOf(final)), credit, TRUE)
      BY <2>2 DEF PipelineReturns, Close
    <3>2. arm \in Pipelines /\ PipelineStatus(AnswerOf(final)) \in {"delivered", "incomplete"}
      BY <2>2 DEF PipelineReturns, PipelineStatus
    <3> QED BY <3>1, <3>2 DEF Outcome, UnitOutcomes
  <2>3. CASE PipelineCut
    BY <2>3 DEF PipelineCut, Close, Outcome, UnitOutcomes
  <2> QED BY <2>1, <2>2, <2>3
<1>3. answer = 0
  BY DEF EndInv, Shape, CallFails, PipelineReturns, PipelineCut
<1>4. pc' \in StepsOf(arm)
  BY <1>1 DEF StepsOf
<1>5. Shape'
  BY <1>1, <1>4 DEF EndInv, Shape, Calls, Callable
<1>6. Earned'
  BY <1>1, <1>2, <1>3 DEF EndInv, Earned, Verdict
<1> QED BY <1>5, <1>6 DEF EndInv

LEMMA SingleIsEarned ==
  ASSUME EndInv, SingleReplies
  PROVE  EndInv'
<1>1. PICK r \in Replies : replies' = <<r>> /\ Deliver(<<r>>, 1)
  BY DEF SingleReplies
<1>2. arm \in SingleCall /\ UNCHANGED <<arm, check, asked, invoked>>
  BY DEF SingleReplies
<1>3. arm \in Arms \ Pipelines /\ arm \notin {"B", "C"}
  BY <1>2 DEF SingleCall, Arms, Pipelines
<1>4. <<r>> \in Seq(Replies) /\ <<r>> # <<>> /\ 1 \in 1 .. Len(<<r>>) /\ Len(<<r>>) = 1
  OBVIOUS
<1>5. /\ pc' = "ended" /\ answer' = 1 /\ end' \in UnitOutcomes(arm)
      /\ end'.status = "refusal" => r.finish # "error"
  BY <1>1, <1>3, <1>4, DeliveredIsClassified
<1>6. Shape'
  BY <1>1, <1>2, <1>4, <1>5 DEF EndInv, Shape, StepsOf, Callable
<1>7. Earned'
  BY <1>1, <1>2, <1>3, <1>4, <1>5 DEF Earned, Calls
<1> QED BY <1>6, <1>7 DEF EndInv

(* A reply appended.                                                       *)
LEMMA OneMore ==
  ASSUME Shape, NEW r \in Replies
  PROVE  /\ Append(replies, r) \in Seq(Replies) /\ Append(replies, r) # <<>>
         /\ Calls \in Nat /\ Len(Append(replies, r)) = Calls + 1
         /\ Append(replies, r)[Calls + 1] = r
BY DEF Shape, Calls

LEMMA ToolsAreEarned ==
  ASSUME EndInv, ToolRound \/ ToolAnswer
  PROVE  EndInv'
<1>1. PICK r \in Replies : replies' = Append(replies, r)
  BY DEF ToolRound, ToolAnswer
<1>2. /\ replies' \in Seq(Replies) /\ replies' # <<>>
      /\ Calls \in Nat /\ Calls' = Calls + 1 /\ Len(replies') = Calls + 1
      /\ replies'[Calls + 1] = r
  BY <1>1, OneMore DEF EndInv, Calls
<1>3. arm = "B" /\ UNCHANGED <<arm, check>> /\ arm \in Arms \ Pipelines
  BY DEF ToolRound, ToolAnswer, Arms, Pipelines
<1>4. CASE ToolRound
  <2>1. pc = "call" /\ UNCHANGED <<pc, answer, end>> /\ Calls + 1 < CallLimit
    BY <1>4 DEF ToolRound
  <2>2. asked' \in Nat /\ invoked' \in Nat
    <3>1. PICK wanted \in 1 .. ToolsPerReply :
            asked' = asked + wanted /\ invoked' = invoked + Allowed(wanted)
      BY <1>4 DEF ToolRound
    <3> QED BY <3>1, Limits DEF EndInv, Shape, Allowed
  <2>3. Shape'
    BY <1>2, <1>3, <2>1, <2>2, Limits DEF EndInv, Shape, Callable, SequenceCalls
  <2>4. Earned'
    BY <1>3, <2>1 DEF EndInv, Shape, Earned, NotEnded, Outcome
  <2> QED BY <2>3, <2>4 DEF EndInv
<1>5. CASE ToolAnswer
  <2>1. Deliver(replies', Len(replies')) /\ UNCHANGED <<asked, invoked>>
    BY <1>5 DEF ToolAnswer
  <2>2. /\ pc' = "ended" /\ answer' = Calls + 1 /\ end' \in UnitOutcomes(arm)
        /\ end'.status = "refusal" => r.finish # "error"
    <3> DEFINE list == replies'
    <3>1. list \in Seq(Replies) /\ list # <<>> /\ Len(list) \in 1 .. Len(list)
          /\ Len(list) = Calls + 1 /\ list[Len(list)] = r /\ Deliver(list, Len(list))
      BY <1>2, <2>1
    <3> HIDE DEF list
    <3> QED BY <1>3, <3>1, DeliveredIsClassified
  <2>3. Shape'
    BY <1>2, <1>3, <2>1, <2>2 DEF EndInv, Shape, StepsOf, Callable
  <2>4. Earned'
    BY <1>2, <1>3, <2>2 DEF Earned
  <2> QED BY <2>3, <2>4 DEF EndInv
<1> QED BY <1>4, <1>5

LEMMA DraftIsEarned ==
  ASSUME EndInv, Draft
  PROVE  EndInv'
<1>1. PICK r \in Replies : replies' = <<r>>
  BY DEF Draft
<1>2. arm = "C" /\ pc' = "check" /\ UNCHANGED <<arm, answer, check, asked, invoked, end>>
      /\ answer = 0 /\ end = NotEnded
  BY DEF Draft, EndInv, Shape
<1>3. replies' \in Seq(Replies) /\ Calls' = 1
  BY <1>1 DEF Calls
<1>4. Calls' < SequenceCalls(arm)'
  BY <1>2, <1>3, Limits DEF SequenceCalls
<1>5. Shape'
  <2>1. arm' \in Arms /\ pc' \in StepsOf(arm)'
    BY <1>2 DEF EndInv, Shape, StepsOf, Pipelines
  <2> QED BY <1>2, <1>3, <1>4, <2>1 DEF EndInv, Shape
<1>6. Earned'
  BY <1>2 DEF Earned, NotEnded, Outcome
<1> QED BY <1>5, <1>6 DEF EndInv

(* The check: asked again for a verdict it can read, revised on an         *)
(* objection while a call remains, and otherwise the draft is delivered.   *)
LEMMA CheckIsEarned ==
  ASSUME EndInv, Check
  PROVE  EndInv'
<1>1. PICK r \in Replies, p \in Payloads :
        LET list == Append(replies, r)
            v == ParseCheckVerdict(p)
        IN /\ replies' = list /\ check' = p
           /\ IF v = "none" /\ Attempts + 1 < CheckAttempts /\ Calls + 1 < CallLimit
              THEN UNCHANGED <<pc, answer, end>>
              ELSE IF v = "object" /\ Calls + 1 < CallLimit
              THEN pc' = "revise" /\ UNCHANGED <<answer, end>>
              ELSE Deliver(list, 1)
  BY DEF Check
<1> DEFINE list == Append(replies, r)
<1>2. /\ list \in Seq(Replies) /\ list # <<>> /\ Calls \in Nat
      /\ Len(list) = Calls + 1 /\ list[Calls + 1] = r
  BY OneMore DEF EndInv
<1>3. /\ arm = "C" /\ pc = "check" /\ UNCHANGED <<arm, asked, invoked>>
      /\ answer = 0 /\ end = NotEnded /\ Calls >= 1 /\ Calls < CallLimit
      /\ arm \in Arms \ Pipelines
  BY DEF Check, EndInv, Shape, Callable, SequenceCalls, Arms, Pipelines
<1>4. replies' = list /\ Calls' = Calls + 1 /\ Verdict' = ParseCheckVerdict(p)
  BY <1>1, <1>2 DEF Calls, Verdict
<1> HIDE DEF list
<1>5. CASE UNCHANGED <<pc, answer, end>> /\ Calls + 1 < CallLimit
  <2>1. Shape'
    BY <1>2, <1>3, <1>4, <1>5, Limits DEF EndInv, Shape, StepsOf, Callable
  <2>2. Earned'
    BY <1>3, <1>5 DEF Earned, NotEnded, Outcome
  <2> QED BY <2>1, <2>2 DEF EndInv
<1>6. CASE /\ pc' = "revise" /\ UNCHANGED <<answer, end>>
           /\ ParseCheckVerdict(p) = "object" /\ Calls + 1 < CallLimit
  <2>1. Shape'
    BY <1>2, <1>3, <1>4, <1>6, Limits DEF EndInv, Shape, StepsOf, Callable
  <2>2. Earned'
    BY <1>3, <1>4, <1>6 DEF Earned, NotEnded, Outcome
  <2> QED BY <2>1, <2>2 DEF EndInv
<1>7. CASE /\ Deliver(list, 1)
           /\ ParseCheckVerdict(p) # "object" \/ ~(Calls + 1 < CallLimit)
  <2>1. /\ pc' = "ended" /\ answer' = 1 /\ end' \in UnitOutcomes(arm)
        /\ end'.status = "refusal" => r.finish # "error"
    BY <1>2, <1>3, <1>7, DeliveredIsClassified
  <2>2. Verdict' # "object" \/ Calls' = CallLimit
    BY <1>2, <1>3, <1>4, <1>7, Limits
  <2>3. Shape'
    BY <1>2, <1>3, <1>4, <2>1 DEF EndInv, Shape, StepsOf, Callable
  <2>4. Earned'
    BY <1>2, <1>3, <1>4, <2>1, <2>2 DEF Earned
  <2> QED BY <2>3, <2>4 DEF EndInv
<1> QED BY <1>1, <1>5, <1>6, <1>7 DEF list

LEMMA ReviseIsEarned ==
  ASSUME EndInv, Revise
  PROVE  EndInv'
<1>1. PICK r \in Replies : replies' = Append(replies, r) /\ Deliver(replies', Len(replies'))
  BY DEF Revise
<1>2. /\ replies' \in Seq(Replies) /\ replies' # <<>>
      /\ Calls \in Nat /\ Calls' = Calls + 1 /\ Len(replies') = Calls + 1
      /\ replies'[Calls + 1] = r
  BY <1>1, OneMore DEF EndInv, Calls
<1>3. /\ arm = "C" /\ UNCHANGED <<arm, check, asked, invoked>>
      /\ Verdict = "object" /\ Calls >= 2 /\ arm \in Arms \ Pipelines
  BY DEF Revise, EndInv, Shape, Earned, Arms, Pipelines
<1>4. /\ pc' = "ended" /\ answer' = Calls + 1 /\ end' \in UnitOutcomes(arm)
      /\ end'.status = "refusal" => r.finish # "error"
  <2> DEFINE list == replies'
  <2>1. list \in Seq(Replies) /\ list # <<>> /\ Len(list) \in 1 .. Len(list)
        /\ Len(list) = Calls + 1 /\ list[Len(list)] = r /\ Deliver(list, Len(list))
    BY <1>1, <1>2
  <2> HIDE DEF list
  <2> QED BY <1>3, <2>1, DeliveredIsClassified
<1>5. Shape'
  BY <1>2, <1>3, <1>4 DEF EndInv, Shape, StepsOf, Callable
<1>6. Earned'
  BY <1>2, <1>3, <1>4 DEF Earned, Verdict
<1> QED BY <1>5, <1>6 DEF EndInv

THEOREM SpecEndInv == Spec => []EndInv
<1>1. Init => EndInv
  <2> SUFFICES ASSUME Init PROVE EndInv
    OBVIOUS
  <2>1. arm \in Arms /\ pc \in StepsOf(arm) /\ Calls = 0
    BY ArmUnitAssumption DEF Init, First, StepsOf, Pipelines, Calls
  <2>2. pc \notin {"ended", "check", "revise"} /\ SequenceCalls(arm) > 0
    BY <2>1, Limits DEF Init, First
  <2> QED BY <2>1, <2>2 DEF Init, EndInv, Shape, Earned, NotEnded, Outcome
<1>2. EndInv /\ [Next]_vars => EndInv'
  <2> SUFFICES ASSUME EndInv, [Next]_vars PROVE EndInv'
    OBVIOUS
  <2>1. CASE CallFails \/ PipelineReturns \/ PipelineCut
    BY <2>1, FailsIsEarned
  <2>2. CASE SingleReplies
    BY <2>2, SingleIsEarned
  <2>3. CASE ToolRound \/ ToolAnswer
    BY <2>3, ToolsAreEarned
  <2>4. CASE Draft
    BY <2>4, DraftIsEarned
  <2>5. CASE Check
    BY <2>5, CheckIsEarned
  <2>6. CASE Revise
    BY <2>6, ReviseIsEarned
  <2>7. CASE UNCHANGED vars
    BY <2>7 DEF vars, EndInv, Shape, Earned, Verdict, Calls
  <2> QED BY <2>1, <2>2, <2>3, <2>4, <2>5, <2>6, <2>7 DEF Next
<1> QED BY <1>1, <1>2, PTL DEF Spec

(* What a unit reports is what its calls earned: its class is one the      *)
(* sweep knows of, a check that said nothing readable is no concurrence    *)
(* and an objection is delivered over only when the calls ran out, and a   *)
(* serving's own failure is not reported as the model's refusal.           *)
THEOREM SpecEndingIsEarned == UnitSpec => []EndingIsEarned
<1>1. EndInv => EndingIsEarned
  <2> SUFFICES ASSUME EndInv PROVE EndingIsEarned
    OBVIOUS
  <2>1. EndsAsClassified
    BY DEF EndInv, Earned, EndsAsClassified
  <2>2. CheckIsHonoured
    <3> SUFFICES ASSUME arm = "C", answer # 0
                 PROVE  /\ CheckStatus = "concurred" =>
                             check.concur = "yes" /\ check.objections = "none"
                        /\ CheckStatus = "starved" => Calls = CallLimit
                        /\ answer # 1 <=> CheckStatus = "objected"
      BY DEF CheckIsHonoured
    <3>1. Verdict = "concur" => check.concur = "yes" /\ check.objections = "none"
      BY DEF Verdict, ParseCheckVerdict
    <3>2. Verdict \in {"concur", "object", "none"}
      BY DEF Verdict, ParseCheckVerdict
    <3>3. CheckStatus = IF Verdict = "none" THEN "unavailable"
                        ELSE IF Verdict = "concur" THEN "concurred"
                        ELSE IF answer = 1 THEN "starved" ELSE "objected"
      BY DEF CheckStatus, Verdict
    <3>4. /\ answer = 1 => Verdict # "object" \/ Calls = CallLimit
          /\ answer # 1 => Verdict = "object"
      BY DEF EndInv, Earned
    <3> QED BY <3>1, <3>2, <3>3, <3>4
  <2>3. RefusalIsTheModels
    BY DEF EndInv, Earned, RefusalIsTheModels
  <2> QED BY <2>1, <2>2, <2>3 DEF EndingIsEarned
<1> QED BY <1>1, UnitImplementsArm, SpecEndInv, PTL
-----------------------------------------------------------------------------
(* Arithmetic. *)

LEMMA TimesMonotone ==
  ASSUME NEW p \in Nat, NEW q \in Nat, NEW u \in Nat, p <= q
  PROVE  p * u <= q * u
OBVIOUS

LEMMA TimesNext ==
  ASSUME NEW p \in Nat, NEW u \in Nat
  PROVE  (p + 1) * u = p * u + u
OBVIOUS

LEMMA TimesSum ==
  ASSUME NEW n \in Nat, NEW u \in Nat, NEW v \in Nat
  PROVE  n * (u + v) = n * u + n * v
OBVIOUS

LEMMA TimesNat ==
  ASSUME NEW n \in Nat, NEW u \in Nat
  PROVE  n * u \in Nat
OBVIOUS

LEMMA TimesTimes ==
  ASSUME NEW n \in Nat, NEW u \in Nat, NEW v \in Nat
  PROVE  n * (u * v) = (n * u) * v
OBVIOUS

(* What no call but the first leaves uncarried of the results covers what  *)
(* every call carries of the tools, at price p and w a call.               *)
LEMMA ToolBytesFit ==
  ASSUME NEW b \in Nat, NEW n \in Nat, NEW w \in Nat, NEW p \in Nat, NEW t \in Nat,
         NEW r \in Nat, NEW limit \in Nat,
         b + r * p <= n * (w + t * p), n <= limit, limit * t <= r
  PROVE  b <= limit * w
<1>1. t * p \in Nat /\ r * p \in Nat /\ n * w \in Nat /\ n * t \in Nat
      /\ limit * t \in Nat /\ limit * w \in Nat
  BY TimesNat
<1>2. n * (w + t * p) = n * w + (n * t) * p
  BY <1>1, TimesSum, TimesTimes
<1>3. n * t <= limit * t
  BY TimesMonotone
<1>4. (n * t) * p <= r * p
  <2>1. n * t <= r
    BY <1>1, <1>3
  <2> QED BY <1>1, <2>1, TimesMonotone
<1>5. (n * t) * p \in Nat
  BY <1>1, TimesNat
<1>6. n * w <= limit * w
  BY TimesMonotone
<1> DEFINE nw == n * w
           lw == limit * w
           ntp == (n * t) * p
           rp == r * p
<1>7. /\ nw \in Nat /\ lw \in Nat /\ ntp \in Nat /\ rp \in Nat
      /\ b + rp <= nw + ntp /\ ntp <= rp /\ nw <= lw
  BY <1>1, <1>2, <1>4, <1>5, <1>6
<1>8. b <= lw
  <2> HIDE DEF nw, lw, ntp, rp
  <2> QED BY <1>7
<1> QED BY <1>8

LEMMA MaxOfTwo ==
  ASSUME NEW a \in Nat, NEW b \in Nat
  PROVE  Max({a, b}) \in Nat /\ a <= Max({a, b}) /\ b <= Max({a, b})
<1>1. \E x \in {a, b} : \A y \in {a, b} : x >= y
  OBVIOUS
<1> QED BY <1>1 DEF Max

-----------------------------------------------------------------------------
(* The money of a unit. *)

(* Rates the bound can be computed with.                                   *)
Sound(p) == p.prompt \in Nat /\ p.completion \in Nat /\ PerRequest(p) \in Nat

Counted == CountedBytes(arm, run.mode)
Served == ArmServings(arm, run.lineup)
Worst == Max({WorstCase(price[s], Counted, MaxTokens[Tier]) : s \in Served})
Rate == price[run.lineup.b].prompt

MoneyTypes ==
  /\ run.tier \in {3, 4}
  /\ {run.lineup.a, run.lineup.b, run.lineup.c1, run.lineup.c2, run.lineup.d} \subseteq Servings
  /\ Tier = 3 => arm # "D-pages"
  /\ Tier = 4 => arm \in SingleCall \cup Pipelines
  /\ market.bulk \in [DOMAIN market.bulk -> Entries]
  /\ sent \in Nat /\ spent \in Nat /\ last \in Nat /\ billed \in Nat /\ lost \in Nat
  /\ wide \in BOOLEAN

(* Before the run starts, and for a pipeline whose calls are not these,    *)
(* nothing is charged.                                                     *)
Untouched ==
  /\ ~Started => pc # "ended" /\ Calls = 0
  /\ ~Started \/ arm \in Pipelines => billed = 0 /\ spent = 0

(* The preflight let the unit start: its calls at their dearest are within *)
(* the ceiling.                                                            *)
Priced ==
  Started /\ arm \notin Pipelines =>
    /\ \A s \in Served : Sound(price[s])
    /\ SequenceCalls(arm) * Worst <= Limit

(* What n calls were charged.  Arm B's carry the tools, which nobody       *)
(* counts, beside the results, which are counted once per call; its first  *)
(* call has no results to carry, and that pays for the tools of all.       *)
Covered(n, amount) ==
  IF arm # "B" THEN amount <= n * Worst
  ELSE IF n = 0 THEN amount = 0
  ELSE amount + ToolResultBytes * Rate <= n * (Worst + ToolSpecBytes * Rate)

Balanced ==
  Started /\ arm \notin Pipelines /\ lost = 0 /\ wide = FALSE =>
    /\ pc # "ended" => Covered(Calls, billed)
    /\ pc = "ended" => billed <= SequenceCalls(arm) * Worst

FirstPrompt == arm = "B" /\ pc # "ended" /\ Calls = 0 => sent = QuestionBytes

Booked ==
  /\ pc # "ended" => spent <= Limit
  /\ spent <= Limit + last

MoneyInv ==
  MoneyTypes /\ Untouched /\ Priced /\ Balanced /\ FirstPrompt /\ Booked

LEMMA Quantities ==
  ASSUME MoneyTypes, Shape
  PROVE  /\ Limit \in Nat /\ MaxTokens[Tier] \in Nat /\ Allowance \in Nat
         /\ QuestionBytes \in Nat /\ ToolResultBytes \in Nat /\ PageBytes \in Nat
         /\ ToolSpecBytes \in Nat /\ LongestToken \in Nat /\ Counted \in Nat
         /\ SequenceCalls(arm) \in Nat
<1>1. Tier \in {3, 4} /\ arm \in Arms
  BY DEF MoneyTypes, Shape, Tier
<1>2. Limit \in Nat /\ MaxTokens[Tier] \in Nat /\ MaxTokens[3] \in Nat /\ BytesPerToken \in Nat
  BY <1>1, PreflightAssumption DEF Limit
<1>3. /\ Allowance \in Nat
      /\ QuestionBytes \in Nat /\ ToolResultBytes \in Nat /\ PageBytes \in Nat
      /\ ToolSpecBytes \in Nat /\ LongestToken \in Nat
  BY CatalogueAssumption, PreflightAssumption, PaidUnitAssumption
<1>4. MaxTokens[3] * BytesPerToken \in Nat
  BY <1>2, TimesNat
<1>5. Counted \in Nat
  BY <1>3, <1>4 DEF Counted, CountedBytes
<1> QED BY <1>1, <1>2, <1>3, <1>5, Limits

(* A worst case in its bytes.                                              *)
LEMMA WorstCaseNat ==
  ASSUME NEW p, Sound(p), NEW bytes \in Nat, NEW tokens \in Nat
  PROVE  WorstCase(p, bytes, tokens) \in Nat
<1>1. (bytes + Allowance) * p.prompt \in Nat /\ tokens * p.completion \in Nat
  BY CatalogueAssumption, TimesNat DEF Sound
<1> QED BY <1>1 DEF WorstCase, Sound

LEMMA WorstCaseMore ==
  ASSUME NEW p, Sound(p), NEW bytes \in Nat, NEW more \in Nat, NEW tokens \in Nat
  PROVE  WorstCase(p, bytes + more, tokens) = WorstCase(p, bytes, tokens) + more * p.prompt
<1> DEFINE u == bytes + Allowance
           side == tokens * p.completion
           one == PerRequest(p)
<1>1. p.prompt \in Nat /\ u \in Nat /\ side \in Nat /\ one \in Nat
  BY CatalogueAssumption, TimesNat DEF Sound
<1>2. (bytes + more) + Allowance = u + more
  BY CatalogueAssumption
<1>3. WorstCase(p, bytes + more, tokens) = (u + more) * p.prompt + side + one
  BY <1>2 DEF WorstCase
<1>4. WorstCase(p, bytes, tokens) = u * p.prompt + side + one
  BY DEF WorstCase
<1> HIDE DEF u, side, one
<1>5. (u + more) * p.prompt = u * p.prompt + more * p.prompt
  BY <1>1, TimesSum
<1>6. u * p.prompt \in Nat /\ more * p.prompt \in Nat
  BY <1>1, TimesNat
<1> DEFINE up == u * p.prompt
           mp == more * p.prompt
<1>7. up \in Nat /\ mp \in Nat /\ (u + more) * p.prompt = up + mp
  BY <1>5, <1>6
<1>8. (up + mp) + side + one = (up + side + one) + mp
  <2> HIDE DEF up, mp
  <2> QED BY <1>1, <1>7
<1> QED BY <1>3, <1>4, <1>7, <1>8

(* The dearest serving of an arm of calls bounds them all.                 *)
LEMMA DearestBounds ==
  ASSUME NEW a \in Arms \ Pipelines, NEW lineup, NEW prices, NEW bytes \in Nat, NEW tokens \in Nat,
         \A s \in ArmServings(a, lineup) : Sound(prices[s])
  PROVE  LET W(s) == WorstCase(prices[s], bytes, tokens)
             dearest == Max({W(s) : s \in ArmServings(a, lineup)})
         IN dearest \in Nat /\ \A s \in ArmServings(a, lineup) : W(s) <= dearest
<1> DEFINE servings == ArmServings(a, lineup)
           W(s) == WorstCase(prices[s], bytes, tokens)
<1>1. PICK x, y : servings = {x, y}
  <2>1. a \in {"A", "B", "C", "D", "D-pages"}
    BY DEF Arms, SingleCall, Pipelines
  <2> QED BY <2>1 DEF ArmServings
<1>2. W(x) \in Nat /\ W(y) \in Nat
  BY <1>1, WorstCaseNat
<1>3. {W(s) : s \in servings} = {W(x), W(y)}
  BY <1>1
<1> HIDE DEF W
<1>4. Max({W(x), W(y)}) \in Nat /\ W(x) <= Max({W(x), W(y)}) /\ W(y) <= Max({W(x), W(y)})
  BY <1>2, MaxOfTwo
<1>5. LET dearest == Max({W(s) : s \in servings})
      IN dearest \in Nat /\ \A s \in servings : W(s) <= dearest
  BY <1>1, <1>3, <1>4
<1> QED BY <1>5 DEF W

LEMMA WorstBounds ==
  ASSUME MoneyTypes, Shape, arm \notin Pipelines, \A s \in Served : Sound(price[s])
  PROVE  /\ Worst \in Nat
         /\ \A s \in Served : WorstCase(price[s], Counted, MaxTokens[Tier]) <= Worst
<1>1. arm \in Arms \ Pipelines
  BY DEF Shape
<1> DEFINE tokens == MaxTokens[Tier]
<1>2. Counted \in Nat /\ tokens \in Nat
  BY Quantities
<1> HIDE DEF tokens
<1>3. LET dearest == Max({WorstCase(price[s], Counted, tokens) :
                            s \in ArmServings(arm, run.lineup)})
      IN /\ dearest \in Nat
         /\ \A s \in ArmServings(arm, run.lineup) :
              WorstCase(price[s], Counted, tokens) <= dearest
  BY <1>1, <1>2, DearestBounds DEF Served
<1> QED BY <1>3 DEF Worst, Served, tokens

(* A call is of one of the arm's servings.                                 *)
LEMMA CalledIsServed ==
  ASSUME Shape, arm \notin Pipelines
  PROVE  CalledServing \in Served /\ (arm = "B" => Served = {run.lineup.b})
BY DEF Shape, Arms, SingleCall, Pipelines, CalledServing, Served, ArmServings

LEMMA ChargeIsAnAmount ==
  ASSUME MoneyInv, Shape, Calling
  PROVE  /\ arm \notin Pipelines /\ Sound(price[CalledServing]) /\ MaxCharge \in Nat
         /\ Worst \in Nat /\ \A s \in Served : Sound(price[s])
<1>1. arm \notin Pipelines
  BY DEF Shape, Calling, StepsOf, Pipelines
<1>2. \A s \in Served : Sound(price[s])
  BY <1>1 DEF MoneyInv, Priced, Calling
<1>3. Sound(price[CalledServing])
  BY <1>1, <1>2, CalledIsServed
<1>4. sent + (IF arm = "B" THEN ToolSpecBytes ELSE 0) \in Nat
  BY Quantities DEF MoneyInv, MoneyTypes
<1>5. MaxCharge \in Nat
  BY <1>3, <1>4, WorstCaseNat, Quantities DEF MaxCharge, MoneyInv
<1> QED BY <1>1, <1>2, <1>3, <1>5, WorstBounds DEF MoneyInv

(* One call more, with a prompt within what the preflight counted.         *)
LEMMA CallIsCovered ==
  ASSUME MoneyInv, Shape, Calling, sent <= Counted, Covered(Calls, billed),
         NEW cost \in {0, MaxCharge}
  PROVE  Covered(Calls + 1, billed + cost)
<1> DEFINE p == price[CalledServing]
           tokens == MaxTokens[Tier]
           own == WorstCase(p, Counted, tokens)
<1>1. /\ arm \notin Pipelines /\ Sound(p) /\ MaxCharge \in Nat /\ Worst \in Nat
      /\ CalledServing \in Served
  BY ChargeIsAnAmount, CalledIsServed
<1>2. own <= Worst /\ own \in Nat
  BY <1>1, ChargeIsAnAmount, WorstBounds, WorstCaseNat, Quantities DEF MoneyInv
<1>3. /\ sent \in Nat /\ billed \in Nat /\ Calls \in Nat /\ tokens \in Nat /\ Counted \in Nat
      /\ p.prompt \in Nat /\ ToolSpecBytes \in Nat /\ ToolResultBytes \in Nat
      /\ QuestionBytes \in Nat /\ cost \in Nat /\ cost <= MaxCharge
  BY <1>1, Quantities DEF MoneyInv, MoneyTypes, Sound, Shape, Calls
<1> HIDE DEF p, tokens, own
<1>4. WorstCase(p, sent, tokens) <= own /\ WorstCase(p, sent, tokens) \in Nat
  <2> DEFINE more == Counted - sent
  <2>1. more \in Nat /\ Counted = sent + more
    BY <1>3
  <2> HIDE DEF more
  <2>2. own = WorstCase(p, sent, tokens) + more * p.prompt
    <3>1. WorstCase(p, sent + more, tokens) = WorstCase(p, sent, tokens) + more * p.prompt
      BY <1>1, <1>3, <2>1, WorstCaseMore
    <3> QED BY <2>1, <3>1 DEF own
  <2>3. more * p.prompt \in Nat /\ WorstCase(p, sent, tokens) \in Nat
    BY <1>1, <1>3, <2>1, TimesNat, WorstCaseNat
  <2> QED BY <1>2, <2>2, <2>3
<1>5. CASE arm # "B"
  <2>1. MaxCharge = WorstCase(p, sent, tokens)
    BY <1>3, <1>5 DEF MaxCharge, p, tokens
  <2>2. cost <= Worst
    BY <1>1, <1>2, <1>3, <1>4, <2>1
  <2>3. billed <= Calls * Worst /\ Calls * Worst \in Nat
    BY <1>1, <1>3, <1>5, TimesNat DEF Covered
  <2>4. (Calls + 1) * Worst = Calls * Worst + Worst
    BY <1>1, <1>3, TimesNext
  <2>5. billed + cost <= (Calls + 1) * Worst
    BY <1>1, <1>3, <2>2, <2>3, <2>4
  <2> QED BY <1>5, <2>5 DEF Covered
<1>6. CASE arm = "B"
  <2> DEFINE r == ToolResultBytes * Rate
             t == ToolSpecBytes * Rate
             each == Worst + t
  <2>1. Rate = p.prompt /\ Counted = QuestionBytes + ToolResultBytes
    BY <1>6, CalledIsServed, <1>1 DEF Rate, Counted, CountedBytes, p
  <2>2. r \in Nat /\ t \in Nat /\ each \in Nat /\ Calls * each \in Nat
    BY <1>1, <1>3, <2>1, TimesNat
  <2>3. MaxCharge = WorstCase(p, sent, tokens) + t
    <3>1. MaxCharge = WorstCase(p, sent + ToolSpecBytes, tokens)
      BY <1>6 DEF MaxCharge, p, tokens
    <3>2. WorstCase(p, sent + ToolSpecBytes, tokens)
            = WorstCase(p, sent, tokens) + ToolSpecBytes * p.prompt
      BY <1>1, <1>3, WorstCaseMore
    <3> QED BY <2>1, <3>1, <3>2
  <2>4. CASE Calls = 0
    <3>1. sent = QuestionBytes /\ billed = 0
      BY <1>6, <2>4 DEF MoneyInv, FirstPrompt, Covered, Calling
    <3>2. own = WorstCase(p, sent, tokens) + r
      BY <1>1, <1>3, <2>1, <3>1, WorstCaseMore DEF own
    <3>3. cost + r <= each
      <4> HIDE DEF r, t
      <4> QED BY <1>1, <1>2, <1>3, <1>4, <2>2, <2>3, <3>2
    <3>4. (billed + cost) + r <= (Calls + 1) * each
      <4>1. (Calls + 1) * each = each
        BY <2>2, <2>4
      <4> HIDE DEF r, each
      <4> QED BY <1>3, <2>2, <3>1, <3>3, <4>1
    <3> QED BY <1>3, <1>6, <3>4 DEF Covered
  <2>5. CASE Calls # 0
    <3>1. billed + r <= Calls * each
      BY <1>6, <2>5 DEF Covered
    <3>2. (Calls + 1) * each = Calls * each + each
      BY <1>3, <2>2, TimesNext
    <3>3. cost <= each
      <4> HIDE DEF t
      <4> QED BY <1>1, <1>2, <1>3, <1>4, <2>2, <2>3
    <3>4. (billed + cost) + r <= (Calls + 1) * each
      <4> DEFINE paid == Calls * each
      <4>1. paid \in Nat /\ billed + r <= paid /\ (Calls + 1) * each = paid + each
        BY <2>2, <3>1, <3>2
      <4> HIDE DEF paid, r, each
      <4> QED BY <1>3, <2>2, <3>3, <4>1
    <3> QED BY <1>3, <1>6, <3>4 DEF Covered
  <2> QED BY <2>4, <2>5
<1> QED BY <1>5, <1>6

(* Calls that are covered, and no more than the limit, are within the      *)
(* sequence.                                                               *)
LEMMA CoveredIsWithin ==
  ASSUME MoneyTypes, Shape, arm \notin Pipelines, \A s \in Served : Sound(price[s]),
         NEW n \in Nat, n <= SequenceCalls(arm), NEW amount \in Nat, Covered(n, amount)
  PROVE  amount <= SequenceCalls(arm) * Worst
<1>1. /\ Worst \in Nat /\ ToolSpecBytes \in Nat /\ ToolResultBytes \in Nat
      /\ SequenceCalls(arm) \in Nat
  BY WorstBounds, Quantities
<1>2. n * Worst <= SequenceCalls(arm) * Worst /\ n * Worst \in Nat
      /\ SequenceCalls(arm) * Worst \in Nat
  BY <1>1, TimesMonotone, TimesNat
<1>3. CASE arm # "B"
  BY <1>2, <1>3 DEF Covered
<1>4. CASE arm = "B" /\ n = 0
  BY <1>2, <1>4 DEF Covered
<1>5. CASE arm = "B" /\ n # 0
  <2>1. Rate \in Nat
    BY <1>5, CalledIsServed DEF Rate, Sound
  <2>2. SequenceCalls(arm) = CallLimit /\ CallLimit * ToolSpecBytes <= ToolResultBytes
    BY <1>5, PaidUnitAssumption DEF SequenceCalls
  <2>3. amount + ToolResultBytes * Rate <= n * (Worst + ToolSpecBytes * Rate)
    BY <1>5 DEF Covered
  <2> QED BY <1>1, <2>1, <2>2, <2>3, ToolBytesFit
<1> QED BY <1>3, <1>4, <1>5
-----------------------------------------------------------------------------
(* The start. *)

(* A figure that can be read is a number of the catalogue, and what the    *)
(* preflight accepted and read has sound rates.                            *)
LEMMA AcceptedIsSound ==
  ASSUME MoneyTypes, NEW s \in Servings, Accepted(Market, s), Readable(PriceOf(Market, s))
  PROVE  Sound(PriceOf(Market, s))
<1>1. NoPrice \in Prices
  BY DEF NoPrice, Prices, Figure, Missing
<1>2. \A x \in DOMAIN Market : Market[x].price \in Prices
  <2>1. ASSUME NEW x \in DOMAIN market.bulk PROVE market.bulk[x].price \in Prices
    BY CatalogueAssumption DEF MoneyTypes, EntrySpace
  <2>2. \A x \in DOMAIN Market :
          Market[x] = IF x \in DOMAIN market.bulk THEN market.bulk[x] ELSE ConfirmedEntry
    BY DEF Market, FetchCatalogue
  <2> QED BY <1>1, <2>1, <2>2 DEF ConfirmedEntry
<1>3. PriceOf(Market, s) \in Prices
  <2>1. s \in DOMAIN Market
    BY DEF Accepted
  <2> QED BY <1>2, <2>1 DEF PriceOf, Resolve
<1> DEFINE p == PriceOf(Market, s)
<1> HIDE DEF p
<1>4. p \in Prices /\ Readable(p)
  BY <1>3 DEF p
<1>5. \A c \in Charges : Added(p, c) \in Nat
  BY <1>4 DEF Prices, Figure, Missing, Unreadable, Added
<1>6. PerRequest(p) \in Nat
  <2>1. "web_search" \in Charges /\ "request" \in Charges
    BY DEF Charges, PerRequestCharges
  <2> QED BY <1>5, <2>1 DEF PerRequest
<1>7. p.prompt \in Nat /\ p.completion \in Nat
  BY <1>4 DEF Prices, Figure, Missing, Unreadable, Readable
<1> QED BY <1>6, <1>7 DEF Sound, p

(* What the preflight of either tier checked of an arm of calls.           *)
LEMMA PassedIsFunded ==
  ASSUME MoneyTypes, arm \in Arms \ Pipelines, NEW pins, NEW credit, Passes(pins, credit)
  PROVE  /\ \A s \in Served : Accepted(Market, s) /\ Readable(PriceOf(Market, s))
         /\ SequenceWorstCase(arm, run.mode, Tier, run.lineup, Market) <= Limit
<1>1. SequenceFits(arm, run.mode, Tier, run.lineup, Market)
  <2>1. CASE Tier = 3
    <3>1. arm \in {arm} \cap {"A", "B", "C", "D"}
      BY <2>1 DEF MoneyTypes, Arms, SingleCall, Pipelines
    <3> QED BY <2>1, <3>1 DEF Passes, RunPreflight
  <2>2. CASE Tier # 3
    <3>1. Tier = 4 /\ arm \in {arm} \cap SingleCall
      BY <2>2 DEF MoneyTypes, Tier
    <3> QED BY <2>2, <3>1 DEF Passes, Tier4Preflight
  <2> QED BY <2>1, <2>2
<1>2. EveryServingPriced({arm}, run.lineup, Market)
  BY DEF Passes, RunPreflight, Tier4Preflight
<1> QED BY <1>1, <1>2 DEF EveryServingPriced, SequenceFits, Served, Limit

LEMMA ServedAreServings ==
  ASSUME MoneyTypes, arm \in Arms \ Pipelines
  PROVE  Served \subseteq Servings
BY DEF MoneyTypes, Served, ArmServings, Arms, SingleCall, Pipelines

LEMMA StartStep ==
  ASSUME MoneyInv, Shape, Start
  PROVE  MoneyInv'
<1>1. /\ ~Started /\ UNCHANGED <<run, sent, spent, last, billed, lost, wide, vars>>
      /\ price' = [s \in Served |-> PriceOf(Market, s)]
      /\ market' = [bulk |-> <<>>, known |-> {}]
  BY DEF Start, money, Served
<1>2. UNCHANGED <<arm, pc, replies, answer, check, asked, invoked, end>>
  BY <1>1 DEF vars
<1>3. /\ Limit' = Limit /\ Counted' = Counted /\ Served' = Served /\ Tier' = Tier
      /\ Calls' = Calls /\ SequenceCalls(arm)' = SequenceCalls(arm)
  BY <1>1, <1>2 DEF Limit, Counted, Served, Tier, Calls
<1>4. MoneyTypes'
  <2>1. market'.bulk \in [DOMAIN market'.bulk -> Entries]
    BY <1>1
  <2> QED BY <1>1, <1>2, <1>3, <2>1 DEF MoneyInv, MoneyTypes
<1>5. billed = 0 /\ spent = 0 /\ pc # "ended" /\ Calls = 0
  BY <1>1 DEF MoneyInv, Untouched
<1>6. Untouched'
  BY <1>1, <1>2, <1>3, <1>5 DEF Untouched
<1>7. ASSUME arm \notin Pipelines
      PROVE  /\ \A s \in Served : Sound(price'[s])
             /\ SequenceCalls(arm) * Worst' <= Limit
             /\ Worst' \in Nat
  <2>1. arm \in Arms \ Pipelines
    BY <1>7 DEF Shape
  <2>2. /\ \A s \in Served : Accepted(Market, s) /\ Readable(PriceOf(Market, s))
        /\ SequenceWorstCase(arm, run.mode, Tier, run.lineup, Market) <= Limit
    BY <2>1, PassedIsFunded DEF Start, MoneyInv
  <2>3. \A s \in Served : price'[s] = PriceOf(Market, s)
    BY <1>1
  <2>4. \A s \in Served : Sound(price'[s])
    BY <2>1, <2>2, <2>3, AcceptedIsSound, ServedAreServings DEF MoneyInv
  <2>5. Worst' = Max({WorstCase(PriceOf(Market, s), Counted, MaxTokens[Tier]) : s \in Served})
    BY <1>3, <2>3 DEF Worst
  <2>6. SequenceCalls(arm) * Worst' <= Limit
    BY <2>2, <2>5 DEF SequenceWorstCase, Counted, Served
  <2>7. Worst' = Max({WorstCase(price'[s], Counted, MaxTokens[Tier]) : s \in Served})
    BY <1>3 DEF Worst
  <2>8. Worst' \in Nat
    BY <2>1, <2>4, <2>7, DearestBounds, Quantities DEF Served, MoneyInv
  <2> QED BY <2>4, <2>6, <2>8
<1>8. Priced'
  BY <1>2, <1>3, <1>7 DEF Priced
<1>9. Balanced'
  <2>1. arm \notin Pipelines => Covered(Calls, billed)'
    <3> SUFFICES ASSUME arm \notin Pipelines PROVE Covered(Calls, billed)'
      OBVIOUS
    <3>1. Calls' = 0 /\ billed' = 0 /\ 0 * Worst' = 0
      BY <1>1, <1>3, <1>5, <1>7
    <3> QED BY <3>1 DEF Covered
  <2> QED BY <1>2, <1>5, <2>1 DEF Balanced
<1>10. FirstPrompt' /\ Booked'
  BY <1>1, <1>2, <1>3 DEF MoneyInv, FirstPrompt, Booked
<1> QED BY <1>4, <1>6, <1>8, <1>9, <1>10 DEF MoneyInv

-----------------------------------------------------------------------------
(* The calls. *)

(* What a call leaves alone.                                               *)
LEMMA Frame ==
  ASSUME UNCHANGED <<run, market, price, arm>>
  PROVE  /\ Limit' = Limit /\ Counted' = Counted /\ Served' = Served /\ Tier' = Tier
         /\ Worst' = Worst /\ Rate' = Rate /\ Started' = Started
         /\ SequenceCalls(arm)' = SequenceCalls(arm)
         /\ Priced => Priced'
         /\ \A n, amount : Covered(n, amount)' = Covered(n, amount)
<1>1. /\ Limit' = Limit /\ Counted' = Counted /\ Served' = Served /\ Tier' = Tier
      /\ Rate' = Rate /\ Started' = Started /\ SequenceCalls(arm)' = SequenceCalls(arm)
  BY DEF Limit, Counted, Served, Tier, Rate, Started
<1>2. Worst' = Worst
  BY <1>1 DEF Worst
<1> QED BY <1>1, <1>2 DEF Priced, Covered

(* Each reply is one more, and the next prompt is of a number of bytes.    *)
LEMMA ReplyIsOneMore ==
  ASSUME Shape, Reply
  PROVE  Calls' = Calls + 1 /\ UNCHANGED arm
<1>1. CASE SingleReplies \/ Draft
  <2>1. Calls = 0
    BY <1>1, Limits DEF SingleReplies, Draft, Shape, Callable, SequenceCalls, SingleCall, Calls
  <2>2. PICK r \in Replies : replies' = <<r>>
    BY <1>1 DEF SingleReplies, Draft
  <2>3. UNCHANGED arm
    BY <1>1 DEF SingleReplies, Draft
  <2> QED BY <2>1, <2>2, <2>3 DEF Calls
<1>2. CASE ToolRound \/ ToolAnswer \/ Check \/ Revise
  <2>1. PICK r \in Replies : replies' = Append(replies, r)
    BY <1>2 DEF ToolRound, ToolAnswer, Check, Revise
  <2> QED BY <1>2, <2>1, OneMore DEF ToolRound, ToolAnswer, Check, Revise, Calls
<1> QED BY <1>1, <1>2 DEF Reply

LEMMA NextPromptIsBytes ==
  ASSUME MoneyTypes, Shape, Reply, NextPrompt
  PROVE  sent' \in Nat
<1>1. ReplyBytes \in Nat
  BY Quantities, TimesNat DEF ReplyBytes
<1>2. CASE ToolRound
  <2>1. pc' = "call" /\ pc = "call"
    BY <1>2 DEF ToolRound
  <2>2. invoked' - invoked \in Nat
    <3>1. PICK wanted \in 1 .. ToolsPerReply : invoked' = invoked + Allowed(wanted)
      BY <1>2 DEF ToolRound
    <3> QED BY <3>1, Limits DEF Shape, Allowed
  <2>3. PICK results \in {0, 1, invoked' - invoked} :
          sent' = QuestionBytes + results * ToolResultBytes
    BY <2>1 DEF NextPrompt
  <2>4. results * ToolResultBytes \in Nat
    BY <2>2, <2>3, TimesNat, Quantities
  <2> QED BY <2>3, <2>4, Quantities
<1>3. CASE Draft
  BY <1>1, <1>3, Quantities DEF Draft, NextPrompt
<1>4. CASE SingleReplies \/ ToolAnswer \/ Check \/ Revise
  <2>1. pc # "draft" /\ pc' # "call"
    BY <1>4 DEF SingleReplies, ToolAnswer, Check, Revise, Deliver, Close
  <2> QED BY <1>1, <2>1 DEF NextPrompt, MoneyTypes
<1> QED BY <1>2, <1>3, <1>4 DEF Reply

LEMMA ReplyStep ==
  ASSUME MoneyInv, Shape, Shape', PaidReply
  PROVE  MoneyInv'
<1>1. PICK cost \in {0, MaxCharge} : Book(cost) /\ spent + cost <= Limit
  BY DEF PaidReply
<1>2. /\ Calling /\ Reply /\ NextPrompt /\ UNCHANGED <<run, market, price, lost, arm>>
      /\ Calls' = Calls + 1
  BY ReplyIsOneMore DEF PaidReply
<1>3. /\ arm \notin Pipelines /\ cost \in Nat /\ \A s \in Served : Sound(price[s])
  BY ChargeIsAnAmount, <1>2
<1>4. /\ spent' = spent + cost /\ last' = cost /\ billed' = billed + cost
      /\ wide' = (wide \/ sent > Counted)
  BY <1>1 DEF Book, Counted
<1>5. MoneyTypes'
  <2>1. sent' \in Nat
    BY <1>2, NextPromptIsBytes DEF MoneyInv
  <2>2. wide' \in BOOLEAN
    BY <1>4 DEF MoneyInv, MoneyTypes
  <2> QED BY <1>2, <1>3, <1>4, <2>1, <2>2, Frame DEF MoneyInv, MoneyTypes
<1>6. Untouched'
  BY <1>2, <1>3, Frame DEF Untouched, Calling
<1>7. Balanced'
  <2> SUFFICES ASSUME lost' = 0, wide' = FALSE
               PROVE  /\ pc' # "ended" => Covered(Calls, billed)'
                      /\ pc' = "ended" => billed' <= SequenceCalls(arm)' * Worst'
    BY DEF Balanced
  <2>1. wide = FALSE /\ sent <= Counted /\ lost = 0
    <3>1. wide \in BOOLEAN /\ sent \in Nat /\ Counted \in Nat
      BY Quantities DEF MoneyInv, MoneyTypes
    <3>2. wide = FALSE /\ ~(sent > Counted)
      BY <1>4, <3>1
    <3> QED BY <1>2, <3>1, <3>2
  <2>2. Covered(Calls, billed)
    BY <1>2, <1>3, <2>1 DEF MoneyInv, Balanced, Calling
  <2>3. Covered(Calls + 1, billed + cost)
    BY <1>1, <1>2, <2>1, <2>2, CallIsCovered
  <2>4. Covered(Calls, billed)'
    BY <1>2, <1>4, <2>3, Frame DEF Covered
  <2>5. billed' <= SequenceCalls(arm)' * Worst'
    <3>1. Calls + 1 \in Nat /\ Calls + 1 <= SequenceCalls(arm) /\ billed + cost \in Nat
      BY <1>2, <1>3, Quantities DEF Calling, Callable, Shape, Calls, MoneyInv, MoneyTypes
    <3>2. billed + cost <= SequenceCalls(arm) * Worst
      BY <1>3, <2>3, <3>1, CoveredIsWithin DEF MoneyInv
    <3> QED BY <1>2, <1>4, <3>2, Frame
  <2> QED BY <2>4, <2>5
<1>8. FirstPrompt'
  BY <1>2 DEF FirstPrompt, Shape, Calls
<1>9. Booked'
  BY <1>1, <1>2, <1>3, <1>4, Frame, Quantities DEF Booked, MoneyInv, MoneyTypes
<1> QED BY <1>2, <1>5, <1>6, <1>7, <1>8, <1>9, Frame DEF MoneyInv

LEMMA OverBudgetStep ==
  ASSUME MoneyInv, Shape, OverBudget
  PROVE  MoneyInv'
<1>1. PICK cost \in {0, MaxCharge} : Book(cost) /\ spent + cost > Limit
  BY DEF OverBudget
<1>2. /\ Calling /\ UNCHANGED <<run, market, price, lost, sent, arm, replies>>
      /\ pc' = "ended"
  BY DEF OverBudget, Close
<1>3. /\ arm \notin Pipelines /\ cost \in Nat /\ \A s \in Served : Sound(price[s])
  BY ChargeIsAnAmount, <1>2
<1>4. /\ spent' = spent + cost /\ last' = cost /\ billed' = billed + cost
      /\ wide' = (wide \/ sent > Counted)
  BY <1>1 DEF Book, Counted
<1>5. MoneyTypes'
  <2>1. wide' \in BOOLEAN
    BY <1>4 DEF MoneyInv, MoneyTypes
  <2> QED BY <1>2, <1>3, <1>4, <2>1, Frame DEF MoneyInv, MoneyTypes
<1>6. Untouched'
  BY <1>2, <1>3, Frame DEF Untouched, Calling
<1>7. Balanced'
  <2> SUFFICES ASSUME lost' = 0, wide' = FALSE
               PROVE  billed' <= SequenceCalls(arm)' * Worst'
    BY <1>2 DEF Balanced
  <2>1. wide = FALSE /\ sent <= Counted /\ lost = 0
    <3>1. wide \in BOOLEAN /\ sent \in Nat /\ Counted \in Nat
      BY Quantities DEF MoneyInv, MoneyTypes
    <3>2. wide = FALSE /\ ~(sent > Counted)
      BY <1>4, <3>1
    <3> QED BY <1>2, <3>1, <3>2
  <2>2. Covered(Calls, billed)
    BY <1>2, <1>3, <2>1 DEF MoneyInv, Balanced, Calling
  <2>3. Covered(Calls + 1, billed + cost)
    BY <1>1, <1>2, <2>1, <2>2, CallIsCovered
  <2>4. Calls + 1 \in Nat /\ Calls + 1 <= SequenceCalls(arm) /\ billed + cost \in Nat
    BY <1>2, <1>3, Quantities DEF Calling, Callable, Shape, Calls, MoneyInv, MoneyTypes
  <2>5. billed + cost <= SequenceCalls(arm) * Worst
    BY <1>3, <2>3, <2>4, CoveredIsWithin DEF MoneyInv
  <2> QED BY <1>2, <1>4, <2>5, Frame
<1>8. FirstPrompt'
  BY <1>2 DEF FirstPrompt
<1>9. Booked'
  <2>1. spent <= Limit
    BY <1>2 DEF MoneyInv, Booked, Calling
  <2> QED BY <1>2, <1>3, <1>4, <2>1, Frame, Quantities DEF Booked, MoneyInv, MoneyTypes
<1> QED BY <1>2, <1>5, <1>6, <1>7, <1>8, <1>9, Frame DEF MoneyInv

(* An attempt that is lost, or a call that fails for good: charged, and    *)
(* booked nowhere.                                                         *)
LEMMA LossStep ==
  ASSUME MoneyInv, Shape, AttemptLost \/ PaidCallFails
  PROVE  MoneyInv'
<1>1. /\ Calling /\ billed' = billed + MaxCharge /\ lost' = lost + 1
      /\ UNCHANGED <<run, market, price, sent, spent, last, arm, replies>>
      /\ wide' = (wide \/ sent > Counted) \/ wide' = wide
      /\ pc' = pc \/ pc' = "ended"
  BY DEF AttemptLost, PaidCallFails, CallFails, Close, vars, Counted
<1>2. MaxCharge \in Nat /\ arm \notin Pipelines
  BY <1>1, ChargeIsAnAmount
<1>3. wide' \in BOOLEAN /\ billed' \in Nat /\ lost' \in Nat /\ lost' # 0
  <2>1. wide \in BOOLEAN /\ billed \in Nat /\ lost \in Nat
    BY DEF MoneyInv, MoneyTypes
  <2>2. wide' \in BOOLEAN
    BY <1>1, <2>1
  <2> QED BY <1>1, <1>2, <2>1, <2>2
<1>4. MoneyTypes'
  BY <1>1, <1>3, Frame DEF MoneyInv, MoneyTypes
<1>5. Untouched'
  BY <1>1, <1>2, Frame DEF Untouched, Calling
<1>6. Balanced'
  BY <1>3 DEF Balanced
<1>7. FirstPrompt' /\ Booked'
  <2>1. pc # "ended"
    BY <1>1 DEF Calling
  <2> QED BY <1>1, <2>1, Frame DEF MoneyInv, FirstPrompt, Booked, Calls
<1> QED BY <1>1, <1>4, <1>5, <1>6, <1>7, Frame DEF MoneyInv

LEMMA PipelineStep ==
  ASSUME MoneyInv, Shape, Pipeline
  PROVE  MoneyInv'
<1>1. /\ Started /\ arm \in Pipelines /\ pc' = "ended"
      /\ UNCHANGED <<run, market, price, sent, spent, last, billed, lost, wide, arm, replies>>
  BY DEF Pipeline, PipelineReturns, PipelineCut, Close, money
<1>2. MoneyTypes' /\ Untouched' /\ Balanced' /\ FirstPrompt'
  BY <1>1, Frame DEF MoneyInv, MoneyTypes, Untouched, Balanced, FirstPrompt
<1>3. Booked'
  BY <1>1, Frame DEF MoneyInv, Booked
<1> QED BY <1>1, <1>2, <1>3, Frame DEF MoneyInv

LEMMA MoneyStutters ==
  ASSUME MoneyInv, UNCHANGED unitVars
  PROVE  MoneyInv'
<1>1. UNCHANGED <<run, market, price, sent, spent, last, billed, lost, wide, arm, pc, replies>>
  BY DEF unitVars, money, vars
<1>2. Calls' = Calls
  BY <1>1 DEF Calls
<1> QED BY <1>1, <1>2, Frame
        DEF MoneyInv, MoneyTypes, Untouched, Balanced, FirstPrompt, Booked

LEMMA MoneyInit ==
  ASSUME UnitInit, EndInv
  PROVE  MoneyInv
<1>1. /\ price = <<>> /\ spent = 0 /\ last = 0 /\ billed = 0 /\ lost = 0 /\ wide = FALSE
      /\ ~Started /\ replies = <<>>
      /\ sent = QuestionBytes + (IF arm = "D-pages" THEN PageBytes ELSE 0)
  BY DEF UnitInit, Init, Started
<1>2. PICK tier \in {3, 4}, s \in Servings, t \in Servings :
        run.tier = tier /\ run.lineup = Lineup(s, t)
  BY DEF UnitInit
<1>3. market.bulk \in [DOMAIN market.bulk -> Entries]
  <2>1. PICK bulk \in UNION {[S -> Entries] : S \in SUBSET Servings} : market.bulk = bulk
    BY DEF UnitInit
  <2> QED BY <2>1
<1>4. sent \in Nat
  BY <1>1, PreflightAssumption
<1>5. /\ Tier = 3 => arm # "D-pages"
      /\ Tier = 4 => arm \in SingleCall \cup Pipelines
  <2>1. arm \in IF Tier = 3 THEN Arms \ {"D-pages"} ELSE SingleCall \cup Pipelines
    BY DEF UnitInit
  <2> QED BY <2>1
<1>6. MoneyTypes
  <2>1. {run.lineup.a, run.lineup.b, run.lineup.c1, run.lineup.c2, run.lineup.d} \subseteq Servings
    BY <1>2 DEF Lineup
  <2> QED BY <1>1, <1>2, <1>3, <1>4, <1>5, <2>1 DEF MoneyTypes
<1>7. pc # "ended" /\ Calls = 0
  BY <1>1 DEF UnitInit, Init, First, Calls
<1>8. FirstPrompt /\ Booked
  BY <1>1, <1>6, Quantities DEF FirstPrompt, Booked, EndInv
<1> QED BY <1>1, <1>6, <1>7, <1>8 DEF MoneyInv, Untouched, Priced, Balanced

(* "Call limit x each call's worst case": a unit costs more than its       *)
(* ceiling only when a call carried more than the preflight counted for it *)
(* or an attempt of it was lost, and what is booked passes the ceiling by  *)
(* no more than the last call, at any prices the preflight accepted.       *)
THEOREM SpecFundedBySequence == UnitSpec => []FundedBySequence
<1>1. UnitSpec => []EndInv
  BY UnitImplementsArm, SpecEndInv, PTL
<1>2. EndInv /\ EndInv' /\ MoneyInv /\ [UnitNext]_unitVars => MoneyInv'
  BY StartStep, ReplyStep, OverBudgetStep, LossStep, PipelineStep, MoneyStutters
     DEF UnitNext, EndInv
<1>3. EndInv /\ MoneyInv => FundedBySequence
  <2> SUFFICES ASSUME Shape, MoneyInv PROVE FundedBySequence
    BY DEF EndInv
  <2>1. Limit \in Nat /\ billed \in Nat /\ lost \in Nat /\ wide \in BOOLEAN
    BY Quantities DEF MoneyInv, MoneyTypes
  <2>2. ASSUME lost = 0, wide = FALSE PROVE billed <= Limit
    <3>1. CASE ~Started \/ arm \in Pipelines
      BY <2>1, <3>1 DEF MoneyInv, Untouched
    <3>2. CASE Started /\ arm \notin Pipelines
      <4>1. (\A s \in Served : Sound(price[s])) /\ SequenceCalls(arm) * Worst <= Limit
        BY <3>2 DEF MoneyInv, Priced
      <4>2. billed <= SequenceCalls(arm) * Worst
        <5>1. CASE pc = "ended"
          BY <2>2, <3>2, <5>1 DEF MoneyInv, Balanced
        <5>2. CASE pc # "ended"
          <6>1. Covered(Calls, billed)
            BY <2>2, <3>2, <5>2 DEF MoneyInv, Balanced
          <6>2. pc \in Callable
            BY <3>2, <5>2 DEF Shape, StepsOf, Callable
          <6>3. Calls \in Nat /\ Calls <= SequenceCalls(arm)
            BY <6>2, Quantities DEF Shape, Calls, MoneyInv
          <6> QED BY <2>1, <3>2, <4>1, <6>1, <6>3, CoveredIsWithin DEF MoneyInv
        <5> QED BY <5>1, <5>2
      <4>3. SequenceCalls(arm) * Worst \in Nat
        BY <3>2, <4>1, WorstBounds, Quantities, TimesNat DEF MoneyInv
      <4> QED BY <2>1, <4>1, <4>2, <4>3
    <3> QED BY <3>1, <3>2
  <2>3. billed > Limit => wide \/ lost > 0
    <3>1. wide = TRUE \/ wide = FALSE
      BY <2>1
    <3>2. lost = 0 \/ lost > 0
      BY <2>1
    <3>3. ~(billed <= Limit /\ billed > Limit)
      BY <2>1
    <3> QED BY <2>2, <3>1, <3>2, <3>3
  <2> QED BY <2>3 DEF MoneyInv, Booked, FundedBySequence
<1> QED BY <1>1, <1>2, <1>3, MoneyInit, PTL DEF UnitSpec
=============================================================================
