-------------------------- MODULE GroundingProofs --------------------------
(***************************************************************************)
(* Proofs about Grounding for any questions, addresses and bounds: what    *)
(* the context shows as backed rests on a passage that is on its page, and *)
(* no gap named as blocking is dropped on the way to the plan gate.        *)
(***************************************************************************)
EXTENDS Grounding, TLAPS

(* A card of the context that shows an answer as backed is of a passage    *)
(* that is on its page.                                                    *)
Honest(cards) == \A c \in cards : c.shown = "backed" => c.real

Genuine(entries) == \A e \in entries : e.real

Lookups == {"none", "context", "reground", "verify"}

LookShape ==
  /\ look = [for |-> look.for, asked |-> look.asked, round |-> look.round,
             shown |-> look.shown]
  /\ look.for \in Lookups

(* The passages kept are real too, or a later run would recall one that is *)
(* not and show it as backed with no check of its own; and so are the      *)
(* cards of the first round of a lookup, which the second round adds to.   *)
Backed ==
  /\ LookShape
  /\ Genuine(store)
  /\ Honest(context) /\ Honest(look.shown)

(* A gap owed is one put off, at low risk: a lookup of what was put off    *)
(* settles it, and whoever skips that lookup knows that no ask demands it. *)
Pursued ==
  /\ LookShape
  /\ pc \in {"triage", "asks", "expanding", "briefing", "scoping"} => owed = {}
  /\ owed \subseteq deferred
  /\ owed # {} => risk = "low"
  /\ pc = "looking" /\ look.for = "verify" => owed = {}
  /\ pc = "grounded" /\ owed # {} => ~Demanded

-----------------------------------------------------------------------------
(* One lookup. *)

(* _check calls a passage found only where it is on its page.              *)
LEMMA FoundIsReal ==
  ASSUME NEW quotes \in Outcomes, NEW q \in quotes, q.status = "found"
  PROVE  q.real
<1>1. PICK reply \in Replies, readable \in SUBSET Url :
        quotes = CheckedReply(reply, readable)
  BY DEF Outcomes
<1>2. PICK i \in DOMAIN reply :
        q = [question |-> reply[i].question,
             status |-> Status(reply[i], reply, readable),
             real |-> reply[i].words = "onPage"]
  BY <1>1 DEF CheckedReply
<1>3. Status(reply[i], reply, readable) = "found"
  BY <1>2
<1>4. reply[i].words = "onPage"
  BY <1>3 DEF Status
<1> QED BY <1>2, <1>4

(* Cards are honest when each answer shown as backed has a real passage.   *)
LEMMA RenderedCards ==
  ASSUME NEW f,
         \A n \in DOMAIN f.asked : n \notin Unchecked(f) =>
           \E q \in f.quotes : q.question = n /\ q.status = "found" /\ q.real
  PROVE  Honest(Rendered(f))
<1> SUFFICES ASSUME NEW c \in Rendered(f), c.shown = "backed"
             PROVE  c.real
  BY DEF Honest
<1>1. PICK n \in DOMAIN f.asked :
        c = [question |-> f.asked[n],
             shown |-> IF n \in Unchecked(f) THEN "unverified" ELSE "backed",
             real |-> \E q \in f.quotes :
                        q.question = n /\ q.status = "found" /\ q.real]
  BY DEF Rendered
<1>2. n \notin Unchecked(f)
  BY <1>1
<1> QED BY <1>1, <1>2

(* So what is rendered of a reply is honest: an answer that is not         *)
(* unchecked has a passage that was found.                                 *)
LEMMA RenderedIsHonest ==
  ASSUME NEW list, NEW quotes \in Outcomes
  PROVE  Honest(Rendered(Finding(list, quotes)))
<1> DEFINE f == Finding(list, quotes)
<1> SUFFICES ASSUME NEW n \in DOMAIN list, n \notin Unchecked(f)
             PROVE  \E q \in quotes : q.question = n /\ q.status = "found" /\ q.real
  BY RenderedCards DEF Finding
<1>1. n \in Checked(f)
  BY DEF Unchecked, Finding
<1>2. PICK q \in quotes : q.status = "found" /\ q.question = n
  BY <1>1 DEF Checked, Finding
<1> QED BY <1>2, FoundIsReal

(* What is kept of a reply is genuine.                                     *)
LEMMA KeptIsGenuine ==
  ASSUME NEW list, NEW quotes \in Outcomes
  PROVE  Genuine(Kept(Finding(list, quotes)))
BY FoundIsReal DEF Genuine, Kept, Finding

(* A passage recalled answers the one question it was asked with: it is    *)
(* shown as backed there, and there is no other card.                      *)
LEMMA RecalledIsHonest ==
  ASSUME NEW entries, Genuine(entries), NEW list, NEW e \in Near(entries, list)
  PROVE  Honest(Rendered(Recalled(list, e)))
<1>1. e \in entries /\ list = <<e.question>>
  BY DEF Near
<1>2. DOMAIN list = {1}
  BY <1>1
<1>3. e.real
  BY <1>1 DEF Genuine
<1> QED BY <1>2, <1>3, RenderedCards DEF Recalled

-----------------------------------------------------------------------------
(* The context. *)

(* A lookup that starts leaves an honest context and an honest lookup.     *)
LEMMA StartIsBacked ==
  ASSUME Backed, NEW purpose \in Lookups, NEW questions,
         StartLookup(purpose, questions), UNCHANGED store
  PROVE  Backed'
<1> DEFINE list == SetToSeq(questions)
<1>1. CASE \E e \in Near(store, list) :
             /\ context' = context \cup Rendered(Recalled(list, e))
             /\ look' = NoLookup
  <2>1. PICK e \in Near(store, list) :
          context' = context \cup Rendered(Recalled(list, e))
    BY <1>1
  <2>2. Honest(Rendered(Recalled(list, e)))
    BY RecalledIsHonest DEF Backed
  <2>3. Honest(context')
    BY <2>1, <2>2 DEF Backed, Honest
  <2> QED BY <1>1, <2>3 DEF Backed, LookShape, Lookups, Honest, Genuine, NoLookup
<1>2. CASE /\ look' = [for |-> purpose, asked |-> list, round |-> 1, shown |-> {}]
           /\ UNCHANGED context
  BY <1>2 DEF Backed, LookShape, Honest, Genuine
<1> QED BY <1>1, <1>2 DEF StartLookup

LEMMA EndIsBacked ==
  ASSUME Backed, NEW shown, Honest(shown), EndLookup(shown), Genuine(store)'
  PROVE  Backed'
<1>1. Honest(context')
  BY DEF EndLookup, Backed, Honest
<1> QED BY <1>1 DEF EndLookup, Backed, LookShape, Lookups, Honest, NoLookup

LEMMA AnswersAreBacked ==
  ASSUME Backed, LookupAnswers
  PROVE  Backed'
<1>1. PICK quotes \in Outcomes :
        LET f == Finding(look.asked, quotes)
            shown == look.shown \cup Rendered(f)
            again == ToAskAgain(f)
        IN /\ \E kept \in SUBSET Kept(f) : store' = store \cup kept
           /\ \/ /\ look' = [look EXCEPT !.asked = again, !.round = 2, !.shown = shown]
                 /\ UNCHANGED <<pc, context>>
              \/ EndLookup(shown)
  BY DEF LookupAnswers
<1> DEFINE f == Finding(look.asked, quotes)
           shown == look.shown \cup Rendered(f)
           again == ToAskAgain(f)
<1>2. Honest(shown)
  <2>1. Honest(Rendered(f))
    BY RenderedIsHonest
  <2> QED BY <2>1 DEF Backed, Honest
<1>3. Genuine(store')
  <2>1. Genuine(Kept(f))
    BY KeptIsGenuine
  <2>2. PICK kept \in SUBSET Kept(f) : store' = store \cup kept
    BY <1>1
  <2> QED BY <2>1, <2>2 DEF Backed, Genuine
<1>4. CASE /\ look' = [look EXCEPT !.asked = again, !.round = 2, !.shown = shown]
           /\ UNCHANGED context
  <2>1. look' = [for |-> look.for, asked |-> again, round |-> 2, shown |-> shown]
    BY <1>4 DEF Backed, LookShape
  <2> HIDE DEF shown, again
  <2> QED BY <2>1, <1>2, <1>3, <1>4 DEF Backed, LookShape, Honest, Genuine
<1>5. CASE EndLookup(shown)
  BY <1>2, <1>3, <1>5, EndIsBacked DEF Genuine
<1> QED BY <1>1, <1>4, <1>5

LEMMA BackedStep ==
  ASSUME Backed, [Next]_vars
  PROVE  Backed'
<1>1. CASE UNCHANGED <<store, context, look>>
  BY <1>1 DEF Backed, LookShape, Honest, Genuine
<1>2. CASE SynthesizeBriefing \/ AnalyzeRequest
  <2>1. PICK gaps \in SUBSET Question : NameGaps(gaps)
    BY <1>2 DEF SynthesizeBriefing, AnalyzeRequest
  <2>2. UNCHANGED store
    BY <1>2 DEF SynthesizeBriefing, AnalyzeRequest
  <2>3. CASE StartLookup("context", gaps)
    BY <2>2, <2>3, StartIsBacked DEF Lookups
  <2>4. CASE UNCHANGED <<look, context>>
    BY <1>1, <2>2, <2>4
  <2> QED BY <2>1, <2>3, <2>4 DEF NameGaps
<1>3. CASE LookupAnswers
  BY <1>3, AnswersAreBacked
<1>4. CASE LookupFails
  BY <1>4, EndIsBacked DEF LookupFails, Backed, Genuine
<1>5. CASE RegroundLookup
  BY <1>5, StartIsBacked DEF RegroundLookup, Lookups
<1>6. CASE VerifyGrounding
  <2>1. CASE StartLookup("verify", deferred)
    BY <1>6, <2>1, StartIsBacked DEF VerifyGrounding, Lookups
  <2>2. CASE UNCHANGED <<look, context>>
    BY <1>1, <1>6, <2>2 DEF VerifyGrounding
  <2> QED BY <1>6, <2>1, <2>2 DEF VerifyGrounding
<1>7. CASE NextRun
  BY <1>7 DEF NextRun, NoLookup, Backed, LookShape, Lookups, Honest, Genuine
<1>8. CASE Triage \/ ProposeAsks \/ ExpandQueries \/ PhasePlan \/ RegroundContext
           \/ Feasibility \/ Stopped
  BY <1>1, <1>8 DEF Triage, ProposeAsks, ExpandQueries, PhasePlan, RegroundContext,
     Feasibility, Stopped
<1>9. CASE UNCHANGED vars
  BY <1>1, <1>9 DEF vars, runVars
<1> QED BY <1>2, <1>3, <1>4, <1>5, <1>6, <1>7, <1>8, <1>9 DEF Next, Work

(* What the context shows as backed rests on a passage that is on its      *)
(* page, whatever the replies quote, whichever pages can be read, and      *)
(* however many runs recall what an earlier one stored.                    *)
THEOREM SpecContextIsBacked == Spec => []ContextIsBacked
<1>1. Init => Backed
  BY DEF Init, NoLookup, Backed, LookShape, Lookups, Honest, Genuine
<1>2. Backed /\ [Next]_vars => Backed'
  BY BackedStep
<1>3. Backed => ContextIsBacked
  BY DEF Backed, Honest, ContextIsBacked
<1> QED BY <1>1, <1>2, <1>3, PTL DEF Spec

-----------------------------------------------------------------------------
(* The gaps. *)

LEMMA StartIsPursued ==
  ASSUME Pursued, NEW purpose \in Lookups, NEW questions,
         StartLookup(purpose, questions), UNCHANGED <<deferred, risk>>,
         purpose = "verify" => owed \subseteq questions
  PROVE  Pursued'
<1>1. owed' = owed \ questions
  BY DEF StartLookup
<1>2. owed' \subseteq deferred' /\ (owed' # {} => risk' = "low")
  BY <1>1 DEF Pursued
<1>3. purpose = "verify" => owed' = {}
  BY <1>1
<1>4. CASE pc' = After(purpose) /\ look' = NoLookup
  BY <1>2, <1>3, <1>4 DEF After, NoLookup, Pursued, LookShape, Lookups
<1>5. CASE /\ look' = [for |-> purpose, asked |-> SetToSeq(questions), round |-> 1,
                       shown |-> {}]
           /\ pc' = "looking"
  BY <1>2, <1>3, <1>5 DEF Pursued, LookShape, Lookups
<1> QED BY <1>4, <1>5 DEF StartLookup

LEMMA EndIsPursued ==
  ASSUME Pursued, pc = "looking", NEW shown, EndLookup(shown),
         UNCHANGED <<deferred, risk, owed>>
  PROVE  Pursued'
BY DEF EndLookup, After, NoLookup, Pursued, LookShape, Lookups

LEMMA PursuedStep ==
  ASSUME Pursued, [Next]_vars
  PROVE  Pursued'
<1>1. CASE SynthesizeBriefing \/ AnalyzeRequest
  <2>1. PICK gaps \in SUBSET Question : NameGaps(gaps)
    BY <1>1 DEF SynthesizeBriefing, AnalyzeRequest
  <2>2. UNCHANGED risk /\ owed = {}
    BY <1>1 DEF SynthesizeBriefing, AnalyzeRequest, Pursued
  <2>3. CASE StartLookup("context", gaps) /\ UNCHANGED deferred
    BY <2>2, <2>3, StartIsPursued DEF Lookups
  <2>4. CASE /\ gaps = {} \/ ~WorthALookup
             /\ deferred' = gaps /\ owed' = gaps
             /\ pc' = "planning" /\ UNCHANGED look
    BY <2>2, <2>4 DEF WorthALookup, Pursued, LookShape
  <2> QED BY <2>1, <2>3, <2>4 DEF NameGaps
<1>2. CASE LookupAnswers
  <2>1. UNCHANGED <<risk, deferred, owed>> /\ pc = "looking"
    BY <1>2 DEF LookupAnswers
  <2>2. CASE \E shown : EndLookup(shown)
    BY <2>1, <2>2, EndIsPursued
  <2>3. CASE /\ UNCHANGED pc
             /\ \E again, shown :
                  look' = [look EXCEPT !.asked = again, !.round = 2, !.shown = shown]
    <3>1. PICK again, shown :
            look' = [for |-> look.for, asked |-> again, round |-> 2, shown |-> shown]
      BY <2>3 DEF Pursued, LookShape
    <3> QED BY <2>1, <2>3, <3>1 DEF Pursued, LookShape
  <2> QED BY <1>2, <2>2, <2>3 DEF LookupAnswers
<1>3. CASE LookupFails
  BY <1>3, EndIsPursued DEF LookupFails
<1>4. CASE RegroundLookup
  BY <1>4, StartIsPursued DEF RegroundLookup, Lookups
<1>5. CASE VerifyGrounding
  <2>1. CASE StartLookup("verify", deferred)
    BY <1>5, <2>1, StartIsPursued DEF VerifyGrounding, Lookups, Pursued
  <2>2. CASE /\ ~Demanded \/ deferred = {}
             /\ pc' = "grounded"
             /\ UNCHANGED <<look, owed>>
    BY <1>5, <2>2 DEF VerifyGrounding, Demanded, Pursued, LookShape
  <2> QED BY <1>5, <2>1, <2>2 DEF VerifyGrounding
<1>6. CASE NextRun
  BY <1>6 DEF NextRun, NoLookup, Pursued, LookShape, Lookups
<1>7. CASE Triage \/ ProposeAsks \/ ExpandQueries
  BY <1>7 DEF Triage, ProposeAsks, ExpandQueries, Retrieved, Pursued, LookShape
<1>8. CASE PhasePlan \/ RegroundContext \/ Feasibility \/ Stopped
  BY <1>8 DEF PhasePlan, RegroundContext, Feasibility, Stopped, Pursued, LookShape
<1>9. CASE UNCHANGED vars
  BY <1>9 DEF vars, runVars, Demanded, Pursued, LookShape
<1> QED BY <1>1, <1>2, <1>3, <1>4, <1>5, <1>6, <1>7, <1>8, <1>9 DEF Next, Work

(* A declined lookup is deferred, not discarded: every gap named as        *)
(* blocking is put to a lookup before the run is grounded, or was put off  *)
(* at low risk with no ask that demands a citation.                        *)
THEOREM SpecGapsArePursued == Spec => []GapsArePursued
<1>1. Init => Pursued
  BY DEF Init, NoLookup, Pursued, LookShape, Lookups
<1>2. Pursued /\ [Next]_vars => Pursued'
  BY PursuedStep
<1>3. Pursued => GapsArePursued
  BY DEF Pursued, GapsArePursued
<1> QED BY <1>1, <1>2, <1>3, PTL DEF Spec
=============================================================================
