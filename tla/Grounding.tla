----------------------------- MODULE Grounding -----------------------------
(***************************************************************************)
(* The front of a run of full-team.yaml, up to the build loop: the asks,   *)
(* the context and its lookup, the plan and its one round of re-grounding, *)
(* feasibility, the plan gate and the check that looks up what was put     *)
(* off.  One run is followed, and the store it leaves is the next run's.   *)
(* Which excerpts are ranked first is Ranking's and decides nothing here.  *)
(*                                                                         *)
(* Code: graph/adapter.py, engine/phases.py, knowledge/context.py,         *)
(* knowledge/research.py and the nodes of workflows/full-team.yaml.        *)
(***************************************************************************)
EXTENDS Naturals, FiniteSets, SequencesExt

-----------------------------------------------------------------------------
(***************************************************************************)
(* One lookup of autornd/knowledge/research.py: its questions, the         *)
(* passages its reply quotes, the pages fetched to check them, what is     *)
(* asked again and what is kept for later runs.                            *)
(***************************************************************************)

CONSTANTS
    Question,     \* the questions a run can need answered
    Url,          \* the addresses a reply can quote
    MaxQuotes,    \* bound: passages in one reply
    MaxFetches    \* distinct pages fetched for one lookup

ASSUME FetchesAssumption == MaxFetches \in Nat

(***************************************************************************)
(* A quoted passage names the number of a question (0 stands for a number  *)
(* outside the list), an address, and its words: too short to check,       *)
(* really on that page, or not.                                            *)
(***************************************************************************)
Passages == [question : 0 .. Cardinality(Question), url : Url,
             words : {"short", "onPage", "elsewhere"}]

(* The answers that can come back: prose outside the typed format is kept  *)
(* with no quotes.                                                         *)
Replies == SeqOf(Passages, MaxQuotes)

(* The distinct addresses of the passages long enough to check, in order,  *)
(* as many as are fetched.                                                 *)
FetchedUrls(reply) ==
    LET checkable == SelectSeq(reply, LAMBDA q : q.words # "short")
        first(i) == \A j \in 1 .. i - 1 : checkable[j].url # checkable[i].url
        firsts == {i \in DOMAIN checkable : first(i)}
    IN {checkable[i].url : i \in {j \in firsts :
            Cardinality({k \in firsts : k <= j}) <= MaxFetches}}

(* _check: what became of one passage when only the pages `readable` could *)
(* be fetched and read as text.                                            *)
Status(q, reply, readable) ==
    CASE q.words = "short" -> "too_short"
      [] q.words # "short" /\ q.url \notin FetchedUrls(reply) \cap readable -> "unfetched"
      [] q.words = "onPage" /\ q.url \in FetchedUrls(reply) \cap readable -> "found"
      [] OTHER -> "not_found"

(* What the check makes of a reply, by passage: its question, what became  *)
(* of it, and whether it really is on its page.                            *)
CheckedReply(reply, readable) ==
    {[question |-> reply[i].question,
      status |-> Status(reply[i], reply, readable),
      real |-> reply[i].words = "onPage"] : i \in DOMAIN reply}

Outcomes ==
    {CheckedReply(reply, readable) : reply \in Replies, readable \in SUBSET Url}

(* A finding: the questions asked, numbered from 1, and its passages. *)
Finding(asked, quotes) == [asked |-> asked, recalled |-> FALSE, quotes |-> quotes]

(* A passage stored by an earlier run, taken as the answer. *)
Recalled(asked, entry) ==
    [asked |-> asked, recalled |-> TRUE,
     quotes |-> {[question |-> 1, status |-> "found", real |-> entry.real]}]

Checked(f) ==
    {q.question : q \in {p \in f.quotes : p.status = "found"}} \cap DOMAIN f.asked

Unchecked(f) == IF f.recalled THEN {} ELSE DOMAIN f.asked \ Checked(f)

(* The questions that quoted a passage and had none found. *)
ToAskAgain(f) ==
    LET quoted == {q.question : q \in f.quotes}
        again == SetToSortSeq(Unchecked(f) \cap quoted, <)
    IN [i \in DOMAIN again |-> f.asked[again[i]]]

Kept_AnyQuoted(f) ==
    {[question |-> f.asked[q.question], real |-> q.real] :
        q \in {p \in f.quotes : p.status # "too_short" /\ p.question \in DOMAIN f.asked}}

(* What _remember would keep: each passage found, under the question it    *)
(* answers.                                                                *)
Kept(f) ==
    {[question |-> f.asked[q.question], real |-> q.real] :
        q \in {p \in f.quotes : p.status = "found" /\ p.question \in DOMAIN f.asked}}

Entries == [question : Question, real : BOOLEAN]

(* _recall: a stored passage near the questions.  The distance lets       *)
(* near-restatements through only, so a passage kept under one question    *)
(* answers that question asked alone, not a list it is one of.             *)
Near(store, asked) == {e \in store : asked = <<e.question>>}

-----------------------------------------------------------------------------

VARIABLES
    pc,          \* the call or node the run is at
    risk,        \* triage's risk
    request,     \* "cites" when the request demands a citation, else "plain"
    anchored,    \* asks_anchored's quotes: the run's only criteria
    asked,       \* grounding_questions: the novelty check's history
    deferred,    \* deferred_gaps: what the risk gate declined to look up
    look,        \* the lookup under way
    context,     \* what the context shows of the lookups made
    rounds,      \* regrounding_rounds
    plan,        \* the latest plan verdict
    fresh,       \* reground_context's novel blockers
    assumed,     \* assumptions_declared, by blocker
    store,       \* the passages kept under RESEARCH_TAG
    owed         \* ghost: the gaps named as blocking, put to no lookup yet

runVars == <<pc, risk, request, anchored, asked, deferred, look, context,
             rounds, plan, fresh, assumed, owed>>
vars == <<runVars, store>>

Request == "the request"
NoLookup == [for |-> "none", asked |-> <<>>, round |-> 0, shown |-> {}]
NoPlan == [ready |-> FALSE, blockers |-> {}]

Ends == {"grounded", "blocked", "stopped"}

Init ==
    /\ store = {}
    /\ pc = "triage" /\ risk = "medium" /\ request \in {"plain", "cites"}
    /\ anchored = {} /\ asked = {} /\ deferred = {} /\ look = NoLookup
    /\ context = {} /\ rounds = 0 /\ plan = NoPlan /\ fresh = {}
    /\ assumed = {} /\ owed = {}

-----------------------------------------------------------------------------
(* Triage and the asks *)

Triage ==
    /\ pc = "triage"
    /\ risk' \in {"low", "medium"}
    /\ pc' = "asks"
    /\ UNCHANGED <<request, anchored, asked, deferred, look, context, rounds,
                   plan, fresh, assumed, owed, store>>

(* A quote anchors when its words occur in the request. *)
Anchors(quote) ==
    \/ quote = "value"
    \/ quote = "citation" /\ request = "cites"

(* asks_anchored: what anchors, or the whole request when nothing does. *)
AnchoredAsks(proposals) ==
    LET kept == {q \in proposals : Anchors(q)}
    IN IF kept = {} THEN {Request} ELSE kept

ProposeAsks ==
    /\ pc = "asks"
    /\ \E proposals \in SUBSET {"value", "citation", "paraphrase"} :
           anchored' = AnchoredAsks(proposals)
    /\ pc' = "expanding"
    /\ UNCHANGED <<risk, request, asked, deferred, look, context, rounds, plan,
                   fresh, assumed, owed, store>>

(* criteria_demand_verification over the quotes. *)
Demanded == "citation" \in anchored \/ (Request \in anchored /\ request = "cites")

-----------------------------------------------------------------------------
(* A lookup: recalled, or asked and its passages checked, once more at most *)

After(purpose) == IF purpose = "verify" THEN "grounded" ELSE "planning"

(* Finding.render: which answers the context shows as backed. *)
Rendered(f) ==
    LET real(n) == \E q \in f.quotes : q.question = n /\ q.status = "found" /\ q.real
    IN {[question |-> f.asked[n],
         shown |-> IF n \in Unchecked(f) THEN "unverified" ELSE "backed",
         real |-> real(n)] : n \in DOMAIN f.asked}

(* research_gaps: the questions of a lookup go out in one request, unless  *)
(* the store has an answer near them.                                      *)
StartLookup(purpose, questions) ==
    LET list == SetToSeq(questions)
    IN /\ owed' = owed \ questions
       /\ \/ \E e \in Near(store, list) :
                 /\ context' = context \cup Rendered(Recalled(list, e))
                 /\ pc' = After(purpose)
                 /\ look' = NoLookup
          \/ /\ look' = [for |-> purpose, asked |-> list, round |-> 1, shown |-> {}]
             /\ pc' = "looking"
             /\ UNCHANGED context

EndLookup(shown) ==
    /\ context' = context \cup shown
    /\ pc' = After(look.for)
    /\ look' = NoLookup

(* _ask and _check: the reply comes and its pages are read.  What is found *)
(* is kept, each passage by a write that may fail; what quoted a passage   *)
(* and had none found is asked once more.                                  *)
LookupAnswers ==
    /\ pc = "looking"
    /\ \E quotes \in Outcomes :
         LET f == Finding(look.asked, quotes)
             shown == look.shown \cup Rendered(f)
             again == ToAskAgain(f)
         IN /\ \E kept \in SUBSET Kept(f) : store' = store \cup kept
            /\ \/ /\ again # <<>> /\ look.round = 1
                  /\ look' = [look EXCEPT !.asked = again, !.round = 2, !.shown = shown]
                  /\ UNCHANGED <<pc, context>>
               \/ /\ again = <<>> \/ look.round = 2
                  /\ EndLookup(shown)
    /\ UNCHANGED <<risk, request, anchored, asked, deferred, rounds, plan, fresh,
                   assumed, owed>>

(* A lookup that raises or has no answer is counted and dropped. *)
LookupFails ==
    /\ pc = "looking"
    /\ EndLookup(look.shown)
    /\ UNCHANGED <<risk, request, anchored, asked, deferred, rounds, plan, fresh,
                   assumed, owed, store>>

-----------------------------------------------------------------------------
(* build_context *)

(* load_retrieval_context: what is retrieved is briefed on, and where      *)
(* nothing is the request is scoped.                                       *)
Retrieved == {"briefing", "scoping"}

(* expand_queries: the questions retrieval asks, the request itself when   *)
(* the call fails or names none.  They are the asked history, whatever     *)
(* retrieval finds.                                                        *)
ExpandQueries ==
    /\ pc = "expanding"
    /\ \E queries \in (SUBSET Question \ {{}}) \cup {{Request}} : asked' = queries
    /\ pc' \in Retrieved
    /\ UNCHANGED <<risk, request, anchored, deferred, look, context, rounds, plan,
                   fresh, assumed, owed, store>>

WorthALookup == risk # "low"

NameGaps_Dropped(gaps) ==
    \/ /\ gaps # {} /\ WorthALookup
       /\ StartLookup("context", gaps)
       /\ UNCHANGED deferred
    \/ /\ gaps = {} \/ ~WorthALookup
       /\ deferred' = {}
       /\ owed' = gaps
       /\ pc' = "planning"
       /\ UNCHANGED <<look, context>>

(* synthesize_briefing and analyze_request name the gaps that block: they  *)
(* are looked up where the risk is worth the fee, put off where it is not. *)
NameGaps(gaps) ==
    \/ /\ gaps # {} /\ WorthALookup
       /\ StartLookup("context", gaps)
       /\ UNCHANGED deferred
    \/ /\ gaps = {} \/ ~WorthALookup
       /\ deferred' = gaps
       /\ owed' = gaps
       /\ pc' = "planning"
       /\ UNCHANGED <<look, context>>

SynthesizeBriefing ==
    /\ pc = "briefing"
    /\ \E gaps \in SUBSET Question : NameGaps(gaps)
    /\ UNCHANGED <<risk, request, anchored, asked, rounds, plan, fresh, assumed,
                   store>>

AnalyzeRequest ==
    /\ pc = "scoping"
    /\ \E unknowns \in SUBSET Question : NameGaps(unknowns)
    /\ UNCHANGED <<risk, request, anchored, asked, rounds, plan, fresh, assumed,
                   store>>

-----------------------------------------------------------------------------
(* The plan and its loop *)

(* A plan that is not ready says why; a ready one may name blockers still, *)
PlanVerdicts ==
    {p \in [ready : BOOLEAN, blockers : SUBSET Question] : p.ready \/ p.blockers # {}}

(* and proceeds on them as assumptions (_phase_plan).                      *)
Assuming(p) == IF p.ready THEN assumed \cup p.blockers ELSE assumed

PhasePlan ==
    /\ pc = "planning"
    /\ \E p \in PlanVerdicts :
         /\ plan' = p
         /\ assumed' = Assuming(p)
    /\ pc' = "regrounding"
    /\ UNCHANGED <<risk, request, anchored, asked, deferred, look, context, rounds,
                   fresh, owed, store>>

Novel == plan.blockers \ asked

(* The check passes, and the loop goes round, only for a plan that is not  *)
(* ready, above low risk, before any round, on a blocker not asked yet.    *)
RegroundContext ==
    /\ pc = "regrounding"
    /\ LET passed == ~plan.ready /\ risk # "low" /\ rounds = 0 /\ Novel # {}
       IN /\ fresh' = IF passed THEN Novel ELSE {}
          /\ pc' = IF passed THEN "relooking" ELSE "feasibility"
    /\ UNCHANGED <<risk, request, anchored, asked, deferred, look, context, rounds,
                   plan, assumed, owed, store>>

RegroundLookup_Forgets ==
    /\ pc = "relooking"
    /\ StartLookup("reground", fresh)
    /\ UNCHANGED <<risk, request, anchored, asked, rounds, deferred, plan, fresh,
                   assumed, store>>

(* _reground_lookup: the novel blockers, in one lookup, and the history    *)
(* and the round they leave behind for the second pass.                    *)
RegroundLookup ==
    /\ pc = "relooking"
    /\ StartLookup("reground", fresh)
    /\ asked' = asked \cup fresh
    /\ rounds' = 1
    /\ UNCHANGED <<risk, request, anchored, deferred, plan, fresh, assumed,
                   store>>

(* Feasibility runs on a ready plan only and can stop nothing but by       *)
(* raising; then the plan gate.                                            *)
Feasibility ==
    /\ pc = "feasibility"
    /\ pc' = IF plan.ready THEN "verifying" ELSE "blocked"
    /\ UNCHANGED <<risk, request, anchored, asked, deferred, look, context, rounds,
                   plan, fresh, assumed, owed, store>>

(* verify_grounding: what was put off is looked up when an ask demands a   *)
(* citation.                                                               *)
VerifyGrounding ==
    /\ pc = "verifying"
    /\ \/ /\ Demanded /\ deferred # {}
          /\ StartLookup("verify", deferred)
       \/ /\ ~Demanded \/ deferred = {}
          /\ pc' = "grounded"
          /\ UNCHANGED <<look, context, owed>>
    /\ UNCHANGED <<risk, request, anchored, asked, deferred, rounds, plan, fresh,
                   assumed, store>>

-----------------------------------------------------------------------------
(* The run is stopped by its budget at any call, or a phase raises. *)
Stopped ==
    /\ pc \in {"triage", "asks", "expanding", "briefing", "scoping",
               "looking", "planning", "feasibility"}
    /\ pc = "feasibility" => plan.ready
    /\ pc' = "stopped"
    /\ UNCHANGED <<risk, request, anchored, asked, deferred, look, context, rounds,
                   plan, fresh, assumed, owed, store>>

(* The next run starts on the store this one leaves. *)
NextRun ==
    /\ pc \in Ends
    /\ pc' = "triage" /\ risk' = "medium" /\ request' \in {"plain", "cites"}
    /\ anchored' = {} /\ asked' = {} /\ deferred' = {} /\ look' = NoLookup
    /\ context' = {} /\ rounds' = 0 /\ plan' = NoPlan /\ fresh' = {}
    /\ assumed' = {} /\ owed' = {}
    /\ UNCHANGED store

Work ==
    \/ Triage \/ ProposeAsks \/ ExpandQueries
    \/ SynthesizeBriefing \/ AnalyzeRequest \/ LookupAnswers \/ LookupFails
    \/ PhasePlan \/ RegroundContext \/ RegroundLookup \/ Feasibility \/ VerifyGrounding

Next == Work \/ Stopped \/ NextRun

(* Every await of the run returns: each call has its timeout. *)
Spec == Init /\ [][Next]_vars /\ WF_vars(Work)

-----------------------------------------------------------------------------
TypeOK ==
    /\ pc \in Ends \cup {"triage", "asks", "expanding", "briefing",
                         "scoping", "looking", "planning", "regrounding",
                         "relooking", "feasibility", "verifying"}
    /\ asked \subseteq Question \cup {Request}
    /\ deferred \subseteq Question /\ fresh \subseteq Question
    /\ store \subseteq Entries

(* What the context shows as backed rests on a passage that is on its      *)
(* page: in this run's lookup, in the lookup that asked again, or in the   *)
(* run that stored it.                                                     *)
ContextIsBacked == \A c \in context : c.shown = "backed" => c.real

(* A declined lookup is deferred, not discarded: when grounding is over,   *)
(* every gap named as blocking was put to a lookup, or was put off at low  *)
(* risk with no ask that demands a citation.                               *)
GapsArePursued ==
    pc = "grounded" /\ owed # {} => risk = "low" /\ ~Demanded

(* The loop of plan and re-grounding ends, and so does the front of every  *)
(* run.                                                                    *)
GroundingEnds == pc = "planning" ~> pc \in Ends
=============================================================================
