----------------------------- MODULE JudgedRun -----------------------------
(***************************************************************************)
(* A full-team run with the judges' replies and the adapter's failure log  *)
(* (GraphPhases of autornd/graph/adapter.py): what each judge said of the  *)
(* current draft, what the next revision and the autopsy are told of it.   *)
(* The executor's own steps are GraphExecutor's.                           *)
(***************************************************************************)
EXTENDS GraphExecutor, Workflows, Verdicts, Roster

CONSTANTS
  Dissents,       \* the dissents a judge may state
  Panels          \* what the reviewers assigned to a review may return

ASSUME JudgedAssumption ==
  /\ Dissents \subseteq Dissent
  /\ \A panel \in Panels :
       panel \in Seq([completed : BOOLEAN,
                      findings : SUBSET [severity : {"high", "note"}, dissent : Dissents]])

VARIABLES
  log,        \* failure_log: entries of an iteration and who refused which draft
  directive,  \* the draft the latest autopsy ruled on, 0 for none
  entered,    \* the current implementation has entries in blocked_on
  grounds     \* history: what refusals of the current draft rest on, by node

adapter == <<log, directive, entered, grounds>>

(* What each reply leaves: its output, and the ground it gives a refusal,  *)
(* an anchored objection before the want of an assessment or a quorum.     *)
Ground(who, why) == [who |-> who, why |-> why]

ImplementResults ==
  {[raises |-> ImplementRaises(r), output |-> ImplementOutput(r),
    entered |-> r.blocked # <<>>,
    why |-> IF ToSet(r.blocked) \ {"why only"} # {} THEN {"ask"} ELSE {}] :
     r \in ImplementReply}

-----------------------------------------------------------------------------
(* The ruling's own reading of a dissent (D51 (3), R2): what it is about   *)
(* decides which of its words must be found, and where.                    *)
Shown(d) ==
  LET about == IF d.kind # "" THEN d.kind ELSE IF d.hazard THEN "hazard" ELSE "wrong_fact"
  IN \/ about = "unmet_ask" /\ (d.ask = "listed" \/ "request" \in d.quote)
     \/ about = "hazard" /\ "answer" \in d.hazard_quote
     \/ about \notin {"unmet_ask", "hazard"} /\ d.source_quote \cap {"request", "sources"} # {}

(* None is marked a hazard under a kind the verdicts do not know: they     *)
(* read that one as a hazard, the ruling as a wrong fact.                  *)
KindsAreRead(dissents) == \A d \in dissents : d.kind = "other" => ~d.hazard

ValidateResults ==
  {[output |-> IF ValidateGreen(r) THEN "green" ELSE "red",
    why |-> IF WantsRed(r) /\ Shown(r.dissent) THEN {"anchor"}
            ELSE IF ~r.substance THEN {"no assessment"} ELSE {}] :
     r \in ValidateReply(Dissents)}

DomainResults ==
  {[critical |-> Critical(cs),
    why |-> IF \E c \in cs : c.critical /\ Shown(c.dissent) THEN {"anchor"} ELSE {}] :
     cs \in {{}} \cup {{c} : c \in Concern(Dissents)}}

ReviewResults ==
  {[output |-> IF ReviewShips(p) THEN "ship" ELSE "hold",
    why |-> IF \E i \in Completed(p) : \E f \in p[i].findings :
                 f.severity = "high" /\ Shown(f.dissent)
            THEN {"anchor"}
            ELSE IF Cardinality({i \in DOMAIN p : ~p[i].completed}) * 2 > Len(p)
            THEN {"no quorum"} ELSE {}] :
     p \in Panels}

IndependentResults ==
  {[output |-> IF Vetoes(issues) THEN "veto" ELSE "ship",
    why |-> IF \E d \in issues : Shown(d) THEN {"anchor"} ELSE {}] :
     issues \in {{}} \cup {{d} : d \in Dissents}}
  \cup {[output |-> "skipped", why |-> {}]}

-----------------------------------------------------------------------------
(* The failure log. *)

Refusal(who) == [who |-> who, draft |-> draft]
Entry(causes, objects) ==
  [iteration |-> iteration, causes |-> causes, objects |-> objects]

LogFailure_Replaces(entry) ==
  IF log # <<>> /\ Last(log).iteration = entry.iteration
  THEN Append(Front(log), entry)
  ELSE Append(log, entry)

(* _log_failure: an entry of the last one's iteration is folded into it.   *)
Folded(last, entry) ==
  [last EXCEPT !.causes = @ \cup entry.causes, !.objects = @ \/ entry.objects]

LogFailure(entry) ==
  IF log # <<>> /\ Last(log).iteration = entry.iteration
  THEN [log EXCEPT ![Len(log)] = Folded(@, entry)]
  ELSE Append(log, entry)

(* The causes the next implementation is told.                             *)
Told == IF log = <<>> THEN {} ELSE Last(log).causes

-----------------------------------------------------------------------------
(* The phases. *)

Answer(value) == Complete /\ outputs'[HereId] = value

(* A judge's new word replaces its last on the same draft.                 *)
Hears(why) ==
  grounds' = {g \in grounds : g.who # HereId} \cup {Ground(HereId, w) : w \in why}

Implementing ==
  /\ HereId = "implement"
  /\ \E r \in ImplementResults :
       \/ /\ r.raises /\ Raise
          /\ UNCHANGED <<log, directive, entered, grounds>>
       \/ /\ ~r.raises /\ Answer(r.output)
          /\ entered' = r.entered
          /\ grounds' = {Ground("implement", w) : w \in r.why}
          /\ UNCHANGED <<log, directive>>

(* The entries are rendered into the log as text.                          *)
CheckingBlocked ==
  /\ HereId = "blocked_check" /\ Complete
  /\ log' = IF outputs'["blocked_check"] = "failed"
            THEN LogFailure(Entry({Refusal("blocked_check")}, FALSE)) ELSE log
  /\ UNCHANGED <<directive, entered, grounds>>

DomainReviewing ==
  /\ HereId = "domain_review"
  /\ \E r \in DomainResults :
       /\ Complete
       /\ outputs'["implement"] = IF r.critical THEN RedOf(outputs["implement"])
                                  ELSE outputs["implement"]
       /\ Hears(r.why)
  /\ UNCHANGED <<log, directive, entered>>

(* The judges of the fold that are red, once validate has answered.        *)
ValidateRefusals(validate) ==
  (IF outputs["implement"] \in Green THEN {} ELSE {Refusal("implement")})
    \cup (IF validate = "red" THEN {Refusal("validate")} ELSE {})

(* The free checks' misses are notes: an entry they alone make has no      *)
(* cause.  blocked_on goes in as the objects of the verdict.               *)
Validating ==
  /\ HereId = "validate"
  /\ \E r \in ValidateResults, missed \in BOOLEAN :
       /\ Answer(r.output)
       /\ Hears(r.why)
       /\ LET refusals == ValidateRefusals(r.output)
          IN log' = IF refusals # {} \/ missed THEN LogFailure(Entry(refusals, entered)) ELSE log
  /\ UNCHANGED <<directive, entered>>

Reviewing ==
  /\ HereId \in {"review", "rework_review"}
  /\ \E r \in ReviewResults :
       /\ Answer(r.output)
       /\ Hears(r.why)
       /\ log' = IF r.output = "hold" THEN LogFailure(Entry({Refusal(HereId)}, FALSE)) ELSE log
  /\ UNCHANGED <<directive, entered>>

Checking ==
  /\ HereId = "independent_check"
  /\ \E r \in IndependentResults : Answer(r.output) /\ Hears(r.why)
  /\ UNCHANGED <<log, directive, entered>>

(* The autopsy reads the whole log as JSON, which objects are not.         *)
Readable == \A i \in DOMAIN log : ~log[i].objects

Escalating ==
  /\ HereId = "escalation"
  /\ \/ /\ Readable /\ Complete
        /\ directive' = draft /\ log' = <<>>
     \/ /\ ~Readable /\ Raise
        /\ UNCHANGED <<log, directive>>
  /\ UNCHANGED <<entered, grounds>>

JudgeNodes ==
  {"implement", "blocked_check", "domain_review", "validate", "review",
   "rework_review", "independent_check", "escalation"}

Judging ==
  /\ AtWork
  /\ \/ Implementing \/ CheckingBlocked \/ DomainReviewing \/ Validating
     \/ Reviewing \/ Checking \/ Escalating

OtherWork == AtWork /\ HereId \notin JudgeNodes /\ Complete

Walking ==
  \/ Skip \/ Cut \/ Raise
  \/ GatePasses \/ GateEnds \/ GateRoutes
  \/ EnterLoop \/ NextAttempt \/ Converge
  \/ ExhaustedEnds \/ ExhaustedHandsOff \/ ExhaustedGoesOn \/ Return
  \/ FinishEnded \/ FinishUndone \/ FinishCompleted \/ Over

JudgedInit ==
  /\ Init
  /\ log = <<>> /\ directive = 0 /\ entered = FALSE
  /\ grounds = {}

JudgedNext == Judging \/ ((OtherWork \/ Walking) /\ UNCHANGED adapter)

JudgedSpec == JudgedInit /\ [][JudgedNext]_<<vars, adapter>>

(* The judges are neither gates nor loops, the peers are asked of a green  *)
(* answer only, and a review is required: the default workflow's layout.   *)
JudgesAreWork ==
  \A w \in DOMAIN Graphs :
    /\ "review" \in Requires[w]
    /\ \A n \in Ids(Graphs[w]) \cap JudgeNodes :
         /\ Graphs[w].node[n].kind # "gate" /\ Graphs[w].node[n].body = <<>>
         /\ n = "domain_review" => Graphs[w].node[n].when = Test("implement", Green)

-----------------------------------------------------------------------------
(* Properties. *)

Revising == AtWork /\ HereId = "implement" /\ draft > 0
Autopsy == AtWork /\ HereId = "escalation"

(* The judges that refuse the current draft.                               *)
Refusing ==
  {n \in current :
     \/ n = "implement" /\ outputs[n] \in {"red", "red undone"}
     \/ n = "validate" /\ outputs[n] = "red"
     \/ n = "blocked_check" /\ outputs[n] = "failed"
     \/ n \in {"review", "rework_review"} /\ outputs[n] = "hold"}

(* "The next attempt is told why - naming EVERY judge that refused" (D46   *)
(* (4)): whoever reads the log, a revision or the autopsy, finds every     *)
(* refusal of the draft before it in the last entry; a revision after an   *)
(* autopsy has its directive on that draft instead.                        *)
ToldWhy ==
  Revising \/ Autopsy =>
    \/ Refusing \subseteq {c.who : c \in {c \in Told : c.draft = draft}}
    \/ Revising /\ log = <<>> /\ directive = draft

(* A revision is paid for only when somebody refused the draft with the    *)
(* request's, the sources' or the answer's own words behind it, when the   *)
(* implementer gave an ask for it, or when there was no assessment or no   *)
(* quorum to judge by: a judge's note, or a reviewer that failed while     *)
(* half did not, costs none.                                               *)
RevisionHasGround == Revising => grounds # {}

(* No run is completed while a judge has an anchored objection to the very *)
(* draft it delivers, whatever loops and handoffs were between.            *)
NoObjectionDelivered ==
  status = "completed" => \A g \in grounds : g.why # "anchor"

(* The outputs the graph-level runs let a judge's node have are those its  *)
(* replies come to, no fewer and no more.                                  *)
PhasesAreExact ==
  LET Ranges(n, results) ==
        AtWork /\ HereId = n =>
          {r.output : r \in results} = {o[n] : o \in PhaseOutcomes(n, outputs)}
  IN /\ Ranges("implement", {r \in ImplementResults : ~r.raises})
     /\ Ranges("validate", ValidateResults)
     /\ Ranges("review", ReviewResults)
     /\ Ranges("rework_review", ReviewResults)
     /\ Ranges("independent_check", IndependentResults)

(* Nobody marks his own homework, whichever teams a running pipeline casts *)
(* (review_composition.py, phases.py).                                     *)
ReviewedByAnother == mode = "running" => NobodyMarksHisOwn
=============================================================================
