--------------------------- MODULE GraphExecutor ---------------------------
(***************************************************************************)
(* GraphExecutor of autornd/graph/executor.py: it walks a workflow graph   *)
(* node by node, repeats loop bodies, follows gates and exhausted loops    *)
(* into handoff sub-graphs, and ends the run with one status, keeping what *)
(* an unfinished run produced.  The call stack of _execute, _run_loop_body *)
(* and _run_from is the sequence frames; a node's model call or check is   *)
(* one step, and so is each way it can end: finished, raised, cut by the   *)
(* watchdog (Ruling D38).                                                  *)
(*                                                                         *)
(* An answer is its draft number: an implementation finished is a new one. *)
(***************************************************************************)
EXTENDS WorkflowSpec

CONSTANTS
  Graphs,            \* the workflows by name, as WorkflowSpec describes them
  Outcomes(_, _),    \* the outputs a node's work may leave, given those before
  Agreed(_),         \* whether the build judges agree, in these outputs
  Undone,            \* the implement outputs with done: false
  Armed,             \* whether the run has a time budget
  Requires,          \* of {"build", "review"}: what a workflow's delivery holds
  Careless           \* the workflows that may test a node without an output

ArtifactNode == "implement"
JudgingNode == "validate"    \* its phase appends the iteration to the history
FoldNode == "judges"

Schedule == [w \in DOMAIN Graphs |-> ExecutionOrder(Graphs[w])]
Handoff == [w \in DOMAIN Graphs |->
              [t \in Targets(Graphs[w]) |-> HandoffSubgraph(Graphs[w], t)]]

(* Every sequence of nodes a run of the workflow may walk.                 *)
Walks(w) ==
  {Schedule[w]} \cup {Handoff[w][t] : t \in Targets(Graphs[w])}
    \cup {Graphs[w].node[n].body : n \in Ids(Graphs[w])}

(* What every workflow file holds to, in whatever order it puts the rest:  *)
(* the fold comes right after the judge it folds last, and nowhere else;   *)
(* both always run.  A walk is of the graph's nodes; a loop names a        *)
(* terminal as its exhausted status and only there, and has a number of    *)
(* attempts.                                                               *)
ASSUME FoldAssumption ==
  \A w \in DOMAIN Graphs :
    /\ None \notin Ids(Graphs[w])
    /\ \A n \in Ids(Graphs[w]) :
         /\ Graphs[w].node[n].onExhausted \notin TerminalStatuses
         /\ Graphs[w].node[n].exhaustedStatus \in TerminalStatuses \cup {None}
         /\ Graphs[w].node[n].budget \in Nat
    /\ \A n \in Ids(Graphs[w]) \cap {JudgingNode, FoldNode} :
         /\ Graphs[w].node[n].kind # "gate" /\ Graphs[w].node[n].body = <<>>
         /\ Graphs[w].node[n].when = NoTest /\ ~Graphs[w].node[n].advisory
    /\ \A walk \in Walks(w) :
         /\ walk \in Seq(Ids(Graphs[w]))
         /\ \A i \in DOMAIN walk :
              /\ walk[i] = JudgingNode => i < Len(walk) /\ walk[i + 1] = FoldNode
              /\ walk[i] = FoldNode => i > 1 /\ walk[i - 1] = JudgingNode

VARIABLES
  workflow,    \* the workflow this run is of
  frames,      \* the sequences being walked, innermost last
  iteration,   \* state.iteration
  outputs,     \* state.outputs
  status,      \* state.status
  mode,        \* whether run() is running, has returned or has raised
  cut,         \* state.watchdog: the node and iteration of a cut
  candidate,   \* state.candidate: its draft, 0 for none
  approved,    \* state.watchdog.approved
  iterations,  \* the adapter's iteration history
  draft,       \* history: implementations finished
  current,     \* history: nodes finished since the latest implementation
  endorsed,    \* history: the last draft the build fold passed, 0 for none
  heard        \* history: the judge answered since the answer or its verdict changed

record == <<status, cut, candidate, approved>>
work == <<outputs, iterations, draft, current, endorsed, heard>>
vars == <<workflow, frames, iteration, mode, record, work>>

NoCut == [node |-> None, iteration |-> 0]
NoPointer == [agreed |-> 0, latest |-> "unset"]

Graph == Graphs[workflow]
Nodes == Ids(Graph)

-----------------------------------------------------------------------------
(***************************************************************************)
(* The iteration history the runner keeps (`iterations` of the adapter,    *)
(* autornd/graph/adapter.py) and what the executor reads back from it      *)
(* (_approved_pointer, autornd/graph/executor.py).  An answer's summary is *)
(* the number of the draft it summarises.                                  *)
(***************************************************************************)

(* What _phase_validate appends once an iteration's judges have spoken.    *)
Judged(round, answer, agreed) ==
  [iteration |-> round, draft |-> answer, agreed |-> agreed, partial |-> FALSE]

Partial(round, answer) ==
  [iteration |-> round, draft |-> answer, agreed |-> FALSE, partial |-> TRUE]

WithPartial(history, round, answer) ==
  IF round = 0 \/ \E i \in DOMAIN history : history[i].iteration = round
  THEN history
  ELSE Append(history, Partial(round, answer))

AgreedAt_First(history) ==
  LET agreed == {i \in DOMAIN history : history[i].agreed}
  IN IF agreed = {} THEN 0 ELSE Min(agreed)

(* The position of the last agreed iteration, 0 when there is none.        *)
AgreedAt(history) ==
  Max({0} \cup {i \in DOMAIN history : history[i].agreed /\ ~history[i].partial})

(* The label of the latest answer against the record.                      *)
LatestLabel(history, latest) ==
  LET at == AgreedAt(history)
      isLast == history # <<>> /\ Last(history).draft = latest
  IN IF latest = 0 THEN "none"
     ELSE IF at # 0 /\ history[at].draft = latest THEN "approved"
     ELSE IF isLast /\ ~Last(history).partial THEN "dissented"
     ELSE "unjudged"

(* The approved pointer: the agreed draft (0 for none) and that label.     *)
ApprovedPointer(history, latest) ==
  [agreed |-> IF AgreedAt(history) = 0 THEN 0 ELSE history[AgreedAt(history)].draft,
   latest |-> LatestLabel(history, latest)]

-----------------------------------------------------------------------------
(* The stack. *)

(* A schedule or a handoff sub-graph; a loop's body at one attempt.        *)
Walk(nodes) == [loop |-> None, nodes |-> nodes, pos |-> 1, attempt |-> 0]
BodyOf(loop, attempt) ==
  [loop |-> loop, nodes |-> Graph.node[loop].body, pos |-> 1, attempt |-> attempt]

Top == Last(frames)

Running == mode = "running" /\ frames # <<>>

AtNode == Running /\ Top.pos <= Len(Top.nodes)
AtEnd == Running /\ ~AtNode

Here == Graph.node[Top.nodes[Top.pos]]
HereId == Top.nodes[Top.pos]

(* The node under way returned True: on to the next of its sequence.       *)
Advance(stack) ==
  IF stack = <<>> THEN <<>> ELSE [stack EXCEPT ![Len(stack)].pos = @ + 1]

GoOn == frames' = Advance(frames) /\ UNCHANGED <<workflow, iteration, mode>>

(* It returned False: every caller returns False, and each loop among them *)
(* resets the iteration.                                                   *)
Unwind == frames' = <<>> /\ iteration' = 0 /\ UNCHANGED <<workflow, mode>>

Defined(test) == outputs[test.reads] # None
Holds(test) == outputs[test.reads] \in test.holds

(* `when` lets the node under way run.                                     *)
Wanting == AtNode /\ (Here.when # NoTest => Defined(Here.when) /\ Holds(Here.when))

AtWork == Wanting /\ Here.kind \in {"ai", "check"} /\ Here.body = <<>>
AtGate == Wanting /\ Here.kind = "gate"

Init ==
  /\ workflow \in DOMAIN Graphs
  /\ frames = <<Walk(Schedule[workflow])>>
  /\ iteration = 0
  /\ outputs = [n \in Nodes |-> None]
  /\ status = None /\ mode = "running"
  /\ cut = NoCut /\ candidate = 0 /\ approved = NoPointer
  /\ iterations = <<>>
  /\ draft = 0 /\ current = {} /\ endorsed = 0 /\ heard = FALSE

-----------------------------------------------------------------------------
(* Ending. *)

(* _close_candidate: the latest answer, and the approved pointer read from *)
(* the history as it now is.                                               *)
CloseCandidate ==
  /\ candidate' = IF candidate = 0 THEN draft ELSE candidate
  /\ approved' = IF approved = NoPointer THEN ApprovedPointer(iterations', draft)
                 ELSE approved

(* A terminal that is not completed.                                       *)
End(s) ==
  /\ CloseCandidate
  /\ status' = s
  /\ UNCHANGED cut

(* _cut: the partial iteration first, then the candidate, then the status. *)
CutRun ==
  /\ iterations' = WithPartial(iterations, iteration, draft)
  /\ CloseCandidate
  /\ status' = "blocked"
  /\ cut' = [node |-> HereId, iteration |-> iteration]
  /\ Unwind
  /\ UNCHANGED <<outputs, draft, current, endorsed, heard>>

-----------------------------------------------------------------------------
(* A node's work. *)

Skip_Stays ==
  /\ AtNode /\ Here.when # NoTest
  /\ Defined(Here.when) /\ ~Holds(Here.when)
  /\ UNCHANGED vars

Skip ==
  /\ AtNode /\ Here.when # NoTest
  /\ Defined(Here.when) /\ ~Holds(Here.when)
  /\ GoOn
  /\ UNCHANGED <<record, work>>

(* The work finishes: its output is stored, and the adapter's phase has    *)
(* appended the iteration when the node is the validator.                  *)
Complete ==
  /\ AtWork
  /\ outputs' \in Outcomes(HereId, outputs)
  /\ draft' = IF HereId = ArtifactNode THEN draft + 1 ELSE draft
  /\ current' = IF HereId = ArtifactNode THEN {ArtifactNode}
                ELSE IF draft = 0 THEN {} ELSE current \cup {HereId}
  /\ iterations' = IF HereId = JudgingNode
                   THEN Append(iterations, Judged(iteration, draft, Agreed(outputs')))
                   ELSE iterations
  /\ endorsed' = IF HereId = FoldNode /\ outputs'[FoldNode] = "passed" THEN draft ELSE endorsed
  /\ heard' = IF HereId = JudgingNode THEN TRUE
              ELSE IF HereId \in {ArtifactNode, "domain_review"} THEN FALSE ELSE heard
  /\ GoOn
  /\ UNCHANGED record

(* The watchdog refuses to start a call, or cancels a call or a check.     *)
Cut == Armed /\ AtWork /\ ~Here.advisory /\ CutRun

(* The work raises, and the exception leaves run() with the state as it is.*)
Raise ==
  /\ AtWork /\ ~Here.advisory
  /\ mode' = "raised"
  /\ UNCHANGED <<workflow, frames, iteration, record, work>>

(* At an advisory node all three store a skip, and the run goes on.        *)
AdvisoryGivesUp ==
  /\ AtWork /\ Here.advisory
  /\ outputs' = [outputs EXCEPT ![HereId] = "skipped"]
  /\ current' = IF draft = 0 THEN {} ELSE current \cup {HereId}
  /\ GoOn
  /\ UNCHANGED <<record, iterations, draft, endorsed, heard>>

(* A condition that reads a node with no output yet raises.                *)
ConditionFails ==
  /\ \/ AtNode /\ Here.when # NoTest /\ ~Defined(Here.when)
     \/ AtGate /\ ~Defined(Here.condition)
     \/ AtEnd /\ Top.loop # None /\ Top.attempt > 0
          /\ ~Defined(Graph.node[Top.loop].until)
  /\ mode' = "condition_error"
  /\ UNCHANGED <<workflow, frames, iteration, record, work>>

-----------------------------------------------------------------------------
(* Gates (_decide_gate). *)

Store(n, value) ==
  /\ outputs' = [outputs EXCEPT ![n] = value]
  /\ UNCHANGED <<iterations, draft, current, endorsed, heard>>

Closed == AtGate /\ Defined(Here.condition) /\ ~Holds(Here.condition)

GatePasses ==
  /\ AtGate /\ Defined(Here.condition) /\ Holds(Here.condition)
  /\ Store(HereId, "passed")
  /\ GoOn
  /\ UNCHANGED record

(* No on_fail: the walk stops and no status is set.                        *)
GateStops ==
  /\ Closed /\ Here.onFail = None
  /\ Store(HereId, "closed")
  /\ Unwind
  /\ UNCHANGED record

GateEnds ==
  /\ Closed /\ Here.onFail \in TerminalStatuses
  /\ Store(HereId, "closed")
  /\ End(Here.onFail)
  /\ Unwind

GateRoutes_Returns ==
  /\ Closed /\ Here.onFail \notin TerminalStatuses \cup {None}
  /\ Store(HereId, "closed")
  /\ frames' = Append(Front(frames), Walk(Handoff[workflow][Here.onFail]))
  /\ UNCHANGED <<workflow, iteration, mode, record>>

(* The caller's walk goes on after the sub-graph's.                        *)
GateRoutes ==
  /\ Closed /\ Here.onFail \notin TerminalStatuses \cup {None}
  /\ Store(HereId, "closed")
  /\ frames' = Append(frames, Walk(Handoff[workflow][Here.onFail]))
  /\ UNCHANGED <<workflow, iteration, mode, record>>

-----------------------------------------------------------------------------
(* Loops (_run_loop_body) and handoffs (_run_from). *)

(* The frame is pushed past its end, so that the first attempt is one of   *)
(* NextAttempt's and a loop with no budget is exhausted at once.           *)
EnterLoop ==
  /\ Wanting /\ Here.body # <<>>
  /\ frames' = Append(frames, [BodyOf(HereId, 0) EXCEPT !.pos = Len(Here.body) + 1])
  /\ UNCHANGED <<workflow, iteration, mode, record, work>>

AtLoopEnd == AtEnd /\ Top.loop # None
Loop == Graph.node[Top.loop]
Again == Top.attempt = 0 \/ (Defined(Loop.until) /\ ~Holds(Loop.until))
Exhausted == AtLoopEnd /\ Again /\ Top.attempt >= Loop.budget

NextAttempt ==
  /\ AtLoopEnd /\ Again /\ Top.attempt < Loop.budget
  /\ frames' = Append(Front(frames), BodyOf(Top.loop, Top.attempt + 1))
  /\ iteration' = Top.attempt + 1
  /\ UNCHANGED <<workflow, mode, record, work>>

Converge ==
  /\ AtLoopEnd /\ Top.attempt > 0 /\ Defined(Loop.until) /\ Holds(Loop.until)
  /\ Store(Top.loop, "converged")
  /\ frames' = Advance(Front(frames))
  /\ iteration' = 0
  /\ UNCHANGED <<workflow, mode, record>>

ExhaustedEnds ==
  /\ Exhausted /\ Loop.exhaustedStatus # None
  /\ Store(Top.loop, "exhausted")
  /\ End(Loop.exhaustedStatus)
  /\ Unwind

(* The loop returns what the sub-graph it hands off to returns.            *)
ExhaustedHandsOff ==
  /\ Exhausted /\ Loop.exhaustedStatus = None /\ Loop.onExhausted # None
  /\ Store(Top.loop, "exhausted")
  /\ frames' = Append(Front(frames), Walk(Handoff[workflow][Loop.onExhausted]))
  /\ iteration' = 0
  /\ UNCHANGED <<workflow, mode, record>>

ExhaustedGoesOn_IgnoresStatus ==
  /\ Exhausted /\ Loop.onExhausted = None
  /\ Store(Top.loop, "exhausted")
  /\ frames' = Advance(Front(frames))
  /\ iteration' = 0
  /\ UNCHANGED <<workflow, mode, record>>

ExhaustedGoesOn ==
  /\ Exhausted /\ Loop.exhaustedStatus = None /\ Loop.onExhausted = None
  /\ Store(Top.loop, "exhausted")
  /\ frames' = Advance(Front(frames))
  /\ iteration' = 0
  /\ UNCHANGED <<workflow, mode, record>>

(* A schedule or a sub-graph is walked to its end.                         *)
Return ==
  /\ AtEnd /\ Top.loop = None
  /\ frames' = Advance(Front(frames))
  /\ UNCHANGED <<workflow, iteration, mode, record, work>>

-----------------------------------------------------------------------------
(* run(): the walk is over. *)

Finished == mode = "running" /\ frames = <<>>

FinishEnded ==
  /\ Finished /\ status # None
  /\ mode' = "returned"
  /\ UNCHANGED <<workflow, frames, iteration, record, work>>

(* An implementation that says done: false is not a completed delivery.    *)
FinishUndone ==
  /\ Finished /\ status = None
  /\ draft # 0 /\ outputs[ArtifactNode] \in Undone
  /\ mode' = "returned"
  /\ UNCHANGED <<workflow, frames, iteration, work>>
  /\ End("blocked")

FinishCompleted_IgnoresDone ==
  /\ Finished /\ status = None
  /\ mode' = "returned"
  /\ status' = "completed"
  /\ UNCHANGED <<workflow, frames, iteration, cut, candidate, approved, work>>

FinishCompleted ==
  /\ Finished /\ status = None
  /\ draft = 0 \/ outputs[ArtifactNode] \notin Undone
  /\ mode' = "returned"
  /\ status' = "completed"
  /\ UNCHANGED <<workflow, frames, iteration, cut, candidate, approved, work>>

Over == mode # "running" /\ UNCHANGED vars

Next ==
  \/ Skip \/ Complete \/ Cut \/ Raise \/ AdvisoryGivesUp \/ ConditionFails
  \/ GatePasses \/ GateStops \/ GateEnds \/ GateRoutes
  \/ EnterLoop \/ NextAttempt \/ Converge
  \/ ExhaustedEnds \/ ExhaustedHandsOff \/ ExhaustedGoesOn
  \/ Return
  \/ FinishEnded \/ FinishUndone \/ FinishCompleted \/ Over

(* A call ends: httpx times it out, and the walk has no other wait.        *)
Spec == Init /\ [][Next]_vars /\ WF_vars(Next)

-----------------------------------------------------------------------------
(* Properties. *)

LargestBudget == Max({0} \cup {Graph.node[n].budget : n \in Nodes})
Labels == {"unset", "none", "approved", "dissented", "unjudged"}

(* The history's entries are of drafts made, and the bookkeeping an ended  *)
(* run leaves is about them.                                               *)
TypeOK ==
  /\ mode \in {"running", "returned", "raised", "condition_error"}
  /\ status \in TerminalStatuses \cup {None}
  /\ \A i \in DOMAIN frames : /\ frames[i].loop \in Nodes \cup {None}
                              /\ frames[i].pos \in 1 .. Len(frames[i].nodes) + 1
  /\ iteration \in 0 .. LargestBudget
  /\ draft \in Nat /\ candidate \in 0 .. draft /\ endorsed \in 0 .. draft
  /\ \A i \in DOMAIN iterations : iterations[i].draft \in 0 .. draft
  /\ approved.agreed \in 0 .. draft /\ approved.latest \in Labels
  /\ cut.node \in Nodes \cup {None}
  /\ current \subseteq Nodes

(* No `when`, gate condition or `until` of a workflow that is not careless *)
(* is tested before the node it reads has produced an output, on any path  *)
(* through skips, gates and handoffs: evaluate() would raise in the middle *)
(* of a paid run.                                                          *)
ConditionsDefined == workflow \notin Careless => mode # "condition_error"

(* Work triage called unrecallable is completed only after the independent *)
(* check ran on the very answer delivered and did not veto it; and no      *)
(* completed answer says of itself that it is not done (D49 (2)).          *)
CompletedIsCleared ==
  status = "completed" =>
    /\ draft # 0 => outputs[ArtifactNode] \notin Undone
    /\ {"triage", "independent_check"} \subseteq Nodes /\ outputs["triage"] = "unrecallable" =>
         "independent_check" \in current /\ outputs["independent_check"] # "veto"

(* A run that ends blocked or escalated keeps its latest answer as the     *)
(* candidate and says what the judges had approved (_close_candidate,      *)
(* D51 (7)), whichever of its terminals it ends at.                        *)
CandidateKept ==
  status \in {"blocked", "escalated"} => candidate = draft /\ approved # NoPointer

(* The approved pointer of such a run is the last draft the build fold     *)
(* passed, or the latest when both judges approved it and the cut fell on  *)
(* the very fold.  A build-approved draft is never lost, and a partial     *)
(* iteration never reads as approved (_approved_pointer).                  *)
ApprovedIsEndorsed ==
  status \in {"blocked", "escalated"} =>
    \/ approved.agreed = endorsed
    \/ /\ approved.agreed = draft /\ JudgingNode \in current
       /\ cut.node = FoldNode

(* Nothing that happens inside an advisory node may change the run's       *)
(* status: after it the walk is at the next node, whatever became of it.   *)
AdvisoryOnlyAdds ==
  [][AtWork /\ Here.advisory
       => frames' = Advance(frames) /\ UNCHANGED <<status, mode, cut>>]_vars

(* The first terminal is the run's: once it has a status no later step     *)
(* changes it, the candidate, the pointer, the cut, the history or the     *)
(* outputs, so what _close_candidate kept is what the caller gets.         *)
FirstEndIsTheEnd == [][status # None => UNCHANGED <<record, work>>]_vars

(* Every run ends, whatever the gates and loops route to.                  *)
RunEnds == <>(mode # "running")

-----------------------------------------------------------------------------
(* The run as its caller sees it. *)

(* The approvals given to the current draft and not withdrawn.             *)
Approvals ==
  {a \in Requires[workflow] :
     IF a = "build"
     THEN FoldNode \in current /\ outputs[FoldNode] = "passed"
     ELSE \E r \in {"review", "rework_review"} \cap current : outputs[r] = "ship"}

Outcome ==
  IF mode \in {"raised", "condition_error"} THEN "raised"
  ELSE IF status = None THEN "open" ELSE status

(* A workflow delivers only an answer whose current draft holds every      *)
(* required approval, through every iteration, rework, escalation and      *)
(* recovery: approvals never survive a new draft, and nothing changes      *)
(* after the end.                                                          *)
Promise == INSTANCE Delivery
  WITH Judges <- {"build", "review"}, required <- Requires[workflow],
       approvals <- Approvals, outcome <- Outcome
ImplementsDelivery == Promise!Spec

-----------------------------------------------------------------------------
(* The run as a route through its graph. *)

(* Ended otherwise than completed, or certain to: nowhere.                 *)
Abandoned == status \in {"blocked", "escalated"}

Nowhere == [loop |-> None, nodes |-> <<>>, pos |-> 0]
EndOfSchedule ==
  [loop |-> None, nodes |-> Schedule[workflow], pos |-> Len(Schedule[workflow]) + 1]
PlaceOf(frame) ==
  [loop |-> frame.loop, nodes |-> frame.nodes,
   pos |-> IF frame.loop # None /\ frame.attempt = 0 THEN 0 ELSE frame.pos]

RouteAt ==
  IF Abandoned THEN Nowhere ELSE IF frames = <<>> THEN EndOfSchedule ELSE PlaceOf(Top)
RouteOutputs == IF Abandoned THEN [n \in Nodes |-> None] ELSE outputs
RouteCurrent == IF Abandoned THEN {} ELSE current
RouteHeard == ~Abandoned /\ heard
RouteJudged ==
  RouteHeard /\ iterations # <<>> /\ Last(iterations).iteration = iteration

(* Whatever the budgets, and however deep loops and handoffs nest, a run   *)
(* is a walk of Routes: nothing it does depends on how often it went round *)
(* a loop, or on which gate or loop called the sub-graph it is in.         *)
Route == INSTANCE Routes
  WITH at <- RouteAt, outputs <- RouteOutputs, current <- RouteCurrent,
       heard <- RouteHeard, judged <- RouteJudged
FollowsRoute == Route!Spec

(* No walk is completed but at the end of its schedule.                    *)
CompletesAtTheEnd ==
  \A w \in DOMAIN Graphs : \A n \in Ids(Graphs[w]) :
    "completed" \notin {Graphs[w].node[n].onFail, Graphs[w].node[n].exhaustedStatus}

-----------------------------------------------------------------------------
(***************************************************************************)
(* Why a workflow keeps that promise: an outline of its walks.  facts[w]   *)
(* gives, for each place of each walk, what is known of the answer when    *)
(* the walk comes there, gives[n] what is known when the loop n is left;   *)
(* Outlined checks one step at a time that nothing else can be the case.   *)
(***************************************************************************)

(* What is known: a draft is made; the fold, the review, its repetition    *)
(* have seen it; it is built, it is cleared; and a pass of the review fold *)
(* means both.                                                             *)
Known(fact) ==
  /\ fact = "drafted" => draft # 0
  /\ fact = "judged" => FoldNode \in current
  /\ fact = "reviewed" => "review" \in current
  /\ fact = "reworked" => "rework_review" \in current
  /\ fact = "built" => FoldNode \in current /\ outputs[FoldNode] = "passed"
  /\ fact = "cleared" => \E r \in {"review", "rework_review"} \cap current : outputs[r] = "ship"
  /\ fact = "folded" =>
       /\ "review_fold" \in Nodes
       /\ outputs["review_fold"] = "passed" =>
            /\ FoldNode \in current /\ outputs[FoldNode] = "passed"
            /\ "rework_review" \in current /\ outputs["rework_review"] = "ship"

Needed(w) == {IF a = "build" THEN "built" ELSE "cleared" : a \in Requires[w]}

Given(condition, fact) == IF condition THEN {fact} ELSE {}

(* The nodes whose answers those are.                                      *)
Arbiters == {FoldNode, "review", "rework_review", "review_fold"}

(* After the node's work, whatever it answers: a new draft undoes all.     *)
AfterWork(n, known) ==
  CASE n = ArtifactNode -> {"drafted"}
    [] n = FoldNode ->
         (known \ {"built", "folded"}) \cup Given("drafted" \in known, "judged")
    [] n = "review" ->
         (known \ {"cleared"}) \cup Given("drafted" \in known, "reviewed")
    [] n = "rework_review" ->
         (known \ {"cleared", "folded"}) \cup Given("drafted" \in known, "reworked")
    [] n = "review_fold" ->
         (known \ {"folded"}) \cup Given({"judged", "reworked"} \subseteq known, "folded")
    [] OTHER -> known

(* When the condition holds as well.                                       *)
WhenHolds(test, known) ==
  known \cup Given(test = Passed(FoldNode) /\ "judged" \in known, "built")
        \cup Given(test = Test("review", {"ship"}) /\ "reviewed" \in known, "cleared")
        \cup (IF test = Passed("review_fold") /\ "folded" \in known
              THEN {"built", "cleared"} ELSE {})

(* One place of a walk, by what its node may do, to the next.              *)
PlaceOutlined(w, facts, gives, walk, i) ==
  LET node == Graphs[w].node[walk[i]]
      here == facts[walk][i]
      next == facts[walk][i + 1]
      sub(t) == Handoff[w][t]
  IN /\ node.when # NoTest => next \subseteq here
     /\ node.kind # "gate" /\ node.body = <<>> => next \subseteq AfterWork(walk[i], here)
     /\ node.body # <<>> =>
          facts[node.body][1] \subseteq here /\ next \subseteq gives[walk[i]]
     /\ node.kind = "gate" =>
          /\ next \subseteq WhenHolds(node.condition, here)
          /\ node.onFail \in {None, "completed"} => Needed(w) \subseteq here
          /\ node.onFail \notin TerminalStatuses \cup {None} =>
               /\ facts[sub(node.onFail)][1] \subseteq here
               /\ next \subseteq facts[sub(node.onFail)][Len(sub(node.onFail)) + 1]

(* A loop: an attempt after another, and the four ways to leave it.        *)
LoopOutlined(w, facts, gives, n) ==
  LET node == Graphs[w].node[n]
      first == facts[node.body][1]
      last == facts[node.body][Len(node.body) + 1]
      sub == Handoff[w][node.onExhausted]
  IN /\ node.exhaustedStatus \in TerminalStatuses \cup {None}
     /\ first \subseteq last
     /\ gives[n] \subseteq WhenHolds(node.until, last)
     /\ node.exhaustedStatus = "completed" => Needed(w) \subseteq first
     /\ node.exhaustedStatus = None =>
          IF node.onExhausted = None THEN gives[n] \subseteq first
          ELSE facts[sub][1] \subseteq first /\ gives[n] \subseteq facts[sub][Len(sub) + 1]

Outlined(w, facts, gives) ==
  /\ Requires[w] \subseteq {"build", "review"} /\ None \notin Ids(Graphs[w])
  /\ facts[Schedule[w]][1] = {}
  /\ Needed(w) \subseteq facts[Schedule[w]][Len(Schedule[w]) + 1]
  /\ \A walk \in Walks(w) : \A i \in DOMAIN walk : PlaceOutlined(w, facts, gives, walk, i)
  /\ \A n \in Ids(Graphs[w]) :
       Graphs[w].node[n].body # <<>> => LoopOutlined(w, facts, gives, n)
  /\ \A n \in Ids(Graphs[w]) \cap ({ArtifactNode} \cup Arbiters) :
       /\ Graphs[w].node[n].kind # "gate" /\ Graphs[w].node[n].body = <<>>
       /\ n = ArtifactNode => ~Graphs[w].node[n].advisory
=============================================================================
