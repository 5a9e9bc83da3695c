------------------------------- MODULE Routes -------------------------------
(***************************************************************************)
(* Where a walk of a workflow graph can come to, and with which answers    *)
(* standing (autornd/graph/executor.py), with neither a count of attempts  *)
(* nor a call stack: a loop repeats or is exhausted at will, and a loop or *)
(* a sub-graph that is left is followed by whatever follows a node that    *)
(* may have called it.  A workflow has finitely many such states, the same *)
(* whatever its budgets are above zero.  GraphExecutor implements it, so   *)
(* an invariant of the routes is one of every run.                         *)
(***************************************************************************)
EXTENDS WorkflowSpec

CONSTANTS
  Graphs,            \* the workflows by name
  Outcomes(_, _),    \* the outputs a node's work may leave, given those before
  Requires,          \* of {"build", "review"}: what a workflow's delivery holds
  Careless           \* the workflows that may test a node without an output

Schedule == [w \in DOMAIN Graphs |-> ExecutionOrder(Graphs[w])]
Handoff == [w \in DOMAIN Graphs |->
              [t \in Targets(Graphs[w]) |-> HandoffSubgraph(Graphs[w], t)]]

VARIABLES
  workflow,    \* the workflow the run is of
  at,          \* the place the walk has come to
  outputs,     \* state.outputs
  current,     \* the nodes finished since the latest implementation
  heard,       \* validate has answered since the answer or its verdict changed
  judged       \* and that under the number of the iteration under way

vars == <<workflow, at, outputs, current, heard, judged>>

Graph == Graphs[workflow]
Nodes == Ids(Graph)

-----------------------------------------------------------------------------
(* Places. *)

(* In a body, the loop it is of; the nodes walked; and the position of the *)
(* next one, 0 when the first attempt of a loop is due.                    *)
Place(loop, nodes, pos) == [loop |-> loop, nodes |-> nodes, pos |-> pos]

First == Place(None, Schedule[workflow], 1)
Final == Place(None, Schedule[workflow], Len(Schedule[workflow]) + 1)
Sub(target) == Place(None, Handoff[workflow][target], 1)

(* Where a run is that has ended on a terminal other than completed.       *)
Nowhere == Place(None, <<>>, 0)

(* Every sequence a walk of the workflow follows, with its loop.           *)
Strands(w) ==
  {<<None, Schedule[w]>>}
    \cup {<<None, Handoff[w][t]>> : t \in Targets(Graphs[w])}
    \cup {<<n, Graphs[w].node[n].body>> : n \in {m \in Ids(Graphs[w]) : Graphs[w].node[m].body # <<>>}}

(* Where a walk may go on after one of the nodes.                          *)
After(w, nodes) ==
  UNION {{Place(s[1], s[2], i + 1) : i \in {j \in DOMAIN s[2] : s[2][j] \in nodes}} :
           s \in Strands(w)}

(* The gates and loops that may have handed off to the sub-graph.          *)
Callers(w, sub) ==
  {n \in Ids(Graphs[w]) :
     \E t \in Targets(Graphs[w]) \cap {Graphs[w].node[n].onFail, Graphs[w].node[n].onExhausted} :
       Handoff[w][t] = sub}

AtNode == at.pos \in DOMAIN at.nodes
HereId == at.nodes[at.pos]
Here == Graph.node[HereId]

AtBodyEnd == at.loop # None /\ at.pos = Len(at.nodes) + 1
Loop == Graph.node[at.loop]

Defined(test) == outputs[test.reads] # None
Holds(test) == outputs[test.reads] \in test.holds

Wanting == AtNode /\ (Here.when # NoTest => Defined(Here.when) /\ Holds(Here.when))
AtGate == Wanting /\ Here.kind = "gate"
AtWork == Wanting /\ Here.kind # "gate" /\ Here.body = <<>>

Blank == [n \in Nodes |-> None]

Init ==
  /\ workflow \in DOMAIN Graphs
  /\ at = First
  /\ outputs = Blank /\ current = {} /\ heard = FALSE /\ judged = FALSE

-----------------------------------------------------------------------------
(* Nodes. *)

GoOn == at' = [at EXCEPT !.pos = @ + 1]

Store(n, value) == outputs' = [outputs EXCEPT ![n] = value]

(* Another iteration is under way: it may have the number of the one in    *)
(* which validate last answered.                                           *)
NewIteration == judged' \in {FALSE, heard} /\ UNCHANGED heard

Skip ==
  /\ AtNode /\ Here.when # NoTest /\ Defined(Here.when) /\ ~Holds(Here.when)
  /\ GoOn
  /\ UNCHANGED <<workflow, outputs, current, heard, judged>>

(* A node's phase or check answers, of the answer under way.               *)
Answer ==
  /\ AtWork
  /\ outputs' \in Outcomes(HereId, outputs)
  /\ current' = IF HereId = "implement" THEN {"implement"}
                ELSE IF current = {} THEN {} ELSE current \cup {HereId}
  /\ IF HereId = "validate" THEN heard' = TRUE /\ judged' = TRUE
     ELSE IF HereId \in {"implement", "domain_review"} THEN heard' = FALSE /\ judged' = FALSE
     ELSE UNCHANGED <<heard, judged>>
  /\ GoOn
  /\ UNCHANGED workflow

GiveUp ==
  /\ AtWork /\ Here.advisory
  /\ Store(HereId, "skipped")
  /\ current' = IF current = {} THEN {} ELSE current \cup {HereId}
  /\ GoOn
  /\ UNCHANGED <<workflow, heard, judged>>

GateOpens ==
  /\ AtGate /\ Defined(Here.condition) /\ Holds(Here.condition)
  /\ Store(HereId, "passed")
  /\ GoOn
  /\ UNCHANGED <<workflow, current, heard, judged>>

GateCloses_IgnoresTerminal ==
  /\ AtGate /\ Defined(Here.condition) /\ ~Holds(Here.condition)
  /\ Store(HereId, "closed")
  /\ at' = IF Here.onFail \in TerminalStatuses \cup {None} THEN Final ELSE Sub(Here.onFail)
  /\ NewIteration
  /\ UNCHANGED <<workflow, current>>

GateCloses_NoHandoff ==
  /\ AtGate /\ Defined(Here.condition) /\ ~Holds(Here.condition)
  /\ Here.onFail \notin {"blocked", "escalated"}
  /\ Store(HereId, "closed")
  /\ at' = Final
  /\ NewIteration
  /\ UNCHANGED <<workflow, current>>

(* The walk is over, or the gate hands off to a sub-graph first.           *)
GateCloses ==
  /\ AtGate /\ Defined(Here.condition) /\ ~Holds(Here.condition)
  /\ Here.onFail \notin {"blocked", "escalated"}
  /\ Store(HereId, "closed")
  /\ at' = IF Here.onFail \in {None, "completed"} THEN Final ELSE Sub(Here.onFail)
  /\ NewIteration
  /\ UNCHANGED <<workflow, current>>

-----------------------------------------------------------------------------
(* Loops, sub-graphs and ends. *)

EnterLoop ==
  /\ Wanting /\ Here.body # <<>>
  /\ at' = Place(HereId, Here.body, 0)
  /\ UNCHANGED <<workflow, outputs, current, heard, judged>>

Again_WhateverUntil ==
  /\ at.loop # None
  /\ at.pos = 0 \/ AtBodyEnd

(* An attempt is due: the first, or one more after a body's end.           *)
Again ==
  /\ at.loop # None
  /\ at.pos = 0 \/ (AtBodyEnd /\ Defined(Loop.until) /\ ~Holds(Loop.until))

Attempt ==
  /\ Again /\ Loop.budget > 0
  /\ at' = [at EXCEPT !.pos = 1]
  /\ NewIteration
  /\ UNCHANGED <<workflow, outputs, current>>

Converge ==
  /\ AtBodyEnd /\ Defined(Loop.until) /\ Holds(Loop.until)
  /\ Store(at.loop, "converged")
  /\ at' \in After(workflow, {at.loop})
  /\ NewIteration
  /\ UNCHANGED <<workflow, current>>

Exhaust ==
  /\ Again /\ (at.pos = 0 => Loop.budget = 0)
  /\ Loop.exhaustedStatus \in {None, "completed"}
  /\ Store(at.loop, "exhausted")
  /\ at' \in IF Loop.exhaustedStatus = "completed" THEN {Final}
             ELSE IF Loop.onExhausted = None THEN After(workflow, {at.loop})
             ELSE {Sub(Loop.onExhausted)}
  /\ NewIteration
  /\ UNCHANGED <<workflow, current>>

Return ==
  /\ at.loop = None /\ at.pos = Len(at.nodes) + 1
  /\ at' \in After(workflow, Callers(workflow, at.nodes))
  /\ UNCHANGED <<workflow, outputs, current, heard, judged>>

(* The run is blocked or escalated, wherever it is.                        *)
Stop ==
  /\ at' = Nowhere
  /\ outputs' = Blank /\ current' = {} /\ heard' = FALSE /\ judged' = FALSE
  /\ UNCHANGED workflow

Next ==
  \/ Skip \/ Answer \/ GiveUp \/ GateOpens \/ GateCloses
  \/ EnterLoop \/ Attempt \/ Converge \/ Exhaust \/ Return \/ Stop

Spec == Init /\ [][Next]_vars

-----------------------------------------------------------------------------
(* Properties. *)

(* No `when`, gate condition or `until` is tested before the node it reads *)
(* has an output, on any path through skips, gates and handoffs: evaluate  *)
(* would raise in the middle of a paid run.                                *)
TestsDefined ==
  workflow \notin Careless =>
    /\ AtNode /\ Here.when # NoTest => Defined(Here.when)
    /\ AtGate => Defined(Here.condition)
    /\ AtBodyEnd => Defined(Loop.until)

(* The judges that refuse the current draft.                               *)
Refusing ==
  {n \in current :
     \/ n = "implement" /\ outputs[n] \in {"red", "red undone"}
     \/ n = "validate" /\ outputs[n] = "red"
     \/ n = "blocked_check" /\ outputs[n] = "failed"
     \/ n \in {"review", "rework_review"} /\ outputs[n] = "hold"}

(* Work triage called unrecallable gets to the end only with an            *)
(* independent check of the very answer delivered, and no veto of it.      *)
FinalIsCleared ==
  at = Final /\ {"triage", "independent_check"} \subseteq Nodes
     /\ outputs["triage"] = "unrecallable" =>
    "independent_check" \in current /\ outputs["independent_check"] # "veto"

(* A workflow that requires a review gets to the end only with an answer   *)
(* that no judge of it refuses, whichever loop or sub-graph it came by.    *)
FinalIsUncontested ==
  at = Final /\ "review" \in Requires[workflow] =>
    /\ Refusing = {}
    /\ "domain_review" \in current => outputs["implement"] \notin {"red", "red undone"}
    /\ "independent_check" \in current => outputs["independent_check"] # "veto"

Asked(n) == AtWork /\ HereId = n

(* Where a review is required, the judges are asked in an order that loses *)
(* no refusal: none judges an answer an autopsy ruled on, nor one not      *)
(* made; and the refusals standing when a judge is asked are those the     *)
(* failure log has, or gets from validate, under the same iteration.       *)
HeardInTurn ==
  "review" \in Requires[workflow] =>
    /\ AtWork /\ HereId \in {"blocked_check", "domain_review", "validate", "review",
                             "rework_review", "escalation", "independent_check"} =>
         "implement" \in current
    /\ AtWork /\ HereId \in {"blocked_check", "validate", "review", "rework_review", "escalation"} =>
         "escalation" \notin current
    /\ Asked("blocked_check") =>
         Refusing \subseteq {"blocked_check"} \cup (IF heard THEN {} ELSE {"implement"})
    /\ Asked("validate") => Refusing \subseteq {"implement", "validate"}
    /\ Asked("review") => Refusing \subseteq {"review"}
    /\ Asked("rework_review") =>
         judged /\ Refusing \subseteq {"implement", "validate", "rework_review"}
    /\ Asked("escalation") /\ "implement" \in Refusing => heard

(* An answer is made again only when one was refused, and what its own     *)
(* maker or the peers had against it has been heard or ruled on.           *)
RevisedOnRefusal ==
  Asked("implement") /\ current # {} =>
    /\ outputs["implement"] \notin {"green", "green undone"} \/ Refusing \ {"blocked_check"} # {}
    /\ "implement" \in Refusing => heard \/ "escalation" \in current
=============================================================================
