---------------------------- MODULE WorkflowSpec ----------------------------
(***************************************************************************)
(* The workflow graph of autornd/graph/spec.py: what a loaded file says of *)
(* each node, which nodes only a handoff reaches, the order the scheduler  *)
(* runs the others in, and the sub-graph a closed gate or an exhausted     *)
(* loop hands off to.                                                      *)
(*                                                                         *)
(* A graph g is a record: g.file is the node ids in file order, g.node     *)
(* maps each to its Node record.  Conditions are abstracted to the node    *)
(* they read and the outputs of it for which they hold.                    *)
(***************************************************************************)
EXTENDS Integers, Sequences, FiniteSets, SequencesExt

None == "none"

TerminalStatuses == {"completed", "blocked", "escalated"}

(* A condition: the node whose output it reads, the outputs it holds for.  *)
Test(node, values) == [reads |-> node, holds |-> values]

NoTest == Test(None, {})

(* A node with the fields _parse_node defaults to; Node(kind, deps) and    *)
(* EXCEPT give the rest.  A loop is an "ai" node with a body in the file.  *)
Node(kind, deps) ==
  [kind |-> kind, deps |-> deps, when |-> NoTest, condition |-> NoTest,
   until |-> NoTest, body |-> <<>>, budget |-> 1, onFail |-> None,
   onExhausted |-> None, exhaustedStatus |-> None, advisory |-> FALSE]

(* The constructors the transcribed workflow files use.                    *)
Ai(deps) == Node("ai", deps)
Check(deps) == Node("check", deps)
Gate(deps, condition, onFail) ==
  [Node("gate", deps) EXCEPT !.condition = condition, !.onFail = onFail]
RepeatUntil(deps, body, until, budget) ==
  [Node("ai", deps) EXCEPT !.body = body, !.until = until, !.budget = budget]
Passed(check) == Test(check, {"passed"})

Ids(g) == {g.file[i] : i \in DOMAIN g.file}

InFileOrder(g, S) == SelectSeq(g.file, LAMBDA n : n \in S)

BodyMembers(g) == UNION {ToSet(g.node[n].body) : n \in Ids(g)}

(* The nodes named by an on_exhausted or by a routing on_fail.             *)
Targets(g) ==
  ({g.node[n].onExhausted : n \in Ids(g)} \cup {g.node[n].onFail : n \in Ids(g)})
    \ (TerminalStatuses \cup {None})

(* handoff_reachable: bodies, targets and whatever depends on them alone.  *)
HandoffReachable(g) ==
  LET grown[owned \in SUBSET Ids(g)] ==
        LET more == {n \in Ids(g) \ owned : /\ g.node[n].deps # {}
                                            /\ g.node[n].deps \subseteq owned}
        IN IF more = {} THEN owned ELSE grown[owned \cup more]
  IN grown[BodyMembers(g) \cup Targets(g)]

(* The nodes of a handoff sub-graph: what depends on the set alone, and    *)
(* the handoff-owned nodes a member depends on; loop bodies stay out.      *)
Wanted_NoSupport(g, start) ==
  LET allowed == HandoffReachable(g) \ BodyMembers(g)
      grown[set \in SUBSET Ids(g)] ==
        LET more == {n \in allowed \ set : /\ g.node[n].deps # {}
                                           /\ g.node[n].deps \subseteq set}
        IN IF more = {} THEN set ELSE grown[set \cup more]
  IN grown[{start}]

Wanted(g, start) ==
  LET allowed == HandoffReachable(g) \ BodyMembers(g)
      grown[set \in SUBSET Ids(g)] ==
        LET more == {n \in allowed \ set :
                       \/ g.node[n].deps # {} /\ g.node[n].deps \subseteq set
                       \/ \E m \in set : n \in g.node[m].deps}
        IN IF more = {} THEN set ELSE grown[set \cup more]
  IN grown[{start}]

(* Dependency levels of S, file order within a level; a dependency outside *)
(* S counts as satisfied.  A cycle leaves its nodes out.                   *)
Levels(g, S) ==
  LET rest[done \in SUBSET S] ==
        LET ready == {n \in S \ done : g.node[n].deps \cap S \subseteq done}
        IN IF ready = {} THEN <<>>
           ELSE InFileOrder(g, ready) \o rest[done \cup ready]
  IN rest[{}]

HandoffSubgraph(g, start) == Levels(g, Wanted(g, start))

TopLevel(g) == Ids(g) \ HandoffReachable(g)

ExecutionOrder(g) == Levels(g, TopLevel(g))

Orderable(g, S) == Len(Levels(g, S)) = Cardinality(S)

(* What parse refuses: a handoff and a status at once, an advisory gate or *)
(* loop, and a schedule or a handoff sub-graph that cannot be ordered.     *)
Accepted_ScheduleOnly(g) ==
  /\ \A n \in Ids(g) : ~(/\ g.node[n].onExhausted # None
                         /\ g.node[n].exhaustedStatus # None)
  /\ \A n \in Ids(g) :
       g.node[n].advisory => g.node[n].kind # "gate" /\ g.node[n].body = <<>>
  /\ Orderable(g, TopLevel(g))

Accepted(g) ==
  /\ \A n \in Ids(g) : ~(/\ g.node[n].onExhausted # None
                         /\ g.node[n].exhaustedStatus # None)
  /\ \A n \in Ids(g) :
       g.node[n].advisory => g.node[n].kind # "gate" /\ g.node[n].body = <<>>
  /\ Orderable(g, TopLevel(g))
  /\ \A t \in Targets(g) : Orderable(g, Wanted(g, t))
=============================================================================
