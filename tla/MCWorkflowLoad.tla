--------------------------- MODULE MCWorkflowLoad ---------------------------
(***************************************************************************)
(* Every graph of three nodes with at most one loop and one routing gate,  *)
(* and those of four nodes with single dependencies and one-node bodies;   *)
(* and, to be walked, the shipped workflows, one of the features they      *)
(* leave out, and the default one with no attempt at recovery, none at     *)
(* rework, and neither: with one or more, its routes are the same.         *)
(***************************************************************************)
EXTENDS WorkflowLoad, Workflows

FullTeam(recovery, rework) ==
  [FullTeamGraph EXCEPT !.node["recovery_loop"].budget = recovery,
                        !.node["review_rework_loop"].budget = rework]

RoutedWorkflows ==
  AllWorkflows @@ [no_recovery |-> FullTeam(0, 1), no_rework |-> FullTeam(1, 0),
                   no_recourse |-> FullTeam(0, 0)]

RoutedRequirements ==
  [w \in DOMAIN RoutedWorkflows |->
     IF w \in DOMAIN AllWorkflows THEN AllRequirements[w] ELSE AllRequirements["full_team"]]

ASSUME ShippedAreAccepted == \A w \in DOMAIN Graphs : Accepted(Graphs[w])

-----------------------------------------------------------------------------

File3 == <<"a", "b", "c">>
File4 == <<"a", "b", "c", "d">>

(* file, dependencies, the loop with its body and target, the gate with its*)
(* target; None where there is no loop, gate or target.                    *)
GraphOf(file, deps, loop, body, exhausted, gate, route) ==
  [file |-> file,
   node |-> [n \in ToSet(file) |->
     [Node(IF n = gate THEN "gate" ELSE "ai", deps[n]) EXCEPT
       !.body = IF n = loop THEN SelectSeq(file, LAMBDA m : m \in body) ELSE <<>>,
       !.onExhausted = IF n = loop THEN exhausted ELSE None,
       !.onFail = IF n = gate THEN route ELSE None]]]

(* The dependencies to try: every set of at most k other nodes.            *)
Deps(file, k) ==
  LET ids == ToSet(file)
      AtMost == {S \in SUBSET ids : Cardinality(S) <= k}
  IN {f \in [ids -> AtMost] : \A n \in ids : n \notin f[n]}

Deps3 == Deps(File3, 2)
Deps4 == Deps(File4, 1)

Small(g, file, deps, loops, sizes, gates) ==
  \E f \in deps, loop \in loops, body \in SUBSET ToSet(file) :
    /\ loop \notin body /\ Cardinality(body) \in sizes
    /\ \E exhausted \in ToSet(file) \cup {None}, gate \in gates :
         \E route \in IF gate = None THEN {None} ELSE ToSet(file) :
           /\ gate # loop \/ gate = None
           /\ g = GraphOf(file, f, loop, body, exhausted, gate, route)

SmallGraph(g) ==
  \/ Small(g, File3, Deps3, {"a", "b"}, {1, 2}, {"c", None})
  \/ Small(g, File4, Deps4, {"a", "d"}, {1}, {"b", None})

-----------------------------------------------------------------------------
(* Whatever a run's budgets, on every route through a workflow: a `when`,  *)
(* gate or `until` reads a node that has an output; each judge is asked in *)
(* an order that loses no refusal, and an answer is made again only when   *)
(* one was refused; and only an answer that no judge refuses, and that an  *)
(* independent check has seen where triage asked for it, gets to the end.  *)
RoutesAreSound ==
  TestsDefined /\ HeardInTurn /\ RevisedOnRefusal /\ FinalIsUncontested /\ FinalIsCleared
=============================================================================
