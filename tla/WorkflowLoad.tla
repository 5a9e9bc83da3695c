---------------------------- MODULE WorkflowLoad ----------------------------
(***************************************************************************)
(* Loading a workflow file (parse in autornd/graph/spec.py): a file is     *)
(* either refused or becomes the graph the executor runs.  Every small     *)
(* graph is tried, so the properties are of the ordering algorithms and of *)
(* what parse lets through; a shipped workflow, once loaded, is walked     *)
(* along its routes.                                                       *)
(***************************************************************************)
EXTENDS Routes

CONSTANT Describes(_)      \* the graphs a file may describe

VARIABLES graph, phase

loading == <<graph, phase>>

(* A file is a shipped workflow's, or another that is not walked.          *)
LoadInit ==
  /\ phase = "file"
  /\ \/ workflow \in DOMAIN Graphs /\ graph = Graph
     \/ workflow = (CHOOSE w \in DOMAIN Graphs : TRUE) /\ Describes(graph)
  /\ Init

Load ==
  /\ phase = "file" /\ Accepted(graph)
  /\ phase' = "loaded"
  /\ UNCHANGED <<graph, vars>>

Refuse ==
  /\ phase = "file" /\ ~Accepted(graph)
  /\ phase' = "refused"
  /\ UNCHANGED <<graph, vars>>

Walk ==
  /\ phase = "running" \/ (phase = "loaded" /\ graph = Graph)
  /\ phase' = "running"
  /\ Next
  /\ UNCHANGED graph

LoadNext == Load \/ Refuse \/ Walk

LoadSpec == LoadInit /\ [][LoadNext]_<<loading, vars>>

-----------------------------------------------------------------------------
(* Reference definitions. *)

(* S is run once each by order, no node before one of S it depends on. *)
Schedules(order, S) ==
  /\ ToSet(order) = S /\ Len(order) = Cardinality(S)
  /\ \A i, j \in DOMAIN order : order[j] \in graph.node[order[i]].deps => j < i

Loaded == phase = "loaded"

-----------------------------------------------------------------------------
(* Properties. *)

(* A loaded graph runs each top-level node exactly once, after the         *)
(* top-level nodes it depends on; whatever a gate or a loop routes to at   *)
(* run time is schedulable too, so no run meets a cycle half-way; and a    *)
(* handoff runs a node only when its dependencies have run: before it in   *)
(* the sub-graph, in the main flow, or in a loop body.                     *)
LoadedIsSchedulable ==
  Loaded => /\ Schedules(ExecutionOrder(graph), TopLevel(graph))
            /\ \A t \in Targets(graph) :
                 /\ Schedules(HandoffSubgraph(graph, t), Wanted(graph, t))
                 /\ \A n \in Wanted(graph, t) :
                      graph.node[n].deps \subseteq
                        Wanted(graph, t) \cup TopLevel(graph) \cup BodyMembers(graph)
=============================================================================
