---------------------------- MODULE MCWorkflows ----------------------------
(***************************************************************************)
(* The executor running the shipped workflows, and a graph of the features *)
(* none of them uses.                                                      *)
(***************************************************************************)
EXTENDS GraphExecutor, Workflows, FreeChecks, Watchdog

-----------------------------------------------------------------------------
(* The outline of why the shipped workflows keep their promise: what is    *)
(* known on leaving a loop comes from its `until`, and along a walk from   *)
(* what each node adds or undoes; a sub-graph may have run in a gate.      *)
ShippedGives(w) ==
  [n \in Ids(Graphs[w]) |->
     CASE Graphs[w].node[n].exhaustedStatus = None /\ Graphs[w].node[n].onExhausted = None -> {}
       [] Graphs[w].node[n].until = Passed("judges") -> {"drafted", "built"}
       [] Graphs[w].node[n].until = Passed("review_fold") -> {"drafted", "built", "cleared"}
       [] OTHER -> {}]

ShippedFacts(w) ==
  LET after(n, known) ==
        LET node == Graphs[w].node[n]
        IN IF node.body # <<>> THEN ShippedGives(w)[n]
           ELSE IF node.kind = "gate"
           THEN WhenHolds(node.condition, known) \cap {"drafted", "built", "cleared"}
           ELSE AfterWork(n, known)
      along(walk) ==
        LET known[i \in 1 .. Len(walk) + 1] ==
              IF i = 1 THEN {} ELSE after(walk[i - 1], known[i - 1])
        IN known
  IN [walk \in Walks(w) |-> along(walk)]

ASSUME ShippedOutlined ==
  \A w \in DOMAIN Graphs : Outlined(w, ShippedFacts(w), ShippedGives(w))

ASSUME ShippedCompletion == CompletesAtTheEnd

-----------------------------------------------------------------------------
(* While a run goes on: what the watchdog starts and cuts is decided by    *)
(* the calls that came back and by the time left, never by what the ledger *)
(* booked (executor.py's D38 and D40).                                     *)
WatchdogDecides == mode = "running" => DecidedByWhatCameBack

(* A free check of the answer flags it only with ground in it (checks.py): *)
(* one word more flips an ask's verdict only where the ask's polarity says *)
(* so, a figure restated with fewer or more places is no conflict, and the *)
(* recompute vote flags only what two agreeing samples contradict.         *)
FreeChecksAreFair ==
  mode = "running" => NoWordFlips /\ RoundingIsNoConflict /\ FlagsHaveGround
=============================================================================
