------------------------------ MODULE Watchdog ------------------------------
(***************************************************************************)
(* The deliberation watchdog of a run with a time budget (Rulings D38 and  *)
(* D40, autornd/graph/executor.py): which of the run's calls it starts,    *)
(* which it cancels, and what it remembers of the ones that came back.  A  *)
(* run is the calls it would make, in order.  GraphExecutor's Cut is what  *)
(* a cut does to the run.                                                  *)
(***************************************************************************)
EXTENDS Integers, Sequences, FiniteSets, SequencesExt

CONSTANTS
  Callee,      \* the nodes that call
  Tier,        \* the tiers a node may be routed to, or served by
  Seconds,     \* how long a call takes
  Budget,      \* time_budget
  Reserve      \* reserve_seconds

ASSUME WatchdogAssumption ==
  /\ Seconds \subseteq Nat \ {0}
  /\ Budget \in Nat /\ Reserve \in 0 .. Budget

(* A node is routed to `tier`; the client's ledger books its calls under   *)
(* the tiers of `booked`.  An advisory node may be cut and the run goes    *)
(* on; a silent one makes no call.                                         *)
Call ==
  [node : Callee, tier : Tier, booked : SUBSET Tier \ {{}}, seconds : Seconds,
   kind : {"needed", "advisory"}]
  \cup [node : Callee, tier : Tier, booked : {{}}, seconds : {0}, kind : {"silent"}]

(* _measured_tier: the step's tier is the one the ledger saw served, when  *)
(* its calls grew one count alone, and the routing answer otherwise.       *)
Recorded(c) == IF Cardinality(c.booked) = 1 THEN CHOOSE t \in c.booked : TRUE ELSE c.tier

(* The clock, the slowest call that came back by node and routed tier and  *)
(* by routed tier (0 for none), and the cuts in order.                     *)
Started == [elapsed |-> 0, own |-> [n \in Callee, t \in Tier |-> 0],
            shared |-> [t \in Tier |-> 0], cuts |-> <<>>, over |-> FALSE]

Available(w) == Budget - w.elapsed - Reserve

PaceFor(w, c) ==
  IF w.own[c.node, c.tier] # 0 THEN w.own[c.node, c.tier] ELSE w.shared[c.tier]

PreStart(w, c) ==
  c.kind # "silent" /\ (Available(w) <= 0 \/ PaceFor(w, c) > Available(w))

(* The cut of an advisory node is recorded, any other ends the run.        *)
Cutting(w, i, c, rule) ==
  [w EXCEPT !.cuts = Append(@, [at |-> i, rule |-> rule, available |-> Available(w)]),
            !.over = c.kind # "advisory"]

AtLeast(pace, seconds) == IF pace < seconds THEN seconds ELSE pace

AfterStep_ByTheBookedTier(w, c) ==
  IF c.kind = "silent" THEN w
  ELSE [w EXCEPT !.own[c.node, Recorded(c)] = AtLeast(@, c.seconds),
                 !.shared[Recorded(c)] = AtLeast(@, c.seconds)]

(* The pace is kept by the tier the call was routed to: the only one known *)
(* when the next call is decided on.                                       *)
AfterStep(w, c) ==
  IF c.kind = "silent" THEN w
  ELSE [w EXCEPT !.own[c.node, c.tier] = AtLeast(@, c.seconds),
                 !.shared[c.tier] = AtLeast(@, c.seconds)]

Watched(w, i, c) ==
  IF w.over THEN w
  ELSE IF PreStart(w, c) THEN Cutting(w, i, c, "not_started")
  ELSE IF c.seconds > Available(w)
       THEN [Cutting(w, i, c, "cancelled") EXCEPT !.elapsed = Budget - Reserve]
  ELSE AfterStep([w EXCEPT !.elapsed = @ + c.seconds], c)

Watch(calls) == FoldLeftDomain(LAMBDA w, i : Watched(w, i, calls[i]), Started, calls)

-----------------------------------------------------------------------------
Calls == UNION {[1 .. n -> Call] : n \in 1 .. 3}

(* The calls of a run that came back before its i-th.                      *)
CameBack(calls, w, i) ==
  {j \in 1 .. i - 1 : calls[j].kind # "silent" /\ \A k \in DOMAIN w.cuts : w.cuts[k].at # j}

(* The clock of a budgeted run never passes the cut point.  A call is      *)
(* refused with time left only for a call that did come back, of its node  *)
(* or of its tier, and took longer than that; and none is paid for and     *)
(* cancelled that its own node's last ones said could not finish.  What    *)
(* the ledger books a call under changes no decision ("a record repair     *)
(* must not change a D38 decision"), and an advisory call that was refused *)
(* changes nothing for the calls after it.                                 *)
DecidedByWhatCameBack ==
  \A calls \in Calls :
    LET w == Watch(calls)
        Like(i) == {j \in CameBack(calls, w, i) : calls[j].tier = calls[i].tier}
        Own(i) == {j \in Like(i) : calls[j].node = calls[i].node}
        refused == {w.cuts[k].at : k \in {k \in DOMAIN w.cuts : w.cuts[k].rule = "not_started"}}
        without ==
          Watch([j \in 1 .. Len(calls) - Cardinality(refused) |->
                   calls[CHOOSE i \in DOMAIN calls \ refused :
                           Cardinality((1 .. i) \ refused) = j]])
        asRouted == [i \in DOMAIN calls |-> [calls[i] EXCEPT !.booked = {calls[i].tier}]]
    IN /\ w.elapsed <= Budget - Reserve
       /\ \A k \in DOMAIN w.cuts :
            LET c == w.cuts[k]
                longer == {j \in Like(c.at) : calls[j].seconds > c.available}
            IN IF c.rule = "not_started"
               THEN \/ c.available <= 0
                    \/ longer \cap Own(c.at) # {}
                    \/ Own(c.at) = {} /\ longer # {}
               ELSE calls[c.at].kind # "silent" => longer \cap Own(c.at) = {}
       /\ w = Watch(asRouted)
       /\ ~w.over => w.elapsed = without.elapsed /\ w.own = without.own
=============================================================================
