------------------------------ MODULE Ranking ------------------------------
(***************************************************************************)
(* rerank_chunks of autornd/knowledge/context.py.  The strategy that ranks *)
(* retrieved excerpts is one variable of the process, _rerank_mode, that   *)
(* every run reads before an await and writes after it.                    *)
(***************************************************************************)
EXTENDS Naturals

CONSTANT Ranker   \* the runs that rank at the same time

VARIABLES
    mode,        \* _rerank_mode: "untried", "native", "listwise" or "distance"
    ranking      \* what each run awaits: "idle", "native", "listwise" or "ranked"

rankVars == <<mode, ranking>>

RankInit ==
    /\ mode = "untried"
    /\ ranking = [r \in Ranker |-> "idle"]

(* A run ranks only what there is more of than it keeps.  Some model always *)
(* ranks: a start without a research model is refused (config.py:349).     *)
StartRanking(r, many) ==
    /\ ranking[r] = "idle"
    /\ ranking' = [ranking EXCEPT ![r] =
                     IF ~many \/ mode = "distance" THEN "ranked"
                     ELSE IF mode = "listwise" THEN "listwise" ELSE "native"]
    /\ UNCHANGED mode

(* The rerank API answers with an order that can be used, or it does not.  *)
(* When it does not, the mode is read again: another run may have settled  *)
(* it while this one waited.                                               *)
RankNative(r, usable) ==
    /\ ranking[r] = "native"
    /\ mode' = IF usable THEN "native" ELSE mode
    /\ ranking' = [ranking EXCEPT ![r] =
                     IF usable \/ mode = "native" THEN "ranked" ELSE "listwise"]

RankListwise(r, usable) ==
    /\ ranking[r] = "listwise"
    /\ mode' = CASE usable -> "listwise"
                 [] ~usable /\ mode # "listwise" -> "distance"
                 [] OTHER -> mode
    /\ ranking' = [ranking EXCEPT ![r] = "ranked"]

(* BudgetExceeded leaves the mode alone and ends the run. *)
RankStopped(r) ==
    /\ ranking[r] \in {"native", "listwise"}
    /\ ranking' = [ranking EXCEPT ![r] = "idle"]
    /\ UNCHANGED mode

(* The next run takes this one's place in the process. *)
RankingLeft(r) ==
    /\ ranking[r] = "ranked"
    /\ ranking' = [ranking EXCEPT ![r] = "idle"]
    /\ UNCHANGED mode

(* One step of run r's ranking, whatever the ranking model answers. *)
Rank(r) == \E usable \in BOOLEAN : RankNative(r, usable) \/ RankListwise(r, usable)

Next ==
    \E r \in Ranker :
        \/ \E many \in BOOLEAN : StartRanking(r, many)
        \/ Rank(r) \/ RankStopped(r) \/ RankingLeft(r)

Spec == RankInit /\ [][Next]_rankVars

(* "It worked before and failed now: a transient fault, not a capability   *)
(* change.  Keep the mode" (context.py:458): once the rerank API has       *)
(* answered in this process, no later failure takes it out of use.         *)
ProvenModeStays == [][mode = "native" => mode' = "native"]_rankVars
=============================================================================
