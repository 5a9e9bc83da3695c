---------------------------- MODULE MCJudgedRun ----------------------------
(***************************************************************************)
(* Dissents of every kind, with the words that anchor it and without, and  *)
(* panels of two and three reviewers; three roles and two domains.        *)
(***************************************************************************)
EXTENDS JudgedRun

Pipeline == [full_team |-> FullTeamGraph]
PipelineRequires == [full_team |-> {"build", "review"}]

Bare(kind) == [kind |-> kind, hazard |-> FALSE, ask |-> "none", quote |-> {},
               hazard_quote |-> {}, source_quote |-> {}]
Omission == [Bare("unmet_ask") EXCEPT !.ask = "listed"]
StrayAsk == [Bare("unmet_ask") EXCEPT !.ask = "stray", !.source_quote = {"request"}]
Quoted == [Bare("unmet_ask") EXCEPT !.quote = {"request"}]
Hazard == [Bare("") EXCEPT !.hazard = TRUE, !.hazard_quote = {"answer"}]
Unquoted == [Bare("hazard") EXCEPT !.hazard = TRUE, !.ask = "listed"]
Sourced == [Bare("") EXCEPT !.source_quote = {"sources"}]
Unsourced == [Bare("wrong_fact") EXCEPT !.ask = "listed", !.quote = {"request"}]

Unknown == [Bare("other") EXCEPT !.hazard_quote = {"answer"}]

SomeDissents == {Omission, StrayAsk, Quoted, Hazard, Unquoted, Sourced, Unsourced, Unknown}

SomePanels ==
  LET results == {NotReviewed, Reviewed({})}
                   \cup {Reviewed({[severity |-> s, dissent |-> d]}) :
                           s \in {"high", "note"}, d \in {Omission, Unsourced}}
  IN [1 .. 2 -> results] \cup [1 .. 3 -> results]

ASSUME PipelineJudges == JudgesAreWork
ASSUME PipelineKinds == KindsAreRead(SomeDissents)
=============================================================================
