------------------------------- MODULE Roster -------------------------------
(***************************************************************************)
(* Who builds and who judges: the specialists triage assigns, the rules    *)
(* that complete them, the lead, its peers and the review team.  The       *)
(* profile is the process's: a switch takes effect on a run in flight, so  *)
(* each cast is by the profile in force when it is made.                   *)
(*                                                                         *)
(* Code: engine/review_composition.py, engine/phases.py, graph/adapter.py, *)
(* specialists/registry.py and profiles.py.                                *)
(***************************************************************************)
EXTENDS Naturals, FiniteSets, SequencesExt

CONSTANTS
    Role,       \* the role names in play
    Domain      \* the domain names in play

Undeclared == "undeclared"

(* A profile: who checks the work, who holds the system view, the lead it  *)
(* declares for a domain if it does, and its roles in order.               *)
Profiles ==
    [checker : Role, architect : Role, leads : [Domain -> Role \cup {Undeclared}],
     order : SetToSeqs(Role)]

Risks == {"low", "medium", "high", "critical"}

(* What triage can reply: names without repetition, in its own order. *)
Named(names) == UNION {SetToSeqs(s) : s \in SUBSET names}
Triages == [risk : Risks, domains : Named(Domain), specialists : Named(Role)]

(* enforce_triage_composition: risky work gets who checks the work, work   *)
(* across domains who holds the system view, whatever the model returned.  *)
WithRole(specialists, role) ==
    IF role \in ToSet(specialists) THEN specialists ELSE Append(specialists, role)

EnforceComposition(t, p) ==
    LET checked == IF t.risk \in {"high", "critical"}
                   THEN WithRole(t.specialists, p.checker) ELSE t.specialists
    IN [t EXCEPT !.specialists =
          IF Len(t.domains) > 1 THEN WithRole(checked, p.architect) ELSE checked]

LeadForDomain(d, p) == IF p.leads[d] = Undeclared THEN p.architect ELSE p.leads[d]

(* The first of the names that is of the team. *)
FirstOf(names, team) ==
    names[CHOOSE i \in DOMAIN names :
            names[i] \in team /\ \A j \in DOMAIN names : names[j] \in team => i <= j]

(* _builders: the role that checks the work builds only when nobody else   *)
(* was assigned.                                                           *)
Builders(t, p) ==
    LET others == ToSet(t.specialists) \ {p.checker}
    IN IF others = {} THEN ToSet(t.specialists) ELSE others

(* select_lead over the builders: the first one raises when there is none. *)
Lead(t, p) ==
    IF t.domains # <<>> /\ LeadForDomain(t.domains[1], p) \in Builders(t, p)
    THEN LeadForDomain(t.domains[1], p) ELSE FirstOf(t.specialists, Builders(t, p))

Peers(t, p) ==
    IF t.domains = <<>> \/ Cardinality(Builders(t, p)) = 1 THEN {}
    ELSE Builders(t, p) \ {Lead(t, p)}

ReviewTeam_Alone(t, p) ==
    LET leads == {LeadForDomain(d, p) : d \in ToSet(t.domains)}
        assigned == IF t.specialists = <<>> THEN leads ELSE ToSet(t.specialists)
        working == assigned \ {p.checker}
        team == assigned \cup {p.checker}
                  \cup (IF t.risk \in {"high", "critical"} THEN {p.architect} ELSE {})
                  \cup (IF t.risk = "critical" THEN leads ELSE {})
    IN IF t.risk = "low" THEN {IF working = {} THEN p.architect ELSE FirstOf(p.order, working)}
       ELSE team

(* _ordered at low risk: one reviewer, the first in the profile's order.   *)
ReviewTeam(t, p) ==
    LET leads == {LeadForDomain(d, p) : d \in ToSet(t.domains)}
        assigned == IF t.specialists = <<>> THEN leads ELSE ToSet(t.specialists)
        working == assigned \ {p.checker}
        team == assigned \cup {p.checker}
                  \cup (IF t.risk \in {"high", "critical"} THEN {p.architect} ELSE {})
                  \cup (IF t.risk = "critical" THEN leads ELSE {})
    IN IF t.risk = "low" THEN {IF working = {} THEN p.architect ELSE FirstOf(p.order, working)}
       ELSE IF Cardinality(team) < 2 THEN team \cup {p.architect} ELSE team

-----------------------------------------------------------------------------
(* Who checks the work and who holds the system view are two roles. *)
Sound == {p \in Profiles : p.checker # p.architect}
Cast == {EnforceComposition(t, p) : t \in Triages, p \in Sound}

(* Nobody marks his own homework.  Whatever triage returned, and whatever  *)
(* profile is in force at the build and at the review: above low risk      *)
(* somebody reviews who did not build; the builder is not the checker      *)
(* while there is anybody else; by one profile every builder but the lead  *)
(* reviews the build and the lead does not; and only work of one domain at *)
(* low or medium risk can be left with nobody to build it.                 *)
NobodyMarksHisOwn ==
    \A t \in Cast :
      IF t.specialists = <<>> THEN t.risk \in {"low", "medium"} /\ Len(t.domains) < 2
      ELSE /\ t.risk # "low" =>
                LET teams == {ReviewTeam(t, q) : q \in Sound}
                IN \A lead \in {Lead(t, p) : p \in Sound}, team \in teams : team # {lead}
           /\ \A p \in Sound :
                /\ Lead(t, p) = p.checker => ToSet(t.specialists) = {p.checker}
                /\ t.domains # <<>> => Peers(t, p) = Builders(t, p) \ {Lead(t, p)}
=============================================================================
