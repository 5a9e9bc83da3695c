------------------------------ MODULE MCSuite -------------------------------
(***************************************************************************)
(* Two compared workflows and two scenarios, repeated twice: one scenario  *)
(* is pinned to the second workflow, which cannot answer the other.  The   *)
(* sweep may spend four, and a run two of it or whatever is left.          *)
(*                                                                         *)
(* The gate is tried on two models of two providers, whose endpoints take  *)
(* every parameter, take no response_format or are not there.              *)
(***************************************************************************)
EXTENDS Suite

Compared == <<"lean", "triage_only">>
Ids == <<"plain", "pinned">>
PinOf == [s \in {"plain", "pinned"} |->
            IF s = "pinned" THEN "triage_only" ELSE ""]
Modes == {NoCap, 2}
Unanswerable == {<<"plain", "triage_only">>}

Tiered(architecture, premium, judge, ranker) ==
  [t \in Required \cup Optional |->
     CASE t = "engineering" -> "m1" [] t = "premium" -> premium
       [] t = "judge" -> judge [] t = "ranker" -> ranker [] OTHER -> architecture]

MCModelMaps == {Tiered(a, p, j, r) : a \in {"m1", "m2"}, p \in {Unset, "m1", "m2"},
                                   j \in {Unset, "m2"}, r \in {Unset, "m2"}}

Entries ==
  {[name |-> n, provider |-> p] :
     n \in {General, "engineering", "search", "judge", "independent", "premium", "ranker"},
     p \in {"p", "q"}}
  \cup {[name |-> "search", provider |-> NoProvider], [name |-> "typo", provider |-> "p"]}

Endpoints ==
  {{[provider |-> "p", takes |-> t] : t \in T} \cup {[provider |-> "q", takes |-> t] : t \in U} :
     T \in {{}, {{"max_tokens"}}, {{"max_tokens", "response_format"}}},
     U \in {{}, {{"max_tokens", "response_format"}}}}

MCLines == BoundedSeq(Entries, 2)
MCEndpointMaps ==
  {[m \in {"m1", "m2"} |-> IF m = "m1" THEN first ELSE second] :
     first \in Endpoints, second \in Endpoints}
MCReadable == {{"m1"}, {"m1", "m2"}}
=============================================================================
