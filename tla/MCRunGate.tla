----------------------------- MODULE MCRunGate -----------------------------
(***************************************************************************)
(* Five submissions of two callers to two slots: a and b are the same work *)
(* from one caller by two routes, d and e two doublechecks.                *)
(***************************************************************************)
EXTENDS RunGate

Routes == [s \in Submissions |->
             CASE s = "b" -> "sync" [] s \in {"d", "e"} -> "doublecheck"
               [] OTHER -> "background"]
Callers == [s \in Submissions |-> IF s \in {"a", "b", "d"} THEN "ann" ELSE "bob"]
Keys == [s \in Submissions |-> IF s \in {"d", "e"} THEN "doublecheck" ELSE "build"]

NotSync == {s \in Submissions : Routes[s] # "sync"}
=============================================================================
