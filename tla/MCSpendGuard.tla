---------------------------- MODULE MCSpendGuard ----------------------------
(***************************************************************************)
(* Small instances of SpendGuard.  a and b are guarded chat calls of       *)
(* different worst cases, r a rerank of an unrated model.                  *)
(***************************************************************************)
EXTENDS SpendGuard, ChatJson, TLC

CONSTANTS a, b, r

WorstCases == [c \in Calls |-> IF c = a THEN 2 ELSE 1]

(* Each reply is free or costs the whole worst case. *)
ReplyCosts == [c \in Calls |-> {0, WorstCases[c]}]

(* However the client's calls interleave their sends, a provider failure   *)
(* is entered by the call whose own sends all came back empty and by no    *)
(* other (openrouter.py:1215).                                             *)
FailureIsOwned == inFlight = 0 => EachFailureIsItsCalls
=============================================================================
