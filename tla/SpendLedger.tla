---------------------------- MODULE SpendLedger ----------------------------
(***************************************************************************)
(* What the spend guard of autornd/routing/openrouter.py promises its      *)
(* caller, with no calls, reservations or retries in sight: one committed  *)
(* amount that grows only by an admission that fits under the ceiling.     *)
(* Money the guard could not bound (a model with no catalogue rate) is     *)
(* booked beside it as blind, after the fact.  SpendGuard implements this  *)
(* module.                                                                 *)
(***************************************************************************)
EXTENDS Integers

CONSTANTS SpendCeiling,  \* the run's dollar ceiling, in the smallest unit
          NoCeiling      \* the ceiling of a run that has none

VARIABLES committed,     \* spend + reservations + unreconciled liability
          blind          \* the part of it the guard never bounded

ledger == <<committed, blind>>

Init == committed = 0 /\ blind = 0

(* A worst case is admitted only when the whole of it fits. *)
Admit ==
  /\ SpendCeiling # NoCeiling
  /\ committed < committed' /\ committed' <= SpendCeiling
  /\ UNCHANGED blind

(* A call reconciles (its cost replaces its worst case) or gives back a    *)
(* worst case it never used.                                               *)
Settle == committed' < committed /\ UNCHANGED blind

(* A call nobody could bound reports what it cost. *)
BookBlind ==
  /\ blind < blind'
  /\ committed' - committed = blind' - blind

Next == /\ committed' \in Int /\ blind' \in Nat
        /\ (Admit \/ Settle \/ BookBlind)

Spec == Init /\ [][Next]_ledger
=============================================================================
