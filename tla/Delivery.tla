------------------------------ MODULE Delivery ------------------------------
(***************************************************************************)
(* What a workflow run promises its caller: drafts are made and judged,    *)
(* and the run is completed only on a draft that holds every approval the  *)
(* workflow requires at that moment.  A new draft starts with none.        *)
(***************************************************************************)
EXTENDS Integers

CONSTANT Judges         \* who may approve a draft

VARIABLES required,     \* the approvals a completion of this run needs
          draft,        \* the drafts made so far; the last is the answer
          approvals,    \* those of required that the last draft holds
          outcome       \* "open" until the run ends

delivery == <<required, draft, approvals, outcome>>

Endings == {"completed", "blocked", "escalated", "raised"}

Init ==
  /\ required \in SUBSET Judges
  /\ draft = 0 /\ approvals = {} /\ outcome = "open"

Draft ==
  /\ outcome = "open"
  /\ draft' = draft + 1 /\ approvals' = {}
  /\ UNCHANGED <<required, outcome>>

(* A judge or a reviewer approves the answer, or withdraws it.             *)
Judge ==
  /\ outcome = "open"
  /\ approvals' \in SUBSET required /\ approvals' # approvals
  /\ UNCHANGED <<required, draft, outcome>>

Complete ==
  /\ outcome = "open" /\ approvals = required
  /\ outcome' = "completed"
  /\ UNCHANGED <<required, draft, approvals>>

Abandon ==
  /\ outcome = "open"
  /\ outcome' \in Endings \ {"completed"}
  /\ UNCHANGED <<required, draft, approvals>>

Next == Draft \/ Judge \/ Complete \/ Abandon

Spec == Init /\ [][Next]_delivery
=============================================================================
