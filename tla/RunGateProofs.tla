--------------------------- MODULE RunGateProofs ---------------------------
(***************************************************************************)
(* The admission cap and the dedupe of RunGate, for any set of             *)
(* submissions and any cap, and that slots are exactly the live runs as    *)
(* long as no client of /workflows/sync fails to close.                    *)
(*                                                                         *)
(* The cap the code checks is on the slots; that it also bounds the runs   *)
(* needs the converse direction, that no live run is without a slot and no *)
(* two share one: Inv carries all three.                                   *)
(***************************************************************************)
EXTENDS RunGate, FiniteSetTheorems, TLAPS

SlotsBounded ==
  /\ IsFiniteSet(slots)
  /\ Cardinality(slots) <= MaxConcurrentRuns

LiveHold == \A s \in Live : Slot(s) \in slots

Inv == TypeOK /\ SlotsBounded /\ LiveHold /\ NoTwins

-----------------------------------------------------------------------------
(* The four shapes a step of a submission has. *)

(* A submission under way stays under way.                                 *)
Moves(s) ==
  /\ pc[s] \in Busy
  /\ \E point \in Busy : Go(s, point)
  /\ UNCHANGED slots

(* It ends and its slot is released.                                       *)
Releases(s) == pc[s] \in Busy /\ Ended(s)

(* It ends, or is refused, and the slots are left alone.                   *)
Leaves(s) ==
  /\ \E point \in {"refused", "ended"} : Go(s, point)
  /\ UNCHANGED slots

(* Every action of a submission is an admission or one of the other three. *)
LEMMA StepShape ==
  ASSUME NEW s \in Submissions, Step(s)
  PROVE  Admit(s) \/ Moves(s) \/ Releases(s) \/ Leaves(s)
<1>1. CASE Admit(s)
  BY <1>1
<1>2. CASE Refuse(s)
  BY <1>2 DEF Refuse, Leaves
<1>3. CASE Store(s)
  BY <1>3, Zenon DEF Store, Moves, Busy
<1>4. CASE StoreFails(s)
  BY <1>4 DEF StoreFails, Releases, Busy
<1>5. CASE Start(s)
  BY <1>5 DEF Start, Moves, Busy
<1>6. CASE RowMissing(s)
  BY <1>6 DEF RowMissing, Releases, Busy
<1>7. CASE Finish(s)
  BY <1>7 DEF Finish, Moves, Busy
<1>8. CASE Close(s)
  BY <1>8 DEF Close, Releases, Busy
<1>9. CASE CloseToSave(s)
  BY <1>9 DEF CloseToSave, Moves, Busy
<1>10. CASE CloseFails(s)
  BY <1>10 DEF CloseFails, Releases, Leaves, Busy
<1>11. CASE Save(s)
  BY <1>11 DEF Save, Releases, Busy
<1> QED
  BY <1>1, <1>2, <1>3, <1>4, <1>5, <1>6, <1>7, <1>8, <1>9, <1>10, <1>11
     DEF Step

(* An admission makes a live run of one that was not.                      *)
LEMMA AdmitLive ==
  ASSUME TypeOK, NEW s \in Submissions, Admit(s)
  PROVE  Live' = Live \cup {s} /\ s \notin Live /\ TypeOK'
<1>1. pc' = [pc EXCEPT ![s] = IF Kind[s] = "doublecheck" THEN "running" ELSE "storing"]
  BY DEF Admit, Go
<1>2. \A t \in Submissions : t # s => pc'[t] = pc[t]
  BY <1>1 DEF TypeOK
<1>3. pc'[s] \in Busy /\ pc[s] \notin Busy
  BY <1>1 DEF TypeOK, Busy, Admit
<1>4. TypeOK'
  BY <1>1 DEF TypeOK, Admit, Points, Slot
<1> QED
  BY <1>2, <1>3, <1>4 DEF Live

(* A submission that stays under way leaves the live runs as they are.     *)
LEMMA MovesLive ==
  ASSUME TypeOK, NEW s \in Submissions, Moves(s)
  PROVE  Live' = Live /\ slots' = slots /\ TypeOK'
<1>1. PICK point \in Busy : pc' = [pc EXCEPT ![s] = point]
  BY DEF Moves, Go
<1>2. \A t \in Submissions : t # s => pc'[t] = pc[t]
  BY <1>1 DEF TypeOK
<1>3. pc'[s] \in Busy /\ pc[s] \in Busy
  BY <1>1 DEF TypeOK, Moves
<1>4. TypeOK'
  BY <1>1 DEF TypeOK, Moves, Points, Busy, Slot
<1> QED
  BY <1>2, <1>3, <1>4 DEF Live, Moves

(* One that ends or is refused is not live afterwards.                     *)
LEMMA StopsLive ==
  ASSUME TypeOK, NEW s \in Submissions,
         NEW point \in {"refused", "ended"}, Go(s, point), slots' \subseteq slots
  PROVE  Live' = Live \ {s} /\ TypeOK'
<1>1. pc' = [pc EXCEPT ![s] = point]
  BY DEF Go
<1>2. \A t \in Submissions : t # s => pc'[t] = pc[t]
  BY <1>1 DEF TypeOK
<1>3. pc'[s] \notin Busy
  BY <1>1 DEF TypeOK, Busy
<1>4. TypeOK'
  BY <1>1 DEF TypeOK, Points, Slot
<1> QED
  BY <1>2, <1>3, <1>4 DEF Live

-----------------------------------------------------------------------------
LEMMA InitInv == Init => Inv
<1> SUFFICES ASSUME Init PROVE Inv
  OBVIOUS
<1>1. TypeOK
  BY DEF Init, TypeOK, Points
<1>2. SlotsBounded
  BY FS_EmptySet, GateAssumption DEF Init, SlotsBounded
<1>3. Live = {}
  BY DEF Init, Live, Busy
<1> QED
  BY <1>1, <1>2, <1>3 DEF Inv, LiveHold, NoTwins

LEMMA AdmitInv ==
  ASSUME Inv, NEW s \in Submissions, Admit(s)
  PROVE  Inv'
<1> USE DEF Inv
<1>1. Live' = Live \cup {s} /\ TypeOK'
  BY AdmitLive
<1>2. slots' = slots \cup {Slot(s)} /\ Slot(s) \notin slots
  BY DEF Admit, Duplicate
<1>3. SlotsBounded'
  <2>1. IsFiniteSet(slots') /\ Cardinality(slots') = Cardinality(slots) + 1
    BY <1>2, FS_AddElement DEF SlotsBounded
  <2>2. Cardinality(slots) \in Nat
    BY FS_CardinalityType DEF SlotsBounded
  <2>3. ~(Cardinality(slots) >= MaxConcurrentRuns)
    BY DEF Admit, Full
  <2> QED
    BY <2>1, <2>2, <2>3, GateAssumption DEF SlotsBounded
<1>4. LiveHold'
  BY <1>1, <1>2 DEF LiveHold, Slot
<1>5. NoTwins'
  BY <1>1, <1>2 DEF LiveHold, NoTwins, Slot
<1> QED
  BY <1>1, <1>3, <1>4, <1>5

LEMMA ReleaseInv ==
  ASSUME Inv, NEW s \in Submissions, Releases(s)
  PROVE  Inv'
<1> USE DEF Inv
<1>1. slots' = slots \ {Slot(s)} /\ Go(s, "ended") /\ s \in Live
  BY DEF Releases, Ended, Live
<1>2. Live' = Live \ {s} /\ TypeOK'
  BY <1>1, StopsLive
<1>3. SlotsBounded'
  <2>1. slots' \in SUBSET slots
    BY <1>1
  <2>2. IsFiniteSet(slots') /\ Cardinality(slots') <= Cardinality(slots)
    BY <2>1, FS_Subset DEF SlotsBounded
  <2>3. Cardinality(slots) \in Nat /\ Cardinality(slots') \in Nat
    BY <2>2, FS_CardinalityType DEF SlotsBounded
  <2> QED
    BY <2>2, <2>3, GateAssumption DEF SlotsBounded
<1>4. LiveHold'
  BY <1>1, <1>2 DEF LiveHold, NoTwins, Slot
<1>5. NoTwins'
  BY <1>2 DEF NoTwins, Slot
<1> QED
  BY <1>2, <1>3, <1>4, <1>5

LEMMA LeaveInv ==
  ASSUME Inv, NEW s \in Submissions, Leaves(s)
  PROVE  Inv'
<1>1. PICK point \in {"refused", "ended"} : Go(s, point)
  BY DEF Leaves
<1>2. slots' = slots
  BY DEF Leaves
<1>3. Live' = Live \ {s} /\ TypeOK'
  BY <1>1, <1>2, StopsLive DEF Inv
<1> QED
  BY <1>2, <1>3 DEF Inv, SlotsBounded, LiveHold, NoTwins, Slot

LEMMA NextInv ==
  ASSUME Inv, [Next]_vars
  PROVE  Inv'
<1>1. CASE UNCHANGED vars
  BY <1>1 DEF Inv, vars, TypeOK, SlotsBounded, LiveHold, NoTwins, Live, Slot
<1>2. ASSUME NEW s \in Submissions, Step(s)
      PROVE  Inv'
  <2>1. CASE Moves(s)
    <3>1. Live' = Live /\ slots' = slots /\ TypeOK'
      BY <2>1, MovesLive DEF Inv
    <3> QED
      BY <3>1 DEF Inv, SlotsBounded, LiveHold, NoTwins, Slot
  <2> QED
    BY <1>2, <2>1, StepShape, AdmitInv, ReleaseInv, LeaveInv
<1> QED
  BY <1>1, <1>2 DEF Next

(* Inv holds throughout, whatever the routes, callers, keys and cap are.   *)
THEOREM SpecInv == Spec => []Inv
<1>1. Inv /\ [Next]_vars => Inv'
  BY NextInv
<1> QED
  BY <1>1, InitInv, PTL DEF Spec

-----------------------------------------------------------------------------
(* One live run to a slot, so the cap on slots is a cap on runs.           *)
LEMMA InvCaps == Inv => LiveWithinCap
<1> SUFFICES ASSUME Inv PROVE LiveWithinCap
  OBVIOUS
<1> DEFINE held == [s \in Live |-> Slot(s)]
<1>1. held \in Injection(Live, slots)
  BY DEF Inv, LiveHold, NoTwins, Injection, IsInjective
<1>2. IsFiniteSet(Live) /\ Cardinality(Live) <= Cardinality(slots)
  <2> HIDE DEF held
  <2> QED
    BY <1>1, FS_Injection DEF Inv, SlotsBounded
<1>3. Cardinality(Live) \in Nat /\ Cardinality(slots) \in Nat
  BY <1>2, FS_CardinalityType DEF Inv, SlotsBounded
<1> QED
  BY <1>2, <1>3, GateAssumption DEF Inv, SlotsBounded, LiveWithinCap

(* At most max_concurrent_runs runs are under way, in any interleaving.    *)
THEOREM SpecLiveWithinCap == Spec => []LiveWithinCap
  BY SpecInv, InvCaps, PTL

(* No caller has the same work under way twice.                            *)
THEOREM SpecNoTwins == Spec => []NoTwins
<1>1. Inv => NoTwins
  BY DEF Inv
<1> QED
  BY <1>1, SpecInv, PTL

-----------------------------------------------------------------------------
SyncCloses == \A s \in Unclosable : Kind[s] # "sync"

(* With no leak, what a step adds to the live runs or takes from them it   *)
(* adds to the slots or takes from them.                                   *)
LEMMA SlotsFollow ==
  ASSUME Inv, SyncCloses, SlotsAreTheLive, [Next]_vars
  PROVE  SlotsAreTheLive'
<1> USE DEF Inv
<1>1. CASE UNCHANGED vars
  BY <1>1 DEF vars, SlotsAreTheLive, Live, Slot
<1>2. ASSUME NEW s \in Submissions, Step(s)
      PROVE  SlotsAreTheLive'
  <2>1. CASE Admit(s)
    <3>1. Live' = Live \cup {s}
      BY <2>1, AdmitLive
    <3> QED
      BY <2>1, <3>1 DEF Admit, SlotsAreTheLive, Slot
  <2>2. CASE Moves(s)
    <3>1. Live' = Live /\ slots' = slots
      BY <2>2, MovesLive
    <3> QED
      BY <3>1 DEF SlotsAreTheLive, Slot
  <2>3. CASE Releases(s)
    <3>1. slots' = slots \ {Slot(s)} /\ Go(s, "ended") /\ s \in Live
      BY <2>3 DEF Releases, Ended, Live
    <3>2. Live' = Live \ {s}
      BY <3>1, StopsLive
    <3>3. \A t \in Live \ {s} : Slot(t) # Slot(s)
      BY <3>1 DEF NoTwins
    <3> QED
      BY <3>1, <3>2, <3>3 DEF SlotsAreTheLive, Slot
  <2>4. CASE Refuse(s)
    <3>1. pc[s] \notin Busy /\ Go(s, "refused") /\ slots' = slots
      BY <2>4 DEF Refuse, Busy
    <3>2. Live' = Live \ {s} /\ s \notin Live
      BY <3>1, StopsLive DEF Live
    <3> QED
      BY <3>1, <3>2 DEF SlotsAreTheLive, Slot
  <2>5. CASE CloseFails(s)
    <3>1. Releases(s)
      BY <2>5 DEF CloseFails, Releases, SyncCloses, Busy
    <3> QED
      BY <3>1, <2>3
  <2>6. Leaves(s) => Refuse(s) \/ CloseFails(s) \/ Releases(s) \/ Admit(s) \/ Moves(s)
    BY <1>2 DEF Step, Store, StoreFails, Start, RowMissing, Finish, Close,
                CloseToSave, Save, Releases, Moves, Busy
  <2> QED
    BY <1>2, <2>1, <2>2, <2>3, <2>4, <2>5, <2>6, StepShape
<1> QED
  BY <1>1, <1>2 DEF Next

(* If no client of /workflows/sync fails to close, a slot is held exactly  *)
(* while a run it admitted is under way, whatever else fails.              *)
THEOREM SpecSlotsAreTheLive ==
  ASSUME SyncCloses
  PROVE  Spec => []SlotsAreTheLive
<1>1. Init => SlotsAreTheLive
  BY DEF Init, SlotsAreTheLive, Live, Busy
<1>2. Inv /\ SlotsAreTheLive /\ [Next]_vars => SlotsAreTheLive'
  BY SlotsFollow
<1> QED
  BY <1>1, <1>2, SpecInv, PTL DEF Spec

(* Under the same assumption, all that admission promises.                 *)
THEOREM SpecAdmissionHolds ==
  ASSUME SyncCloses
  PROVE  Spec => []AdmissionHolds
<1>1. LiveWithinCap /\ NoTwins /\ SlotsAreTheLive => AdmissionHolds
  BY DEF AdmissionHolds
<1> QED
  BY <1>1, SpecLiveWithinCap, SpecNoTwins, SpecSlotsAreTheLive, PTL
=============================================================================
