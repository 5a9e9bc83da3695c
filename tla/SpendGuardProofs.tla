-------------------------- MODULE SpendGuardProofs --------------------------
(***************************************************************************)
(* Proofs about SpendGuard for every set of calls, every worst case, every *)
(* ceiling and every retry bound.                                          *)
(***************************************************************************)
EXTENDS SpendGuard, FiniteSetTheorems, TLAPS

LEMMA StatesDisjoint == OutStates \cap (Over \cup {Idle}) = {}
BY DEF OutStates, Over, Idle, Posted, Backoff, Waiting, Done, Stopped, Refused, Failed

LEMMA OutFinite == IsFiniteSet(Out) /\ Cardinality(Out) \in Nat
BY SpendAssumption, FS_Subset, FS_CardinalityType DEF Out

(* Moving one call changes Out by that call alone. *)
LEMMA OutMoves ==
  ASSUME NEW c \in Calls, NEW s, pc \in [Calls -> OutStates \cup Over \cup {Idle}],
         s \in OutStates \cup Over \cup {Idle},
         pc' = [pc EXCEPT ![c] = s]
  PROVE  Out' = IF s \in OutStates THEN Out \cup {c} ELSE Out \ {c}
BY DEF Out, OutStates

LEMMA CountEnter ==
  ASSUME NEW c \in Calls, c \notin Out
  PROVE  Cardinality(Out \cup {c}) = Cardinality(Out) + 1
BY OutFinite, FS_AddElement

LEMMA CountLeave ==
  ASSUME NEW c \in Calls, c \in Out
  PROVE  /\ Cardinality(Out \ {c}) = Cardinality(Out) - 1
         /\ Cardinality(Out) # 0
BY OutFinite, FS_RemoveElement, FS_CardinalityType, FS_Subset

(* The inductive invariant: the types, the exact ledger, and both bounds. *)
IInv == TypeOK /\ LedgerExact /\ CommittedBounded /\ CallsBounded

(***************************************************************************)
(* Every step of a call has one of three effects on where the calls are:   *)
(* c enters Out, c leaves Out, or Out is unchanged.  LedgerExact follows   *)
(* from each, given what the step does to the counters.                    *)
(***************************************************************************)
LEMMA Enters ==
  ASSUME IInv, NEW c \in Calls, pc[c] = Idle, Reserve(c),
         pc' = [pc EXCEPT ![c] = Posted]
  PROVE  LedgerExact'
<1>1. c \notin Out
  BY DEF Out, OutStates, Idle, Posted, Backoff, Waiting
<1>2. Out' = Out \cup {c}
  BY OutMoves DEF IInv, TypeOK, OutStates
<1>3. inFlight' = Cardinality(Out')
  BY <1>1, <1>2, CountEnter DEF IInv, LedgerExact, Reserve
<1>4. reservations' = {d \in Out' : Reserves(d)'}
  BY <1>1, <1>2 DEF IInv, LedgerExact, Reserve, Reserves
<1>5. QED
  BY <1>3, <1>4 DEF LedgerExact

LEMMA Leaves ==
  ASSUME IInv, NEW c \in Calls, c \in Out, Release(c), NEW s \in Over,
         pc' = [pc EXCEPT ![c] = s]
  PROVE  LedgerExact' /\ inFlight' + 1 = inFlight /\ inFlight' \in Nat
<1>1. Out' = Out \ {c}
  BY OutMoves, StatesDisjoint DEF IInv, TypeOK
<1>2. inFlight' = Cardinality(Out') /\ inFlight' + 1 = inFlight /\ inFlight' \in Nat
  <2>1. Cardinality(Out') = Cardinality(Out) - 1 /\ Cardinality(Out) # 0
    BY <1>1, CountLeave
  <2>2. inFlight = Cardinality(Out) /\ inFlight' = LessOne(inFlight) /\ inFlight \in Nat
    BY DEF IInv, TypeOK, LedgerExact, Release
  <2>3. QED
    BY <2>1, <2>2 DEF LessOne
<1>3. reservations' = {d \in Out' : Reserves(d)'}
  BY <1>1 DEF IInv, LedgerExact, Release, Reserves
<1>4. QED
  BY <1>2, <1>3 DEF LedgerExact

LEMMA Stays ==
  ASSUME IInv, NEW c \in Calls, c \in Out, NEW s \in OutStates,
         pc' = [pc EXCEPT ![c] = s], UNCHANGED reservations, inFlight' = inFlight
  PROVE  LedgerExact'
<1>1. Out' = Out \cup {c}
  BY OutMoves DEF IInv, TypeOK
<1>2. QED
  BY <1>1 DEF IInv, LedgerExact, Reserves

(* A call that is out holds exactly its worst case, or nothing if blind.   *)
LEMMA HeldWhenOut ==
  ASSUME IInv, NEW c \in Calls, c \in Out
  PROVE  /\ Held(c) = IF Reserves(c) THEN Worst[c] ELSE 0
         /\ Held(c) \in Nat
         /\ inFlight \in Nat \ {0}
         /\ LessOne(inFlight) + 1 = inFlight
<1>1. c \in reservations <=> Reserves(c)
  BY DEF IInv, LedgerExact
<1>2. inFlight \in Nat /\ inFlight = Cardinality(Out)
  BY DEF IInv, LedgerExact, TypeOK
<1>3. inFlight # 0
  BY <1>2, CountLeave
<1>4. QED
  BY <1>1, <1>2, <1>3, SpendAssumption DEF Held, LessOne

THEOREM InitIInv == Init => IInv
<1> SUFFICES ASSUME Init PROVE IInv
  OBVIOUS
<1>1. TypeOK
  BY SpendAssumption DEF Init, TypeOK, Fresh, Tries
<1>2. LedgerExact
  BY FS_EmptySet DEF Init, LedgerExact, Out, OutStates, Idle, Posted, Backoff, Waiting
<1>3. CommittedBounded /\ CallsBounded
  BY SpendAssumption DEF Init, CommittedBounded, CallsBounded, Committed
<1>4. QED
  BY <1>1, <1>2, <1>3 DEF IInv

(* What the retry loops do to one call's counters stays in range. *)
LEMMA TriesUpdate ==
  ASSUME TypeOK, NEW c \in Calls
  PROVE  /\ tries[c].transient + 1 < TransientAttempts
              => [tries EXCEPT ![c].transient = @ + 1] \in [Calls -> Tries]
         /\ [tries EXCEPT ![c].format = 1, ![c].transient = 0] \in [Calls -> Tries]
         /\ tries[c].limited + 1 < RateLimitAttempts
              => [tries EXCEPT ![c].limited = @ + 1, ![c].transient = 0] \in [Calls -> Tries]
         /\ tries[c].choiceless + 1 < RateLimitAttempts
              => [tries EXCEPT ![c].choiceless = @ + 1, ![c].transient = 0] \in [Calls -> Tries]
<1>1. tries \in [Calls -> Tries] /\ tries[c] \in Tries
  BY DEF TypeOK
<1>2. 0 \in 0 .. 1 /\ 1 \in 0 .. 1
  OBVIOUS
<1>3. /\ 0 \in 0 .. TransientAttempts - 1
      /\ \A n \in 0 .. TransientAttempts - 1 :
           n + 1 < TransientAttempts => n + 1 \in 0 .. TransientAttempts - 1
      /\ \A n \in 0 .. RateLimitAttempts - 1 :
           n + 1 < RateLimitAttempts => n + 1 \in 0 .. RateLimitAttempts - 1
  BY SpendAssumption
<1>4. ASSUME tries[c].transient + 1 < TransientAttempts
      PROVE  [tries EXCEPT ![c].transient = @ + 1] \in [Calls -> Tries]
  BY <1>1, <1>3, <1>4 DEF Tries
<1>5. [tries EXCEPT ![c].format = 1, ![c].transient = 0] \in [Calls -> Tries]
  BY <1>1, <1>2, <1>3 DEF Tries
<1>6. ASSUME tries[c].limited + 1 < RateLimitAttempts
      PROVE  [tries EXCEPT ![c].limited = @ + 1, ![c].transient = 0] \in [Calls -> Tries]
  BY <1>1, <1>3, <1>6 DEF Tries
<1>7. ASSUME tries[c].choiceless + 1 < RateLimitAttempts
      PROVE  [tries EXCEPT ![c].choiceless = @ + 1, ![c].transient = 0] \in [Calls -> Tries]
  BY <1>1, <1>3, <1>7 DEF Tries
<1>8. QED
  BY <1>4, <1>5, <1>6, <1>7

LEMMA TypeStep ==
  ASSUME IInv, NEW c \in Calls, Step(c)
  PROVE  TypeOK'
<1> USE DEF IInv, TypeOK
<1> DEFINE Places == OutStates \cup Over \cup {Idle}
<1>p. {Idle, Posted, Backoff, Waiting, Done, Stopped, Refused, Failed} \subseteq Places
  BY DEF OutStates, Over
<1>h. c \in Out => Held(c) \in Nat /\ LessOne(inFlight) \in Nat
  BY HeldWhenOut DEF LessOne
<1>o. pc[c] \in OutStates => c \in Out
  BY DEF Out
<1>1. CASE Dispatch(c)
  BY <1>1, <1>p, SpendAssumption DEF Dispatch, Reserve, Reserves, history
<1>2. CASE Refuse(c)
  BY <1>2, <1>p DEF Refuse, money, history
<1>3. ASSUME NEW cost \in Costs[c], Reconcile(c, cost) PROVE TypeOK'
  <2>1. cost \in Nat
    BY SpendAssumption
  <2>2. c \in Out
    BY <1>3, <1>o DEF Reconcile, OutStates
  <2>3. QED
    BY <1>3, <1>p, <1>h, <2>1, <2>2 DEF Reconcile, Release
<1>4. CASE Fail(c)
  <2>1. c \in Out
    BY <1>4, <1>o DEF Fail, OutStates
  <2>2. QED
    BY <1>4, <1>p, <1>h, <2>1 DEF Fail, FailCall, Release, MaybeBilled
<1>5. CASE Retry(c)
  <2>1. c \in Out
    BY <1>5, <1>o DEF Retry, OutStates
  <2>2. tries' \in [Calls -> Tries]
    <3>1. /\ tries[c].transient + 1 < TransientAttempts
          /\ tries' = tries \/ tries' = [tries EXCEPT ![c].transient = @ + 1]
      BY <1>5 DEF Retry
    <3>2. tries \in [Calls -> Tries]
      OBVIOUS
    <3>3. CASE tries' = tries
      BY <3>2, <3>3
    <3>4. CASE tries' = [tries EXCEPT ![c].transient = @ + 1]
      BY <3>1, <3>4, TriesUpdate
    <3>5. QED
      BY <3>1, <3>3, <3>4
  <2>3. pc' \in [Calls -> Places]
    BY <1>5, <1>p DEF Retry
  <2>4. /\ reservations' \in SUBSET Calls /\ reserved' \in Int
        /\ inFlight' \in Nat
    <3>1. \/ UNCHANGED <<reservations, reserved>> /\ inFlight' = LessOne(inFlight) + 1
          \/ Release(c)
      BY <1>5 DEF Retry
    <3>2. QED
      BY <3>1, <1>h, <2>1 DEF Release
  <2>5. liability' \in Nat /\ billed' \in Nat
    <3>1. liability' = liability + Held(c) /\ billed' \in {billed, billed + Held(c)}
      BY <1>5 DEF Retry, MaybeBilled
    <3>2. QED
      BY <1>h, <2>1, <3>1
  <2>6. UNCHANGED <<calls, spend, blindSpend>>
    BY <1>5 DEF Retry
  <2>7. QED
    BY <2>2, <2>3, <2>4, <2>5, <2>6
<1>6. CASE Redispatch(c)
  BY <1>6, <1>p DEF Redispatch, money, history
<1>7. CASE Interrupt(c)
  <2>1. c \in Out
    BY <1>7, <1>o DEF Interrupt, OutStates
  <2>2. QED
    BY <1>7, <1>p, <1>h, <2>1 DEF Interrupt, Release, history
<1>8. CASE DropFormat(c)
  BY <1>8, TriesUpdate DEF DropFormat, money, history
<1>9. CASE RateLimited(c)
  BY <1>9, <1>p, TriesUpdate DEF RateLimited, money, history
<1>10. ASSUME NEW charge \in UnusableCosts, NoChoices(c, charge) PROVE TypeOK'
  <2>1. charge \in Nat
    BY SpendAssumption
  <2>2. tries' \in [Calls -> Tries] /\ pc' \in [Calls -> Places]
    BY <1>10, <1>p, TriesUpdate DEF NoChoices
  <2>3. billed' \in Nat
    BY <1>10, <2>1 DEF NoChoices
  <2>4. UNCHANGED <<money, blindSpend>>
    BY <1>10 DEF NoChoices
  <2>5. QED
    BY <2>2, <2>3, <2>4 DEF money
<1>11. CASE Repost(c)
  BY <1>11, <1>p DEF Repost, money, history
<1>12. QED
  BY <1>1, <1>2, <1>3, <1>4, <1>5, <1>6, <1>7, <1>8, <1>9, <1>10, <1>11 DEF Step

(* The ledger's counters follow the calls through every step. *)
LEMMA LedgerStep ==
  ASSUME IInv, NEW c \in Calls, Step(c)
  PROVE  LedgerExact'
<1>o. pc[c] \in OutStates => c \in Out
  BY DEF Out
<1>s. {Posted, Backoff, Waiting} = OutStates /\ {Done, Stopped, Refused, Failed} = Over
  BY DEF OutStates, Over
<1>1. CASE Dispatch(c)
  BY <1>1, Enters DEF Dispatch
<1>2. CASE Refuse(c)
  <2>1. c \notin Out
    BY <1>2, StatesDisjoint DEF Refuse, Out
  <2>2. Out' = Out \ {c}
    BY <1>2, <1>s, OutMoves, StatesDisjoint DEF Refuse, IInv, TypeOK
  <2>3. QED
    BY <1>2, <2>1, <2>2 DEF Refuse, IInv, LedgerExact, money, Reserves
<1>3. ASSUME NEW cost \in Costs[c], Reconcile(c, cost) PROVE LedgerExact'
  <2>1. PICK s \in Over : pc' = [pc EXCEPT ![c] = s]
    BY <1>3, <1>s DEF Reconcile
  <2>2. c \in Out /\ Release(c)
    BY <1>3, <1>o, <1>s DEF Reconcile
  <2>3. QED
    BY <2>1, <2>2, Leaves
<1>4. CASE Fail(c)
  BY <1>4, <1>o, <1>s, Leaves DEF Fail, FailCall
<1>5. CASE Retry(c)
  <2>1. c \in Out
    BY <1>5, <1>o, <1>s DEF Retry
  <2>2. CASE Release(c) /\ pc' = [pc EXCEPT ![c] = Refused]
    BY <2>1, <2>2, <1>s, Leaves
  <2>3. CASE /\ UNCHANGED reservations /\ inFlight' = LessOne(inFlight) + 1
             /\ pc' = [pc EXCEPT ![c] = Backoff]
    BY <2>1, <2>3, <1>s, Stays, HeldWhenOut
  <2>4. QED
    BY <1>5, <2>2, <2>3 DEF Retry
<1>6. CASE Redispatch(c)
  BY <1>6, <1>o, <1>s, Stays DEF Redispatch, money
<1>7. CASE Interrupt(c)
  BY <1>7, <1>o, <1>s, Leaves DEF Interrupt
<1>8. CASE DropFormat(c)
  BY <1>8 DEF DropFormat, money, IInv, LedgerExact, Out, Reserves
<1>9. CASE RateLimited(c)
  BY <1>9, <1>o, <1>s, Stays DEF RateLimited, money
<1>10. ASSUME NEW charge \in UnusableCosts, NoChoices(c, charge) PROVE LedgerExact'
  BY <1>10, <1>o, <1>s, Stays DEF NoChoices, money
<1>11. CASE Repost(c)
  BY <1>11, <1>o, <1>s, Stays DEF Repost, money
<1>12. QED
  BY <1>1, <1>2, <1>3, <1>4, <1>5, <1>6, <1>7, <1>8, <1>9, <1>10, <1>11 DEF Step

(* What a step does to the two totals the ceilings are compared with.      *)
LEMMA TotalsStep ==
  ASSUME IInv, NEW c \in Calls, Step(c)
  PROVE  /\ \/ Committed' <= Committed /\ blindSpend' = blindSpend
            \/ /\ Reserves(c) /\ blindSpend' = blindSpend
               /\ Committed' = Committed + Worst[c]
               /\ Committed + Worst[c] <= SpendCeiling
            \/ /\ Committed' - Committed = blindSpend' - blindSpend
               /\ blindSpend <= blindSpend'
         /\ \/ calls' + inFlight' <= calls + inFlight
            \/ (CallCeiling # NoCeiling => calls' + inFlight' <= CallCeiling)
<1> USE DEF Committed
<1>o. pc[c] \in OutStates => c \in Out
  BY DEF Out
<1>s. {Posted, Backoff, Waiting} = OutStates /\ {Done, Stopped, Refused, Failed} = Over
  BY DEF OutStates, Over
<1>t. /\ calls \in Nat /\ inFlight \in Nat /\ spend \in Nat /\ liability \in Nat
      /\ reserved \in Int /\ blindSpend \in Nat
  BY DEF IInv, TypeOK
<1>h. c \in Out => /\ Held(c) = IF Reserves(c) THEN Worst[c] ELSE 0
                  /\ Held(c) \in Nat
                  /\ LessOne(inFlight) + 1 = inFlight /\ LessOne(inFlight) \in Nat
                  /\ (c \in reservations <=> Reserves(c))
  BY HeldWhenOut DEF LessOne, IInv, LedgerExact
<1>w. Worst[c] \in Nat /\ (SpendCeiling # NoCeiling => SpendCeiling \in Nat)
      /\ (CallCeiling # NoCeiling => CallCeiling \in Nat)
  BY SpendAssumption
<1>1. CASE Dispatch(c)
  <2>1. /\ reserved' = reserved + (IF Reserves(c) THEN Worst[c] ELSE 0)
        /\ inFlight' = inFlight + 1
        /\ UNCHANGED <<calls, spend, liability, blindSpend>>
        /\ CallCeiling # NoCeiling => calls + inFlight + 1 <= CallCeiling
        /\ Reserves(c) => spend + reserved + liability + Worst[c] <= SpendCeiling
    BY <1>1 DEF Dispatch, Reserve, CallFits, SpendFits, history
  <2>2. QED
    BY <2>1, <1>t, <1>w
<1>2. CASE Refuse(c)
  BY <1>2, <1>t DEF Refuse, money, history
<1>3. ASSUME NEW cost \in Costs[c], Reconcile(c, cost)
      PROVE  /\ \/ Committed' <= Committed /\ blindSpend' = blindSpend
                \/ /\ Committed' - Committed = blindSpend' - blindSpend
                   /\ blindSpend <= blindSpend'
             /\ calls' + inFlight' <= calls + inFlight
  <2>1. c \in Out
    BY <1>3, <1>o, <1>s DEF Reconcile
  <2>2. /\ reserved' = reserved - Held(c) /\ inFlight' = LessOne(inFlight)
        /\ calls' = calls + 1 /\ spend' = spend + cost /\ liability' = liability
        /\ blindSpend' = IF c \in reservations THEN blindSpend ELSE blindSpend + cost
    BY <1>3 DEF Reconcile, Release
  <2>3. cost \in Nat /\ (Reserves(c) => cost <= Worst[c])
    BY SpendAssumption DEF Reserves
  <2>4. QED
    BY <2>1, <2>2, <2>3, <1>t, <1>h, <1>w
<1>4. CASE Fail(c)
  <2>1. c \in Out
    BY <1>4, <1>o, <1>s DEF Fail
  <2>2. /\ reserved' = reserved - Held(c) /\ inFlight' = LessOne(inFlight)
        /\ liability' = liability + Held(c) /\ UNCHANGED <<calls, spend, blindSpend>>
    BY <1>4 DEF Fail, FailCall, Release
  <2>3. QED
    BY <2>1, <2>2, <1>t, <1>h
<1>5. CASE Retry(c)
  <2>1. c \in Out
    BY <1>5, <1>o, <1>s DEF Retry
  <2>2. liability' = liability + Held(c) /\ UNCHANGED <<calls, spend, blindSpend>>
    BY <1>5 DEF Retry
  <2>3. CASE Release(c)
    BY <2>1, <2>2, <2>3, <1>t, <1>h DEF Release
  <2>4. CASE /\ SpendFits(c) /\ UNCHANGED reserved
             /\ inFlight' = LessOne(inFlight) + 1
    BY <2>1, <2>2, <2>4, <1>t, <1>h, <1>w DEF SpendFits
  <2>5. QED
    BY <1>5, <2>3, <2>4 DEF Retry
<1>6. CASE Redispatch(c)
  BY <1>6, <1>t DEF Redispatch, money, history
<1>7. CASE Interrupt(c)
  <2>1. c \in Out
    BY <1>7, <1>o, <1>s DEF Interrupt
  <2>2. QED
    BY <1>7, <2>1, <1>t, <1>h DEF Interrupt, Release, history
<1>8. CASE DropFormat(c)
  BY <1>8, <1>t DEF DropFormat, money, history
<1>9. CASE RateLimited(c)
  BY <1>9, <1>t DEF RateLimited, money, history
<1>10. ASSUME NEW charge \in UnusableCosts, NoChoices(c, charge)
       PROVE  UNCHANGED <<money, blindSpend>>
  BY <1>10 DEF NoChoices
<1>11. CASE Repost(c)
  BY <1>11, <1>t DEF Repost, money, history
<1>12. QED
  BY <1>1, <1>2, <1>3, <1>4, <1>5, <1>6, <1>7, <1>8, <1>9, <1>10, <1>11, <1>t DEF Step, money

THEOREM NextIInv == IInv /\ [Next]_vars => IInv'
<1> SUFFICES ASSUME IInv, [Next]_vars PROVE IInv'
  OBVIOUS
<1>1. ASSUME NEW c \in Calls, Step(c) PROVE IInv'
  <2>1. TypeOK' /\ LedgerExact'
    BY <1>1, TypeStep, LedgerStep
  <2>2. CommittedBounded' /\ CallsBounded'
    <3>1. /\ Committed \in Int /\ blindSpend \in Nat
          /\ calls \in Nat /\ inFlight \in Nat
      BY DEF IInv, TypeOK, Committed
    <3>p. /\ Committed' \in Int /\ blindSpend' \in Nat
          /\ calls' \in Nat /\ inFlight' \in Nat
      <4>1. /\ spend' \in Nat /\ reserved' \in Int /\ liability' \in Nat
            /\ calls' \in Nat /\ inFlight' \in Nat /\ blindSpend' \in Nat
        BY <2>1 DEF TypeOK
      <4>2. QED
        BY <4>1 DEF Committed
    <3>2. (SpendCeiling # NoCeiling => SpendCeiling \in Nat)
          /\ (CallCeiling # NoCeiling => CallCeiling \in Nat)
      BY SpendAssumption
    <3>3. CommittedBounded'
      <4>1. \/ Committed' <= Committed /\ blindSpend' = blindSpend
            \/ /\ blindSpend' = blindSpend
               /\ Committed' <= SpendCeiling
            \/ Committed' - Committed = blindSpend' - blindSpend
        BY <1>1, TotalsStep
      <4>2. QED
        BY <3>1, <3>p, <3>2, <4>1 DEF IInv, CommittedBounded
    <3>4. CallsBounded'
      <4>1. \/ calls' + inFlight' <= calls + inFlight
            \/ (CallCeiling # NoCeiling => calls' + inFlight' <= CallCeiling)
        BY <1>1, TotalsStep
      <4>2. PICK n \in Nat, m \in Nat : n = calls' /\ m = inFlight'
        BY <3>p
      <4>3. SUFFICES ASSUME CallCeiling # NoCeiling
                     PROVE  n + m <= CallCeiling
        BY <4>2 DEF CallsBounded
      <4>4. calls + inFlight <= CallCeiling
        BY <4>3 DEF IInv, CallsBounded
      <4>5. n + m <= calls + inFlight \/ n + m <= CallCeiling
        BY <4>1, <4>2, <4>3
      <4>6. QED
        BY <3>1, <3>2, <4>3, <4>4, <4>5
    <3>5. QED
      BY <3>3, <3>4
  <2>3. QED
    BY <2>1, <2>2 DEF IInv
<1>2. CASE UNCHANGED vars
  BY <1>2 DEF vars, money, history, IInv, TypeOK, LedgerExact, CommittedBounded,
              CallsBounded, Committed, Out, Reserves
<1>3. QED
  BY <1>1, <1>2 DEF Next, AllOver

(* Every state of every run satisfies the inductive invariant.             *)
THEOREM SpecIInv == Spec => []IInv
BY InitIInv, NextIInv, PTL DEF Spec

(* The ledger is type correct.  reserved is an integer here: that it is    *)
(* never negative is SpecReservedExact, below.                             *)
THEOREM SpecTypeOK == Spec => []TypeOK
BY SpecIInv, PTL DEF IInv

(* The spend ceiling holds for every set of calls and every interleaving.  *)
THEOREM SpecCommittedBounded == Spec => []CommittedBounded
BY SpecIInv, PTL DEF IInv

(* The call ceiling holds with the calls in flight counted.                *)
THEOREM SpecCallsBounded == Spec => []CallsBounded
BY SpecIInv, PTL DEF IInv

(* The in-flight counter and the reservations are exact in every state.    *)
THEOREM SpecLedgerExact == Spec => []LedgerExact
BY SpecIInv, PTL DEF IInv

(* SpendGuard implements the abstract ledger.                              *)
THEOREM SpecImplementsLedger == Spec => ImplementsLedger
<1>1. Init => Ledger!Init
  BY DEF Init, Ledger!Init, Committed
<1>2. IInv /\ IInv' /\ [Next]_vars => [Ledger!Next]_Ledger!ledger
  <2> SUFFICES ASSUME IInv, IInv', [Next]_vars
               PROVE  [Ledger!Next]_Ledger!ledger
    OBVIOUS
  <2> USE DEF Ledger!Next, Ledger!ledger, Ledger!Admit, Ledger!Settle, Ledger!BookBlind
  <2>1. ASSUME NEW c \in Calls, Step(c) PROVE [Ledger!Next]_Ledger!ledger
    <3>1. /\ Committed \in Int /\ Committed' \in Int
          /\ blindSpend \in Nat /\ blindSpend' \in Nat
      BY DEF IInv, TypeOK, Committed
    <3>3. Worst[c] \in Nat /\ (Reserves(c) => SpendCeiling # NoCeiling /\ SpendCeiling \in Nat)
      BY SpendAssumption DEF Reserves
    <3>4. QED
      BY <2>1, <3>1, <3>3, TotalsStep
  <2>2. CASE UNCHANGED vars
    BY <2>2 DEF vars, money, history, Committed
  <2>3. QED
    BY <2>1, <2>2 DEF Next, AllOver
<1>3. QED
  BY <1>1, <1>2, SpecIInv, PTL DEF Spec, ImplementsLedger, Ledger!Spec

-----------------------------------------------------------------------------
(***************************************************************************)
(* The running sum.  reserved is kept by hand beside the list of           *)
(* reservations; it is compared here with the units of money the list      *)
(* stands for, counted one by one.                                         *)
(***************************************************************************)
Units(R) == {u \in R \X Nat : u[2] \in 1 .. Worst[u[1]]}

ReservedExact == reserved = Cardinality(Units(reservations))

LEMMA UnitsOfOne ==
  ASSUME NEW c \in Calls
  PROVE  /\ IsFiniteSet({c} \X (1 .. Worst[c]))
         /\ Cardinality({c} \X (1 .. Worst[c])) = Worst[c]
<1>1. Worst[c] \in Nat
  BY SpendAssumption
<1>2. IsFiniteSet({c}) /\ Cardinality({c}) = 1
  BY FS_Singleton
<1>3. IsFiniteSet(1 .. Worst[c]) /\ Cardinality(1 .. Worst[c]) = Worst[c]
  BY <1>1, FS_Interval
<1>4. /\ IsFiniteSet({c} \X (1 .. Worst[c]))
      /\ Cardinality({c} \X (1 .. Worst[c])) = Cardinality({c}) * Cardinality(1 .. Worst[c])
  BY <1>2, <1>3, FS_Product
<1>5. QED
  BY <1>1, <1>2, <1>3, <1>4

LEMMA UnitsFinite ==
  ASSUME NEW R \in SUBSET Calls
  PROVE  IsFiniteSet(Units(R)) /\ Cardinality(Units(R)) \in Nat
<1> DEFINE own == [c \in Calls |-> {c} \X (1 .. Worst[c])]
           Whole == {own[c] : c \in Calls}
<1>1. IsFiniteSet(Whole)
  <2>1. own \in Surjection(Calls, Whole)
    BY DEF Surjection
  <2>2. QED
    BY <2>1, SpendAssumption, FS_Surjection
<1>2. \A T \in Whole : IsFiniteSet(T)
  BY UnitsOfOne
<1>3. IsFiniteSet(UNION Whole)
  BY <1>1, <1>2, FS_UNION
<1>4. Units(R) \subseteq UNION Whole
  BY DEF Units
<1>5. IsFiniteSet(Units(R))
  BY <1>3, <1>4, FS_Subset
<1>6. QED
  BY <1>5, FS_CardinalityType

(* One reservation more or fewer is its worst case more or fewer.          *)
LEMMA UnitsMove ==
  ASSUME NEW R \in SUBSET Calls, NEW c \in Calls, c \notin R
  PROVE  Cardinality(Units(R \cup {c})) = Cardinality(Units(R)) + Worst[c]
<1> DEFINE Own == {c} \X (1 .. Worst[c])
<1>1. /\ Units(R \cup {c}) = Units(R) \cup Own
      /\ Units(R) \cap Own = {}
  BY SpendAssumption DEF Units
<1>2. IsFiniteSet(Units(R)) /\ Cardinality(Units(R)) \in Nat
  BY UnitsFinite
<1>3. IsFiniteSet(Own) /\ Cardinality(Own) = Worst[c] /\ Worst[c] \in Nat
  BY UnitsOfOne, SpendAssumption
<1>4. Cardinality(Units(R) \cup Own)
        = Cardinality(Units(R)) + Cardinality(Own) - Cardinality(Units(R) \cap Own)
  BY <1>2, <1>3, FS_Union
<1>5. Cardinality(Units(R) \cap Own) = 0
  BY <1>1, FS_EmptySet
<1> HIDE DEF Own
<1>6. Cardinality(Units(R \cup {c})) = Cardinality(Units(R)) + Cardinality(Own) - 0
  BY <1>1, <1>4, <1>5
<1>7. QED
  BY <1>2, <1>3, <1>6

LEMMA Reserving ==
  ASSUME IInv, ReservedExact, NEW c \in Calls, c \notin Out, Reserve(c)
  PROVE  ReservedExact'
<1>1. reservations \in SUBSET Calls /\ c \notin reservations
  BY DEF IInv, TypeOK, LedgerExact
<1>2. CASE Reserves(c)
  <2>1. reservations' = reservations \cup {c} /\ reserved' = reserved + Worst[c]
    BY <1>2 DEF Reserve
  <2>2. QED
    BY <1>1, <2>1, UnitsMove DEF ReservedExact
<1>3. CASE ~Reserves(c)
  <2>1. reservations' = reservations /\ reserved' = reserved
    BY <1>3 DEF Reserve, IInv, TypeOK
  <2>2. QED
    BY <2>1 DEF ReservedExact
<1>4. QED
  BY <1>2, <1>3

LEMMA Releasing ==
  ASSUME IInv, ReservedExact, NEW c \in Calls, Release(c)
  PROVE  ReservedExact'
<1>1. reservations \in SUBSET Calls /\ reserved \in Int
  BY DEF IInv, TypeOK
<1>2. CASE c \in reservations
  <2>1. reservations' = reservations \ {c} /\ reserved' = reserved - Worst[c]
    BY <1>2 DEF Release, Held
  <2>2. Cardinality(Units(reservations)) = Cardinality(Units(reservations \ {c})) + Worst[c]
    <3>1. reservations = (reservations \ {c}) \cup {c}
      BY <1>2
    <3>2. reservations \ {c} \in SUBSET Calls
      BY <1>1
    <3>3. QED
      BY <3>1, <3>2, UnitsMove
  <2>3. Cardinality(Units(reservations \ {c})) \in Nat /\ Worst[c] \in Nat
    BY <1>1, UnitsFinite, SpendAssumption
  <2>4. QED
    BY <2>1, <2>2, <2>3 DEF ReservedExact
<1>3. CASE c \notin reservations
  <2>1. reservations' = reservations /\ reserved' = reserved
    BY <1>1, <1>3 DEF Release, Held
  <2>2. QED
    BY <2>1 DEF ReservedExact
<1>4. QED
  BY <1>2, <1>3

(* Whatever a step does, the sum moves with the list.                      *)
LEMMA ReservedStep ==
  ASSUME IInv, ReservedExact, NEW c \in Calls, Step(c)
  PROVE  ReservedExact'
<1>1. \/ c \notin Out /\ Reserve(c)
      \/ Release(c)
      \/ UNCHANGED <<reservations, reserved>>
  <2>1. pc[c] = Idle => c \notin Out
    BY DEF Out, OutStates, Idle, Posted, Backoff, Waiting
  <2>2. CASE Dispatch(c)
    BY <2>1, <2>2 DEF Dispatch
  <2>3. CASE Fail(c) \/ Retry(c) \/ Interrupt(c) \/ \E cost \in Costs[c] : Reconcile(c, cost)
    BY <2>3 DEF Fail, FailCall, Retry, Interrupt, Reconcile
  <2>4. CASE \/ Refuse(c) \/ Redispatch(c) \/ DropFormat(c) \/ RateLimited(c) \/ Repost(c)
             \/ \E charge \in UnusableCosts : NoChoices(c, charge)
    BY <2>4 DEF Refuse, Redispatch, DropFormat, RateLimited, Repost, NoChoices, money
  <2>5. QED
    BY <2>2, <2>3, <2>4 DEF Step
<1>2. CASE UNCHANGED <<reservations, reserved>>
  BY <1>2 DEF ReservedExact
<1>3. QED
  BY <1>1, <1>2, Reserving, Releasing

(* In every state the running sum is the money of the listed reservations, *)
(* to the unit: no release takes more than its call had reserved, and no   *)
(* exit path leaves a reservation's money behind.  So it is never negative.*)
THEOREM SpecReservedExact == Spec => [](ReservedExact /\ reserved \in Nat)
<1>1. Init => ReservedExact
  <2> SUFFICES ASSUME Init PROVE ReservedExact
    OBVIOUS
  <2>1. reservations = {} /\ reserved = 0
    BY DEF Init
  <2>2. Units(reservations) = {}
    BY <2>1 DEF Units
  <2>3. QED
    BY <2>1, <2>2, FS_EmptySet DEF ReservedExact
<1>2. IInv /\ ReservedExact /\ [Next]_vars => ReservedExact'
  <2>1. CASE UNCHANGED vars
    BY <2>1 DEF vars, money, ReservedExact
  <2>2. QED
    BY <2>1, ReservedStep DEF Next, AllOver
<1>3. IInv /\ ReservedExact => reserved \in Nat
  BY UnitsFinite DEF IInv, TypeOK, ReservedExact
<1>4. QED
  BY <1>1, <1>2, <1>3, SpecIInv, PTL DEF Spec

(***************************************************************************)
(* What was billed.  Every charge of a call that reserved is booked where  *)
(* it is made: as spend when the reply is accounted, as liability when the *)
(* request failed.  Only a reply without choices is neither, so it has to  *)
(* be free.                                                                *)
(***************************************************************************)
FreeUnusable == UnusableCosts \subseteq {0}

BilledIsBooked == billed <= spend + liability

LEMMA BookedStep ==
  ASSUME FreeUnusable, IInv, BilledIsBooked, NEW c \in Calls, Step(c)
  PROVE  BilledIsBooked'
<1> USE DEF BilledIsBooked
<1>t. spend \in Nat /\ liability \in Nat /\ billed \in Nat
  BY DEF IInv, TypeOK
<1>h. pc[c] \in OutStates => Held(c) \in Nat
  BY HeldWhenOut DEF Out
<1>s. {Posted, Backoff, Waiting} = OutStates
  BY DEF OutStates
<1>1. ASSUME NEW cost \in Costs[c], Reconcile(c, cost) PROVE BilledIsBooked'
  <2>1. cost \in Nat
    BY SpendAssumption
  <2>2. spend' = spend + cost /\ billed' = billed + cost /\ liability' = liability
    BY <1>1 DEF Reconcile
  <2>3. QED
    BY <1>t, <2>1, <2>2
<1>2. CASE Fail(c) \/ Retry(c)
  <2>1. /\ pc[c] \in OutStates
        /\ spend' = spend /\ liability' = liability + Held(c)
        /\ billed' \in {billed, billed + Held(c)}
    BY <1>2, <1>s DEF Fail, Retry, FailCall, MaybeBilled
  <2>2. QED
    BY <1>t, <1>h, <2>1
<1>3. ASSUME NEW charge \in UnusableCosts, NoChoices(c, charge) PROVE BilledIsBooked'
  <2>1. charge = 0
    BY DEF FreeUnusable
  <2>2. billed' = billed /\ UNCHANGED <<spend, liability>>
    BY <1>3, <1>t, <2>1 DEF NoChoices, money
  <2>3. QED
    BY <2>2
<1>4. CASE \/ Dispatch(c) \/ Refuse(c) \/ Redispatch(c) \/ Interrupt(c)
           \/ DropFormat(c) \/ RateLimited(c) \/ Repost(c)
  <2>1. UNCHANGED <<spend, liability, billed>>
    BY <1>4 DEF Dispatch, Refuse, Redispatch, Interrupt, DropFormat, RateLimited, Repost,
                money, history
  <2>2. QED
    BY <2>1
<1>5. QED
  BY <1>1, <1>2, <1>3, <1>4 DEF Step

(* Whatever was charged for a call that reserved is on the ledger, in      *)
(* every interleaving of replies, failures, retries and cancellations, as  *)
(* long as a reply without choices costs nothing.                          *)
THEOREM SpecLedgerCoversBilled ==
  ASSUME FreeUnusable
  PROVE  Spec => []LedgerCoversBilled
<1>1. Init => BilledIsBooked
  BY DEF Init, BilledIsBooked
<1>2. IInv /\ BilledIsBooked /\ [Next]_vars => BilledIsBooked'
  <2>1. CASE UNCHANGED vars
    BY <2>1 DEF vars, money, history, BilledIsBooked
  <2>2. QED
    BY <2>1, BookedStep DEF Next, AllOver
<1>3. IInv /\ reserved \in Nat /\ BilledIsBooked => LedgerCoversBilled
  BY DEF IInv, TypeOK, BilledIsBooked, LedgerCoversBilled, Committed
<1>4. QED
  BY <1>1, <1>2, <1>3, SpecIInv, SpecReservedExact, PTL DEF Spec
=============================================================================
