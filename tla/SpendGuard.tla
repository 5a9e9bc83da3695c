----------------------------- MODULE SpendGuard -----------------------------
(***************************************************************************)
(* The accounting of OpenRouterClient (autornd/routing/openrouter.py): the *)
(* concurrent chat and rerank calls of one run, each with its worst case   *)
(* reserved before dispatch, reconciled on reply, kept as unreconciled     *)
(* liability on failure, and re-guarded before a transient retry.          *)
(*                                                                         *)
(* Calls run as asyncio tasks on one thread, so a handler is atomic from   *)
(* one await to the next; every await (the POST, a backoff) is a value of  *)
(* pc, and the tasks interleave there.  Dollars are naturals.              *)
(***************************************************************************)
EXTENDS Integers, FiniteSets, FiniteSetsExt

CONSTANTS
  Calls,               \* the chat and rerank invocations of the run
  Rerank,              \* those made by rerank(), which never retries
  Rated,               \* those whose model the loaded catalogue prices
  Worst,               \* the worst case of each call, from its byte bound
  Costs,               \* the costs a reply to each call may report
  UnusableCosts,       \* what a reply with no choices may be billed
  SpendCeiling, CallCeiling,
  NoCeiling,           \* a ceiling that is not set
  TransientAttempts,   \* _TRANSIENT_TLS_ATTEMPTS
  RateLimitAttempts    \* _RATE_LIMIT_ATTEMPTS

ASSUME SpendAssumption ==
  /\ Rerank \subseteq Calls /\ Rated \subseteq Calls
  /\ IsFiniteSet(Calls)
  /\ Worst \in [Calls -> Nat]
  /\ Costs \in [Calls -> SUBSET Nat]
  /\ \A c \in Rated : \A cost \in Costs[c] : cost <= Worst[c]
  /\ UnusableCosts \subseteq Nat
  /\ SpendCeiling \in Nat \/ SpendCeiling = NoCeiling
  /\ CallCeiling \in Nat \/ CallCeiling = NoCeiling
  /\ NoCeiling \notin Nat
  /\ TransientAttempts \in Nat \ {0} /\ RateLimitAttempts \in Nat \ {0}

VARIABLES
  pc,             \* where each call is suspended, or how it ended
  tries,          \* the retry counters of each call's loops
  reservations,   \* _reservations: the calls holding a live reservation
  reserved,       \* the running sum kept beside the list
  inFlight,       \* _in_flight
  calls,          \* calls that were accounted
  spend,          \* what they cost
  liability,      \* unreconciled_liability
  blindSpend,     \* history: spend booked by calls that reserved nothing
  billed          \* history: what providers charged for guarded calls

money == <<reservations, reserved, inFlight, calls, spend, liability>>
history == <<blindSpend, billed>>
vars == <<pc, tries, money, history>>

-----------------------------------------------------------------------------
(* Where a call is. *)

Idle     == "idle"
Posted   == "posted"     \* awaiting client.post
Backoff  == "backoff"    \* asleep before a transient retry leaves
Waiting  == "waiting"    \* asleep before a 429 or no-choices re-post
Done     == "done"
Stopped  == "stopped"    \* reconciled, then BudgetExceeded from _account
Refused  == "refused"    \* BudgetExceeded from _guard_spend
Failed   == "failed"     \* any other exception, a cancellation included

OutStates == {Posted, Backoff, Waiting}
Out == {c \in Calls : pc[c] \in OutStates}
Over == {Done, Stopped, Refused, Failed}

Fresh == [transient |-> 0, format |-> 0, limited |-> 0, choiceless |-> 0]

(* _committed: spend, reservations and liability together. *)
Committed == spend + reserved + liability

(* A blind call (no rate, or no ceiling to guard) reserves nothing. *)
Reserves(c) == c \in Rated /\ SpendCeiling # NoCeiling

LessOne(n) == IF n = 0 THEN 0 ELSE n - 1

(* The two refusals of _guard_spend, with n calls in flight. *)
CallFits(n) == CallCeiling # NoCeiling => calls + n + 1 <= CallCeiling

SpendFits_IgnoresLiability(c) ==
  Reserves(c) => spend + reserved + Worst[c] <= SpendCeiling

SpendFits(c) == Reserves(c) => Committed + Worst[c] <= SpendCeiling

Held(c) == IF c \in reservations THEN Worst[c] ELSE 0

Init ==
  /\ pc = [c \in Calls |-> Idle]
  /\ tries = [c \in Calls |-> Fresh]
  /\ reservations = {} /\ reserved = 0
  /\ inFlight = 0 /\ calls = 0
  /\ spend = 0 /\ liability = 0
  /\ blindSpend = 0 /\ billed = 0

-----------------------------------------------------------------------------
(* The ledger's three movements. *)

(* _guard_spend's reservation, and the in-flight count its caller takes. *)
Reserve(c) ==
  /\ reservations' = IF Reserves(c) THEN reservations \cup {c} ELSE reservations
  /\ reserved' = reserved + (IF Reserves(c) THEN Worst[c] ELSE 0)
  /\ inFlight' = inFlight + 1

(* The order-based release the ledger once had: whichever is oldest. *)
Release_Oldest(c) ==
  /\ \E other \in IF reservations = {} THEN {c} ELSE reservations :
       /\ reservations' = reservations \ {other}
       /\ reserved' = reserved - Held(other)
  /\ inFlight' = LessOne(inFlight)

(* _release, by identity: the call gives back its own worst case. *)
Release(c) ==
  /\ reservations' = reservations \ {c}
  /\ reserved' = reserved - Held(c)
  /\ inFlight' = LessOne(inFlight)

FailCall_BooksNothing(c) == Release(c) /\ UNCHANGED liability

(* _fail_call: the call's own worst case becomes liability. *)
FailCall(c) ==
  /\ Release(c)
  /\ liability' = liability + Held(c)

(* What a provider may charge for a request that produced no reply. *)
MaybeBilled(c) == billed' \in {billed, billed + Held(c)}

-----------------------------------------------------------------------------
(* Actions. *)

Dispatch(c) ==
  /\ pc[c] = Idle
  /\ CallFits(inFlight) /\ SpendFits(c)
  /\ Reserve(c)
  /\ pc' = [pc EXCEPT ![c] = Posted]
  /\ UNCHANGED <<tries, calls, spend, liability, history>>

Refuse(c) ==
  /\ pc[c] = Idle
  /\ ~(CallFits(inFlight) /\ SpendFits(c))
  /\ pc' = [pc EXCEPT ![c] = Refused]
  /\ UNCHANGED <<tries, money, history>>

(* A usable reply: release by identity, then _account, which raises after  *)
(* the fact when a ceiling is passed.                                      *)
Reconcile(c, cost) ==
  LET overCalls == CallCeiling # NoCeiling /\ calls' > CallCeiling
      overSpend == SpendCeiling # NoCeiling /\ Committed' > SpendCeiling
  IN /\ pc[c] = Posted
     /\ Release(c)
     /\ calls' = calls + 1
     /\ spend' = spend + cost
     /\ UNCHANGED <<tries, liability>>
     /\ blindSpend' = IF c \in reservations THEN blindSpend ELSE blindSpend + cost
     /\ billed' = billed + cost
     /\ pc' = [pc EXCEPT ![c] = IF overCalls \/ overSpend THEN Stopped ELSE Done]

(* A failure after dispatch: an error status that is not retried, a        *)
(* transport error, a timeout, an unreadable reply, or a cancellation at   *)
(* the POST or in a re-post's backoff.                                     *)
Fail(c) ==
  /\ pc[c] \in {Posted, Waiting}
  /\ FailCall(c)
  /\ IF pc[c] = Posted THEN MaybeBilled(c) ELSE UNCHANGED billed
  /\ pc' = [pc EXCEPT ![c] = Failed]
  /\ UNCHANGED <<tries, calls, spend, blindSpend>>

Retry_WithoutGuard(c) ==
  /\ pc[c] = Posted /\ c \notin Rerank
  /\ tries[c].transient + 1 < TransientAttempts
  /\ liability' = liability + Held(c)
  /\ MaybeBilled(c)
  /\ tries' = [tries EXCEPT ![c].transient = @ + 1]
  /\ pc' = [pc EXCEPT ![c] = Backoff]
  /\ UNCHANGED <<reservations, reserved, inFlight, calls, spend, blindSpend>>

(* A transient fault with a retry left: the attempt that left keeps its    *)
(* worst case, and the retry passes the guard anew, or is refused.         *)
Retry(c) ==
  /\ pc[c] = Posted /\ c \notin Rerank
  /\ tries[c].transient + 1 < TransientAttempts
  /\ liability' = liability + Held(c)
  /\ MaybeBilled(c)
  /\ \/ /\ CallFits(LessOne(inFlight)) /\ SpendFits(c)
        /\ UNCHANGED <<reservations, reserved>>
        /\ inFlight' = LessOne(inFlight) + 1
        /\ tries' = [tries EXCEPT ![c].transient = @ + 1]
        /\ pc' = [pc EXCEPT ![c] = Backoff]
     \/ /\ ~(CallFits(LessOne(inFlight)) /\ SpendFits(c))
        /\ Release(c)
        /\ UNCHANGED tries
        /\ pc' = [pc EXCEPT ![c] = Refused]
  /\ UNCHANGED <<calls, spend, blindSpend>>

(* The transient retry leaves this process. *)
Redispatch(c) ==
  /\ pc[c] = Backoff
  /\ pc' = [pc EXCEPT ![c] = Posted]
  /\ UNCHANGED <<tries, money, history>>

(* The backoff is cancelled: the retry was never dispatched, so its        *)
(* reservation is released and nothing is booked for it.                   *)
Interrupt(c) ==
  /\ pc[c] = Backoff
  /\ Release(c)
  /\ pc' = [pc EXCEPT ![c] = Failed]
  /\ UNCHANGED <<tries, calls, spend, liability, history>>

(* A 400 against response_format: posted again at once without it. *)
DropFormat(c) ==
  /\ pc[c] = Posted /\ c \notin Rerank
  /\ tries[c].format = 0 /\ tries[c].limited = 0 /\ tries[c].choiceless = 0
  /\ tries' = [tries EXCEPT ![c].format = 1, ![c].transient = 0]
  /\ UNCHANGED <<pc, money, history>>

(* A 429 with an attempt left. *)
RateLimited(c) ==
  /\ pc[c] = Posted /\ c \notin Rerank
  /\ tries[c].choiceless = 0
  /\ tries[c].limited + 1 < RateLimitAttempts
  /\ tries' = [tries EXCEPT ![c].limited = @ + 1, ![c].transient = 0]
  /\ pc' = [pc EXCEPT ![c] = Waiting]
  /\ UNCHANGED <<money, history>>

NoChoices_Unbounded(c, charge) ==
  /\ pc[c] = Posted /\ c \notin Rerank
  /\ tries' = [tries EXCEPT ![c].transient = 0]
  /\ pc' = [pc EXCEPT ![c] = Waiting]
  /\ billed' = IF c \in reservations THEN billed + charge ELSE billed
  /\ UNCHANGED <<money, blindSpend>>

(* A success status whose body has no choices, with an attempt left: the   *)
(* same reservation carries the re-post and nothing is accounted.          *)
NoChoices(c, charge) ==
  /\ pc[c] = Posted /\ c \notin Rerank
  /\ tries[c].choiceless + 1 < RateLimitAttempts
  /\ tries' = [tries EXCEPT ![c].choiceless = @ + 1, ![c].transient = 0]
  /\ pc' = [pc EXCEPT ![c] = Waiting]
  /\ billed' = IF c \in reservations THEN billed + charge ELSE billed
  /\ UNCHANGED <<money, blindSpend>>

(* The 429 or no-choices backoff ends and the request is posted again. *)
Repost(c) ==
  /\ pc[c] = Waiting
  /\ pc' = [pc EXCEPT ![c] = Posted]
  /\ UNCHANGED <<tries, money, history>>

Step(c) ==
  \/ Dispatch(c) \/ Refuse(c)
  \/ \E cost \in Costs[c] : Reconcile(c, cost)
  \/ Fail(c) \/ Retry(c) \/ Redispatch(c) \/ Interrupt(c)
  \/ DropFormat(c) \/ RateLimited(c)
  \/ \E charge \in UnusableCosts : NoChoices(c, charge)
  \/ Repost(c)

(* Every call ended: the run is over. *)
AllOver == (\A c \in Calls : pc[c] \in Over) /\ UNCHANGED vars

Next == (\E c \in Calls : Step(c)) \/ AllOver

(* httpx gives every POST a timeout and asyncio.sleep returns, so a call   *)
(* that was dispatched keeps moving.                                       *)
Fairness == \A c \in Calls : WF_vars(c \in Out /\ Step(c))

Spec == Init /\ [][Next]_vars /\ Fairness

-----------------------------------------------------------------------------
(* Properties. *)

Tries == [transient : 0 .. TransientAttempts - 1, format : 0 .. 1,
          limited : 0 .. RateLimitAttempts - 1,
          choiceless : 0 .. RateLimitAttempts - 1]

(* Every call's retry counters stay within the attempts its loops allow,   *)
(* and the ledger's amounts never go negative.                             *)
TypeOK ==
  /\ pc \in [Calls -> OutStates \cup Over \cup {Idle}]
  /\ tries \in [Calls -> Tries]
  /\ reservations \in SUBSET Calls
  /\ inFlight \in Nat /\ calls \in Nat /\ spend \in Nat /\ liability \in Nat
  /\ reserved \in Int
  /\ blindSpend \in Nat /\ billed \in Nat

(* Whatever interleaving of replies, failures, retries and cancellations,  *)
(* the run is never on the hook for more than its spend ceiling, but for   *)
(* the cost of calls whose model has no rate (_guard_spend, _committed).   *)
CommittedBounded ==
  SpendCeiling # NoCeiling => Committed <= SpendCeiling + blindSpend

(* A fan-out cannot start more calls than the call ceiling leaves: the     *)
(* calls accounted and the calls in flight stay within it together.        *)
CallsBounded ==
  CallCeiling # NoCeiling => calls + inFlight <= CallCeiling

(* The in-flight counter and the list of reservations, which every exit    *)
(* path adjusts by hand, are exactly the calls that are out.               *)
LedgerExact ==
  /\ inFlight = Cardinality(Out)
  /\ reservations = {c \in Out : Reserves(c)}

(* Whatever a provider charged for a call that reserved, answered or not,  *)
(* is on the ledger (the reason _fail_call keeps the worst case).          *)
LedgerCoversBilled == billed <= Committed

(* The retry loops of one call are bounded: a dispatched call ends.        *)
DispatchedCallsEnd == \A c \in Calls : pc[c] = Posted ~> pc[c] \in Over

(* The guard implements its abstract ledger.                               *)
Ledger == INSTANCE SpendLedger WITH committed <- Committed, blind <- blindSpend
ImplementsLedger == Ledger!Spec
=============================================================================
