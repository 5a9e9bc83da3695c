------------------------------ MODULE PaidUnit ------------------------------
(***************************************************************************)
(* A unit of a paid run of tier 3 or tier 4, with its money: the lineup,   *)
(* the catalogue and the provider pins the run was started with, and what  *)
(* each call of arms A-D carries, costs and books.                         *)
(*                                                                         *)
(* A paid run never loads the client's table of rates (check_models is     *)
(* called by the server, the scenario CLI and the baseline, not by the     *)
(* experiments' runners), so its guard is blind: it reserves nothing and   *)
(* refuses nothing, and a call is booked, or lost, after it was made.      *)
(* _account raises once the spend has passed the ceiling.                  *)
(***************************************************************************)
EXTENDS ArmUnit

CONSTANTS
  LineEntries,   \* the entries of the owner's provider-order line
  LineLength,    \* at most so many
  ToolSpecBytes, \* TOOL_SPEC, which no prompt size counts
  LongestToken,  \* the bytes of the longest token a reply may hold
  MaxLost        \* the attempts of a unit that may be lost

ASSUME PaidUnitAssumption ==
  /\ {LineLength, ToolSpecBytes, LongestToken, MaxLost} \subseteq Nat
  /\ CallLimit * ToolSpecBytes <= ToolResultBytes

VARIABLES
  run,      \* the mode, the lineup and the pins in force
  market,   \* what the provider lists and serves, until the preflight read it
  price,    \* what the servings of the arm cost; empty before the run starts
  sent,     \* the bytes the next call's prompt carries
  spent,    \* client.spend
  last,     \* what the last booked call cost
  billed,   \* what the provider charges for the unit
  lost,     \* the attempts that left and brought no reply
  wide,     \* whether a call carried more than the preflight counted
  served    \* the providers that answered

money == <<sent, spent, last, billed, lost, wide>>
unitVars == <<run, market, price, money, served, vars>>

Tier == run.tier
Limit == Ceiling[Tier][arm]
Started == price # <<>>

-----------------------------------------------------------------------------
(* The run starts when the gates hold and the preflight refuses nothing.   *)
(* A mode that runs other arms beside the unit's own refuses more.         *)

Tier3Modes == {"main", "pilot", "remeasure", "smoke"}
ModesOf(tier) == {m \in DOMAIN RunCeiling : (m \in Tier3Modes) = (tier = 3)}

(* resolve_servings: the arm's pin and, for C's check and the tiers, one    *)
(* more.                                                                   *)
Lineup(s, t) == [a |-> s, b |-> s, c1 |-> s, c2 |-> t, d |-> t, tier |-> [x \in Tiers |-> t]]
Lines == UNION {[1..n -> LineEntries] : n \in 0..LineLength}

UnitInit ==
  /\ Init
  /\ \E tier \in {3, 4}, s, t \in Servings, fallbacks \in BOOLEAN :
       \E mode \in ModesOf(tier), line \in IF tier = 4 THEN Lines ELSE {<<>>} :
         run = [tier |-> tier, mode |-> mode, lineup |-> Lineup(s, t), line |-> line,
                fallbacks |-> fallbacks]
  /\ arm # "C" => run.lineup.a = run.lineup.d
  /\ arm \in IF Tier = 3 THEN Arms \ {"D-pages"} ELSE SingleCall \cup Pipelines
  /\ Tier = 3 => ~run.fallbacks
  /\ arm \in Pipelines => run.line = <<>> /\ ~run.fallbacks
  /\ \E bulk \in UNION {[S -> Entries] : S \in SUBSET Servings}, known \in SUBSET Servings :
       known \cap DOMAIN bulk = {} /\ market = [bulk |-> bulk, known |-> known]
  /\ price = <<>>
  /\ sent = QuestionBytes + (IF arm = "D-pages" THEN PageBytes ELSE 0)
  /\ spent = 0 /\ last = 0 /\ billed = 0 /\ lost = 0 /\ wide = FALSE
  /\ served = {}

Market == FetchCatalogue(market.bulk, market.known, Servings)

Passes(pins, credit) ==
  IF Tier = 3
  THEN /\ GateReport(pins, run.lineup, run.mode)
       /\ RunPreflight({arm}, run.mode, run.lineup, Market, credit)
  ELSE /\ Tier4GateReport(pins, run.lineup, run.mode)
       /\ Tier4Preflight({arm}, run.mode, run.lineup, Market, credit, run.line)

Amounts == {Missing, Unreadable} \cup {RunCeiling[mode] : mode \in DOMAIN RunCeiling}

Start ==
  /\ ~Started
  /\ \E spend, pilot \in Amounts, credit \in Amounts \ {Unreadable},
        ratified \in {run.lineup, <<>>} :
       Passes([ratified |-> ratified, spend |-> spend, pilot |-> pilot], credit)
  /\ price' = [s \in ArmServings(arm, run.lineup) |-> PriceOf(Market, s)]
  /\ market' = [bulk |-> <<>>, known |-> {}]
  /\ UNCHANGED <<run, money, served, vars>>

-----------------------------------------------------------------------------
(* A call. *)

Calling == Started /\ pc \in {"call", "draft", "check", "revise"}

CalledServing ==
  CASE arm = "A" -> run.lineup.a
    [] arm = "B" -> run.lineup.b
    [] arm = "C" -> IF pc = "check" THEN run.lineup.c2 ELSE run.lineup.c1
    [] OTHER -> run.lineup.d

(* The most the provider may charge: its price for all the call carries.   *)
(* Nothing and the most stand for what a reply may cost.                   *)
MaxCharge ==
  WorstCase(price[CalledServing],
            sent + (IF arm = "B" THEN ToolSpecBytes ELSE 0), MaxTokens[Tier])

(* The prompt of the next call, from what this reply brought: an answered  *)
(* check asks again with the same prompt.                                  *)
ReplyBytes == MaxTokens[Tier] * LongestToken

NextPrompt ==
  CASE pc' = "call" -> \E results \in {0, 1, invoked' - invoked} :
                         sent' = QuestionBytes + results * ToolResultBytes
    [] pc = "draft" -> \E draft \in {0, ReplyBytes} : sent' = QuestionBytes + draft
    [] pc' = "revise" -> \E objections \in {0, ReplyBytes} : sent' = sent + objections
    [] OTHER -> UNCHANGED sent

(* Who answers a tier-4 call: the order of the function it bills to binds  *)
(* when fallbacks are off; a reply may leave its provider out.  Tier 3     *)
(* compares its providers with nothing.                                    *)
AnyProvider == {e.provider : e \in LineEntries} \ {NoProvider}

Answering ==
  IF Tier = 3 THEN {}
  ELSE LET order == ArmPin(run.line, arm)
       IN IF order = {} \/ run.fallbacks THEN AnyProvider ELSE order

Book(cost) ==
  /\ spent' = spent + cost /\ last' = cost /\ billed' = billed + cost
  /\ wide' = (wide \/ sent > CountedBytes(arm, run.mode))
  /\ \E by \in {{}} \cup {{p} : p \in Answering} : served' = served \cup by

(* A reply is booked first; past the ceiling it is lost to the unit.       *)
Reply ==
  \/ SingleReplies \/ ToolRound \/ ToolAnswer \/ Draft \/ Check \/ Revise

PaidReply ==
  /\ Calling
  /\ \E cost \in {0, MaxCharge} : Book(cost) /\ spent + cost <= Limit
  /\ Reply /\ NextPrompt
  /\ UNCHANGED <<run, market, price, lost>>

OverBudget ==
  /\ Calling
  /\ \E cost \in {0, MaxCharge} : Book(cost) /\ spent + cost > Limit
  /\ Close(Outcome("incomplete", FALSE, TRUE))
  /\ UNCHANGED <<run, market, price, lost, sent, arm, replies, answer, check, asked, invoked>>

(* _post_retrying_transient_faults: an attempt fails after it left, and is *)
(* made again.  The provider may charge for it; nothing is booked, and     *)
(* with no reservation to keep, no liability either.                       *)
AttemptLost ==
  /\ Calling /\ lost < MaxLost
  /\ billed' = billed + MaxCharge
  /\ lost' = lost + 1
  /\ wide' = (wide \/ sent > CountedBytes(arm, run.mode))
  /\ UNCHANGED <<run, market, price, sent, spent, last, served, vars>>

(* The call fails for good, whether or not it left.                        *)
PaidCallFails ==
  /\ Calling /\ CallFails
  /\ billed' = billed + MaxCharge
  /\ lost' = lost + 1
  /\ UNCHANGED <<run, market, price, sent, spent, last, wide, served>>

Pipeline ==
  /\ Started /\ (PipelineReturns \/ PipelineCut)
  /\ UNCHANGED <<run, market, price, money, served>>

UnitNext == Start \/ PaidReply \/ OverBudget \/ AttemptLost \/ PaidCallFails \/ Pipeline

UnitSpec == UnitInit /\ [][UnitNext]_unitVars

-----------------------------------------------------------------------------
(* The record: the serving a tier-4 call ran on, against the pin in force. *)

ServingMismatch ==
  LET pin == ArmPin(run.line, arm) IN served # {} /\ (pin = {} \/ ~(served \subseteq pin))

(* The providers the owner ratified for the arm.                           *)
Ratified == Providers(Named(ToSet(run.line), Tier3Name(arm)))

-----------------------------------------------------------------------------
(* Properties. *)

(* "Call limit x each call's worst case": what the preflight promises of a *)
(* unit.  A unit costs more than its ceiling only when a call carried more *)
(* than the preflight counted for it or an attempt of it was lost, and     *)
(* what is booked passes the ceiling by no more than the last call.        *)
FundedBySequence ==
  /\ billed > Limit => wide \/ lost > 0
  /\ spent <= Limit + last

(* "The guard refuses the call when this exceeds what remains of the       *)
(* unit's ceiling": in a paid run nothing does.                            *)
GuardBinds == spent <= Limit

(* R7: a result of a tier-4 single-call arm that is not flagged was served *)
(* by a provider the owner ratified for that arm.                          *)
UnflaggedIsRatified ==
  Tier = 4 /\ arm \in SingleCall /\ end.status = "delivered" /\ ~ServingMismatch =>
    served \subseteq Ratified

(* The two copies of the catalogue's rules agree: what the client rates    *)
(* the preflight accepts, at the same price, unless it is a variant that   *)
(* is listed with a price of its own: one the client cannot bound or read  *)
(* is lent its base's.                                                     *)
RatesAgree ==
  LET rates == CheckModels(market.bulk, market.known, Servings) IN
  \A s \in DOMAIN rates :
    IF Accepted(Market, s) /\ Readable(PriceOf(Market, s))
    THEN rates[s] = PriceOf(Market, s)
    ELSE Variant(s) /\ s \in DOMAIN market.bulk /\ market.bulk[s].price # NoPrice
=============================================================================
