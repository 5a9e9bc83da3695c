----------------------------- MODULE Preflight -----------------------------
(***************************************************************************)
(* What a run of the experiments must pass before its first paid call: the *)
(* ratification gates and the free preflight of tier 3                     *)
(* (evals/tier3/runner.py: gate_report, run_preflight) and of tier 4       *)
(* (evals/tier4/runner.py: tier4_gate_report, tier4_pins,                  *)
(* tier4_preflight).                                                       *)
(***************************************************************************)
EXTENDS Integers, FiniteSets, Functions, FiniteSetsExt, UnitOutcome, PinGate

-----------------------------------------------------------------------------
(***************************************************************************)
(* What a call may cost, as the provider's catalogue says it: read once by *)
(* the experiments' preflight (evals/tier3/runner.py) and once by the      *)
(* client (check_models of autornd/routing/openrouter.py).  A catalogue    *)
(* maps the ids it lists to their entries; the id of a variant (":exacto") *)
(* names a serving of its base.  Rates are whole numbers; a figure the     *)
(* entry leaves out is Missing and one that is no number is Unreadable.    *)
(***************************************************************************)

CONSTANTS
  Servings,      \* the ids a pin may name
  BaseOf,        \* the id before a variant's suffix, the id itself without one
  Allowance,     \* CHAT_TEMPLATE_ALLOWANCE_BYTES
  Entries        \* what a listed id may carry

Missing == -1
Unreadable == -2
Figure == Nat \cup {Missing, Unreadable}

(* The charges beside the two sides, by the class the bound reads them in. *)
PerRequestCharges == {"web_search", "request"}
ModalityCharges == {"image", "audio", "input_audio_cache"}
CacheCharges == {"input_cache_read", "input_cache_write"}
ReasoningCharges == {"internal_reasoning"}
Charges == PerRequestCharges \cup ModalityCharges \cup CacheCharges
             \cup ReasoningCharges \cup {"another"}

Prices == [prompt : Figure, completion : Figure, charge : [Charges -> Figure]]
NoPrice == [prompt |-> Missing, completion |-> Missing,
            charge |-> [c \in Charges |-> Missing]]

(* An entry: its prices, the request parameters it lists (a set that may   *)
(* be Missing), its context window and its output cap.                     *)
Blind == {"blind"}
EntrySpace == [price : Prices, takes : SUBSET {"tools", "tool_choice"} \cup {Blind},
               context : Nat \cup {Missing}, cap : Nat \cup {Missing}]

(* What the per-model endpoint adds for an id it confirms.                 *)
ConfirmedEntry == [price |-> NoPrice, takes |-> Blind,
                   context |-> Missing, cap |-> Missing]

ASSUME CatalogueAssumption ==
  /\ BaseOf \in [Servings -> Servings]
  /\ \A s \in Servings : BaseOf[BaseOf[s]] = BaseOf[s]
  /\ Allowance \in Nat
  /\ \A e \in Entries : e \in EntrySpace

Variant(s) == BaseOf[s] # s

(* fetch_catalogue and _confirm_models: the bulk list, and the ids asked   *)
(* for one by one that are served.                                         *)
Confirmed(bulk, served, asked) == (asked \ DOMAIN bulk) \cap served

FetchCatalogue(bulk, served, asked) ==
  [s \in DOMAIN bulk \cup Confirmed(bulk, served, asked) |->
     IF s \in DOMAIN bulk THEN bulk[s] ELSE ConfirmedEntry]

-----------------------------------------------------------------------------
(* The charges a bound of prompt bytes and output cap covers. *)

Covers(price, c) ==
  \/ price.charge[c] = Missing
  \/ /\ price.charge[c] # Unreadable
     /\ \/ c \in PerRequestCharges \cup ModalityCharges
        \/ c \in CacheCharges /\ price.charge[c] <= price.prompt
        \/ c \in ReasoningCharges /\ price.charge[c] <= price.completion

(* _prices_what_the_guard_cannot_bound.                                    *)
CarriesMore(price) == \E c \in Charges : ~Covers(price, c)

(* _unboundable_reason: the preflight's test; a side that is there but is  *)
(* no number passes it.                                                    *)
Unpriced(price) ==
  price = NoPrice \/ CarriesMore(price) \/ Missing \in {price.prompt, price.completion}

(* _per_request_charge: added once per call.                               *)
Added(price, c) == IF price.charge[c] >= 0 THEN price.charge[c] ELSE 0
PerRequest(price) == Added(price, "web_search") + Added(price, "request")

(* _resolve_entry: a listed or confirmed variant that carries no price has *)
(* its base's entry.                                                       *)
Resolve_AnyVariant(catalogue, s) ==
  IF Variant(s) /\ BaseOf[s] \in DOMAIN catalogue
  THEN catalogue[BaseOf[s]] ELSE catalogue[s]

Resolve(catalogue, s) ==
  IF /\ catalogue[s].price = NoPrice
     /\ Variant(s) /\ BaseOf[s] \in DOMAIN catalogue
     /\ catalogue[BaseOf[s]].price # NoPrice
  THEN catalogue[BaseOf[s]] ELSE catalogue[s]

Accepted(catalogue, s) ==
  s \in DOMAIN catalogue /\ ~Unpriced(Resolve(catalogue, s).price)

(* worst_case_cost, and _guard_spend's own copy of it.                     *)
WorstCase(price, bytes, maxTokens) ==
  (bytes + Allowance) * price.prompt + maxTokens * price.completion + PerRequest(price)

(* _rates: it raises on an accepted side that is no number.                *)
Readable(price) == price.prompt >= 0 /\ price.completion >= 0

-----------------------------------------------------------------------------
(* The client's table: the ids it can bound, each with the price it uses.  *)

(* check_models: the listed ids it can read and bound, then the variants   *)
(* that are listed or confirmed and not rated, at their base's price.      *)
CheckModels(bulk, served, configured) ==
  LET rated == {s \in DOMAIN bulk : Readable(bulk[s].price) /\ ~CarriesMore(bulk[s].price)}
      lent == {s \in DOMAIN bulk \cup Confirmed(bulk, served, configured) :
                 s \notin rated /\ Variant(s) /\ BaseOf[s] \in rated}
  IN [s \in rated \cup lent |-> IF s \in rated THEN bulk[s].price ELSE bulk[BaseOf[s]].price]

-----------------------------------------------------------------------------

CONSTANTS
  Tiers,           \* PIPELINE_TIERS
  TierCap,         \* the output cap the pipeline sends on a tier
  ArmFCalls,       \* the calls arm F's worst case counts on a tier
  CallLimit,       \* ARM_B_CALL_LIMIT and ARM_C_CALL_LIMIT
  MaxTokens,       \* the single calls' max_tokens of tiers 3 and 4
  BytesPerToken,   \* DRAFT_BYTES_PER_TOKEN
  QuestionBytes,   \* the largest prompt that carries only a question
  ToolResultBytes, \* the largest archived source
  PageBytes,       \* the corpus pages of an F2 question
  Ceiling,         \* the per-unit ceiling of an arm, in each tier
  RunCeiling,      \* the registered ceiling of a mode
  DefaultBatch     \* the tier-4 modes that run the default batch, the pilot's

ASSUME PreflightAssumption ==
  /\ TierCap \in [Tiers -> Nat] /\ ArmFCalls \in [Tiers -> Nat]
  /\ CallLimit \in Nat \ {0} /\ MaxTokens \in [{3, 4} -> Nat]
  /\ {BytesPerToken, QuestionBytes, ToolResultBytes, PageBytes} \subseteq Nat
  /\ Ceiling \in [{3, 4} -> [Arms -> Nat]]
  /\ \A t \in {3, 4} : Ceiling[t]["D-pages"] = Ceiling[t]["D"]     \* ceiling_key
  /\ \A mode \in DOMAIN RunCeiling : RunCeiling[mode] \in Nat

(* _arm_servings: the servings an arm's calls name.                        *)
ArmServings(arm, lineup) ==
  CASE arm = "A" -> {lineup.a}
    [] arm = "B" -> {lineup.b}
    [] arm = "C" -> {lineup.c1, lineup.c2}
    [] arm \in {"D", "D-pages"} -> {lineup.d}
    [] OTHER -> Range(lineup.tier)

PriceOf(catalogue, s) == Resolve(catalogue, s).price

-----------------------------------------------------------------------------
(* The gates: the owner ratified this lineup and authorised exactly the    *)
(* registered ceiling of this mode.                                        *)

(* The pins: ratified is a lineup or {} (unset), spend and pilot are the   *)
(* amounts of TIER3_SPEND_AUTHORIZED and TIER3_PILOT_AUTHORIZED.           *)
Authorization(pins, mode) == IF mode = "pilot" THEN pins.pilot ELSE pins.spend

GateReport(pins, lineup, mode) ==
  /\ pins.ratified = lineup
  /\ lineup.b = lineup.a
  /\ Authorization(pins, mode) = RunCeiling[mode]

(* Tier 4 runs no arm B, and its pilot is authorised by the spend line.    *)
Tier4GateReport(pins, lineup, mode) ==
  pins.ratified = lineup /\ pins.spend = RunCeiling[mode]

-----------------------------------------------------------------------------
(* Provider pins, by the names of the arms. *)

Tier3Name(arm) == IF arm = "A" THEN "tier3_arm_a" ELSE "tier3_arm_d"
Tier4Name(arm) == IF arm = "A" THEN "tier4_arm_a" ELSE "tier4_arm_d"

Tier4Names == {"tier4_arm_a", "tier4_arm_d"}
Ratification(line, arm) == {i \in DOMAIN line : line[i].name = Tier3Name(arm)}

MapTier4Pins_OnlyRatified(line) ==
  {e \in ToSet(line) : e.name \notin Tier4Names}
    \cup {[name |-> Tier4Name(arm), provider |-> line[Max(Ratification(line, arm))].provider] :
             arm \in {a \in {"A", "D"} : Ratification(line, a) # {}}}

(* _map_tier4_pins: the entries of the line it installs.  The last tier-3  *)
(* entry of each single-call arm is re-keyed to the function the arm bills *)
(* to; an arm with none gets an empty entry.                               *)
MapTier4Pins(line) ==
  LET ratified(arm) == IF Ratification(line, arm) = {} THEN NoProvider
                       ELSE line[Max(Ratification(line, arm))].provider
  IN {e \in ToSet(line) : e.name \notin Tier4Names}
       \cup {[name |-> Tier4Name(arm), provider |-> ratified(arm)] : arm \in {"A", "D"}}

(* _arm_pin, under the line tier4_pins installed.                          *)
ArmPin(line, arm) == ProviderOrder(MapTier4Pins(line), Tier4Name(arm))

-----------------------------------------------------------------------------
(* The worst cases. *)

(* The prompt of the largest call an arm is expected to make.  The pages   *)
(* of D-pages are read from the default batch whatever batch runs.         *)
CountedBytes(arm, mode) ==
  CASE arm = "B" -> QuestionBytes + ToolResultBytes
    [] arm = "C" -> QuestionBytes + MaxTokens[3] * BytesPerToken
    [] arm = "D-pages" -> QuestionBytes + (IF mode \in DefaultBatch THEN PageBytes ELSE 0)
    [] OTHER -> QuestionBytes

SequenceCalls(arm) == IF arm \in {"B", "C"} THEN CallLimit ELSE 1

(* _arm_sequence_worst_case and _single_call_worst_case: the call limit    *)
(* times the dearest serving's worst call.                                 *)
SequenceWorstCase(arm, mode, tier, lineup, catalogue) ==
  SequenceCalls(arm) *
    Max({WorstCase(PriceOf(catalogue, s), CountedBytes(arm, mode), MaxTokens[tier]) :
           s \in ArmServings(arm, lineup)})

SequenceFits_OneCall(arm, mode, tier, lineup, catalogue) ==
  /\ \A s \in ArmServings(arm, lineup) : Readable(PriceOf(catalogue, s))
  /\ SequenceWorstCase(arm, mode, tier, lineup, catalogue)
       <= SequenceCalls(arm) * Ceiling[tier][arm]

SequenceFits(arm, mode, tier, lineup, catalogue) ==
  /\ \A s \in ArmServings(arm, lineup) : Readable(PriceOf(catalogue, s))
  /\ SequenceWorstCase(arm, mode, tier, lineup, catalogue) <= Ceiling[tier][arm]

(* arm_e_worst_case and arm_f_worst_case: the rows of the tiers, and       *)
(* whether one call on a tier is refused at zero spend.                    *)
TierWorstCase(t, floor, lineup, catalogue) ==
  WorstCase(PriceOf(catalogue, lineup.tier[t]), floor, TierCap[t])

TierFits(arm, t, floor, lineup, catalogue) ==
  /\ Accepted(catalogue, lineup.tier[t])
  /\ Readable(PriceOf(catalogue, lineup.tier[t]))
  /\ TierWorstCase(t, floor, lineup, catalogue) <= Ceiling[4][arm]

-----------------------------------------------------------------------------
(* The preflight.  Of what it finds only a refusal matters here; a side    *)
(* that is no number raises, which starts nothing either.                  *)

EveryServingPriced(arms, lineup, catalogue) ==
  \A arm \in arms : \A s \in ArmServings(arm, lineup) : Accepted(catalogue, s)

(* fetch_credit: a balance that could not be read is Missing.              *)
Funded(credit, ceiling) == credit # Missing /\ credit >= ceiling

(* Arm B's serving takes tools, and its context holds the largest prompt.  *)
TakesTools(entry) ==
  /\ entry.takes \in {Blind, {"tools", "tool_choice"}}
  /\ entry.context = Missing \/ CountedBytes("B", "main") + MaxTokens[3] <= entry.context

RunPreflight(arms, mode, lineup, catalogue, credit) ==
  /\ EveryServingPriced(arms, lineup, catalogue)
  /\ \A arm \in arms \cap {"A", "B", "C", "D"} :
       /\ SequenceFits(arm, mode, 3, lineup, catalogue)
       /\ \A s \in ArmServings(arm, lineup) :
            LET cap == Resolve(catalogue, s).cap IN cap = Missing \/ MaxTokens[3] <= cap
  /\ "B" \in arms => TakesTools(Resolve(catalogue, lineup.b))
  /\ Funded(credit, RunCeiling[mode])

Tier4Preflight(arms, mode, lineup, catalogue, credit, line) ==
  /\ EveryServingPriced(arms, lineup, catalogue)
  /\ \A arm \in arms \cap SingleCall :
       /\ ArmPin(line, arm) # {}
       /\ SequenceFits(arm, mode, 4, lineup, catalogue)
  /\ "F" \in arms => \A t \in Tiers : ArmFCalls[t] > 0 =>
       TierFits("F", t, QuestionBytes + PageBytes, lineup, catalogue)
  /\ "E" \in arms => \A t \in Tiers :
       TierFits("E", t, QuestionBytes + PageBytes, lineup, catalogue)
  /\ Funded(credit, RunCeiling[mode])
=============================================================================
