# TLA+ verification of AutoRND-OS

AutoRND-OS runs an LLM engineering pipeline described by a YAML graph: nodes ask
models for work, deterministic checks and judges decide whether it may be
delivered, and every run is bounded in dollars, calls and wall-clock time. Beside
it the repository carries the experiments that measure the pipeline against
single calls, paid for under a registered plan. This directory holds TLA+ models
of the parts that decide *what a run may spend, how it walks its graph, what its
judges say and who they are, what its context rests on, when its answer counts as
delivered, who may start one, what of it survives on record*, and *what an
experiment may cost, what it must pass first, and what it counts*, with TLC runs
on small instances and TLAPS proofs for every value of the constants.

    tlc -workers 2 -config SpendGuard.cfg MCSpendGuard     # a run
    tlapm SpendGuardProofs.tla                             # a proof module

Paths below are relative to the repository; `autornd/` is `src/autornd/` and
`evals/` is `src/evals/`.

## 1. The system

| Component | Code | State | Operations | What must hold |
|---|---|---|---|---|
| Spend accounting | `autornd/routing/openrouter.py` | `spend`, `calls`, `_reserved_usd`, `_reservations`, `_in_flight`, `unreconciled_liability_usd`, `blind_spend_calls`, the failure counters | `chat`, `rerank`: guard, reserve, post, reconcile, fail, retry; `chat_json`: send again until the reply fits | Money committed never passes the ceiling; calls accounted never pass theirs; whatever a failed call may cost stays booked; a failure is laid at the door of the call it was |
| Graph executor | `autornd/graph/executor.py` | `GraphState`: outputs, status, iteration, candidate; the watchdog's step records | `run`, `_run_nodes`, `_run_repeat_until`, `_run_gate`, advisory nodes, the watchdog's cut | Every run ends; an answer made is kept; no node reads an output that is not there; a completion is of an approved draft; a cut rests on what was measured |
| Workflow loader | `autornd/graph/spec.py`, `conditions.py` | none: a parsed graph | `parse`, `handoff_reachable`, `execution_order`, `handoff_subgraph` | Each node runs once, after its dependencies, or is reached by a handoff |
| Shipped workflows | `workflows/*.yaml` | none: data | the graphs themselves | A delivery holds the approvals its workflow promises |
| Phase runner | `autornd/graph/adapter.py`, `graph/checks.py`, `engine/phases.py` | iteration history, failure log, directive, re-grounding record | one method per phase, `judges_agree` and the other folds, the free checks | The record names the draft that was judged; the next attempt is told why; a check flags only with ground |
| Verdict models | `autornd/models/verdicts.py` | none | what a reply comes to | Red and green rest on the anchors the ruling asks for |
| Review composition, specialists | `autornd/engine/review_composition.py`, `specialists/`, `profiles.py` | none; the profile is the process's | who leads, builds and reviews | Nobody marks his own homework |
| Knowledge | `autornd/knowledge/` | kept passages, `_rerank_mode` | look up, check a quote on its page, recall, rank | What is shown as backed is on its page; no gap is lost; the rounds end |
| Run admission | `autornd/api/routes.py` `_RunGate` | `_in_flight` | the background, synchronous and doublecheck routes | Runs under way stay within `max_concurrent_runs`; none twice; every slot comes back |
| Run record | `autornd/engine/workflow.py` | the workflow row, node rows, the chain of writer tasks | `execute`, `on_phase`, `_write_progress`, the terminal | What is saved is in order; what is lost is noted; the terminal is written once, after all of it |
| Evaluation runner | `autornd/evals/`, `autornd/preflight.py` | `SweepBudget`, the results file | the gate, each scenario of each workflow, repeated; skip, run, score, exit code | A sweep is billed within its cap; what is skipped is explained; the gate refuses what would fail |
| Tier-3 and tier-4 experiments | `evals/tier3/runner.py`, `evals/tier4/runner.py` | the results log, the claim file, a `SweepBudget` | ratification gates, free preflight, claim, resume, the plan's units, seven arms, the reports | One authorisation pays for one run; nothing runs twice or out of order; a unit costs what the preflight promised; the counts count each unit once |
| Authentication | `autornd/api/auth.py` | none per request | decide who a request is | - |
| Settings, profiles | `autornd/config.py`, `profiles.py` | runtime settings | tighten, switch profile | - |
| Dashboard, CLI, server | `api/dashboard.py`, `cli.py`, `main.py` | none | render, start | - |

How they interact. A route passes the gate, commits a row and starts `execute`,
in the request or as a task. `execute` builds one `OpenRouterClient` and one
executor for the run and hands the executor two callbacks: the phase runner for
each node's work and `on_phase` for each finished node. Phases call `chat` and
`rerank` on the client, several at a time where they gather (domain review, the
specialists). `on_phase` is synchronous and queues a writer task behind the
previous one; the writers share the row object with `execute`, which drains them
before it writes the terminal. When the executor returns or raises, `execute`
ends the row, the client is closed, and the gate's slot is released.
A sweep calls the same executor through `run_scenario`, one unit at a time under
one `SweepBudget`; an experiment's arms E and F do so too, and its arms A to D
call the client themselves.

What makes it hard:

- **Interleaving at awaits.** One thread, many tasks: gathered calls pass one
  spend guard; three routes pass one gate; writers commit while the run goes on.
- **Failure after the fact.** A POST that fails may have been billed; a failed
  commit expires the instance everybody shares; a close may raise inside the
  `finally` that should release a slot.
- **Cuts.** The watchdog can end a run inside any node of any loop, and the record
  must then say which draft is there and whether anyone approved it.
- **Nesting.** Loops, gates and handoffs nest: a recovery loop is inside a
  handoff inside a loop, and iteration numbers restart in each.
- **Retries.** Four reasons to post again share one loop over one reservation, and
  `chat_json` retries above it while other calls of the gather do the same.
- **Restarts.** An experiment is killed, starved of credit, topped up and resumed;
  the log is all that says what was paid for.
- **Rules written twice.** The preflights decide on prices, pins and parameters
  by code of their own, and the client acts on its own reading of the same things.

`PROJECT.json` lists each hazard at its line, with the properties that would
catch it or why none does yet.

## 2. Modules and the code they model

| Module | Models | Role |
|---|---|---|
| `SpendLedger` | the promise of the accounting | abstract specification |
| `SpendGuard` | `chat` / `rerank` and the guard | implements `SpendLedger` |
| `ChatJson` | `chat_json`: retries, failure counters | operators over interleaved replies |
| `WorkflowSpec` | the loader's functions | operators, no state |
| `Routes` | where a walk of a graph can come to, with neither attempts nor callers counted | abstract state machine |
| `WorkflowLoad` | a file loaded or refused, a shipped one then walked | composes `WorkflowSpec` and `Routes` |
| `GraphExecutor` | the executor, for any graphs and outcomes | state machine; implements `Delivery` and `Routes` |
| `Delivery` | what a run promises its caller | abstract specification |
| `Watchdog` | pace, reserve, the pre-start rule, the cut | operators over a run's calls |
| `Workflows` | the four offered YAML graphs, and what their phases and checks may answer | values of `Graphs`, outcomes for `GraphExecutor` |
| `FreeChecks` | `criteria_addressed`, `numbers_consistent`, `recompute_vote` | operators |
| `Verdicts` | what every judge's reply comes to | operators |
| `JudgedRun` | a full-team run with the judges' replies and the failure log | composes `GraphExecutor`, `Workflows`, `Verdicts`, `Roster` |
| `Roster` | team, lead, peers, review team | operators |
| `Grounding` | one lookup, its quotes, fetches and kept passages; triage to the plan gate, over successive runs | state machine |
| `Ranking` | `rerank_chunks` of several runs in one process | state machine |
| `RunGate` | the gate under three routes | state machine |
| `WorkflowRow` | `execute`, the writer chain, the terminal | state machine |
| `SweepBudget` | the cap shared by units | operators |
| `PinGate` | the preflight's gate and the calls it speaks for | operators |
| `Suite` | one invocation of the eval CLI | state machine on `SweepBudget`, `PinGate` |
| `UnitOutcome` | the classes a unit of an experiment ends in | operators |
| `Preflight` | what a call may cost, as preflight and as client read it; ratification gates, worst cases, tier-4 pins | operators |
| `ArmUnit` | one unit of any arm, call by call | state machine |
| `PaidUnit` | a unit of a paid run with its money and servings | composes `ArmUnit`, `Preflight`, `PinGate` |
| `Experiment` | the plan, the log, the claim, kills and resumes | state machine; implements `PlanRecord` |
| `PlanRecord` | what an experiment promises of its results | abstract specification |
| `ExperimentReport` | an experiment with its unit lines kept whole, the measures and reports of that log | composes `Experiment` |
| `MC*` | constants of the runs, and the properties of what they compose | instances for TLC; where there is none, the module holds them |
| `*Proofs` | theorems | TLAPS |

Names follow the source where TLA+ allows. A definition with a suffix after an
underscore (`Release_Oldest`) is a plausible slip in the definition it is named
after; `PROJECT.json` says which property catches it.

Where code is a function of its input (a check, a fold, a preflight, a report), the
module holds operators and the property is stated over a bounded set of inputs by
the MC module that composes it with the state machine that calls it; such a run's
invariants are of both kinds.

### SpendGuard

A handler is atomic from one `await` to the next, so a call is a value of `pc`:
idle, posted, in backoff after a transient fault, waiting after a 429, or over.

| Variable | Code |
|---|---|
| `reservations`, `reserved` | `_reservations` (as the calls that hold one), `_reserved_usd` |
| `inFlight`, `calls`, `spend`, `liability` | `_in_flight`, `calls`, `spend`, `unreconciled_liability_usd` |
| `blindSpend` | what was accounted for calls that reserved nothing |
| `billed` | history: what the provider has charged |

| Action | Code |
|---|---|
| `Dispatch`, `Refuse` | `_guard_spend` with reservation, up to the first POST, or its refusal |
| `Reconcile` | reply: `_release`, `_account` |
| `Fail` | failure: the worst case becomes unreconciled liability |
| `Retry`, `Redispatch`, `Interrupt` | transient fault: liability, backoff, guard again |
| `RateLimited`, `DropFormat`, `NoChoices`, `Repost` | the re-posts under the same reservation |

Dollars are naturals. `SpendLedger` keeps two numbers: committed money and blind
spend. It admits a step that grows `committed` only up to the ceiling, lets it
shrink, and lets blind spend (an unrated model, or no ceiling) be booked on top.

### GraphExecutor, Routes, WorkflowSpec, Workflows

`_run_nodes`' recursion is a stack of `frames`: a schedule, a handoff sub-graph,
or a loop body at an attempt. Each step looks at the node on top: `Skip` (`when`
is false), `Complete` (ai or check), `Cut`, `Raise`, `AdvisoryGivesUp`,
`ConditionFails`, the gate's `GatePasses` / `GateStops` / `GateEnds` /
`GateRoutes`, the loop's `EnterLoop` / `NextAttempt` / `Converge` /
`ExhaustedEnds` / `ExhaustedHandsOff` / `ExhaustedGoesOn`, `Return` from a
sub-graph, and the tail of `run()`: `FinishEnded`, `FinishUndone`,
`FinishCompleted`. Of an output the model keeps what a condition, a check or the
executor reads: `Workflows` gives each node the answers the code can derive, and
`judges`, `review_fold` and `blocked_check` are computed from the outputs they
fold. `domain_review` may turn the implementation red in place, as the code does.
An implementation is named by its number (`draft`), and the iteration history
carries those numbers where the code carries summaries, so a record that holds
the wrong draft's summary shows as the wrong number.

`current` and `endorsed` are history variables: nodes finished since the latest
implementation, and the last draft the build fold passed. They are read by
properties only, and by the mapping to `Delivery`: an approval is a node of
`Requires[workflow]` that has passed the draft that is current. `heard` is a third one:
`validate` has answered since the answer or its verdict changed.

`Routes` is the same walk with everything that is unbounded left out: a loop repeats or
is exhausted at will, and what is left of a loop or a sub-graph is followed by whatever
follows a node that may have called it. It has one place where `GraphExecutor` has a
stack of frames, so some ten thousand states per workflow stand for every budget above
zero. `GraphExecutor` implements it (`FollowsRoute`), and what is true at the places of
the routes is therefore true of every run.

`Cut` may come at any non-advisory node of a run that has a budget; *when* it does
is `Watchdog`'s question, which folds the calls a run would make (`AfterStep`,
`PreStart`, `Watched`) into the clock, the cuts and the measures by node and tier.

### Verdicts, JudgedRun, Roster, FreeChecks

A reply is the fields the code reads. A quote is the set of texts it is found in
word for word (request, sources, answer), so every combination of an anchor that
is there and one that is not occurs; `Verdicts` says what the reply comes to.
`JudgedRun` has one action per judge (`Implementing`, `CheckingBlocked`,
`DomainReviewing`, `Validating`, `Reviewing`, `Checking`, `Escalating`): the executor's
`Complete` with an output a reply yields, and what the adapter does with it.

| Variable | Code |
|---|---|
| `log` | `failure_log`, of each entry its iteration, causes, and whether it holds objects |
| `directive` | the draft the autopsy in force ruled on |
| `entered` | the implementation's `blocked_on` has entries |
| `grounds` | history: what the refusals of the current draft rest on |

`PhasesAreExact` closes the loop: the outcomes `Workflows` assumes for the graph-level
runs are exactly those that replies come to. `Roster` reads a profile at each cast,
since a profile switched between build and review takes effect at once.

### Grounding, Ranking

`Grounding` follows one run from triage to the plan gate: asks, context with its
lookup, plan, the round of re-grounding, feasibility, the check that looks up what
was put off; `NextRun` starts another over the `store` it left. `look` is the
lookup under way, `deferred` is `deferred_gaps`, `asked` is `grounding_questions`.
A reply's passages, the pages that answer and the quotes found on them are chosen
freely; `owed` is a ghost of the gaps named and not yet put to a lookup. `Ranking`
is `_rerank_mode` under several runs, each suspended at its own await.


### RunGate

`slots` is `_in_flight`; a submission's `pc` is where its route is suspended:
storing its row, queued as a task, running, closing its client, saving
(doublecheck). `Admit` is `_RunGate.admit`, `Store` / `StoreFails` the commit,
`Start`, `RowMissing`, `Finish`, `Close`, `CloseToSave`, `CloseFails`, `Save` the
rest. When a slot is released depends on the route, as in the code: the
background and doublecheck routes have an outer `finally`, the synchronous one
releases after the close. `Unclosable` says whose close may raise.

### WorkflowRow

`items` is `pending_saves`, `consumed` and `chain` the chain of writer tasks,
`lost` is `_lost_progress`, `seen` the status of the instance in memory
(`"expired"` after a failed refresh: any later read of it raises), `row` what a
poll sees. The executor is reduced to reports and an outcome; `Settle`,
`SettleRaises`, `DrainRaises` and `Fail` are the drain and the terminal, and
`CommitEnd` / `CommitEndFails` its commit. `Interrupted` is a cancelled request
or a process crash, at any point. `row.named` are the losses the committed `error`
still names: `NotesWritten` is all of them after a terminal of the executor, and
after an exception any first part of them, since that text is cut to 2000 characters
with the note at its end (`workflow.py:268`).

### SweepBudget, Suite, PinGate

`Suite` walks the CLI's jobs: `Gate` or `Refuse`, then for each scenario repetition
`Skip`, or `Start`, and an end (`Returns`, `ReachesTerminal`, `Stopped`), `Score`, and
`Exit` with the summary line and the exit code. `billed` and `owed` are ghosts.
`PinGate` has both readings of one configuration: what `preflight.py` refuses
(`Refused`), and the model, providers and parameters the client would send
(`CallModel`, `ProviderOrder`, `RequiredParameters`) with what the router answers
to them (`Is404`). A provider line is a sequence of entries; where the order of
entries decides nothing (the tiers a line opts in or out, tier 4's extended line) the
operators take the set of them. `Configuration` is what `run` of the preflight gathers.

### Experiment, PlanRecord, ExperimentReport

A unit is its place in the plan. Of the results log the model keeps what the code
reads back (`starts`, `evidence`, `last`); `marker` is the claim file, `rival`
a launcher of another file on the same authorisation. Both runners are one module,
`tier` says which. `Launch`, `Claim`, `Sign`, `Resume` start an invocation,
`PassRecorded`, `SkipUnit`, `StartUnit`, `RunUnit`, `WriteNotRun` and `Finish` run it, and
`Kill` may come in any of them, between the two steps of a claim too. `paid`,
`unbooked` and `killed` are ghosts. `ExperimentReport` adds the lines in full
and computes the reports from them by the code's own rules, last line
of a unit or every line.

### Preflight, ArmUnit, PaidUnit

`ArmUnit` is the arm executors under the unit's deadline and handlers: the single
call, arm B's tool rounds (`ToolRound`, `ToolAnswer`), arm C's `Draft`, `Check`,
`Revise`, and the pipelines' ends, each with what it is recorded as. `PaidUnit`
puts it after `Start` - the gates and the free preflight over the catalogue, the
lineup and the provider line - and gives each call its bytes, its worst charge, its
cost and the serving that answered it. No paid path loads the client's rates, so
its guard is blind there; `AttemptLost` and `PaidCallFails` are calls that may have
been charged and are booked nowhere.

## 3. Runs

Twelve runs; the distinct states of the passing ones in brackets. Every bound is a
named constant. No cfg replaces a definition or constrains the state space.

**`spend_guard`** (151,533). Two chats, one of worst case 2 and one of 1, and an
unrated rerank, against a ceiling of 4 and two accounted calls, two attempts per
kind of retry. The calls cannot all be afforded with their retries and cannot all
be accounted, so refusals on both ceilings, and retries that find the room gone,
occur. `CommittedBounded`: what three interleaved calls reserve, spend and owe stays
under the ceiling, but for what unrated calls cost. `LedgerExact`: the reservation
list, its total and the in-flight count agree with the calls that are out.
`LedgerCoversBilled`: whatever was charged for a call that reserved, answered or
not, is booked. `DispatchedCallsEnd`: the nested retries end. `ImplementsLedger`:
every step is a ledger step. `UnusableCosts = {0}` states the condition under which
this holds: a reply with no choices is free. `FailureIsOwned`: in every order in
which the replies of two `chat_json` calls, two sends each, may come back, a provider
failure is the call's own, an ended call ends by its own last reply and corrects its
own last text.

**`workflows`** (100,835). The four offered workflows with 2 build iterations (3 in
`lean`), 1 recovery and 1 rework, cut, raised or finished at any node, and a graph
`Features` with what none of them has: a gate with no `on_fail`, a skipped
dependency, a loop that is exhausted with nowhere to go. `FollowsRoute`: every step is
one of `Routes` or none.
`ApprovedIsEndorsed`: the approved pointer of a run that ends blocked or escalated
is the last draft the build fold passed, or the latest when its judges had agreed and
the cut fell on that very fold. `CompletedIsCleared`: completion never carries `done: false`, nor an
unrecallable request without the independent check. `ImplementsDelivery`: a
completion holds build and review approval of *its* draft. `RunEnds`. Two iterations
and one attempt per loop are the smallest budgets at which a loop converges late, is
exhausted, and is entered again from a handoff with a history behind it. Two
properties are of what the run calls: `WatchdogDecides`, over every run of up to
three calls of two nodes, two tiers and one or three seconds in a budget of six: the
clock never passes the cut point, a call is refused with time left only for one that
came back and took longer, and neither what the ledger booked a call under nor a
refused advisory call changes a decision. `FreeChecksAreFair`, over two words, eight
values that straddle the rounding boundaries and four figures: one word more flips
an ask's verdict only where its polarity says so, a figure restated with fewer or
more places is no conflict, and the recompute vote flags only what two agreeing
samples contradict. TLC also evaluates, for these graphs, the conditions on a graph that the
proofs of section 4 start from: `FoldAssumption`, `ShippedOutlined`, `ShippedCompletion`.

**`workflow_load`** (182,817). Every 3-node graph with up to two dependencies per
node, at most one loop and one routing gate; and 4-node graphs with one dependency
each and one-node bodies. Self-references, cycles, handoffs to a dependency and
loops naming each other's nodes all occur. `LoadedIsSchedulable`: an accepted graph,
and every handoff in it, orders each node once after its dependencies, and a handoff
has all it depends on. The shipped workflows and `Features` are loaded too (all are
accepted) and walked along their routes to the last state, and so is the default
one with no attempt at recovery, none at rework, and neither, since a budget above zero
adds no route. `RoutesAreSound`: on every route no `when`, gate or `until` reads an output
that is absent; the judges are asked in an order in which the failure log loses no
refusal; an answer is made again only when one was refused; and only an answer
that no judge refuses, with the independent check where triage asked for it, gets to
the end. These five conjuncts are the hypotheses of the theorems of section 4 that
speak of runs. `Features` tests a node that was skipped, on purpose (`Careless`).

**`judged_run`** (1,013,558). The full-team graph with what each judge may reply:
eight dissents (an omission by its listed ask, one of no listed ask, each other kind
with and without its words, one of a kind of its own), panels of two and three reviewers who may fail, concerns
of a domain, an implementer that blocks, a vetoing or skipped independent check.
`ToldWhy`: a revision or an autopsy finds every refusal of the draft before it in the
last entry of the log, or a revision has the autopsy's directive on that draft.
`RevisionHasGround`: no revision is paid for on a judge's note or a minority of failed
reviewers alone. `NoObjectionDelivered`: no run completes while a judge has an anchored
objection to the very draft it delivers. `PhasesAreExact`, see section 2.
`ReviewedByAnother`: for every triage over three roles and two domains, and every
pair of profiles in force at build and at review. TLC also evaluates the two
hypotheses of the proofs, of the graph (`JudgesAreWork`) and of the dissents
(`KindsAreRead`: none is marked a hazard under a kind of its own, see the known deviations).

**`grounding`** (132,424). Two questions, two pages, up to two quotes a reply and one
fetch a lookup; runs follow one another over one store. `ContextIsBacked`: what the
context shows as backed is on its page, whether it comes from this lookup, the one
that asked again or an earlier run. `GapsArePursued`: every gap named as blocking is
looked up, or was put off at low risk with no ask that demands a citation.
`GroundingEnds`: the loop of plan and re-grounding ends.

**`run_gate`** (3,993). Five submissions by two callers over the three routes, two
slots: duplicates by another route, a full gate, and failures at each await.
`AdmissionHolds`: runs under way within the cap, no twins, no slot without a run, no
run without a slot. `EverySlotFreed`. Every close may fail except the synchronous
route's.

**`workflow_row`** (77,726). Up to four items (the name and three reports, in any
order and with repetitions), any write, refresh or terminal commit failing,
interruption anywhere. `SavedOrNamed`: each consumed item is saved in order or
noted as lost. `EndIsWhole`: when `execute` returns, the row has the outcome's
terminal and everything reported was dealt with; it names nothing lost that was not,
and, when the executor ended the run, everything that was. `RowSettles`: the row ends,
unless the run was interrupted, its last commit failed or a write failed twice. Three
reports let a loss, a save after it and an unsaved item in flight coexist with the
end.

**`suite`** (162,573). Two compared workflows, a pinned and an unanswerable scenario,
each repeated twice, a sweep cap of four, runs with a cap of two or none.
`SweepWithinCap`: what is billed is within the cap and what runs still owe. No
run makes a call the guard cannot price.
`SkipsAreExplained`: every skip gives the reason that was true of it, the last line
says what every skipped unit said, and no fewer units start than the sweep announced.
`GateRefusesWhatFails`, over two models of two providers, every assignment of
tiers, every provider line of two entries (`ModelMaps`, `PinLines`, `EndpointMaps`,
`ReadableSets`): no sweep the gate lets through meets a 404
on a pin, and over plain lines (one provider to a name, names the gate knows) none is
refused that would meet none.

**`paid_unit`** (722,334). Every arm of both tiers, from the gates and the preflight
over every catalogue of a base and its variant with seven kinds of entry, every line
of up to two entries, call by call with any reply, cost (nothing or the most) and
failure, one lost attempt. `FundedBySequence`: a unit costs more than its
ceiling only when a call carried more than the preflight counted or an attempt was
lost, and what is booked passes the ceiling by no more than its last call.
`UnflaggedIsRatified`: an unflagged tier-4 result was served by a provider ratified for
that arm. `RatesAgree`: the two readings of the catalogue give one price. `EndingIsEarned`:
each end is of a class `UnitOutcome` lists, arm C's check is honoured, a serving's
failure is no refusal. The preflight is applied to the arm of the unit under way.

**`experiment`** (715,896). Three units of arms C, E and A with ceilings 1, 2, 2 under an
authorisation of 3, an overshoot of 1, three launches: a kill, a 402, a top-up and a
kill after it all fit. `BilledWithinCap`: an invocation is billed no more than the
total, one overshoot and what was never booked. `OnePaidRun`: two launchers of one
authorisation never both run. `ResumeCharges`: the killed unit is charged in full.
`RunsThePlan`: the results are the plan's prefix, only ever appended to. `CountedOnce`:
the reports count every planned unit once, under how it ended.

Deadlock checking is off in `run_gate`, `workflow_row`, `workflow_load`, `suite`,
`paid_unit*` and `experiment`: submissions, loads, rows, sweeps, units and launches
really end. The other modules have an explicit step for a system that is over.

### Findings: two runs that show a disagreement

Each checks one statement of the repository's own comments, on the model of what the
code does.

| Run | Statement | What happens |
|---|---|---|
| `unit_ceiling` | "The guard refuses the call when this exceeds what remains of the unit's ceiling" (`evals/tier3/runner.py:856`) | No paid run of tier 3 or 4 loads the client's rates (`check_models` is called elsewhere only), so the guard reserves and refuses nothing (`openrouter.py:603`): a unit is booked past its ceiling |
| `ranking_latch` | "a transient fault, not a capability change. Keep the mode" (`context.py:458`) | `_rerank_mode` is written after awaits of other runs: one run's listwise failure sets "distance" over the "native" another has just proved (`context.py:501`) |

### Known deviations without a run

Seen while modelling; the models do what the code does, and the properties are
stated so that they hold with it. Of the run itself:

- `dissent_kind` reads a dissent as a hazard when it is marked one, whatever kind of its own
  it states (`verdicts.py:567`), where its docstring reads "an unrecognised word" as
  `wrong_fact` (`:559`): words of the answer then anchor it, no source is needed, and
  `RevisionHasGround` fails. `KindsAreRead` excludes such a dissent.
- The synchronous route releases its slot after `await client.close()` in the same
  `finally` (`routes.py:352`): a raise there keeps it until restart. `SyncCloses`
  excludes it.
- A reply without `choices` is re-posted without being accounted (`openrouter.py:976`).
- A node that depends only on loop-body members is owned and never scheduled
  (`spec.py:180`), against `spec.py:245`; a loop whose `on_exhausted` leads back to
  itself is accepted (`spec.py:424`). A gate that closes with no `on_fail` stops the
  walk and the run is "completed" (`executor.py:1129`).
- After a cut inside `implement` the partial entry carries the previous draft's
  summary as "unjudged" (`adapter.py:676`, `executor.py:1000`), and is skipped when any
  loop had its number (`:669`). `_candidate` may pair the latest draft with dissents of
  the one before (`executor.py:917`).
- In full-team, `blocked_gate` in `build_loop` hands off to `escalation`, whose
  recovery sets `state.iteration = 0` (`executor.py:1274`): the rest of that body reports
  iteration 0, and its log entries fold into another's.
- A log with an implementer's own blockers in it holds objects, which the autopsy's
  JSON cannot render (`adapter.py:788`, `phases.py:1519`): it raises. `Readable` models it.
- A red implementation whose first entry gives only a reason raises
  (`phases.py:1016`); a stray ask keeps it red; an empty deliverable is turned green.
- A run that raised shows no candidate (`workflow.py:223`); after a failed write *and* a
  failed refresh no terminal is written (`workflow.py:317`).
- After an exception the row's `error` is the exception's text, then the note of the lost
  writes, cut to 2000 characters (`workflow.py:268`): a long text, such as the
  `ValidationError` that `chat_json` re-raises (`openrouter.py:1230`), cuts the note, against
  "the loss is NAMED in the run's record" (`:344`). `EndIsWhole` claims the full note of a
  run the executor ended only.
- A crash or a cancelled request leaves the row unended; `RowSettles` excepts both.
- Two doublechecks of one workflow may lose one cost (`routes.py:536`); settings
  are assigned before the profile they name is loaded (`routes.py:630`), and a model set
  there that the bulk list lacks stays unrated.
- A failed advisory node's calls still count in the watchdog's pace.
- A lone reviewer at low risk may be the builder; with one domain and no specialists at
  low or medium risk the cast is empty (`IndexError`).
- Re-grounding pays again for gaps the context lookup asked; an entry kept for several
  questions is recalled unmarked; "at most N words" is judged by the words' presence;
  a rounding of a rounding is noted as a conflict; the vote's flag depends on the order
  of samples whose forms differ.
- A provider failure is not raised when the empty replies name no provider.

Of sweeps and experiments:

- The gate refuses a `recompute:<provider>` pin, though the client would use it. Of several
  providers under one name the gate looks up the last and asks of each that it take the
  parameters, where the client is content with any; its names are neither trimmed nor
  lower-cased, and an entry that opts a function out is dropped. `GateAgrees` claims
  the converse for lines without these (`PlainLine`).
- The CLI exits 0 when every scenario was skipped. A torn last line of a results file
  fails its reader.
- Two concurrent launchers of one results file both pass the claim, which takes the second
  for a resume (`evals/tier4/runner.py:1158`). The rival of `OnePaidRun` has another file.
- A blank claim file (a kill between create and write) refuses for ever. One
  `TIER3_SPEND_AUTHORIZED=2.00` clears tier 3's smoke run and tier 4's calibration.
- `--arms F,F` repeats unit keys. `ReportAssumption` excludes it.
- A `not_run` line of an earlier 402 hides a later kill from `in_flight`; a pipeline the
  outer deadline cuts is booked at nothing (`evals/tier3/runner.py:2445`).
- Tier 4's denominators count raw lines; pairing counts un-run units as losses.
- Arm C's revision carries objections beyond the counted check. Tier 3 counts one
  largest tool result per call, by characters; the guard's prompt bytes leave out
  the tools. D-pages is sized with the default batch's pages: `FundedBySequence` names the
  wider message as an exception.
- An unknown component priced "0" makes an entry unboundable, a side that is no number
  crashes the preflight, and a variant whose own charge cannot be bounded is lent its
  base's rate.

### Fairness

- `SpendGuard`: weak fairness per call that is out. A POST ends, since the client
  sets an httpx timeout, and a backoff is `asyncio.sleep`. A call that is idle
  need not ever start.
- `GraphExecutor`: `WF_vars(Next)`. One task walks the graph, each of its awaits
  is a call with a timeout or a check, and nothing it waits for waits for it.
  Cutting and raising are alternatives of a step, so no progress rests on them.
- `Grounding`: weak fairness of a run's own work, for the same reason; none for the
  start of another run.
- `RunGate`: weak fairness per submission: each is a task whose awaits end.
- `WorkflowRow`: weak fairness of `execute` and of the writers, on one event loop;
  none for interruption.
- The other specifications state none; they have safety and refinement only.

## 4. Proofs

All proofs are for arbitrary constants satisfying the named assumptions.

**`SpendGuardProofs`**, under `SpendAssumption`: finitely many calls, worst cases
and costs naturals, and *a rated call's reply costs at most its worst case*. That
is the premise of the reservation (the catalogue price times the byte bound of
the prompt plus `max_tokens`); nothing else about prices is assumed. `IInv` is
`TypeOK /\ LedgerExact /\ CommittedBounded /\ CallsBounded`. The bounds are not
inductive alone: releasing a reservation keeps `Committed` under the ceiling only
because `reservations` is exactly the rated calls that are out and `inFlight`
their number. Lemmas `Enters`, `Leaves`, `Stays` say how that count moves;
`TypeStep`, `LedgerStep` and `TotalsStep` take the conjuncts in turn.
Theorems: `SpecTypeOK`, `SpecCommittedBounded`, `SpecCallsBounded`,
`SpecLedgerExact`, and `SpecImplementsLedger`, the refinement of `SpendLedger`.
`SpecReservedExact` proves what `IInv` only bounds: the running sum is the money of the
listed reservations to the unit. The sum over a set is said as the cardinality of
`Units`, a unit of money per pair, so that no induction is needed. `SpecLedgerCoversBilled`
assumes `FreeUnusable`, that a reply without `choices` costs nothing, which the code
needs (section 3, known deviations); its invariant is `BilledIsBooked`: charges are
booked as spend or as liability in the step that makes them, whatever is released then.

**`RunGateProofs`**, under `GateAssumption`. The cap is tested against
`Cardinality(slots)`, while the property speaks of the runs under way. `Inv`
(`TypeOK`, slots finite and at most the cap, every live run holds its slot, no two
hold the same) makes `Slot` an injection of `Live` into `slots`, hence
`SpecLiveWithinCap`, `SpecNoTwins`. `SpecSlotsAreTheLive` and their conjunction
`SpecAdmissionHolds` add the hypothesis `SyncCloses`, that no synchronous
submission's close fails, which cannot be dropped (section 3, known deviations).

**`GraphExecutorProofs`** has six parts.

*For any graphs, outcomes and `Agreed`.* `Bookkeeping` (a run without a status has kept
nothing; a run with one has no frames left) carries `SpecCandidateKept`,
`SpecFirstEndIsTheEnd` and `SpecAdvisoryOnlyAdds`, of which nothing is assumed. The
steps that go on (`GoesOn`) and those that end (`Ends`) are separate lemmas.

*Which draft the pointer names.* `SpecApprovedIsEndorsed` assumes `FoldAssumption`, what
the workflow files hold to: the fold follows its judge in every walk and stands nowhere
else, and both always run; and `FoldIsAgreement`: the fold passes exactly when the rule
by which `validate` records an iteration does (both call `judges_agree`). The record and
the fold disagree for the one place between the two nodes, so the property is not
inductive; `Pointer` says of that place what the record holds, and of every other that
they agree. That a walk is at that place only when it comes from the judge needs
`StackOK`: a frame under another waits at the gate or loop that pushed it, never at the
judge, so that no return from a handoff lands on a fold. `Appended` and
`PartialChangesNothing` say how the last agreed entry moves.

*That a workflow implements `Delivery`.* Whether a graph keeps the promise depends on the
graph, so `SpecImplementsDelivery` assumes of every workflow an outline: for each place of
each walk, the facts known of the latest draft there (drafted, judged, built, cleared ...),
and for each loop those known on leaving it. `Outlined` checks the outline one step at
a time, and each check is local: what a node adds or undoes (`AfterWork`), what a
condition says when it holds (`WhenHolds`), what a handoff starts from and returns, and
that no gate and no exhausted loop completes short of all that is `Needed`. The
other hypothesis, `PhasesKeepToTheirs`, is of the phases: none writes a judge's output
but the judge's own, and the review fold passes only on a passed build fold and a
review that ships. The invariant `OutlineInv` is that what the outline says of the
place on top of the stack is known, and that of each place below it says no more than
the frame above it returns (`StackOutlined`, at any depth); when the bottom frame
returns, every approval is there. `OutlineAdvance`, `OutlinePop`, `OutlinePush` and
`OutlineReplace` are the stack's moves, `WorkTells` and `ConditionTells` the facts',
and `NextImplements` maps each step: a new draft is `Draft`, an ending `Complete` or
`Abandon`, anything else `Judge` or a stutter. TLC evaluates `Outlined` for the shipped
graphs with the outline of `MCWorkflows` (`ShippedOutlined`); that the
phases of the workflow files meet the hypotheses on outcomes, here and above, is
`PhasesQualify`.

*That every run is a route.* `SpecFollowsRoute` needs of the phases only that an outcome has
an output for the nodes of the graph and no other (`OutputsAreOfNodes`), and nothing of
the graph. The walk is mapped to the top frame; what makes that sound is `StackRouted`: at
every depth a frame waits just after a loop or a gate that may have called the one above
it, so that a `Return` or a loop's exit lands where the routes allow. The routes of a
workflow being finitely many, what TLC finds of them (`RoutesAreSound`, run `workflow_load`) is a
fact of every run, and the theorems take it as their hypothesis, `Route!Spec => []...`:
`SpecConditionsDefined` from `TestsDefined`, that no condition of any run is tested before
its node has an output; `SpecCompletedIsCleared` from `FinalIsCleared`, with
`CompletesAtTheEnd`: only falling off the schedule completes a run.

*What the judges said.* Of `JudgedRun`, under `JudgesAreWork` and `PhasesAnswer` (the outcomes are
those of `Workflows`): `SpecToldWhy` from `HeardInTurn`, `SpecRevisionHasGround` from that
and `RevisedOnRefusal`, `SpecNoObjectionDelivered` from that and `FinalIsUncontested`; and
`SpecPhasesAreExact`, that the replies come to exactly the outcomes assumed. `JudgedInv` is of
the run before it ends: who refuses the answer has given a ground (`RefusalsGrounded`), who
anchored an objection refuses it yet (`AnchorsStand`), and the last log entry tells of every
refusal, under the iteration the judge answered in (`RefusalsLogged`), or an autopsy
emptied the log and left its directive. None of the three properties is inductive: an
entry is folded into the last one or put after it by the number of its iteration, and
which refusals it can lose depends on who is asked next, which is `HeardInTurn`. Each
judge has a lemma of its own (`ValidatingKeeps`, `ReviewingKeeps` ...). The attempts at
`OwnGroundsStand` are what showed that `KindsAreRead` is needed.

*Who reviews.* `SpecReviewedByAnother` is of any finite sets of roles and domains, whatever triage
returned and whichever two profiles are in force: a team of one would have the checker
and the holder of the system view in one person (`NoneReviewsAlone`), and the lead is the
first of a list that is not empty (`FirstPlace`, `BuildersAssigned`).

**`WorkflowRowProofs`**, under `RowAssumption`. `AtRest` (once a terminal is
set, in memory or on record, the chain is idle and everything is consumed), `Ending`
and `Expiry` (the instance is expired only after a double failure) strengthen
`EndIsWhole`, which claims every loss named of a run the executor ended, and of one that
raised only that nothing else is named; from them `SpecEndIsWhole`, `SpecEndSticks`,
`SpecEscapesOnlyTwiceFailed`, `SpecSavedOrNamed`, for any number of reports.

**`ExperimentProofs`**, under `ExperimentAssumption`: any plan, arms and ceilings,
each ceiling within the authorised total, any liabilities and overshoot, any number
of launches. `Inv` has six parts. `TypeOK`. `PlanInv`: the units with evidence of a
run are a prefix of the plan, and in the loop they are those found at its start and
those passed since. `OpenInv`: a unit started and without a line is the last one
started. `KilledInv`: the unit a kill cut is that one. `MoneyInv`: a budget's spend is
within the total and one overshoot, and what was billed within spend and what was
never booked. `ClaimInv`: the claim file is created, and then signed, by one launcher.
None of the theorems is inductive alone: that a resumed invocation charges the right
unit (`TheKilledUnitIsCharged`) needs `InFlightIsLastStarted`, which needs the prefix;
that results are only appended (`ResultsAreThePlans`, the refinement of `PlanRecord`)
needs `UnitIsNext`. `TypeStep`, `RecordStep`, `PlanStep`, `MoneyStep` and `ClaimStep`
take the parts in turn. Theorems also: `BilledIsBounded`,
`AuthorisationIsClaimedOnce`, and `NothingIsDropped` (an invocation that ends leaves
every planned unit a line).

**`SuiteProofs`**, under `SuiteAssumption` and `JobsAssumption` (the jobs are of the
given scenarios and workflows; `SelectSeq`, which builds them, is opaque to the
provers, and TLC evaluates it). `IInv` adds to the money of the budget that a unit that
is out was admitted with the money there still is, and that the reason on each line
still holds: the budget only shrinks, and after a skip for money nothing is admitted.
`StartedCovers` (started units spent no more than the per-run cap each) gives, by
`QuotientCovered`, that no fewer units start than `units_that_can_ever_start` says.
Theorems: `SpecSweepWithinCap`, `SpecSkipsAreExplained`. `GateIsExact` is of one
configuration, any whose models are set and listed: `FailingIsRefused` and
`RefusedIsFailing` compare the two readings pin by pin. `SpecGateRefusesWhatFails`
applies it to every configuration the sweep may stand at (`GateAssumption`,
`LinesAssumption`).

**`GroundingProofs`**, under the module's assumptions. `Backed` adds to `ContextIsBacked`
that every passage kept in the store is on its page, for a later run recalls it unchecked,
and so are the cards of a lookup's first round, which its second round adds to.
`Pursued` says of every stage what `GapsArePursued` says of the last: a gap owed is put
off, at low risk, and is gone once what was put off is looked up. Theorems:
`SpecContextIsBacked`, `SpecGapsArePursued`.

**`PaidUnitProofs`**, under the assumptions of `Preflight`, `ArmUnit` and
`PaidUnit`, for any entries, prices, lines, limits and number of lost attempts.
`UnitImplementsArm` makes what holds of `ArmUnit` hold of a paid unit. `EndInv` relates
each arm's stage to the replies it has and to what the check said, which
`SpecEndingIsEarned` reads at the end; that a draft is delivered over an objection only
when the calls ran out needs `CallLimit > 1`. `MoneyInv` (balances, prices the
preflight accepted, prompts within what it counted) is inductive only with `EndInv`,
whose number of calls the ceiling multiplies; from both, `SpecFundedBySequence`. The
bytes of arm B's growing prompt are within the preflight's count because a tool result
is at least as large as all tool descriptions a unit sends. `SpecUnflaggedIsRatified`
follows a tier-4 arm's pin through the extended line to the tier-3 entry it
copies; `SpecRatesAgree` holds of any catalogue, reached or not.

Model-checked only, with the reason:

- liveness (`DispatchedCallsEnd`, `RunEnds`, `EverySlotFreed`, `RowSettles`,
  `GroundingEnds`), which is out of TLAPS's reach under fairness;
- `FailureIsOwned`, `CountedOnce`, `WatchdogDecides`, `FreeChecksAreFair`,
  and `LoadedIsSchedulable`, which are about folds, filtered
  sequences and fixpoints and so need induction over data;
- `RoutesAreSound`, which is of particular graphs, where a proof would repeat TLC's
  enumeration, which is complete.

## 5. Not modelled, or abstracted

- **Text.** Prompts, the splitting of a request into clauses, the coercion of reply
  shapes, reasons, traces. A quote is where it is found, an ask whether it is listed.
- **The scorers.** `evals/tier2/scorer.py` and `verify_keys.py`: per-question
  text rules and the physics of their keys, pure functions of one answer with no state
  and no two rules alike. The assertions of `evals/assertions.py` likewise.
- **The executor's remarks.** The flags on slow calls and the list of later gates a
  refusal names.
- **Money in the row.** The cost figures of the terminal are left out.
- **Commits** that fail after taking effect. A failed commit leaves no trace.
- **Pipelines inside an experiment.** A unit of arms E and F is its worst case and its
  ends; the walk inside it is `GraphExecutor`'s, checked apart.
- **The sweep without a cap** (`--max-spend-sweep none`), and results files that end in
  half a line.
- **Model suffixes** in the pin gate, and the order in which settings are assigned.
- **Stores.** The vector store, HTML extraction, the episodic record.
- **Authentication, settings, dashboard, CLI, server.** They keep no state of their own,
  or are input and output.

Some assumptions are conditions. In `paid_unit` a tool result is at least as large as all the
tool descriptions a unit sends (`CallLimit * ToolSpecBytes <= ToolResultBytes`), as the
registered sizes are, and a unit has more than one call (`CallLimit > 1`), as the plan's
has. In `suite` the sweep has a cap. `FoldAssumption` is what the four workflow files hold
to; the loader would accept a file that does not.

## 6. Plan

Done, in this order: the spend guard, since every paid step rests on it; the
loader and the executor; the shipped graphs and their promise; admission; the row;
then the judges and their record, grounding, the watchdog and the free checks; the
sweep; the experiments, from gate to report.

Next, most important first:

1. `SpendGuard` composed with `WorkflowRow`: the terminal's figures while gathered
   siblings are still out; doublecheck's total under two callers.
2. `JudgedRun`'s replies inside a run that `Grounding` prepared: what a judge may quote
   is what the context shows.
3. The settings and profile routes against runs in flight; the authentication table.
4. The results file with half a line at its end, under kill and resume.
5. Proofs: `FreeChecksAreFair` for any words and figures, as far as it needs no sums
   over sequences; the pace of `Watchdog` as an invariant of one call after another.
