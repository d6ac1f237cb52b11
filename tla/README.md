# feelies: TLA+ specifications and proofs

`feelies` is an intraday trading platform in Python (`src/src/feelies`). One
deterministic kernel walks every market event through sensors, features,
signals, portfolio construction, risk and execution, in a backtest (a replayed
event log and a simulated venue) or in paper trading (a websocket feed and
Interactive Brokers). This directory specifies what that platform promises: the
life of an order from the kernel to the venue and back, the identity of orders
across crashes, the state machines that decide whether the kernel may trade at
all, the pipeline that decides what to trade, who may close whose position, what
the books say afterwards, and what surrounds a session: data, start-up,
promotion, and the arithmetic of sensors, costs, portfolios and studies.

Contents

1. The system: parts, state, interaction, hazards
2. The modules and how they correspond to the code
3. What the runs check and show; bounds; fairness
4. What is proved, and how
5. Where code and documentation disagree
6. What is not modelled
7. Plan

Paths below are relative to `src/src/feelies/` unless they say otherwise;
`orchestrator` is `kernel/orchestrator.py`. `PROJECT.json` maps every
definition to its source lines and lists hazards, runs, mutants and theorems.

## 1. The system

### Parts

| Part | State | Operations | Correct when |
|---|---|---|---|
| Order tracking and reconciliation (`orchestrator`, `core/order_state.py`, `execution/order_lifecycle.py`) | `_active_orders` (a state machine per order), `_deferred_router_acks`, position store | track and submit, settle (poll, apply, reconcile, prune), drain, cancel, shutdown | every traded share is booked exactly once; an order at work is tracked; a finished one is not |
| IB router and connection (`broker/ib/router.py`, `connection.py`) | `_meta`, `_last_cumulative`, submit, cancel and fill queues, id counter | submit, cancel, poll, callbacks, writer thread, handshake | cumulative reports become deltas; ids name one order |
| Submitted-order journal (`storage/submitted_order_journal.py`) | JSON-lines file, its replay in memory | record attempt, record reject, record id, refuse | no order is sent twice, whatever a crash leaves of the file |
| Kernel machines (`orchestrator`, `kernel/macro.py`, `micro.py`, `core/escalation.py`) | macro, micro and risk level, kill switch, pending sized intents, in-flight flag | boot, run, walk of a quote, flush of intents, escalation, tick failure, halt, unlock, reset | nothing leaks from one quote into the next; lockdown is complete and releasable; a stop stops |
| Simulated execution (`execution/passive_limit_router.py`, `market_fill.py`, `moc_fill.py`, `trading_session.py`) | deferred, resting and closing orders, last quote, pending acks | quote, trade, submit, cancel, expire | acks tell one coherent story of each order; every order ends |
| Horizon scheduler, features, signals, composition (`sensors/`, `features/`, `signals/`, `composition/`) | boundary counters, windows, freshness index, cached bindings, gate latches, barriers, signal buffer | sensor reading, tick, snapshot, signal, context, arbitration | decisions are causal; a closed gate is heard by whoever acts on it |
| Planner, risk, admission (`core/position_manager.py`, `execution/`, `risk/`) | limits, equity, day-trading counters | translate, plan, check signal, check order, scale legs | limits hold for what opens exposure, never for what closes it |
| Exit controllers (`risk/stop_exit.py`, `hazard_exit.py`, `deferral_cap.py`, `exit_composer.py`) | armed exits, open episodes, cool-downs | publish exits on the bus | a position is exited once and never flipped; a deferral ends |
| Positions, lots and money (`portfolio/`, `core/lot_ledger.py`, `orchestrator`) | net and per-strategy positions, FIFO lots, attribution ledger, trade journal | fill, fee, mark, attribute | strategies, lots and journal add up to the position |
| Ingestion (`ingestion/`, `core/data_health.py`) | sequence and dedup cursors, health per symbol, halts, the bounded queue | parse, connect, enqueue, gate, stop; download and resume | events are causal and not repeated; a loss is told; no trade inside a halt |
| Event log and caches (`storage/`, `harness/backtest_runner.py`) | files of a cached day, merged log | save, load, resequence, replay | a replay is whole, healthy and ordered |
| Promotion (`promotion/`, `alpha/registry.py`, `cli/promote.py`) | lifecycle machine, append-only ledger, pinned thresholds | promote, quarantine, retire, restore, replay evidence | memory and ledger agree after a crash; floors hold |
| Alpha loading and wiring (`alpha/`, `bootstrap.py`) | registry, sensors, features, engines, controllers | parse, validate, register, build | what was built serves what it accepted |
| Regime engine (`services/`) | posteriors, calibration, cached state, checkpoint | calibrate, update, publish, detect, checkpoint, restore | departures are called once; a reset replays |
| Sensor and feature mathematics (`sensors/impl/`, `features/impl/`) | windows, running moments, buckets | update, reduce | an incremental value is its definition's |
| Costs and portfolios (`execution/cost_model.py`, `core/cost_model.py`, `composition/`) | none between calls | estimate, gate, charge; rank, neutralise, cap, optimise | estimates cover fills; intents stay within caps |
| Research (`research/cpcv.py`) | splits, paths | split, purge, assemble | a training sees nothing of its test |

### Interaction

In a backtest everything happens on the replay thread: `ReplayFeed.events` sets
the simulated clock, the kernel publishes the quote on the synchronous bus, the
router's `on_quote` runs inside that publication and queues acks, and the kernel
polls and settles them before its next call to the router. In paper trading the
main thread does the same against `IBOrderRouter`, but more threads belong to
the session: `ib-writer` takes orders and cancels off their queues, `ib-msg` puts
the gateway's callbacks on the fill queue, the websocket thread parses messages,
moves the data-health machines and fills a bounded queue of events, and the timer
or signal handler of `scripts/run_paper.py` calls `halt()` at any moment. The
gateway, the journal, the promotion ledger and the event cache outlive the
process, and several backtests may share one cache directory.

### What is hard

Callbacks that carry cumulative quantities and are repeated, late or reordered;
a cancel that overtakes its own submit; fills that arrive on the message that
ends the order; exceptions in the middle of a walk of thirty steps and in the
handler that records them; `halt()` between any two of those steps; a process
that dies in the middle of a journal line, a ledger line or a cached day; a clock
that runs ahead of exchange time while acks are stamped with a latency; handlers
of one event that read a position its own fills have not changed yet; five
controllers that may each ask for an exit of the same shares; an event whose own
reading is published before the snapshot of the boundary it crosses; a halt that
one thread parses and another announces; running sums that must agree with what
is left of their window; a fill divided over strategies that hold opposite sides.
`PROJECT.json` lists them as hazards, each at its line with the properties that
would catch it.

## 2. The modules

    orders      OrderStates ──┬── PaperOrders ───── MCPaperOrders,     PaperOrdersProofs
                              └── SimulatedRouter ── MCSimulatedRouter, SimulatedRouterProofs
                RouterContract ┘ (implemented by SimulatedRouter)
                IBSession ────────── MCIBSession        (PlatformProofs)
    kernel      KernelStates ──── KernelLifecycle ─ MCKernelLifecycle  (EngineProofs)
    decisions   Horizon ───────── MCHorizon,         HorizonProofs
    positions   Planner ── RiskChecks ──┐
                Positions ──────────────┴── Book ── MCBook, BookProofs (on FoldTheorems)
    around the  AlphaSpec ── ConfigFile ── Startup ── MCStartup ──┐  (PlatformProofs)
    kernel      FeedHealth ─┬── LiveFeed ─────────────────────────┼── MCPlatform
                            └── EventStore, Ingestor ─────────────┘
    engines     GateEvidence ── Promotion, Regime,    ─┐             (EngineProofs)
                CrossValidation, Costs, CrossSection,  ├── MCEngines
                Sensors ── Features ── Gates,          │
                Positions ── Accounts ─────────────────┘   AccountsProofs (under BookProofs)

A component that can meet several kinds of trouble has a constant
`Situations`, the set of those that may occur: each is something the
environment, another thread or an exception does. The runs choose them, so
that a property is checked under everything it survives, and a disagreement is
shown by the one thing that causes it.

Parts that share no state are explored side by side by one run: `MCPlatform`
and `MCEngines` have a variable `program`, chosen in the initial state, and one
behaviour runs one part while the others rest. `MCIBSession` does the same with
two installations and `MCKernelLifecycle` with three kinds of day.

### OrderStates

The order state machine (`core/order_state.py`) as its transition table, the
ack statuses, and `ApplyAck`: what one ack does to an order's state
(`_apply_ack_to_order`), including the implied ACKNOWLEDGED and the acks the
table refuses, which are dropped. Shared by both routers' models.

### PaperOrders

The paper-trading order path. `ost`, `active`, `booked`, `deferred` are the
kernel's order machines, the keys of `_active_orders`, the shares in the
position store and `_deferred_router_acks`; `phase`, `expected`, `inbox`,
`batch`, `done` are where the main thread is in a settle; `submitted`, `meta`,
`lastCum`, `pendingAcks` are the router's tables; `submitQ`, `cancelQ`, `fillQ`
the queues; `gw`, `executed`, `reported` the gateway (external).

| Action | Code |
|---|---|
| `TrackAndSubmit`, `TrackAndSubmitFails` | `_track_order` and `IBOrderRouter.submit`, and the failure path |
| `SettleSubmitted`, `CancelResting`, `CancelOrder`, `DrainAsyncFills` | the four callers of a settle |
| `PollFill`, `PollDone`, `RouteAck`, `RouteDone` | `poll_acks` with `_fill_to_ack`; the split into this batch and deferred acks |
| `ApplyAckToOrder`, `ApplyDone`, `ReconcileFill`, `FinishSettle` | apply, book, prune |
| `PipelineError`, `SettleRaises`, `TrackRaises`, `Shutdown` | an exception in an emergency exit, which forces its order terminal and prunes; in any other settle, which books and prunes nothing more; between tracking an order and the router's having it; the end of the session |
| `WriterPlaceOrder`, `WriterPlaceOrderFails`, `WriterCancelOrder` | the writer thread |
| `Gateway*` | TWS, external: trades, reports, ends, informational codes |

`unpruned` is history: the orders of the settles that raised since the last
settle that pruned. `FillToAck` is `_fill_to_ack`: suppression of repeats, the delta against
`_last_cumulative`, the downgrade of an early Filled, and the ends of an order.
Orders are shares of one quantity; prices and fees are left out. One connection
session; ids are IBSession's subject.

### IBSession

Order identity across crashes. The journal file is represented by what its
replay recovers (`onDisk`, `idOnDisk`) and by whether it ends in a line without
a newline (`torn`): the next record is glued to such a line and the replay drops
both. `Crash` loses process memory at any point, `CrashAppending` in the middle
of a record. `Connect`, `NextValidId`, `JournalAttempt`, `RouterSubmit`,
`PollReject`, `PollUnknown`, `Disconnect` and the writer's steps follow the
session of `scripts/run_paper.py`; `placed`, `refused`, `gwNext` are the
gateway's. `MCIBSession` runs two installations: a regular one, with crashes and
torn lines only, and a rough one (`Rough`, an instance of the module with
variables of its own), whose connection drops, whose gateway sends codes that
only inform and may start its ids anew.

### KernelLifecycle

The kernel's control. `macro`, `micro`, `risk` are the three machines (tables in
KernelStates), `pc` the next call of the main thread that changes shared state,
`after` and `ret` where a settle and an escalation return to, `inTick` the
`_quote_tick_in_flight` flag, `pend` the pending sized intents. `breach`,
`held`, `live`, `acked` abstract the book to one symbol: a drawdown breach, an
open position, the kinds of order at work, results applied but not booked.
`halter` is the thread inside `halt()`, one step per statement it executes.
Every call that can raise has an alternative that does, and `Raise` goes to the
handler that is in force there. A state machine tells its handlers before it
commits, so that the recovery of a failing tick (`RecoverMicro`) and `halt()`
(`HaltRaises`) may themselves be cut short. The operator's calls (boot, run, unlock, reset,
recover, shutdown) are possible whenever the main thread is outside a session.

### SimulatedRouter and RouterContract

The backtest venue for one symbol, with the part of the kernel that feeds it. `order[o]`
says in which of the three tables (`_deferred_aggressive`, `_resting_orders`, the
closing queue) the order waits and what is remembered of it; `acks[o]` its queued acks;
`out[o]` the last of them (history). A quote is abstracted to whether it is locked, the
sizes it shows and where it leaves each limit price: through it, away from it, or at its
level, where the seeded Bernoulli trial of the queue may succeed (`drain`). `OnQuote` is
the whole of `on_quote`: each order is handled once (`OrderOnQuote`), according to the
table it was in; `PostPassive` is what `submit` does with a limit that does not cross.
The clock is exchange time plus the feed delay, hence never behind exchange time, which
makes the fill deadline equal to the time stamped on ACKNOWLEDGED. The kernel settles
the acks of one call before it makes the next (`Drained`): `SettleRouterAcks` applies
the oldest queued ack of each order that has one, and acks of different orders do not
meet. `BacktestOrderRouter` is the same without resting orders: requests of kind market
and moc only.

RouterContract states what a kernel may expect of any `OrderRouter`: shares
only grow, up to the quantity; FILLED means complete; a refused, cancelled or
expired order keeps what it has; nothing is said after that. `KeepsContract`
says SimulatedRouter implements it, with the last ack of each order mapped to
the phase of the contract.

### Horizon

The decision pipeline, from the event to the position it opens or closes. A
quote or a trade publishes a reading of its symbol (`SensorFanOut`; warm, cold
or none), which the aggregator and the signal engine take at once, and
`Schedule` computes the ticks of every horizon whose boundary the event
crosses. They are published one by one in the scheduler's order (`NextTick`:
horizons upwards, symbols before the universe), and `PublishTick` is all that
the synchronous bus does with one: snapshots of the symbols that have none for
this boundary (`Aggregate`), the gates of the alphas of this horizon with their
entries and FLATs (`Dispatch`), and, for a UNIVERSE tick, the context and the
intent composed from it (`EmitContext`). `Arbitrate` is the M4 walk that ends a
quote. A trade's signals wait for the next quote with `carry` set. A quote that
the kill switch, the data health or a halt stops only ages the buffer; a print
of a halted symbol only reaches the sensors.

Data is reduced to what the properties tell apart: a reading is its timestamp,
a feature the set of readings it was computed from, a regime what the two
conditions of a gate make of it (`on`, `off`, `hold` for neither, `error` for
an expression that raises), an entry has one direction, and an order fills at
once or is refused. There is one sensor per symbol and one windowed feature of
one sample per horizon. `heard` and `run` are history: all warm readings, and
those since the last cold one. `made`, `announced` and `context` are what the
last step published.

### Planner, Positions, RiskChecks, Book

One symbol's position under everyone who may trade it. **Planner** is
stateless: the intent translator, the planner of legs, what a leg becomes as an
order, and the admission gates that read an order by what it does to the
position. **RiskChecks** is the verdict on a signal and on an order
(`BasicRiskEngine`, the per-strategy wrapper, the scaling of portfolio legs).
**Positions** is the entry of a fill in a position and the largest-remainder
split over slices.

**Book** puts them under the handlers of an event. `book` is what the kernel and
the router hold (net position, slices, tracked and resting orders, queued acks,
working exits with what they filled), `guards` what the stop, hazard, cap and
composer controllers remember of their episodes, and `todo` the handlers the
event in flight still has to run, in the kernel's order. This order is the
point: on a quote the router fills resting orders and the stop controller sees
the quote *before* the fills are booked, and a trade's age and deadline checks
run before the next quote's. `ComposeExit` is the composer's table as an
operator. A desk (`MCDesks`) is the set of participants of one session: stop,
signals and a degraded feed; cap, safety and two strategies; hazard spike and age
with a portfolio; cap, safety and revocation.

### AlphaSpec, ConfigFile, Startup

**AlphaSpec** is what a manifest has to satisfy: the schema, the parsers'
refusals, gates G1 to G17, the cost disclosure and the static analysis of what
inline code reads. **ConfigFile** is the configuration: `from_yaml` with the
files it extends, what is merged and what is replaced, the parsers of its
blocks, the defaults, and what `validate` demands. **Startup** is
`build_platform`, one action per builder, from a configuration or the path of
one: it reads the chain of files (`chain`), checks the environment (`env`: API
key, calendar, normalizer), and loads a directory of alpha files and explicit
files; `sensors`, `features`, `signals`, `universe`, `upstream`, `hazard`,
`detector`, `caps`, `composer` and `stopper` are what the builders made, and a
builder that raises ends the start. Values are present, absent (`Absent`) or of
a wrong shape (`Bad`).

### FeedHealth, LiveFeed, EventStore, Ingestor

**FeedHealth** holds the `DataHealth` machine, the sequence cursor and the halt
codebook, shared by the live path and by the caches. **LiveFeed** is the websocket
thread and the kernel thread with the bounded queue between them: connect, subscribe,
parse, gap and duplicate checks, enqueue, broken sockets, `start`, `stop` with its
sentinels, a task that dies of an exception (no websockets package, or an illegal
transition out of the handler that reports a broken connection) and leaves a sentinel
too, and on the other side the data gate, the announcement of halts, the flatten and the
walk. A health machine is moved by either thread in three steps: it looks at the state,
`transition()` looks again and may raise, and the new state is committed; so whatever
the other thread does to the machine may fall in between. The halt store and the queue
are each touched in one step. `hidden` and `died` are history: the symbols whose HALTED
a report of the websocket thread has overwritten, and that its task ended by an
exception. **EventStore** is a backtest's way to its data: download and normalise or
load a cached day, save it (data file, manifest, two renames) while others do the same
under the same temporary names and may be killed anywhere, merge the symbols, resequence
and replay. A day's manifest carries the health label its writer gave it; the gap
setting the writer normalised under is not stored with it. **Ingestor** is the download
of several symbols with a checkpoint.

### GateEvidence, Promotion

**GateEvidence** is the evidence matrix of `promotion/evidence.py`: which kinds a
gate demands, each validator, the thresholds with the direction in which each is
strict, and the three layers of overrides. Comparisons keep Python's treatment of
NaN. **Promotion** is the registry, the lifecycle, the ledger and the readers of
the ledger; a transition is three steps (ledger line, revocation hook, commit)
and the process may die between them or inside the line. A line carries what the
clock read, which may be less than what an earlier line carries, and the readers
of the command line sort by it (`ByTime`).

### Regime, CrossValidation, Sensors, Features, Gates, Costs, CrossSection, Accounts

* **Regime**: the filter (posteriors of three states in tenths), its calibration
  and emissions, the kernel's gating of duplicates and gaps, the published state,
  the checkpoint taken by a shutdown and restored by a boot, and the detector.
  `traces` is history: what each run announced.
* **CrossValidation**: groups, splits, purge and embargo, reconstruction of paths,
  and the evidence built from them. A return is the pair of the split that measured
  it and its bar, so that a path shows where it came from.
* **Sensors**: the nineteen implementations of `sensors/impl`, kyle_lambda_60s
  with either of its estimators, as `[held, reading]` transformers in exact
  arithmetic: means in sixtieths, decays of one half, and a log-return as the
  difference of two mid levels. Each stands beside a definition of its reading on
  the whole history (`prints`), with one reading left undefined: the first
  of realized_vol_30s after a bad quote.
* **Features**: the windowed, rolling, passthrough and imbalance features over the
  readings of a sensor, beside the same kind of definition.
* **Gates**: the regime gate of one alpha on one symbol. A condition is a syntax
  tree and `_eval_node` its evaluation with the short cuts of the code; names are
  resolved in the order of `_resolve_name`, among margins, live values and
  parameters as `RegimeGate.evaluate` merges them. `Loads` keeps the blocks that the
  validator, the strict `from_spec` and the bootstrap checks accept; `Dispatch` is
  one boundary: bindings from the snapshot, the cache and the regimes, the condition
  of the other position of the latch, and what follows from its value or its error.
* **Costs**: the default cost model, the depth-aware estimate, the minimum-cost
  policy, the round trip the edge gate asks for, and the acks of an aggressive
  fill with their fees. Money in thousandths of a cent.
* **CrossSection**: ranker sleeves with decay, z-scores, one factor, sectors,
  family caps, both optimisers and the recheck in dollars. Published amounts are
  whole cents, rounded where the code rounds, halves away from zero, and once more
  after the shrink. The convex solver is external: it gives each name one of a few
  amounts in half cents (`Answers`), within its constraints, or fails.
* **Accounts**: the net store, the stores of the strategies, the lot ledger, the
  attribution ledger and the trade journal, through orders, fills, fees and marks.
  An order that is cancelled is charged to the symbol, and to its strategy's slice
  if the kernel still knows the order and it names one (`stray` counts the fees of
  the others). The divisions are exact in the instances.

## 3. The runs

| Run | Shows |
|---|---|
| `paper_faulty` | with every race and failure on, no share is booked that was not traded (`NeverOverbooks`), and no terminal order is tracked between settles but those of a settle that raised, until the next one that prunes (`NoTerminalOrderTracked`) |
| `paper_clean` | with late, repeated and reordered callbacks and nothing worse (no overtaken submit, misread code, operator's cancel or exception), kernel, router and gateway track the same orders (`TrackersAgree`) and every order that is over is eventually settled (`EventuallySettled`) |
| `kernel_all` | on a rough or early day (every exception, kill and `halt()` race), no event is taken up with anything of the last one left (`TickLeavesNothing`), RISK_LOCKDOWN implies LOCKED, the escalation is released only with a flat book (`ReleasedFlat`), every walk ends and a `halt()` that has moved the macro machine ends the session (`SessionProgress`); on a calm day (no exception, no `halt()`, the edge gate on, escalations and latency kills as they come) a locked kernel can be unlocked, no applied fill is dropped (`CalmDayKeepsItsBook`) and nothing is opened after a kill (`CalmDayOpensSafely`) |
| `ib` | in the regular installation an order is at work at most once, the replay refuses every order that may be at work and ids are not reused; in the rough one still nothing is sent without a record that survives |
| `sim_router` | the simulated venue keeps the contract, stamps acks in order, ends every order, and the kernel tracks what the venue works and has filled what it filled, but for two named exceptions |
| `horizon` | whichever event crosses which boundaries: snapshots are causal, complete and exactly stale (`SnapshotsFaithful`), gates do not close for a reading the cache should hold (`BindingServed`), every close is heard, no context holds an entry of a closed gate, nothing is opened against a pending exit |
| `platform` | start-up, from a configuration or from a file and those it extends: what was built serves the sensors and features the accepted alphas read, bounds what they defer and covers what they disclosed (`PlatformServesAlphas`). Live feed: a lost message is told before the next is believed, with two losses the code never tells named (`LossTold`), halts are announced as the tape has them, unless a report of the other thread overwrites one, and nothing is walked inside one even then (`HaltsRespected`), a session ends when and only when it is stopped or the task of its feed has died (`EndsWhenStopped`). Caches: a replay is a whole healthy day of one fetch in one order (`ReplayFaithful`). Ingest: what is reported complete is in the log (`CompletedIsHeld`) |
| `book` | slices add up to the position (`BooksAgree`), no exit but a reversal's opens the other side (`ExitsNeverOvershoot`), and a slice deferred past its limit is asked for on the next trade, risk notwithstanding (`BoundedHold`) |
| `engines` | promotion: ledger and lifecycle agree after crashes and torn lines, if no clock stepped back, replayed gates decide as they did, floors and the research cap hold (`PromotionSound`). Regime: departures are called once (`DeparturesCalledOnce`); a run after a reset announces what a cold start does (`ResetReplaysRun`), unless a shutdown left a checkpoint. Studies see nothing of their tests (`StudySound`). Sensors and features have the values of their definitions, and a gate lets an alpha speak only on features that are warm and fresh, is not closed for a missing binding when they are there, and gives no verdict that a missing value could have turned (`ValuesAreDefined`). Estimates cover fills (`EstimateCoversFills`). Intents stay within the cap of a name and of a family, and within the gross budget but for half a cent per name (`IntentWithinCaps`). Books, lots and journal balance (`AccountsBalance`) |
| `paper_cancel_fill`, `kernel_halt_fill`, `ib_warning` | three disagreements (section 5) |

Every property of a passing run has a mutant in `PROJECT.json`: a plausible bug
in one definition under which the same run finds the property violated.

### Bounds

* PaperOrders: two orders, of 3 and 1 shares in `paper_clean` (three shares let two
  different partial reports overtake each other) and 2 and 1 elsewhere; one callback in
  the queue at a time (`MaxQueue`), which loses no order of delivery because the gateway
  itself chooses which report to send next, and may send an old one; two in
  `paper_faulty`, where a settle that raises may have polled one callback and leave the
  other. Two orders are needed because a settle for one polls and defers the acks of the
  other. `MCNext` takes steps of the other threads only while the main thread is idle,
  polling or stopped: routing, applying and booking touch nothing those threads read or
  write, so the steps commute. `paper_faulty` identifies states that differ only in what
  no guard and neither property reads (`MCView`).
* KernelLifecycle: at most two sized intents per quote (`MaxIntents`): the
  second is what a lockdown by the first must not let through. One symbol. The
  rough day has every situation but the early halt; the early day has faults,
  `halt()` and a halt before the trading mode.
* IBSession: two interchangeable orders (symmetry), three process starts in the
  regular installation, two in the rough one, where a reconnect is a further
  session. The third start is what reads a journal whose torn line was written
  over by the second.
* SimulatedRouter: an order of two shares against quotes that show zero or one,
  so that fills are partial, and one of one share that may be a limit or a
  closing order on either side; five instants, latency and delay of one, two
  resting ticks, a closing time within reach. The model is symmetric in the two
  sides, so the first order is a BUY. `Submit` requires that the latency fits
  below `LastTime`.
* Horizon: two interchangeable symbols (symmetry), a standalone alpha and one
  that feeds a PORTFOLIO alpha, both on horizon 2, barriers on horizon 4, six
  instants, three events, and both ways to set the grid: an open time, which
  events may precede, and the first event. Three events reach what the
  properties are about: one arms a gate and opens a position, the next crosses
  one or both boundaries on time or late, the third acts on what was left. No
  alpha is decoupled in the run; the theorems cover both kinds.
* Startup: two SIGNAL alphas and a PORTFOLIO alpha, each with every single
  departure a gate or a parser looks at (`MCStartup`), on a configuration with
  every single departure of its own, with the layer gates and the pruning of
  sensors on and off. Gates read one block of a manifest at a time, so pairs of
  departures add little. Configuration files: one that says all of it, children
  and grandchildren with one departure each, a loop, missing and unreadable
  bases, and chains of sixteen files, which are read, and of seventeen, which are not.
  Environments: each of key, calendar and normalizer present, absent or wrong.
* LiveFeed: one symbol (no two symbols share state but the queue), a queue of one
  event, two messages and one disturbance or restart. A queue of one is always
  about to overflow, and one disturbance is what separates what the feed sent
  from what was believed; it is enough for a halt to meet a gap between look and
  commit. The vendor may also repeat a number, send it without
  one, or corrupt a payload.
* EventStore: two backtests, one crash anywhere, a day of one or two symbols, and
  vendor answers that differ between fetches. Two writers of one day are what the
  temporary names can confuse.
* Ingestor: single-symbol calls, which is how the harness uses it. See section 5
  for calls with several.
* Book: two strategies and a portfolio that hold up to two shares each under a
  limit of three, prices of one, four events (`MaxNow`), one refusal by the
  router; four desks that each bring together participants who meet on an event.
  Two shares let a fill be partial and an exit be too large. Hard ages and
  deferral limits (3, 2) fall inside the four events.
* Promotion: one alpha, five ledger lines and one crash or failing write; the
  submissions reach every validator from either side of its threshold. The third
  line may be stamped earlier than the two before it (`MCClockReadings`).
* Regime: every tape of five quotes of two symbols, with locked and late quotes,
  run twice in one process. CrossValidation: up to eight bars, five groups,
  horizon and embargo two.
* Sensors: every sequence of five events of a sensor's own kind, gaps of one and
  three units against windows of three, buffers of two, buckets of
  three and grids of two and of three (`BarLengths`): each event may evict none,
  some or all of what was kept and close one bar or several. Features: four
  readings, windows of two. Gates: conditions on posteriors, the dominant state,
  entropy, features, z-scores and a raw sensor, with margins and parameters and
  with each way to fail; features that are fresh, stale or cold; no regime, a
  usable, an uncalibrated, an indiscriminate one, and two engines. Any number of
  boundaries.
* Costs: touches of zero to two hundred shares, spreads of one and four cents,
  quantities of one, a hundred and three hundred: below, at and above the depth.
* CrossSection: three symbols, all, some or none of them in one sector, two families and
  an exit-only one. The forecasts of one symbol take every form two feeders can give
  them (long, short, none, fresh or old), those of the two others a few, under funds
  with and without each stage. The solver may give a name nothing or, on either side,
  one of three amounts about the caps of the funds, two of them half a cent off a whole
  one (`MCAnswers`); a fund of 1001 cents puts the rounded sum over its budget, so that
  the shrink is taken.
* Accounts: two strategies, at most two shares on either side, four entries, two
  prices: enough to open, add, reduce, flip and split one fill over two holders.

Deadlock is checked for the kernel (the operator can always shut down, and
shut-down is a loop) and for the book (which stutters only when its instants are
used up), and not for the others, where a session that is over has nothing left
to do.

### Fairness

* PaperOrders: `WF(Settle)`: the main thread finishes a settle it has begun.
  `SF(DrainAsyncFills)`: every quote and every idle tick begins with a drain.
  `SF(PollDone)`: `poll_fills` empties a queue that callbacks may refill, so
  this excludes a gateway that for ever delivers faster than it is polled; the
  code has no bound there, and the hazard is listed.
* KernelLifecycle: `WF(Main)`, `WF(Halt)`: both threads are scheduled. Nothing
  is assumed of the operator or of the market.
* SimulatedRouter: `WF(MarketMoves)`: the replay keeps quoting the symbol, in
  exchange time that goes on; `WF(SettleRouterAcks)`: the kernel polls.
* LiveFeed: `WF(KernelThread)`: the kernel thread is scheduled. Nothing is assumed
  of the websocket thread, the vendor or whoever calls `stop`.

Book, the engines and the other programs have safety properties only;
`BoundedHold` is an action property: the trade that comes after the limit asks
for the exit, and no fairness is needed to say so.

## 4. What is proved

TLAPS checks these theorems for every value of the constants that satisfies the
named assumptions (a non-zero quantity per order, tapes that are sequences, and the
types of the other parameters). A theorem that needs more says so in a named
hypothesis; each hypothesis is one the run satisfies, and section 5 has the
behaviour it leaves out.

* `PaperOrdersProofs`: `TypeCorrect`, `NeverOverbooksTheorem` and
  `NoTerminalOrderTrackedTheorem`, under every combination of situations.
  `NeverOverbooks` compares what is booked with what is traded, and between the two
  there are callbacks, polled acks, the batch and the deferred acks. The inductive
  invariant gives each ack a range of shares, `cum - qty .. cum`, and says that acks of
  one order in this pipeline cover disjoint, increasing ranges above what is booked and
  below what is traded; that deferred acks never belong to the orders a settle expects
  (so the order of two lists cannot be inverted); and that the router's last cumulative
  quantity bounds all of them while it still knows the order. For the orders tracked,
  `PrunedOK` says that a tracked terminal order belongs to the running settle or to one
  that raised, and that the latter takes a raising pipeline. `TrackersAgreeTheorem` has
  the hypothesis `Undisturbed`: cancels that come too late and fills that beat them, but
  neither overtaken acks, misread codes, an operator's cancel nor a pipeline fault, each
  of which makes a tracker lose its order. Its invariant (`TrackingIInv`) says what
  kernel, router and gateway know of one order at each point of the pipeline: an order
  the kernel tracks is one the router still has, or one whose terminal ack is on its
  way, exactly one and behind every other ack of that order.
* `SimulatedRouterProofs`: `InductiveInvariant`, `AckTimesTheorem`,
  `ContractTheorem`, `KernelAgreesTheorem`, for every latency, delay, session,
  set of sizes and configuration. The invariant relates the last answer given to
  where the order is kept: the answer reports exactly what is filled and is not
  later than any answer still to come; an order that was let go of has had its
  terminal answer, FILLED if and only if complete. The refinement follows by
  cases on what one call does to one order. For the kernel's half, `Line` tells
  the story of one order from both ends: what the kernel has booked and the acks
  still queued give, applied in their order, what the last answer says. Settling
  keeps the line and empties the queue, so that agreement is what is left of it.
* `HorizonProofs`, for every universe, grid, set of alphas and bound
  (`HorizonAssumption`: horizons are positive and one of them is the longest). The
  invariant says that a pending tick's boundary is at most one horizon behind the event
  (`PendingCrossed`, from the division in `on_event`), that windows hold every reading
  of the last horizon and the freshness index every reading of the last two longest
  ones, and that an entry waiting in the synchronizer has its gate ON. Staleness is
  where they meet: a boundary is less than `h` behind the event and asks for readings up
  to `h` older, hence for less than two horizons, which is what the index keeps; one
  horizon would not do, and its mutant shows it. `SnapshotsTheorem` puts window,
  staleness and barrier together; `NoEntryTheorem` and `ClosesTheorem` follow from the
  invariant. `BindingTheorem` needs `Bridged`: the cache of two readings holds the last
  reading of an unbroken warm run and the one before it, every boundary up to the grid's
  position has had its tick, hence only the crossing reading can be later than the
  boundary and the other one bridges it. `OpensTheorem` needs `Waiting`: what the
  arbitration finds in its buffer is of this event and of a gate that is ON, or was left
  by a trade and is not older than its horizon.
* `EngineProofs`.
  *Promotion* (`PromotionInductive`, `PromotionIsSound`), for any alphas, platforms,
  manifests and submissions and any number of lines and faults. Its assumption
  (`PromotionAssumption`) types the parameters and keeps `None` and the unreadable
  line apart from what they stand beside. `PromotionInv` has three parts that need
  each other. `RegistryInv`: a registered alpha is in a state its history leads to,
  under thresholds no looser than those pinned when the platform was built.
  `FlightInv`: a transition in flight starts from the state its alpha is in, is one
  the research cap allows, and was let through by its gate (`Granted`), evidence and
  thresholds with it, which is why a replay that reads the evidence back decides the
  same. `FileInv`: as long as every line is whole, the entries of an alpha are what
  the ledger held when it registered, its history, and the transition in flight once
  that is recorded (`Tells`). It holds through a crash between the line and the
  commit, a line that tears, a write or a hook that fails, a checkpoint restored
  into a new process and alphas that come and go. `MetadataReadable` is where the
  gates' replay meets the registry: what was written for an entry is the evidence it
  was judged by. The readers sort by timestamp, so that what they tell is the
  history of an alpha whose clocks never stepped back (`InOrder`, part of the
  property): a sort of rows that are in order changes nothing, because exactly
  k - 1 rows are before the k-th.
  *Cross-validation* (`StudiesAreSound`), for every series, number of groups, purge and
  embargo. `StudyInv` says that the splits are those the study configures and that
  what was built was built from splits measured in full: a fold that raised for one
  bar is noticed because its measurements are fewer than its bars, and from whole
  measurements every path covers every bar once.
  *Regime* (`DepartureTheorem`, `ResetTheorem`), for every tape, floor and number of
  runs. `RegimeInv` says that what the kernel holds of a run is what
  that run announced: the last announcement of each symbol, and the departures
  called and not yet taken back, which is `suppressed`. For the reset, an
  announcement is a function of the tape and of the announcements before it, so
  two runs that both began with nothing coincide as far as both have got (`Cold`).
  *Kernel* (`TypeCorrect`, `TickLeavesNothingTheorem`, `LockdownMeansLockedTheorem`,
  `ReleasedFlatTheorem`, in both modes). The invariant ties every label to the quote in
  flight: where an exception is caught by `_process_tick`, where intents may pend, and
  that an escalation touches macro state and kill switch only once it is LOCKED. What a
  recovery that itself raises leaves behind is allowed only where no further event is
  taken up before the next session begins with a reset (`Stopped`). `CalmDayTheorem` and
  `CalmOpensTheorem` are about the calm day (`CalmSession`: no exception, no `halt()`,
  the edge gate on, paper mode; latency kills and escalations as they come).
  `CalmMacro`: the event in flight finds the trading mode, or the lockdown it led to
  itself, and then LOCKED is on its way. `CalmFills`: an applied fill reaches the book
  by a legal transition. `CalmOpens`: whatever shuts the kernel in the middle of a quote
  is a breach the risk checks still ahead will see, and they refuse what opens.
* `PlatformProofs`.
  *Feed* (`FeedTellsLoss`, `FeedRespectsHalts`, `FeedEndsOnlyWhenStopped`), for
  every interleaving of the two threads and every bound. `OwedOK`: the cursor
  stands before the number of a lost message until the feed has been told, or
  the websocket thread is about to tell it (`move`). `HaltsOK`: until the kernel has
  processed the last print of a symbol that changed its halt, that print is on
  its way, in the queue or in the kernel's hands. `SentinelsOK`: what ends the
  stream was put there by a stop or by a task that died.
  *Store* (`WholeDaysServed`, `HealthyDaysReplayed`). `PapersOK`: whatever lies
  under a temporary or a final name is a whole answer of the vendor with the label
  its writer gave it, or cannot pass for one, through crashes between any two
  renames and concurrent savers. `HealthyDaysReplayed` has the hypothesis
  `GapsAgree`: backtests that share a cache normalise with one gap setting.
  *Ingest* (`CompletedHeld`), for calls of one symbol each (`OneAtATime`).
  *Start* (`StartupTheorem`), for every configuration, file, environment and set of
  alpha files. `Wired` states for each builder that what it found when it
  ran is still true of what the later ones see: a registered alpha passed G12 and
  G17 with its own parameters, the sensors it reads were made before the signal
  layer looked for them, caps cover what the signals may defer, and a
  configuration that is replaced on the way keeps its health rows and its anchor.
  Its one assumption (`StartsAssumption`) is about the fields of a configuration
  that is handed in instead of read.
  *Gateway session* (`NeverPlacedTwiceTheorem`, `WriteBeforeWireTheorem`,
  `IdsNeverReusedTheorem`), for any number of orders and restarts, with
  situations `torn` and `resubmit` (`Regular`); the others break them
  (section 5). The invariant's least obvious part is `Counters`: a session never
  runs on a torn file, because the record of the handshake is written first and
  is the one a torn line swallows. `RoughTheorem` has every situation on: the id
  counter is unset from a disconnect to the next handshake, without an id
  nothing is queued, and the handshake's record again takes the damage of a torn
  line before an order's record can.
* `AccountsProofs`, for any strategies, prices, fees, sizes and number of entries
  (`AccountsAssumption`: the order of the strategies names each of them once).
  `LotsAndJournalAgree` needs no more than that: the open lots, at what they cost and
  less what they earned, come to the cash that was paid; lots and slices hold the shares
  of the symbol and the slices its fees but for `stray`, and the journal has every
  share, profit and fee of every slice but the fees counted in `unfilled`. The averages
  of `MemoryPositionStore` come from a division, in 28 digits in the code and in whole
  numbers here. `AccountsTheorem` is all of `AccountsBalance` under the hypothesis that
  they divide (`AveragesDivide`), as they do with the prices of the run; `Fraction` is
  chosen for that. `AccountsInv` has one part for each thing two books must agree on
  (`Balanced`, `Told`), the types that go with it (`Typed`: lots are all on one side)
  and the records of open orders (`OrdersOwn`); `CashInv` is what depends on the
  averages. One entry is followed by the legs it has (`LegsFor`): what it brings each
  book is, over the strategies, the fill and its fee (`Brings`, `FillBalances`). That
  needs the shares of a split to add up (`RemainderSplitAddsUp`: the units left over are
  as many as the sum of the remainders divided by the sum of the weights, each goes to a
  remainder of its own rank, and ranks are distinct), nobody to get a unit of nothing
  (`NothingForNothing`), the cents of a fee to add up (`FeesAddUp`), a forced fill to
  find enough to close (`ForcedFillShared`), and a walk along the lots that accounts for
  every share of a fill, matched or not, whichever way it ends (`LotsFilled`). For the
  equity, a slice is worth its shares at the ask, less the spread on those it is long
  (`EquityIs`); what is left between the sum of that and the same for the symbol is the
  spread on the shares strategies hold against each other.
* `BookProofs`: `BooksAgreeTheorem`, for any ids, targets, limits, prices and ages
  (`BookAssumption`: every order is booked under an id of the list, which names each
  id once). An order that names no strategy is split over the slices by largest
  remainders, which adds up (`RemainderSplitAddsUp`). The split has slices to go to
  (`Sound`): an answer that is still to be polled and an order that rests belong to
  orders that own one slice (`RestOwned`, `AcksOwned`), because only entries and
  signals rest; every other fill is booked while it is sent, for a position that is
  not flat then, so that some slice holds the symbol. `RestOnce` and `RestOpen` keep
  the ids of the orders apart: a resting order rests once and has no terminal answer
  yet, `Tracked` that a new id is new. All the controllers reach the book through the
  same few operations, each of which has its lemma.
* `FoldTheorems` has what these proofs need about `FoldLeft`: a fold over a sequence is
  the last value of a walk along it (`Walk`), hence what holds at first and is kept by
  every step holds at the end (`Keeps`), and one more element is one more step
  (`OneMore`). Step and property are constant operators of the module, given by
  INSTANCE, which takes the place of an induction principle over data.

Only model-checked:

* liveness and everything under fairness (`EventuallySettled`, `SessionProgress`,
  `EveryOrderEnds`, the half of `EndsWhenStopped` that a session does end): the
  provers have no ENABLED;
* `ExitsNeverOvershoot` and `BoundedHold`: they are about several handlers of one
  event, what each read before the others traded and which episode a deferral counts
  from. The first is not true without bounds on what happens together: an emergency
  flatten leaves resting orders at work (section 5), so that its invariant has to
  tell which of the orders ahead may still trade; `BooksAgreeTheorem` has the part
  they share;
* `EstimateCoversFills`: products of variables under nested divisions, of a depth that
  is a fold, which the arithmetic of the provers does not decide;
* the part of `ReplayFaithful` that compares the order of two replays: what a sort
  makes of every input;
* `ValuesAreDefined` and `IntentWithinCaps`: Gates and CrossSection have recursive
  operators (a syntax tree, an iterated cap), which the provers do not read;
* that the averages of Accounts divide: a fact about the numbers of an instance.

## 5. Where code and documentation disagree

Shown by runs:

* `paper_cancel_fill` (`broker/ib/router.py:350`): shares traded since the last
  report that arrive on a Cancelled or Expired callback are not booked.
* `kernel_halt_fill` (`orchestrator:5103`): `halt()` between applying and
  booking makes the POSITION_UPDATE transition illegal, and an applied fill is
  not booked.
* `ib_warning` (`storage/submitted_order_journal.py:145`): an informational code
  journals REJECTED for an order that works on, which a restart sends again.

Met while modelling, most of them as counterexamples to a stronger form of a
property, and described here rather than kept as runs. A property that would fail
on one of them names it as an exception or its instance leaves the cause out; it
says which.

**Orders**

* A cancel queued behind its own submit can be written first
  (`broker/ib/connection.py:333`; the comment at 329-330 calls draining cancels
  first "a throughput fix, not a correctness one"): the gateway answers that it
  does not know the order, the router makes REJECTED of it, and the submit that
  follows places an order that works untracked. This is situation `overtake` of
  PaperOrders, under which `WorkingOrderTracked` fails; `paper_clean` leaves it out.
* An operator's cancel that meets EXPIRED, REJECTED or a partial fill leaves the
  order in CANCEL_REQUESTED, which takes none of them (`core/order_state.py:72`);
  `paper_clean` has no such cancel.
* A settle that raises outside an emergency exit (a handler of the published ack,
  the POSITION_UPDATE transition, `orchestrator:5091-5116`) skips what follows:
  the acks it polled are lost, nothing is pruned, and an order that was just
  applied stays in `_active_orders` as FILLED until the next settle that completes.
  The flatten of a degraded feed swallows such an exception (2830-2885) and the
  session goes on. `NoTerminalOrderTracked` names these orders (`unpruned`).
* `broker/ib/router.py:288` makes REJECTED of any order-scoped code, although the
  comment at 47-48 speaks of reject codes only.
* A reconnect resets the id counter and keeps the queues, so ids are reused
  (`broker/ib/connection.py:168`, against 371-373 and 207-209), and the
  high-water mark on disk is the handshake's value only (`:270`). Hence the rough
  installation checks only what survives this.
* A REJECTED order submitted again becomes UNKNOWN for ever once the duplicate
  guard refuses it (`submitted_order_journal.py:139`, against 4-5).
* SimulatedRouter's two exceptions. `CancelledUnheard`: the router cannot cancel
  a deferred MARKET order, `order_lifecycle.cancel_order` settles the cancel
  locally (`:59`), and the fill that follows is refused as one of an unknown
  order. `RestRefused`: the session gate looks at the whole request
  (`execution/trading_session.py:138`), so after a partial through-fill the rest
  of a reducing order counts as an entry and is refused once the session is
  over, although the module's header (lines 5-6) says that exits are always
  permitted; the REJECTED ack is dropped, because PARTIALLY_FILLED does not
  take it, and the kernel tracks the order for ever.

**Kernel**

* A cost breach that trips the kill switch in a quote's drain does not stop the
  same quote from sending an opening order (`orchestrator:713`;
  `core/kill_switch.py:6`, `monitoring/in_memory.py:209`). The calm day has no
  cost breach.
* A backtest whose PORTFOLIO path escalates ends DEGRADED and LOCKED, and neither
  release call accepts that (`orchestrator:3681`).
* The emergency flatten leaves resting orders at work (`orchestrator:2511`).
* A PORTFOLIO breach does drive RISK_LOCKDOWN (`orchestrator:3960`), which
  `kernel/macro.py:12-14` excludes.
* A halt request that arrives between the test and the trading mode is lost
  (`src/scripts/run_paper.py:265`, against line 80): the early day.
* The recovery of a failing tick resets the micro machine, which tells its
  StateTransition handlers before it commits (`core/state_machine.py:229`). One
  that raises leaves the machine and the pending intents of the failed tick as they
  were (`orchestrator:4092-4114`); what keeps them from the next event is that the
  loop ends and the next session starts with a reset, which `TickLeavesNothing`
  says. A handler that raises inside `halt()` leaves the session running if
  the macro transition was not committed: `SessionProgress` counts only a halt
  that was.

**Decisions**

* When one quote closes the gates of two symbols with open positions, the
  arbitration takes one of the two FLATs and clears the buffer: the other
  position is not exited by the signal path, and its latch is already OFF.
  `composition/selection_policy.py:33-37` says of FLAT that any alpha emitting
  it "triggers an immediate exit regardless of competing directional signals".
* An entry that a trade left in the buffer is acted on by the next quote
  although its gate has closed in between: the FLAT was dropped as redundant,
  because the book is flat and the alpha has not filled (`orchestrator:5458`).
  `OpensSafely` names this exception (`carry`).
* `HorizonTick.timestamp_ns` is the time of the triggering event
  (`sensors/horizon_scheduler.py:334-373`); `src/docs/three_layer_architecture.md:1904`
  says it "carries the *boundary* timestamp". Windowed features filter by the
  boundary, which `WindowCausal` shows; rolling and passthrough features use the
  crossing event's own reading, although `core/events.py:664-666` calls `asof` the
  "exact event-time boundary used for feature as-of math".
* The reading of the crossing event evicts by its own time before the boundary
  is evaluated, so readings in the first part of the boundary's window are lost
  when the event is late; `WindowCausal` states what is left.
* `composition/synchronizer.py:234` says that signals from an earlier boundary
  are dropped; one is counted as long as it is not older than the horizon.
* A margin "intentionally overridden" onto a feature's name
  (`core/regime_gate.py:652-656`) does not override one that ends in `_zscore` or
  `_percentile`: `_resolve_name` reads the published value, and
  `binding_identifier_names` takes the name out of the set that must be warm and
  fresh. The same set loses a feature that has the name of a state some `P(...)`
  mentions (582-583). Either lets an alpha speak on a feature that is not ready
  (`GatesReadWhatIsReady` is violated by such a block); the blocks of the run have
  neither.
* `ofi > 1 or P(normal) > 0.5` turns ON without a usable regime when its first
  operand holds, while `_regime_unusable_reason` (349-352) speaks of
  "regime-dependent gates to fail closed": written the other way round it does.
* Two prints of a halted symbol after a boundary push the causal reading out of
  the two-deep cache of the engine, and its gates close for a missing binding.

**Positions and exits**

* A reversal sizes its exit before the symbol's resting orders are settled
  (`orchestrator:2239`, 2246-2261), although 5071 promises that the store is
  current before new legs are submitted: the exit may take more than is left.
  `ExitsNeverOvershoot` leaves reversals out.
* The deferral cap is "scoped to the **strategy slice**" (`risk/deferral_cap.py`,
  7-10), but its HARD_EXIT_AGE orders are not self-attributed
  (`core/forced_exit_reasons.py:6-13`), so their fill is split over every slice of
  the symbol (`orchestrator:240-246`). `BoundedHold` speaks of the shrinking of the
  slice only when the reason names it as its own.
* After a HARD_EXIT_AGE the next open of the same strategy is never aged again in
  that session (`risk/hazard_exit.py:185-187`), against 273-277.
* A slice that changes side before a trade has seen it is taken for a new episode
  on the next OFF, one that is closed and reopened before a trade inherits the
  anchor of the old one. `off` and `flipped` of Book record which of the two is in
  force for `BoundedHold`.
* Working-exit fallbacks, forced flattens and degrade fills are entered in slices
  of their own, so a strategy's slice may outlive the position behind it. The net
  is right (`BooksAgree`); a second hazard policy that fires on the same event
  shares the first one's order id and is dropped.
* Fees of orders that end without a fill are booked but never journaled
  (`orchestrator:453-487`); `AccountsBalance` counts them in `unfilled`. The
  attribution record of a cancelled order is never removed.

**Costs and portfolios**

* The simulated fill charges a spread floor (`cost_min_spread_bps`, 0.3 by default)
  beside the half-spread that is already in its price (`execution/market_fill.py:3-4`);
  the estimate of `core/cost_model.py:104-121` charges it instead. The slack of
  `EstimateCoversFills` is that floor, the rounding and one tick per excess share.
* `composition/cross_sectional.py:112-116` says that the edge of an offsetting
  signal must not credit the leg. De-meaning or neutralising can turn a leg
  against its own net score, and it still carries that edge to the cost gate
  (`composition/engine.py:450`).
* Names the optimiser zeroes are omitted from the intent
  (`composition/turnover_optimizer.py:264`); risk reads an omission as hold while
  `expected_turnover` counts it as closed, so "a one-sided sector is flattened"
  (`composition/sector_matcher.py:4`) is true of targets, not of positions. The
  caps of `IntentWithinCaps` are those of the targets.
* Targets are rounded to cents after they were scaled to the budget, and what is
  over it is scaled and rounded again (`composition/turnover_optimizer.py:56-65`,
  264-271): three equal weights on 2000.00 get 666.67 each, 2000.01 in all, and the
  second pass returns the same. The gross budget is exceeded by up to half a cent
  per name; `IntentWithinCaps` allows for that.

**Regime and promotion**

* A shutdown stores a checkpoint that `reset` never clears and the next boot
  restores (`orchestrator:3710`, 5203, 3526), against the promise of a reset that
  replays; and `RegimeEngine.restore` empties what its doc says it rolls back
  (`services/regime_engine.py:87-95`). `ResetReplaysRun` is stated for runs without
  a checkpoint before them.
* `quarantine` "must succeed", but evidence that fits two gates raises
  (`promotion/lifecycle.py:370`, 396); `feelies forensics circuit-breaker --apply`
  never demotes; evidence with a NaN passes validators that test `value < limit`;
  the legacy evidence path bypasses the pinned floors, and `replay-evidence` judges
  by the default thresholds. `PromotionSound` is stated for evidence whose kinds
  fit one gate, counts a NaN as the code does, and compares replayed decisions with
  thresholds not looser than the defaults.
* The command line sorts the entries of an alpha by `timestamp_ns`
  (`cli/promote.py:268-269`, 399-403), which is the wall clock's, or a simulated
  clock's that starts at 0 in every process (`core/clock.py:27`, 39). After a clock
  has stepped back it shows an older state or tier than the lifecycle has, against
  the docstring's "so a ledger replay agrees with the live state machine"
  (`cli/promote.py:261-263`). `LedgerAgreesOnTier` speaks of alphas whose entries
  are in the order of their timestamps (`InOrder`).
* A minimum of `cost_floor_bps` that is written as text is not compared with the
  disclosed cost (`alpha/layer_validator.py:811-812`), but the loader reads it as a
  number (`alpha/loader.py:1334`). `numeric` in AlphaSpec is this exception.
* An append to a ledger whose last line is torn is glued to it and lost with it,
  and readers stop there. `LedgerTellsHistory` speaks of ledgers without such a
  line.

**Data and start-up**

* The data-health machines are moved by both threads, though their docstrings
  speak of one, and neither holds a lock between its look at the state, the check of
  `transition()` and the commit (`ingestion/massive_normalizer.py:853-857`, 945-949;
  `core/state_machine.py:177-198`). A gap or an interruption that was seen before
  the kernel committed HALTED overwrites it: the machine says GAP_DETECTED, the halt
  store that the symbol is halted, and the kernel, which compares the two, degrades
  at the next event of the symbol. Nothing is walked inside the halt even so
  (`NoTradeInsideHalt` has no exception); `HaltFollowsTape` leaves such symbols
  out (`hidden`).
* Two losses are never told, and `LossTold` names both. A message without a number
  stores 0 as the last number seen (`ingestion/massive_normalizer.py:885`), after
  which the next one is compared with nothing (847): what was lost before is not
  noticed. And a frame in the hands of a task that ends is gone with it.
* The task of the feed ends by itself when the websockets package is missing
  (`ingestion/massive_ws.py:262-267`) or when the report of a broken connection meets a
  machine the kernel has just moved (283). It posts a sentinel (228-236), and the
  session ends without a stop, although `events()` says that it terminates when `stop`
  is called and the sentinel received (96-97). If the queue is full at that moment there
  is no sentinel either, and the session idles until somebody stops it, against the
  comment at 211-212 that the stop event is already set. `EndsWhenStopped` names a task
  that died.
* A socket that closes cleanly is reopened without telling anyone;
  frames that arrive while subscribing are swallowed; only the immediately
  preceding number is recognised as a repeat.
* A symbol that is halted and corrupted at once makes the kernel raise on the next
  print; a print dropped from the full queue leaves the symbol marked.
* Concurrent savers of one cached day share their temporary names
  (`storage/disk_event_cache.py`); a load that finds a mixture re-downloads. The
  manifest is read a second time after the load, so a save in between may have
  replaced it (`raced` in `OnlyHealthyReplayed`). A day
  that was CORRUPTED when it was normalised is cached and reused. The label
  is that of the gap setting its writer normalised under, which is not stored
  with it: a backtest that checks gaps replays as healthy a day labelled by one that
  does not. `HealthyDaysReplayed` has this as its hypothesis (`GapsAgree`).
* A call of `ingest` for several symbols that is interrupted loses what its
  scratch log held and skips, on the retry, the symbols already marked. The
  harness passes one symbol at a time, and so does the run (`OneAtATime`).
* In paper mode `registry.active_alphas()` is empty while the exit controllers are
  built, so none of hazard exit and detector exists (`bootstrap.py:1420`, 1813).

## 6. What is not modelled

* Floating point: rounding error, the periodic recomputation of running sums and
  the divisions by nearly zero that guard against it. Sensors and features are
  checked in exact arithmetic.
* The parsing of YAML and of gate conditions and the sandbox of inline code: pure
  functions of text. Gates has the conditions as trees, Horizon takes what a
  condition makes of a regime, AlphaSpec what the static scans learn of the code.
* The statistics of `research/` other than cross-validation and of `forensics/`
  other than the cost breaker: closed formulas over recorded results, without
  state or order.
* The edge tilt of the sizer, the netter's shadow book, borrow and locate services
  beyond their answers, calendar days other than the running one.
* Reports, argument parsing, session recorders, metrics, the conformance and
  architecture tools under `src/tools` and `src/scripts`: output, or checks of the
  source; they change no trading state.
* In Horizon: sensors with several versions or tuple values, feature classes other
  than the windowed one (Features has their values), directional exits and
  reversals between two alphas (Book has them).
* In Book: more than one symbol, prices other than one (Accounts has the money of
  one symbol), paper trading, whose asynchronous fills are PaperOrders'.
* In SimulatedRouter: the refusal of a repeated id (the kernel submits an id
  once), more than one symbol (the router's tables are per order and its handlers
  filter by symbol). In IBSession: a writer that survives its own disconnect.
* The optimiser's convex solver is external. It gives each name one of the amounts
  of `Answers` in half cents (seven in the run), keeps its constraints exactly (the
  code leaves it a tolerance of one part in 10^8 of the capital) or fails; budgets
  and caps are whole cents.

## 7. Plan

Done: all modules of section 2, with the proofs of section 4. What is left, in
this order:

1. **Proofs about Book and Accounts**: `ExitsNeverOvershoot` for any number of
   handlers, on top of `Sound`; `BoundedHold`; and how far `AccountsBalance` can be
   off where the averages do not divide.
2. **KernelLifecycle with Book**: the flush of sized intents with positions of
   several symbols, in place of the abstract `breach` and `held`.
3. **PaperOrders with IBSession**: fills that arrive after a restart for orders of
   the session before it.
