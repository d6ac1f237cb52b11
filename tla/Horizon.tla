------------------------------ MODULE Horizon ------------------------------
(***************************************************************************)
(* The decision pipeline between the market-data event and the order:      *)
(* sensors, HorizonScheduler, HorizonAggregator, HorizonSignalEngine with  *)
(* its RegimeGates, UniverseSynchronizer, CompositionEngine, and the       *)
(* signal buffer of the Orchestrator with its selection policy.            *)
(*                                                                         *)
(* Everything runs synchronously on the thread of the tick loop.  An       *)
(* event publishes its sensor readings and its regime, the scheduler       *)
(* returns the boundaries it crosses, and their ticks are published one    *)
(* after the other; each runs the aggregator, the engine and, for a        *)
(* UNIVERSE tick, the synchronizer to the end.  A quote then arbitrates    *)
(* the buffered signals; a trade leaves them for the next quote.           *)
(*                                                                         *)
(* Time is event time in units of the grid.  A sensor reading is known by  *)
(* its timestamp, a feature by the readings it was computed from, and a    *)
(* gate by what its two conditions make of the regime.                     *)
(***************************************************************************)
EXTENDS Integers, Sequences, FiniteSets

CONSTANTS
    Symbols,          \* the universe of the platform
    Alphas,           \* the registered SIGNAL alphas
    Horizons,         \* horizons_seconds of the grid
    AlphaHorizon,     \* the horizon of each alpha
    Upstream,         \* alphas a PORTFOLIO alpha depends on; the others trade alone
    Decoupled,        \* alphas registered with decouple_gate_close
    ContextHorizons,  \* horizons of the PORTFOLIO alphas
    MinSignals,       \* completeness threshold, as a number of symbols
    SessionOpens,     \* configured session_open_ns; None binds the first event
    Regimes,          \* what the gate conditions make of a regime
    MaxTime,          \* bound on event time
    MaxEvents,        \* bound on the number of events
    Universe,         \* the scope of a UNIVERSE tick
    None

(* A signal is an entry or the FLAT of a gate close; `carry` marks one that a *)
(* trade left for the next quote (_carryover_signal_sequences).             *)
Signal == [alpha : Alphas, symbol : Symbols, dir : {"ENTRY", "FLAT"}, at : Nat, carry : BOOLEAN]

ASSUME HorizonAssumption ==
    /\ IsFiniteSet(Symbols) /\ Symbols # {}
    /\ Horizons \subseteq Nat \ {0}
    /\ \E h \in Horizons : \A g \in Horizons : g <= h
    /\ AlphaHorizon \in [Alphas -> Horizons]
    /\ Upstream \subseteq Alphas
    /\ Decoupled \subseteq Alphas
    /\ ContextHorizons \subseteq Horizons
    /\ MinSignals \in Nat
    /\ SessionOpens \subseteq (Nat \ {0}) \cup {None}
    /\ Regimes \subseteq {"on", "off", "hold", "error"}
    /\ MaxTime \in Nat /\ MaxEvents \in Nat
    /\ Universe \notin Symbols
    /\ None \notin Nat \cup Alphas \cup {"on", "off", "hold", "error"} \cup Signal

Scopes == Symbols \cup {Universe}
Slices == Alphas \X Symbols

LongestHorizon == CHOOSE h \in Horizons : \A g \in Horizons : g <= h

BufferOneHorizon == LongestHorizon

(* How far back warm readings are indexed: two of the longest horizons. *)
BufferWindow == 2 * LongestHorizon

VARIABLES
    now,        \* timestamp of the event in process
    events,     \* number of events received
    inQuote,    \* _quote_tick_in_flight
    anchor,     \* HorizonScheduler._session_open_ns
    lastTick,   \* _last_boundary_symbol and _last_boundary_universe
    pend,       \* ticks returned by on_event and not yet published
    warmAt,     \* HorizonAggregator._warm_timestamps
    window,     \* _feature_state: the window of the horizon's feature
    snapAt,     \* _last_snapshot_boundary and UniverseSynchronizer._snapshot_cache
    cache,      \* HorizonSignalEngine._sensor_cache, oldest first
    regime,     \* _regime_cache; None while no RegimeState was published
    gate,       \* slices whose RegimeGate is latched ON
    feed,       \* UniverseSynchronizer._signal_cache
    emitted,    \* UniverseSynchronizer._emitted
    buffer,     \* Orchestrator._signal_buffer
    book,       \* the alpha that opened the position in a symbol, or None
    filled,     \* _alpha_symbols_with_fills
    made,       \* snapshots published by the last step
    announced,  \* SafetyStateChanges published by the last step
    context,    \* the context published by the last step, or None
    heard,      \* history: every warm reading of a symbol
    run         \* history: the warm readings since the last cold one

grid == <<anchor, lastTick, pend>>
features == <<warmAt, window, snapAt>>
engine == <<cache, regime, gate>>
barrier == <<feed, emitted>>
kernel == <<buffer, book, filled>>
output == <<made, announced, context>>
history == <<heard, run>>
vars == <<now, events, inQuote, grid, features, engine, barrier, kernel, output, history>>

TypeOK ==
    /\ now \in Nat /\ events \in Nat /\ inQuote \in BOOLEAN
    /\ anchor \in Nat \cup {None}
    /\ lastTick \in [Horizons -> [Scopes -> Nat \cup {-1}]]
    /\ pend \subseteq Horizons \X Scopes
    /\ warmAt \in [Symbols -> SUBSET Nat]
    /\ window \in [Horizons -> [Symbols -> SUBSET Nat]]
    /\ snapAt \in [Horizons -> [Symbols -> Nat \cup {-1}]]
    /\ cache \in [Symbols -> Seq(Nat)]
    /\ regime \in [Symbols -> Regimes \cup {None}]
    /\ gate \subseteq Slices
    /\ feed \in [Upstream \X Symbols -> Signal \cup {None}]
    /\ emitted \subseteq ContextHorizons \X Nat
    /\ buffer \subseteq Signal
    /\ book \in [Symbols -> Alphas \cup {None}]
    /\ filled \subseteq Slices
    /\ heard \in [Symbols -> SUBSET Nat]
    /\ run \in [Symbols -> SUBSET Nat]

Init ==
    /\ now = 0 /\ events = 0 /\ inQuote = FALSE
    /\ anchor \in SessionOpens
    /\ lastTick = [h \in Horizons |-> [x \in Scopes |-> -1]]
    /\ pend = {}
    /\ warmAt = [s \in Symbols |-> {}]
    /\ window = [h \in Horizons |-> [s \in Symbols |-> {}]]
    /\ snapAt = [h \in Horizons |-> [s \in Symbols |-> -1]]
    /\ cache = [s \in Symbols |-> <<>>]
    /\ regime = [s \in Symbols |-> None]
    /\ gate = {}
    /\ feed = [p \in Upstream \X Symbols |-> None]
    /\ emitted = {}
    /\ buffer = {} /\ filled = {}
    /\ book = [s \in Symbols |-> None]
    /\ made = {} /\ announced = {} /\ context = None
    /\ heard = [s \in Symbols |-> {}]
    /\ run = [s \in Symbols |-> {}]

Silent == made' = {} /\ announced' = {} /\ context' = None

-----------------------------------------------------------------------------
(* Sensors.  What an event does to a sensor of its symbol is "warm", "cold" *)
(* or "none": no emission, a throttled or a non-finite one.                 *)

(* HorizonAggregator._on_sensor_reading: the freshness index is pruned by   *)
(* every reading, the feature observes warm ones only.                      *)
AggregatorObserves(s, t, kind) ==
    /\ warmAt' = [warmAt EXCEPT ![s] =
           IF kind = "none" THEN @
           ELSE {x \in @ \cup (IF kind = "warm" THEN {t} ELSE {}) : x >= t - BufferWindow}]
    /\ window' = IF kind = "warm"
                 THEN [h \in Horizons |-> [window[h] EXCEPT ![s] = {x \in @ \cup {t} : x >= t - h}]]
                 ELSE window

EngineCachesLatest(s, t, kind) ==
    cache' = [cache EXCEPT ![s] = CASE kind = "none" -> @
                                    [] kind = "cold" -> <<>>
                                    [] kind = "warm" -> <<t>>]

(* HorizonSignalEngine._on_sensor_reading: the two latest warm readings; a  *)
(* cold one drops them.                                                     *)
EngineCaches(s, t, kind) ==
    cache' = [cache EXCEPT ![s] =
        CASE kind = "none" -> @
          [] kind = "cold" -> <<>>
          [] kind = "warm" -> IF @ = <<>> THEN <<t>> ELSE <<@[Len(@)], t>>]

Remember(s, t, kind) ==
    /\ heard' = [heard EXCEPT ![s] = IF kind = "warm" THEN @ \cup {t} ELSE @]
    /\ run' = [run EXCEPT ![s] = CASE kind = "none" -> @
                                   [] kind = "cold" -> {}
                                   [] kind = "warm" -> @ \cup {t}]

SensorFanOut(s, t, kind) ==
    /\ AggregatorObserves(s, t, kind)
    /\ EngineCaches(s, t, kind)
    /\ Remember(s, t, kind)

-----------------------------------------------------------------------------
(* HorizonScheduler.on_event: the grid is bound by the first event unless   *)
(* configured; the boundary of t is ticked for every scope that has not     *)
(* reached it.  Boundaries jumped over are not made up for.                 *)
Boundary(open, h, t) == (t - open) \div h

Schedule(t) ==
    LET open == IF anchor = None THEN t ELSE anchor
        crossed == {p \in Horizons \X Scopes :
                        /\ t >= open
                        /\ Boundary(open, p[1], t) > lastTick[p[1]][p[2]]}
    IN  /\ anchor' = open
        /\ pend' = crossed
        /\ lastTick' = [h \in Horizons |-> [x \in Scopes |->
               IF <<h, x>> \in crossed THEN Boundary(open, h, t) ELSE lastTick[h][x]]]

Receive(t) ==
    /\ pend = {} /\ ~inQuote
    /\ events < MaxEvents
    /\ t \in now..MaxTime
    /\ now' = t
    /\ events' = events + 1
    /\ Silent

(* Of the signals left by trades those live on whose horizon has not passed. *)
Carried(t) == {sig \in buffer : sig.carry /\ t - sig.at <= AlphaHorizon[sig.alpha]}

(* Orchestrator._process_tick_inner: a quote that the kill switch, the data *)
(* health or a halt stops has still aged the buffer.                        *)
ReceiveBlockedQuote(t) ==
    /\ Receive(t)
    /\ buffer' = Carried(t)
    /\ UNCHANGED <<inQuote, grid, features, engine, barrier, book, filled, history>>

(* The same up to the sensor layer: the signal walk is Arbitrate.           *)
ReceiveQuote(s, t, kind, r) ==
    /\ Receive(t)
    /\ inQuote' = TRUE
    /\ buffer' = Carried(t)
    /\ SensorFanOut(s, t, kind)
    /\ regime' = [regime EXCEPT ![s] = r]
    /\ Schedule(t)
    /\ UNCHANGED <<snapAt, gate, barrier, book, filled>>

(* Orchestrator._process_trade_inner: a trade crosses boundaries only once  *)
(* its symbol has a regime.                                                 *)
ReceiveTrade(s, t, kind) ==
    /\ Receive(t)
    /\ SensorFanOut(s, t, kind)
    /\ IF regime[s] # None THEN Schedule(t) ELSE UNCHANGED grid
    /\ UNCHANGED <<inQuote, snapAt, regime, gate, barrier, kernel>>

(* A print of a halted symbol reaches the sensors and goes no further.      *)
ReceiveHaltedTrade(s, t, kind) ==
    /\ Receive(t)
    /\ AggregatorObserves(s, t, kind)
    /\ EngineCaches(s, t, kind)
    /\ heard' = [heard EXCEPT ![s] = IF kind = "warm" THEN @ \cup {t} ELSE @]
    /\ run' = [run EXCEPT ![s] = {}]
    /\ UNCHANGED <<inQuote, grid, snapAt, regime, gate, barrier, kernel>>

-----------------------------------------------------------------------------
(* A snapshot of symbol s for the boundary at `asof` of horizon h.          *)
(* HorizonWindowedFeature.finalize evicts what left the window and reads    *)
(* only what is not after the boundary.                                     *)
Evicted(h, s, asof) == {x \in window[h][s] : x >= asof - h}
LiveUnfiltered(h, s, asof) == Evicted(h, s, asof)
Live(h, s, asof) == {x \in Evicted(h, s, asof) : x <= asof}

(* HorizonAggregator._build_snapshot: stale unless a warm reading is at     *)
(* most one horizon older than the boundary.                                *)
Stale(h, s, asof) ==
    LET causal == {x \in warmAt[s] : x <= asof}
    IN  \A x \in causal : asof - x > h

Snapshot(h, s, b, asof) ==
    [horizon |-> h, symbol |-> s, boundary |-> b, asof |-> asof,
     uses |-> Live(h, s, asof), stale |-> Stale(h, s, asof)]

(* A feature is warm with one sample in its window (min_samples = 1). *)
Ready(h, s, asof) == Live(h, s, asof) # {} /\ ~Stale(h, s, asof)

(* HorizonSignalEngine._build_bindings: the newest cached reading that is   *)
(* not after the boundary.                                                  *)
Bound(s, asof) == {i \in 1..Len(cache[s]) : cache[s][i] <= asof} # {}

(* RegimeGate.evaluate raises without a regime or a binding, and when the   *)
(* expression itself fails.                                                 *)
GateFails(s, asof) == regime[s] \in {None, "error"} \/ ~Bound(s, asof)

Stamp(p, dir) == [alpha |-> p[1], symbol |-> p[2], dir |-> dir, at |-> now, carry |-> ~inQuote]

(* is_redundant_gate_close_flat: a FLAT into a flat book by an alpha that   *)
(* never filled.                                                            *)
Redundant(p) == book[p[2]] = None /\ p \notin filled

PublishSignalsKeepingEntries(entries, flats) ==
    /\ feed' = [p \in Upstream \X Symbols |-> IF p \in entries THEN Stamp(p, "ENTRY") ELSE feed[p]]
    /\ buffer' = buffer
           \cup {Stamp(p, "ENTRY") : p \in {q \in entries : q[1] \notin Upstream}}
           \cup {Stamp(p, "FLAT") : p \in {q \in flats : q[1] \notin Upstream /\ ~Redundant(q)}}

(* A signal goes to the synchronizer when a PORTFOLIO alpha depends on it,  *)
(* else into the buffer of the kernel (Orchestrator._on_bus_signal).        *)
PublishSignals(entries, flats) ==
    /\ feed' = [p \in Upstream \X Symbols |->
           IF p \in flats THEN Stamp(p, "FLAT")
           ELSE IF p \in entries THEN Stamp(p, "ENTRY") ELSE feed[p]]
    /\ buffer' = buffer
           \cup {Stamp(p, "ENTRY") : p \in {q \in entries : q[1] \notin Upstream}}
           \cup {Stamp(p, "FLAT") : p \in {q \in flats : q[1] \notin Upstream /\ ~Redundant(q)}}

(* HorizonSignalEngine._dispatch_one for the alphas of the horizon on each  *)
(* new snapshot.  A cold or stale snapshot blocks entries and cannot arm a  *)
(* gate; every way out of ON publishes a SafetyStateChange and, unless the  *)
(* alpha is decoupled, a FLAT.  evaluate() may give an entry or nothing.    *)
Dispatched(h, syms) == {p \in Slices : AlphaHorizon[p[1]] = h /\ p[2] \in syms}

Closing(h, syms, asof) ==
    {p \in Dispatched(h, syms) \cap gate : GateFails(p[2], asof) \/ regime[p[2]] = "off"}

Arming(h, syms, asof) ==
    {p \in Dispatched(h, syms) \ gate :
        ~GateFails(p[2], asof) /\ regime[p[2]] = "on" /\ Ready(h, p[2], asof)}

DispatchErrorSilent(h, syms, asof) ==
    LET closed == Closing(h, syms, asof)
        clean == {p \in closed : ~GateFails(p[2], asof)}
    IN  /\ gate' = (gate \ closed) \cup Arming(h, syms, asof)
        /\ announced' = clean
        /\ \E entries \in SUBSET {p \in Dispatched(h, syms) : p \in gate' /\ Ready(h, p[2], asof)} :
               PublishSignals(entries, {p \in clean : p[1] \notin Decoupled})

Dispatch(h, syms, asof) ==
    LET closed == Closing(h, syms, asof)
    IN  /\ gate' = (gate \ closed) \cup Arming(h, syms, asof)
        /\ announced' = closed
        /\ \E entries \in SUBSET {p \in Dispatched(h, syms) : p \in gate' /\ Ready(h, p[2], asof)} :
               PublishSignals(entries, {p \in closed : p[1] \notin Decoupled})

TargetsLate(h, x) == {s \in Symbols : (x = Universe \/ s = x) /\ snapAt[h][s] + 1 < lastTick[h][x]}

(* HorizonAggregator._on_horizon_tick: the symbols of the tick that have no *)
(* snapshot for this boundary yet.                                          *)
Targets(h, x) == {s \in Symbols : (x = Universe \/ s = x) /\ snapAt[h][s] < lastTick[h][x]}

BoundaryTime(h, x) == anchor + lastTick[h][x] * h

Aggregate(h, x) ==
    LET asof == BoundaryTime(h, x)
        todo == Targets(h, x)
    IN  /\ made' = {Snapshot(h, s, lastTick[h][x], asof) : s \in todo}
        /\ window' = [window EXCEPT ![h] =
               [s \in Symbols |-> IF s \in todo THEN Evicted(h, s, asof) ELSE @[s]]]
        /\ snapAt' = [snapAt EXCEPT ![h] =
               [s \in Symbols |-> IF s \in todo THEN lastTick[h][x] ELSE @[s]]]
        /\ Dispatch(h, todo, asof)

(* UniverseSynchronizer._pick_feeder_signal: causal, and not older than the *)
(* decision horizon.                                                        *)
Feeders(h, s) ==
    {a \in Upstream : /\ feed'[<<a, s>>] # None
                      /\ feed'[<<a, s>>].at <= now
                      /\ now - feed'[<<a, s>>].at <= h}

(* CompositionEngine._dispatch_one: too few signals, or a construct() that  *)
(* declines or raises, gives an intent that holds the positions.            *)
Intents(h) ==
    IF Cardinality({s \in Symbols : Feeders(h, s) # {}}) >= MinSignals
    THEN {"targets", "hold"} ELSE {"hold"}

EmitContext(h, b) ==
    \E intent \in Intents(h) :
        context' = [horizon |-> h, boundary |-> b,
                    missing |-> {s \in Symbols : snapAt'[h][s] < b},
                    signals |-> {feed'[p] : p \in
                                    {q \in Upstream \X Symbols : q[1] \in Feeders(h, q[2])}},
                    intent |-> intent]

(* Ticks are published horizon by horizon, the symbols before the universe. *)
NextTick(h, x) ==
    /\ <<h, x>> \in pend
    /\ \A p \in pend : p[1] >= h
    /\ x = Universe => \A p \in pend : p[1] = h => p[2] = Universe

PublishTick(h, x) ==
    /\ NextTick(h, x)
    /\ pend' = pend \ {<<h, x>>}
    /\ Aggregate(h, x)
   
    /\ LET key == <<h, lastTick[h][x]>>
       IN  IF x = Universe /\ h \in ContextHorizons /\ key \notin emitted
           THEN emitted' = emitted \cup {key} /\ EmitContext(h, lastTick[h][x])
           ELSE emitted' = emitted /\ context' = None
    /\ UNCHANGED <<now, events, inQuote, anchor, lastTick, warmAt, cache, regime,
                   book, filled, history>>

-----------------------------------------------------------------------------
(* The M4 walk.  standalone_signal_actionable_for_strategy: an alpha that   *)
(* never filled does not close the position of another.                     *)
Actionable(g) ==
    ~ /\ g.dir = "FLAT"
      /\ book[g.symbol] \notin {None, g.alpha}
      /\ <<g.alpha, g.symbol>> \notin filled

WinnersByScore(cands) == IF cands = {} THEN {None} ELSE cands \cup {None}

(* Top1SelectionPolicy.select: one signal wins as it is; of several a FLAT  *)
(* wins, else the best entry, or none inside the dead zone.                 *)
Winners(cands) ==
    LET flats == {g \in cands : g.dir = "FLAT"}
    IN  CASE cands = {} -> {None}
          [] \E g \in cands : cands = {g} -> cands
          [] flats # {} -> flats
          [] OTHER -> cands \cup {None}

(* One winner is acted on: a FLAT exits the symbol's position, an entry     *)
(* into a flat symbol opens one unless sizing, risk or cost refuse it.  The *)
(* buffer is cleared.                                                       *)
Arbitrate ==
    /\ inQuote /\ pend = {}
    /\ \E win \in Winners({g \in buffer : Actionable(g)}) :
           \/ UNCHANGED <<book, filled>> /\ (win # None => win.dir = "ENTRY")
           \/ /\ win # None /\ win.dir = "FLAT"
              /\ book' = [book EXCEPT ![win.symbol] = None]
              /\ UNCHANGED filled
           \/ /\ win # None /\ win.dir = "ENTRY"
              /\ book[win.symbol] = None
              /\ book' = [book EXCEPT ![win.symbol] = win.alpha]
              /\ filled' = filled \cup {<<win.alpha, win.symbol>>}
    /\ buffer' = {}
    /\ inQuote' = FALSE
    /\ made' = {} /\ announced' = {} /\ context' = None
    /\ UNCHANGED <<now, events, grid, features, engine, barrier, history>>

Kinds == {"none", "cold", "warm"}

Next ==
    \/ \E t \in 1..MaxTime : ReceiveBlockedQuote(t)
    \/ \E s \in Symbols, t \in 1..MaxTime, kind \in Kinds :
           \/ \E r \in Regimes : ReceiveQuote(s, t, kind, r)
           \/ ReceiveTrade(s, t, kind)
           \/ ReceiveHaltedTrade(s, t, kind)
    \/ \E h \in Horizons, x \in Scopes : PublishTick(h, x)
    \/ Arbitrate

Spec == Init /\ [][Next]_vars

-----------------------------------------------------------------------------
(* The inductive invariant. *)

(* A tick that waits to be published was crossed by the event in process:  *)
(* its boundary is at most one horizon back.                               *)
PendingCrossed ==
    \A p \in pend :
        /\ anchor # None
        /\ lastTick[p[1]][p[2]] \in Nat
        /\ BoundaryTime(p[1], p[2]) <= now
        /\ now < BoundaryTime(p[1], p[2]) + p[1]

(* Windows and freshness index hold warm readings only, and every recent one. *)
WindowsKept ==
    \A h \in Horizons, s \in Symbols :
        /\ window[h][s] \subseteq heard[s]
        /\ \A x \in heard[s] : now - h <= x => x \in window[h][s]

FreshnessKept ==
    \A s \in Symbols :
        /\ warmAt[s] \subseteq heard[s]
        /\ \A x \in heard[s] : now - BufferWindow <= x => x \in warmAt[s]

(* An entry waiting in the synchronizer belongs to a gate that is ON.      *)
FeedsFollowGates ==
    \A p \in Upstream \X Symbols :
        feed[p] # None =>
            /\ feed[p].alpha = p[1] /\ feed[p].symbol = p[2]
            /\ feed[p].dir = "ENTRY" /\ p[1] \notin Decoupled => p \in gate

(* Scheduler, aggregator, engine and synchronizer agree between steps: the *)
(* strengthening the theorems rest on.                                     *)
IInv == TypeOK /\ PendingCrossed /\ WindowsKept /\ FreshnessKept /\ FeedsFollowGates

-----------------------------------------------------------------------------
(* A context for the barrier of horizon h and boundary b holds a snapshot   *)
(* of b for every symbol of the universe, whichever symbol's event crossed  *)
(* the boundary and whatever other horizons it crossed                      *)
(* (UniverseSynchronizer._emit_context never pads with None).               *)
BarrierComplete == context # None => context.missing = {}

(* A feature is computed from no reading after the boundary, also when the  *)
(* crossing event's reading came first, and from every reading of the       *)
(* horizon before the crossing event that is not after the boundary.        *)
WindowCausal ==
    \A n \in made :
        /\ n.uses \subseteq {x \in heard[n.symbol] : n.asof - n.horizon <= x /\ x <= n.asof}
        /\ {x \in heard[n.symbol] : now - n.horizon <= x /\ x <= n.asof} \subseteq n.uses

(* A snapshot is stale exactly if no warm reading was taken in the horizon  *)
(* before its boundary: the pruned index of HorizonAggregator forgets none  *)
(* that decides it, however late the event that crosses the boundary.       *)
StaleExact ==
    \A n \in made :
        n.stale <=> \A x \in heard[n.symbol] : x > n.asof \/ n.asof - x > n.horizon

(* While its regime holds, a gate is closed for a missing binding only if   *)
(* no reading of the unbroken warm run is at or before the boundary: the    *)
(* two-deep cache of HorizonSignalEngine bridges the crossing reading.  (A  *)
(* halted print, which no boundary follows, ends the run.)                  *)
BindingServed ==
    \A p \in announced :
        regime[p[2]] \in {"on", "hold"} =>
            \E n \in made : n.symbol = p[2] /\ \A x \in run[p[2]] : x > n.asof

(* No context gives a PORTFOLIO alpha an entry of an alpha whose gate has   *)
(* closed since, whichever boundary closed it: the gate-close FLAT replaces *)
(* it in the cache of the synchronizer.  Decoupled alphas send no FLAT.     *)
NoEntryAfterClose ==
    context # None =>
        \A g \in context.signals :
            g.dir = "ENTRY" /\ g.alpha \notin Decoupled => <<g.alpha, g.symbol>> \in gate

CloseReaches(p) ==
    \/ p[1] \in Decoupled
    \/ p[1] \in Upstream /\ feed'[p] # None /\ feed'[p].dir = "FLAT"
    \/ p[1] \notin Upstream /\ (\E g \in buffer' : g.alpha = p[1] /\ g.symbol = p[2] /\ g.dir = "FLAT")
    \/ p[1] \notin Upstream /\ book[p[2]] = None /\ p \notin filled

(* A gate never goes OFF unannounced, on the clean path and on the three    *)
(* error paths: a SafetyStateChange is published, and the FLAT is with the  *)
(* component that acts on it unless the exit composer does or there is      *)
(* nothing to close.                                                        *)
ClosesAnnounced ==
    [][\A p \in gate \ gate' : p \in announced' /\ CloseReaches(p)]_vars

(* A position is opened only on an entry whose horizon has not passed, in a *)
(* quote with no exit pending, and with the gate still ON - unless a trade  *)
(* left the entry, whose gate may have closed since.                        *)
OpensSafely ==
    [][\A s \in Symbols : book[s] = None /\ book'[s] # None =>
           /\ \A g \in buffer : g.dir = "FLAT" => ~Actionable(g)
           /\ \E g \in buffer :
                  /\ g.dir = "ENTRY" /\ g.alpha = book'[s] /\ g.symbol = s
                  /\ now - g.at <= AlphaHorizon[g.alpha]
                  /\ g.carry \/ <<g.alpha, s>> \in gate]_vars

\* A snapshot of a boundary is what the sensors heard up to it says, and a
\* context of the boundary has one for every symbol (HorizonAggregator,
\* UniverseSynchronizer).
SnapshotsFaithful == BarrierComplete /\ WindowCausal /\ StaleExact
=============================================================================
