------------------------------- MODULE Startup -------------------------------
(***************************************************************************)
(* build_platform: from a configuration, or the path of one, and alpha     *)
(* files to a wired platform, one action per builder.  A builder that      *)
(* raises ends the startup; nothing is retried.  Later builders read what  *)
(* earlier ones made: alphas are loaded before the sensors are pruned,     *)
(* signals are registered against the features of the pruned sensors, and  *)
(* the exit controllers against the registered signals.                    *)
(*                                                                         *)
(* An alpha file is [name, id, spec]: `name` is what is left of the file   *)
(* name, `id` the alpha_id inside.  A sensor is [id, version, inputs].     *)
(* The environment is [api_key, ex_date, normalizer]: the API key is set,  *)
(* the replay crosses an ex-date, and the normalizer handed to             *)
(* build_platform, [massive, halt], or Absent.                             *)
(***************************************************************************)
EXTENDS ConfigFile

CONSTANT Starts     \* the calls: [path, config, env]; a path or a configuration is given

\* A configuration handed in is a PlatformConfig; these are the fields a
\* builder replaces or relates.
Fields == {"mode", "flags", "symbols", "terminal", "horizons", "sensor_specs", "session_open"}

ASSUME StartsAssumption == \A s \in Starts : s.path = Absent => Fields \subseteq DOMAIN s.config

VARIABLES
    env,         \* the environment of the call
    chain,       \* configuration files read so far, each extending the next
    config,      \* the configuration; session_open and sensor_specs are replaced on the way
    pc,          \* the next builder, "built" or "raised"
    todo,        \* alpha files still to load, those of the directory first
    registry,    \* AlphaRegistry: id -> [spec, params]
    sensors,     \* ids registered in the SensorRegistry
    features,    \* the horizon features built from them
    signals,     \* HorizonSignalEngine: id -> [warm, decouple_gate_close]
    universe,    \* the published universe
    upstream,    \* what the composition layer listens to, or Absent
    hazard,      \* HazardExitController: id -> hard_exit_age_seconds
    detector,    \* the RegimeHazardDetector exists
    caps,        \* DeferralCapController: id -> [hold, age]
    composer,    \* ids with a policy in the ExitComposer, and a revocation hook
    stopper      \* the StopExitController exists

wiring == <<registry, sensors, features, signals, universe, upstream, hazard, detector, caps,
            composer, stopper>>
exits == <<hazard, detector, caps, composer, stopper>>
startupVars == <<env, chain, config, pc, todo, wiring>>

Raise == pc' = "raised"

-----------------------------------------------------------------------------
(* Configuration. *)

\* Zero disables the cost gate, any other ratio covers the cost.
EdgeRatioOK(c) ==
  c.scalars.signal_min_edge_cost_ratio = 0 \/ c.scalars.signal_min_edge_cost_ratio >= 100

\* The harness adds the health its ingest ended in before it builds.
IngestHealthGiven(c) ==
  (c.mode = "BACKTEST" /\ c.flags.backtest_enforce_ingest_terminal_health) =>
      c.terminal # NoFunction

_ensure_session_open_ns_for_paper(c) ==
  IF c.mode = "PAPER" /\ c.session_open = Absent /\ c.horizons # {} /\ c.sensor_specs # <<>>
  THEN [c EXCEPT !.session_open = 0] ELSE c

_enforce_ex_date_replay_guard(c) ==
  ~(/\ c.mode = "BACKTEST" /\ c.flags.backtest_enforce_ex_date_guard
    /\ c.ex_dates # Absent /\ env.ex_date)

_create_regime_engine(c) == c.regime_states # Bad

REGIME_SCALE_STATE_NAMES == {"vol_breakout", "compression_clustering", "normal"}

_validate_regime_engine_risk_scale_alignment(c) ==
  (c.flags.enforce_regime_state_scale_alignment /\ c.regime_states # Absent) => c.regime_states \subseteq REGIME_SCALE_STATE_NAMES

\* An override of an unknown threshold, or of the wrong type, is Bad.
_build_platform_gate_thresholds(c) ==
  c.thresholds # Absent => \A k \in DOMAIN c.thresholds : c.thresholds[k] # Bad

Nothing ==
  /\ todo = <<>> /\ registry = NoFunction /\ sensors = {} /\ features = {}
  /\ signals = NoFunction /\ universe = {} /\ upstream = Absent /\ hazard = NoFunction
  /\ detector = FALSE /\ caps = NoFunction /\ composer = {} /\ stopper = FALSE

StartupInit ==
  /\ \E s \in Starts :
       /\ env = s.env
       /\ \/ s.path = Absent /\ config = s.config /\ chain = <<>> /\ pc = "config"
          \/ s.path # Absent /\ config = Absent /\ chain = <<s.path>> /\ pc = "file"
  /\ Nothing

\* PlatformConfig.from_yaml, one file at a time: the base of a chain has no
\* extends, and then the merged document is parsed.
ReadFile ==
  /\ pc = "file"
  /\ IF Refused(chain) THEN Raise /\ UNCHANGED <<chain, config>>
     ELSE LET base == ConfigFiles[chain[Len(chain)]].extends
              parsed == from_yaml(load_yaml_mapping(chain))
          IN
          \/ base = Bad /\ Raise /\ UNCHANGED <<chain, config>>
          \/ Mapping(base) /\ chain' = Append(chain, base) /\ UNCHANGED <<pc, config>>
          \/ base = Absent /\ parsed = Bad /\ Raise /\ UNCHANGED <<chain, config>>
          \/ /\ base = Absent /\ parsed # Bad
             /\ config' = parsed /\ pc' = "config" /\ UNCHANGED chain
  /\ UNCHANGED <<env, todo, wiring>>

CheckConfig ==
  /\ pc = "config"
  /\ IF /\ validate(config) /\ EdgeRatioOK(config) /\ IngestHealthGiven(config)
        /\ _enforce_ex_date_replay_guard(config)
        /\ _create_regime_engine(config)
        /\ _validate_regime_engine_risk_scale_alignment(config)
        /\ _build_platform_gate_thresholds(config)
     THEN /\ config' = _ensure_session_open_ns_for_paper(config)
          /\ todo' = (IF config.dir = Absent THEN <<>> ELSE config.dir) \o config.explicit
          /\ pc' = IF config.dir = <<>> THEN "raised" ELSE "load"
     ELSE Raise /\ UNCHANGED <<config, todo>>
  /\ UNCHANGED <<env, chain, wiring>>

-----------------------------------------------------------------------------
(* Alphas.  Overrides are looked up under the file's name. *)

OverridesFor(f) ==
  IF f.name \in DOMAIN config.overrides THEN config.overrides[f.name] ELSE NoFunction

FromDirectory == config.dir # Absent /\ Len(todo) > Len(config.explicit)

\* AlphaRegistry.register; the floors are the subject of Promotion.
RegisterOK(f) == f.id \notin DOMAIN registry /\ f.spec.respects_floor

Outcome(f) ==
  LET o == load_from_dict(f.spec, OverridesFor(f), config.flags.enforce_layer_gates,
                          config.flags.enforce_trend_mechanism, config.regime_states)
  IN IF o = "ok" /\ ~RegisterOK(f) THEN "AlphaRegistryError" ELSE o

register(f) ==
  registry' = [i \in DOMAIN registry \cup {f.id} |->
                 IF i = f.id THEN [spec |-> f.spec, params |-> Params(f.spec, OverridesFor(f))]
                 ELSE registry[i]]

Loaded ==
  /\ pc = "load" /\ todo # <<>> /\ Outcome(Head(todo)) = "ok"
  /\ register(Head(todo)) /\ todo' = Tail(todo)
  /\ UNCHANGED <<env, chain, config, pc, sensors, features, signals, universe, upstream, exits>>

\* The last file of a directory none of which could be loaded.
LastChance == FromDirectory /\ Len(todo) = Len(config.explicit) + 1 /\ DOMAIN registry = {}

\* load_and_register goes on to the next file of the directory ...
Skipped ==
  /\ pc = "load" /\ todo # <<>> /\ FromDirectory /\ ~LastChance
  /\ Outcome(Head(todo)) \in {"AlphaLoadError", "AlphaRegistryError"}
  /\ todo' = Tail(todo)
  /\ UNCHANGED <<env, chain, config, pc, wiring>>

\* ... but not past a failed gate, and an explicit file must load.
LoadRaises ==
  /\ pc = "load" /\ todo # <<>>
  /\ \/ Outcome(Head(todo)) = "LayerValidationError"
     \/ (~FromDirectory \/ LastChance) /\ Outcome(Head(todo)) # "ok"
  /\ Raise
  /\ UNCHANGED <<env, chain, config, todo, wiring>>

signal_alphas == {i \in DOMAIN registry : IsSignal(registry[i].spec)}
portfolio_alphas == {i \in DOMAIN registry : IsPortfolio(registry[i].spec)}

\* Lifecycles exist outside backtests and start in RESEARCH.
active_alphas == IF config.mode = "BACKTEST" THEN DOMAIN registry ELSE {}

SensorIds(specs) == {specs[i].id : i \in DOMAIN specs}
Required == UNION {SeqRange(registry[i].spec.depends_on_sensors) : i \in signal_alphas}

maybe_prune_unused_sensors ==
  LET keep(x) == x.id \in Required IN
  IF config.flags.prune_unused_sensors /\ Required # {} /\ config.sensor_specs # <<>>
  THEN [config EXCEPT !.sensor_specs = SelectSeq(config.sensor_specs, keep)]
  ELSE config

Universes == UNION {registry[i].spec.universe : i \in portfolio_alphas}

\* Pruning, and the universe of the platform: the names of the PORTFOLIO
\* alphas are intersected with it before they are compared with it.
Bind ==
  /\ pc = "load" /\ todo = <<>>
  /\ IF /\ config.flags.prune_unused_sensors /\ config.sensor_specs # <<>>
        /\ ~(Required \subseteq SensorIds(config.sensor_specs))
     THEN Raise /\ UNCHANGED <<config, universe>>
     ELSE /\ config' = maybe_prune_unused_sensors
          /\ universe' = config.symbols
          /\ pc' = "risk"
  /\ UNCHANGED <<env, chain, todo, registry, sensors, features, signals, upstream, exits>>

CalendarDate(c) == IF c.calendar = "undated" THEN Absent ELSE c.calendar

\* The day entries are gated on; without one they are not suppressed.
_resolve_trading_session_bounds(c) ==
  IF c.flags.rth_session_gating_enabled
  THEN OrElse(OrElse(c.rth_date, c.moc_date), CalendarDate(c))
  ELSE Absent

_resolve_moc_bounds(c) == OrElse(c.moc_date, CalendarDate(c))

\* The session's bounds and the codebook of halts, which a normalizer that
\* was handed in must have already.
CreateRisk ==
  /\ pc = "risk"
  /\ IF \/ Bad \in {_resolve_trading_session_bounds(config), _resolve_moc_bounds(config)}
        \/ env.normalizer # Absent /\ env.normalizer.massive /\ env.normalizer.halt # config.halt
     THEN Raise ELSE pc' = "backend"
  /\ UNCHANGED <<env, chain, config, todo, wiring>>

_create_backend ==
  /\ pc = "backend"
  /\ IF /\ config.mode = "PAPER"
        /\ ~env.api_key \/ (env.normalizer # Absent /\ ~env.normalizer.massive)
     THEN Raise ELSE pc' = "sensors"
  /\ UNCHANGED <<env, chain, config, todo, wiring>>

-----------------------------------------------------------------------------
(* Sensors and features. *)

Feature(id, h, sid) == [id |-> id, h |-> h, sensors |-> {sid}]

_HORIZON_FEATURE_FACTORIES ==
  [spread_z_30d |-> {"spread_z_30d"},
   ofi_ewma |-> {"ofi_ewma", "ofi_ewma_zscore"},
   ofi_raw |-> {"ofi_integrated", "ofi_integrated_percentile"},
   book_imbalance |-> {"book_imbalance", "book_imbalance_zscore", "book_imbalance_mean"},
   kyle_lambda_60s |-> {"kyle_lambda_60s_zscore", "kyle_lambda_60s_percentile"},
   quote_replenish_asymmetry |-> {"quote_replenish_asymmetry_zscore"},
   quote_hazard_rate |-> {"quote_hazard_rate", "quote_hazard_rate_zscore"},
   inventory_pressure |-> {"inventory_pressure"},
   liquidity_stress_score |-> {"liquidity_stress_score"},
   quote_flicker_rate |-> {"quote_flicker_rate", "quote_flicker_rate_zscore"},
   hawkes_intensity |-> {"hawkes_intensity_zscore", "hawkes_intensity_imbalance"},
   trade_through_rate |-> {"trade_through_rate"},
   scheduled_flow_window |-> {"scheduled_flow_window_active", "seconds_to_window_close",
      "scheduled_flow_window_id_hash", "scheduled_flow_window_direction_prior"},
   micro_price |-> {"micro_price", "micro_price_zscore", "micro_price_drift"},
   realized_vol_30s |-> {"realized_vol_30s", "realized_vol_30s_zscore"}]

\* Inventory pressure decays too fast for the long horizons.
_horizon_features_for(sid, h) ==
  IF sid \notin DOMAIN _HORIZON_FEATURE_FACTORIES \/ (sid = "inventory_pressure" /\ h \notin {30, 120})
  THEN {}
  ELSE {Feature(f, h, sid) : f \in _HORIZON_FEATURE_FACTORIES[sid]}

_build_horizon_features(c) ==
  UNION {UNION {_horizon_features_for(sid, h) : h \in c.horizons} : sid \in SensorIds(c.sensor_specs)}

Derived == {"ofi_ewma_zscore", "ofi_integrated_percentile", "book_imbalance_zscore",
            "kyle_lambda_60s_zscore", "kyle_lambda_60s_percentile", "micro_price_zscore",
            "quote_replenish_asymmetry_zscore", "quote_hazard_rate_zscore",
            "quote_flicker_rate_zscore", "hawkes_intensity_zscore", "realized_vol_30s_zscore"}

\* Ticks are scheduled for sensors that exist.
HasScheduler(c) == c.horizons # {} /\ c.sensor_specs # <<>>

\* SensorRegistry.register: pruning may have dropped an input.
_create_sensor_layer ==
  LET specs == config.sensor_specs IN
  /\ pc = "sensors"
  /\ IF \/ "scheduled_flow_window" \in SensorIds(specs) /\ config.calendar = Absent
        \/ ~SensorSpecsOK(specs)
        \/ HasScheduler(config) /\ config.session_open = Absent /\ config.mode # "BACKTEST"
     THEN Raise /\ UNCHANGED <<sensors, features>>
     ELSE /\ sensors' = SensorIds(specs)
          /\ features' = _build_horizon_features(config)
          /\ pc' = "signals"
  /\ UNCHANGED <<env, chain, config, todo, registry, signals, universe, upstream, exits>>

Published == {f.id : f \in features} \cup sensors

\* What _create_signal_layer demands of one alpha.
Registrable(a) ==
  /\ SeqRange(a.spec.depends_on_sensors) \subseteq sensors
  /\ reject_reads_outside_declared_sensors(a.spec, features, Derived)
  /\ reject_parameter_shadowed_by_published_id(a.spec, Published)

_create_signal_layer ==
  /\ pc = "signals"
  /\ IF \A i \in signal_alphas : Registrable(registry[i])
     THEN /\ signals' = [i \in signal_alphas |->
               [warm |-> required_warm_feature_ids_for_signal_alpha(registry[i].spec, features, Derived),
                decouple_gate_close |-> Decouples(registry[i].spec)]]
          /\ pc' = "composition"
     ELSE Raise /\ UNCHANGED signals
  /\ UNCHANGED <<env, chain, config, todo, registry, sensors, features, universe, upstream, exits>>

-----------------------------------------------------------------------------
(* Composition and exit controllers. *)

_enforce_factor_loadings_freshness(c, declared) ==
  c.loadings # Absent =>
    /\ c.session_open # Absent \/ c.mode # "BACKTEST"
    /\ c.loadings.fresh
    /\ declared \subseteq c.loadings.rows

_union_portfolio_upstream_strategy_ids ==
  UNION {SeqRange(registry[i].spec.depends_on_signals) : i \in portfolio_alphas}

\* An upstream id that is not registered contributes no horizon.
_create_composition_layer ==
  /\ pc = "composition"
  /\ IF portfolio_alphas = {}
     THEN pc' = "exits" /\ UNCHANGED upstream
     ELSE IF /\ Cardinality(Universes) <= config.scalars.composition_max_universe_size
             /\ _enforce_factor_loadings_freshness(config, Universes)
          THEN /\ upstream' =
                    [ids |-> _union_portfolio_upstream_strategy_ids,
                     horizons |-> {registry[i].spec.horizon_seconds :
                       i \in portfolio_alphas
                             \cup (_union_portfolio_upstream_strategy_ids \cap DOMAIN registry)}]
               /\ pc' = "exits"
          ELSE Raise /\ UNCHANGED upstream
  /\ UNCHANGED <<env, chain, config, todo, registry, sensors, features, signals, universe, exits>>

_hazard_block_enabled(s) == s.hazard_exit # Absent /\ s.hazard_exit.enabled

HalfLife(s) ==
  IF s.trend_mechanism # Absent /\ s.trend_mechanism.expected_half_life_seconds \in Int
  THEN s.trend_mechanism.expected_half_life_seconds ELSE 0

HardExit(s) ==
  IF s.hazard_exit.hard_age # Absent THEN s.hazard_exit.hard_age
  ELSE IF HalfLife(s) > 0 THEN 2 * HalfLife(s) ELSE Absent

HazardCandidates == {i \in active_alphas : _hazard_block_enabled(registry[i].spec)}

_create_hazard_exit_controller == hazard' = [i \in HazardCandidates |-> HardExit(registry[i].spec)]

_create_hazard_detector == detector' = (pc' # "raised" /\ HazardCandidates # {})

Decoupled == {i \in DOMAIN signals : signals[i].decouple_gate_close}

\* A missing ceiling raises; the loader refuses such a file before.
_create_deferral_cap_controller ==
  IF \E i \in Decoupled :
       Absent \in {registry[i].spec.safety_exit_policy.max_hold_after_safe_off,
                   registry[i].spec.safety_exit_policy.hard_exit_age_seconds}
  THEN Raise /\ UNCHANGED caps
  ELSE /\ caps' = [i \in Decoupled |->
                     [hold |-> registry[i].spec.safety_exit_policy.max_hold_after_safe_off,
                      age |-> registry[i].spec.safety_exit_policy.hard_exit_age_seconds]]
       /\ pc' = "built"

\* Not reached when the cap controller raised.
_create_exit_composer == composer' = IF pc' = "raised" THEN {} ELSE Decoupled

\* StopExitPolicy.any_enabled.
_create_stop_exit_controller ==
  stopper' = \/ config.flags.session_flatten_enabled
             \/ \E k \in {"stop_loss_per_share", "trail_activate_per_share", "stop_loss_pct",
                          "trail_activate_pct"} : config.scalars[k] > 0

CreateExits ==
  /\ pc = "exits"
  /\ _create_stop_exit_controller /\ _create_hazard_exit_controller
  /\ _create_deferral_cap_controller /\ _create_exit_composer /\ _create_hazard_detector
  /\ UNCHANGED <<env, chain, config, todo, registry, sensors, features, signals, universe, upstream>>

StartupNext ==
  \/ ReadFile \/ CheckConfig \/ Loaded \/ Skipped \/ LoadRaises \/ Bind \/ CreateRisk
  \/ _create_backend
  \/ _create_sensor_layer \/ _create_signal_layer \/ _create_composition_layer \/ CreateExits

StartupSpec == StartupInit /\ [][StartupNext]_startupVars

-----------------------------------------------------------------------------
(* Properties of a platform that was built. *)

\* A feature that sensors of `declared` produce, all of them registered with
\* their inputs.
Served(id, h, declared) ==
  \E f \in features :
    /\ f.id = id /\ f.h = h /\ f.sensors \subseteq declared \cap sensors
    /\ \A i \in DOMAIN config.sensor_specs :
         config.sensor_specs[i].id \in f.sensors => config.sensor_specs[i].inputs \subseteq sensors

\* Everything a SIGNAL alpha's body and gate read exists on the platform as
\* built, after pruning, at the alpha's horizon, comes from sensors the alpha
\* declared, and is waited for before the alpha is evaluated.  A gap would be a
\* None in snapshot.values (bootstrap.py, _create_signal_layer).
ReadsServed ==
  pc = "built" =>
    \A i \in DOMAIN signals :
      LET s == registry[i].spec
          declared == SeqRange(s.depends_on_sensors)
          ok(n) == n \in signals[i].warm /\ Served(n, s.horizon_seconds, declared)
      IN /\ s.signal.reads # Bad /\ \A n \in s.signal.reads : ok(n)
         /\ \A n \in s.regime_gate.names :
              \/ ok(n)
              \/ LET p == feature_ids_for_sensor_at_horizon(n, s.horizon_seconds, features) IN
                 p # {} /\ \A m \in p : ok(m)

\* An alpha whose exits may be deferred has a cap controller that ends the
\* deferral within the decay of its mechanism, also when the mechanism and
\* layer gates are not enforced (gate G17; _create_deferral_cap_controller).
DeferralBounded ==
  pc = "built" =>
    \A i \in DOMAIN signals :
      signals[i].decouple_gate_close =>
        LET m == registry[i].spec.trend_mechanism IN
        /\ i \in composer \cap DOMAIN caps
        /\ caps[i].age > 0 /\ caps[i].hold > 0
        /\ caps[i].hold <= _FAMILY_MAX_HOLD_HALF_LIFE_MULTIPLE[m.family] * m.expected_half_life_seconds

\* Where an alpha bounds its cost floor from below by a number, the floor it
\* trades with, overrides included, covers the cost it disclosed (gate G12).  A
\* bound written as text binds the parameter and is not compared with the cost.
CostFloorCovers ==
  \A i \in DOMAIN registry :
    LET s == registry[i].spec IN
    (/\ IsSignal(s) /\ "cost_floor_bps" \in DOMAIN s.parameters
     /\ s.parameters.cost_floor_bps.min # Absent /\ s.parameters.cost_floor_bps.numeric) =>
        registry[i].params.cost_floor_bps >= cost_total_bps(s.cost_arithmetic)

\* The boundaries of a live session are counted from an anchor that a restart
\* of the feed cannot move, and a backtest that enforces the health of its
\* ingest holds a healthy verdict on every symbol, whoever supplied the rows and
\* whatever the builders replaced since (_create_sensor_layer; validate).
SessionSound ==
  pc = "built" =>
    /\ (config.mode = "PAPER" /\ HasScheduler(config)) => config.session_open # Absent
    /\ config.flags.backtest_enforce_ingest_terminal_health =>
         \A s \in config.symbols : s \in DOMAIN config.terminal /\ config.terminal[s] = "HEALTHY"

\* A platform that was built can run its alphas: what they read is there, what
\* they defer is bounded, what they disclosed is covered, and the session they
\* run in is anchored and fed (build_platform).
PlatformServesAlphas == ReadsServed /\ DeferralBounded /\ CostFloorCovers /\ SessionSound
=============================================================================
