----------------------------- MODULE ConfigFile -----------------------------
(***************************************************************************)
(* The platform configuration: what from_yaml makes of a YAML file and the *)
(* files it extends, and what PlatformConfig.validate demands of it.       *)
(*                                                                         *)
(* A document is a function from its keys to their values; Absent is null, *)
(* Bad a value of another YAML type.  A value that names something outside *)
(* stands for what is found there: an alpha directory for its files, a     *)
(* regime engine for its state names, a calendar for the date in its file  *)
(* name ("undated" without one, Bad where there is no such file).  Ratios, *)
(* fractions and prices are in hundredths, rounded up; counts and times    *)
(* are not.                                                                *)
(***************************************************************************)
EXTENDS AlphaSpec, TLC

CONSTANT ConfigFiles    \* path -> [extends, data], or Bad when it cannot be read as a mapping

_MAX_EXTENDS_DEPTH == 16

get(d, k, default) == IF k \in DOMAIN d THEN d[k] ELSE default
OrElse(v, default) == IF v = Absent THEN default ELSE v
Mapping(v) == v \notin {Absent, Bad}

-----------------------------------------------------------------------------
(* Inheritance: the mappings of a child are merged into those of its base,
   every other value replaces the base's. *)

NestedKeys == {"parameter_overrides", "regime_engine_options", "borrow_availability", "paper",
               "gate_thresholds"}

MergeOverrides(base, override) ==
  [a \in DOMAIN base \cup DOMAIN override |->
     IF a \in DOMAIN base \cap DOMAIN override THEN override[a] @@ base[a]
     ELSE (override @@ base)[a]]

deep_merge_mapping(base, override) ==
  LET nested(k) == /\ k \in NestedKeys \cap DOMAIN base \cap DOMAIN override
                   /\ Mapping(base[k]) /\ Mapping(override[k])
      value(k) == IF ~nested(k) THEN (override @@ base)[k]
                  ELSE IF k = "parameter_overrides" THEN MergeOverrides(base[k], override[k])
                  ELSE override[k] @@ base[k]
  IN [k \in DOMAIN base \cup DOMAIN override |-> value(k)]

\* A path already read, one too many, or no mapping there.
Refused(chain) ==
  LET path == chain[Len(chain)] IN
  \/ \E i \in 1..Len(chain) - 1 : chain[i] = path
  \/ Len(chain) > _MAX_EXTENDS_DEPTH
  \/ path \notin DOMAIN ConfigFiles
  \/ ConfigFiles[path] = Bad

\* The document of a chain of files, each extending the next.
load_yaml_mapping(chain) ==
  LET merged[i \in 1..Len(chain)] ==
        IF i = Len(chain) THEN ConfigFiles[chain[i]].data
        ELSE deep_merge_mapping(merged[i + 1], ConfigFiles[chain[i]].data)
  IN merged[1]

-----------------------------------------------------------------------------
(* Scalars. *)

RiskDefaults ==
  [risk_max_position_per_symbol |-> 1000, risk_max_gross_exposure_pct |-> 2000,
   risk_max_drawdown_pct |-> 500, risk_regime_vol_breakout_scale |-> 50,
   risk_regime_compression_scale |-> 75, risk_regime_normal_scale |-> 100,
   account_equity |-> 5000000, pdt_min_equity_usd |-> 2500000,
   backtest_fill_latency_ns |-> 50000000, market_data_latency_ns |-> 20000000,
   halt_resolution_blackout_seconds |-> 60]

CostDefaults ==
  [cost_passive_adverse_selection_bps |-> 200, cost_through_fill_adverse_selection_bps |-> 500,
   cost_sell_regulatory_bps |-> 50, cost_max_commission_pct |-> 100,
   cost_finra_taf_per_share |-> 1, cost_finra_taf_max_per_order |-> 830,
   cost_max_impact_half_spreads |-> 1000, cost_stop_slippage_half_spreads |-> 200,
   cost_min_small_order_threshold_shares |-> 0, cost_min_half_spread_threshold |-> 0,
   cost_min_passive_non_fill_probability |-> 30, realized_cost_alert_ratio |-> 150,
   signal_min_edge_cost_ratio |-> 100, reversal_min_edge_cost_multiplier |-> 150,
   position_manager_trim_min_fraction |-> 10, position_manager_trim_edge_gate_multiplier |-> 100,
   stop_loss_per_share |-> 0, trail_activate_per_share |-> 0, stop_loss_pct |-> 0,
   trail_activate_pct |-> 0, session_flatten_seconds_before_close |-> 0]

SizerDefaults ==
  [net_staleness_k |-> 100, sizer_edge_ref_bps |-> 2000, sizer_edge_floor |-> 25,
   sizer_edge_cap |-> 200, sizer_vol_target_bps |-> 10000, sizer_vol_floor |-> 25,
   sizer_vol_cap |-> 200, sizer_inventory_floor |-> 0, sizer_tilt_floor |-> 10,
   sizer_tilt_cap |-> 300, regime_min_discriminability |-> 0,
   cost_within_l1_impact_factor |-> 0, cost_permanent_impact_coefficient |-> 0,
   cost_moc_penalty_bps |-> 0, cost_stop_depth_depletion_factor |-> 100,
   realized_cost_escalation_streak |-> 3, composition_completeness_threshold |-> 80,
   factor_loadings_max_age_seconds |-> 604800, composition_lambda_tc |-> 100,
   composition_lambda_risk |-> 10, composition_max_universe_size |-> 50,
   composition_gross_cap_pct |-> 200, composition_per_name_cap_pct |-> 5]

Defaults == RiskDefaults @@ CostDefaults @@ SizerDefaults

FlagDefaults ==
  [require_healthy_disk_cache_manifests |-> FALSE, backtest_enforce_ingest_terminal_health |-> FALSE,
   enforce_regime_state_scale_alignment |-> FALSE, prune_unused_sensors |-> FALSE,
   backtest_enforce_ex_date_guard |-> TRUE, enforce_trend_mechanism |-> TRUE,
   enforce_layer_gates |-> TRUE, rth_session_gating_enabled |-> TRUE,
   session_flatten_enabled |-> TRUE]

ChoiceDefaults ==
  [execution_mode |-> "market", signal_edge_cost_basis |-> "round_trip",
   borrow_default_tier |-> "available", composition_optimizer_mode |-> "closed_form"]

Given(d, defaults) == [k \in DOMAIN defaults |-> get(d, k, defaults[k])]

\* An unknown key is warned about; the type of a plain scalar must be right.
_check_yaml_keys_and_types(d) ==
  \A k \in DOMAIN d \cap (DOMAIN Defaults \cup DOMAIN FlagDefaults) : Mapping(d[k])

-----------------------------------------------------------------------------
(* Sensors. *)

\* SensorSpec.__post_init__.
SensorSpecOK(e) ==
  /\ e.sensor_id # "" /\ e.sensor_version # ""
  /\ get(e, "min_history", 0) >= 0
  /\ get(e, "throttled_ms", Absent) = Absent \/ e.throttled_ms >= 0

\* One entry of sensor_specs; `cls` tells where the class was found.
_parse_sensor_spec(e) ==
  IF /\ Mapping(e)
     /\ {"sensor_id", "sensor_version", "cls"} \subseteq DOMAIN e
     /\ e.cls = "feelies.sensors.impl"
     /\ get(e, "subscribes_to", {}) \subseteq {"NBBOQuote", "Trade"}
     /\ SensorSpecOK(e)
  THEN [id |-> e.sensor_id, version |-> e.sensor_version, inputs |-> get(e, "input_sensor_ids", {})]
  ELSE Bad

-----------------------------------------------------------------------------
(* from_yaml. *)

NoFunction == [x \in {} |-> x]

Parsable(d) ==
  LET specs == OrElse(get(d, "sensor_specs", Absent), <<>>) IN
  /\ _check_yaml_keys_and_types(d)
  /\ get(d, "mode", "BACKTEST") \in {"BACKTEST", "PAPER"}
  /\ get(d, "symbols", {}) # Bad /\ Mapping(get(d, "alpha_specs", <<>>))
  /\ \A k \in {"ingest_terminal_symbol_health", "horizons_seconds", "session_open_ns",
               "regime_calibration_max_quotes", "regime_engine_options", "paper",
               "gate_thresholds", "composition_signal_max_age_seconds"} :
        get(d, k, Absent) # Bad
  /\ specs # Bad /\ \A i \in DOMAIN specs : _parse_sensor_spec(specs[i]) # Bad

\* The keys of PAPER may stand on their own or in a `paper` block.
PaperKey(d, k, default) ==
  get(d, k, get(OrElse(get(d, "paper", Absent), NoFunction), k, default))

\* The health of cached days is no key of the file: the harness adds it.
from_yaml(d) ==
  LET specs == OrElse(get(d, "sensor_specs", Absent), <<>>) IN
  IF ~Parsable(d) THEN Bad
  ELSE [mode |-> get(d, "mode", "BACKTEST"), symbols |-> OrElse(get(d, "symbols", {}), {}),
        dir |-> get(d, "alpha_spec_dir", Absent), explicit |-> get(d, "alpha_specs", <<>>),
        overrides |-> get(d, "parameter_overrides", NoFunction),
        scalars |-> Given(d, Defaults), flags |-> Given(d, FlagDefaults), choices |-> Given(d, ChoiceDefaults),
        borrow |-> OrElse(get(d, "borrow_availability", Absent), NoFunction), cached |-> {},
        terminal |-> OrElse(get(d, "ingest_terminal_symbol_health", Absent), NoFunction),
        halt |-> [on |-> get(d, "halt_on_condition_codes", {}),
                  off |-> get(d, "halt_off_condition_codes", {})],
        regime_states |-> get(d, "regime_engine",
                              {"vol_breakout", "compression_clustering", "normal"}),
        calibration |-> get(d, "regime_calibration_max_quotes", Absent),
        thresholds |-> get(d, "gate_thresholds", Absent),
        session_open |-> get(d, "session_open_ns", Absent),
        horizons |-> OrElse(get(d, "horizons_seconds", Absent), {30, 120, 300, 900, 1800}),
        sensor_specs |-> [i \in DOMAIN specs |-> _parse_sensor_spec(specs[i])],
        calendar |-> get(d, "event_calendar_path", Absent),
        ex_dates |-> get(d, "ex_date_calendar_path", Absent),
        rth_date |-> get(d, "rth_session_date", Absent),
        moc_date |-> get(d, "moc_session_date", Absent),
        signal_max_age |-> get(d, "composition_signal_max_age_seconds", Absent),
        loadings |-> get(d, "factor_loadings_dir", Absent),
        sector_map |-> get(d, "sector_map_path", Absent),
        client |-> PaperKey(d, "ib_client_id", 1)]

-----------------------------------------------------------------------------
(* PlatformConfig.validate. *)

SourcesOK(c) ==
  /\ c.symbols # {} /\ c.dir # Bad
  /\ c.dir # Absent \/ c.explicit # <<>>

Tiers == {"available", "hard", "unavailable"}

RiskRangesOK(c) ==
  /\ \A k \in {"risk_max_position_per_symbol", "risk_max_gross_exposure_pct",
               "risk_max_drawdown_pct", "account_equity", "pdt_min_equity_usd"} : c.scalars[k] > 0
  /\ \A k \in {"backtest_fill_latency_ns", "market_data_latency_ns",
               "halt_resolution_blackout_seconds"} : c.scalars[k] >= 0
  /\ c.halt.on \cap c.halt.off = {}
  /\ \A s \in DOMAIN c.borrow : c.borrow[s] \in Tiers
  /\ c.choices.borrow_default_tier \in Tiers
  /\ \A k \in {"risk_regime_vol_breakout_scale", "risk_regime_compression_scale",
               "risk_regime_normal_scale"} : c.scalars[k] \in 1..200

\* `cached` are the verdicts on the cached days of a replay, `terminal` the
\* state each symbol's ingest ended in.
HealthRowsOK(c) ==
  /\ c.flags.require_healthy_disk_cache_manifests => c.cached = {"HEALTHY"}
  /\ c.flags.backtest_enforce_ingest_terminal_health =>
       /\ c.mode = "BACKTEST"
       /\ c.terminal # NoFunction =>
            \A s \in c.symbols : s \in DOMAIN c.terminal /\ c.terminal[s] = "HEALTHY"

CostRangesOK(c) ==
  LET s == c.scalars IN
  /\ c.choices.execution_mode \in {"market", "passive_limit", "minimum_cost"}
  /\ c.choices.signal_edge_cost_basis \in {"one_way", "round_trip"}
  /\ \A k \in {"cost_min_small_order_threshold_shares", "cost_min_half_spread_threshold",
               "cost_finra_taf_per_share", "cost_finra_taf_max_per_order",
               "cost_within_l1_impact_factor", "cost_permanent_impact_coefficient",
               "cost_moc_penalty_bps", "cost_min_passive_non_fill_probability",
               "signal_min_edge_cost_ratio", "reversal_min_edge_cost_multiplier",
               "position_manager_trim_min_fraction", "position_manager_trim_edge_gate_multiplier",
               "session_flatten_seconds_before_close", "net_staleness_k",
               "cost_passive_adverse_selection_bps", "cost_through_fill_adverse_selection_bps",
               "cost_sell_regulatory_bps"} : s[k] >= 0
  /\ \A k \in {"cost_stop_depth_depletion_factor", "cost_max_impact_half_spreads",
               "realized_cost_alert_ratio", "cost_stop_slippage_half_spreads"} : s[k] >= 100
  /\ \A k \in {"realized_cost_escalation_streak", "sizer_edge_ref_bps", "sizer_vol_target_bps",
               "cost_max_commission_pct"} : s[k] > 0
  /\ \A k \in {"cost_min_passive_non_fill_probability", "position_manager_trim_min_fraction"} :
        s[k] <= 100
  /\ 0 <= s.sizer_edge_floor /\ s.sizer_edge_floor <= s.sizer_edge_cap
  /\ 0 <= s.sizer_vol_floor /\ s.sizer_vol_floor <= s.sizer_vol_cap
  /\ 0 <= s.sizer_tilt_floor /\ s.sizer_tilt_floor <= s.sizer_tilt_cap
  /\ s.sizer_inventory_floor \in 0..100

ScheduleOK(c) ==
  /\ \A h \in c.horizons : h > 0
  /\ c.session_open # Absent => c.session_open >= 0
  /\ c.calibration # Absent => c.calibration >= 1
  /\ c.scalars.regime_min_discriminability >= 0

\* Producers precede consumers, and no version of a sensor is declared twice.
SensorSpecsOK(specs) ==
  /\ \A i, j \in DOMAIN specs :
       i # j => specs[i].id # specs[j].id \/ specs[i].version # specs[j].version
  /\ \A i \in DOMAIN specs : \A u \in specs[i].inputs :
       \E j \in DOMAIN specs : j < i /\ specs[j].id = u

CompositionOK(c) ==
  LET s == c.scalars IN
  /\ Bad \notin {c.calendar, c.ex_dates, c.loadings, c.sector_map}
  /\ s.composition_completeness_threshold \in 0..100
  /\ s.composition_lambda_tc >= 0 /\ s.composition_lambda_risk >= 0
  /\ s.factor_loadings_max_age_seconds > 0 /\ s.composition_max_universe_size > 0
  /\ s.composition_gross_cap_pct > 0 /\ s.composition_per_name_cap_pct \in 1..100
  /\ c.signal_max_age # Absent => c.signal_max_age > 0
  /\ c.choices.composition_optimizer_mode \in {"closed_form", "ecos"}

validate(c) ==
  /\ SourcesOK(c) /\ RiskRangesOK(c) /\ HealthRowsOK(c) /\ CostRangesOK(c) /\ ScheduleOK(c)
  /\ SensorSpecsOK(c.sensor_specs) /\ CompositionOK(c)
=============================================================================
