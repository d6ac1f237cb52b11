------------------------------ MODULE MCStartup ------------------------------
(***************************************************************************)
(* Two SIGNAL alphas and a PORTFOLIO alpha, each with every single         *)
(* departure a gate or a parser looks at, on a platform with every single  *)
(* departure of its configuration; gates and pruning on and off for all.   *)
(***************************************************************************)
EXTENDS Startup, TLC

Kyle == [
  layer |-> "SIGNAL", schema_version |-> "1.1", has_required_keys |-> TRUE,
  well_named |-> TRUE, respects_floor |-> TRUE, universe |-> Absent,
  depends_on_sensors |-> <<"kyle_lambda_60s", "micro_price">>, reads_no_sensor |-> FALSE,
  signal |-> [parses |-> TRUE, pure |-> TRUE, clock_free |-> TRUE, takes_three |-> TRUE,
              reads |-> {"kyle_lambda_60s_zscore"}, returns |-> {"LONG", "SHORT", "FLAT"}],
  regime_gate |-> [compiles |-> TRUE, names |-> {"micro_price"}, margins |-> {},
                   symbols |-> {}, posteriors |-> {"normal"}],
  horizon_seconds |-> 300, data_sources |-> {"l1_nbbo"}, router |-> Absent,
  factor_neutralization |-> Absent,
  cost_arithmetic |-> [edge_estimate_bps |-> 900, half_spread_bps |-> 200, impact_bps |-> 100,
                       fee_bps |-> 100, margin_ratio |-> 225, cost_basis |-> "one_way"],
  parameters |-> [cost_floor_bps |-> [default |-> 500, min |-> 400, max |-> 2000,
                                     numeric |-> TRUE, free |-> TRUE]],
  trend_mechanism |-> [family |-> "KYLE_INFO", expected_half_life_seconds |-> 300,
                       l1_signature_sensors |-> {"kyle_lambda_60s"},
                       failure_signature |-> TRUE, consumes |-> Absent],
  safety_exit_policy |-> [known_keys |-> TRUE, mode |-> "decouple_caps_only",
                          max_hold_after_safe_off |-> 900, hard_exit_age_seconds |-> 1200],
  story_permission |-> TRUE,
  hazard_exit |-> [known_keys |-> TRUE, threshold |-> 85, min_age |-> 0, hard_age |-> Absent,
                   regimes |-> {"normal"}, enabled |-> TRUE],
  session |-> Absent, regimes_engine |-> TRUE, lifecycle_state |-> Absent,
  risk_budget |-> [max_position_per_symbol |-> 100, max_gross_exposure_pct |-> 5,
                   max_drawdown_pct |-> 1, capital_allocation_pct |-> 10],
  depends_on_signals |-> Absent, max_share_of_gross |-> 100, construct_ok |-> TRUE]

\* The benign inventory alpha: sensor ids in the gate, no policy, no hazard exit.
Inventory == [Kyle EXCEPT
  !.depends_on_sensors = <<"quote_replenish_asymmetry", "ofi_raw">>,
  !.signal.reads = {"quote_replenish_asymmetry_zscore", "ofi_integrated"},
  !.regime_gate.names = {"ofi_integrated_percentile"}, !.horizon_seconds = 30,
  !.trend_mechanism.family = "INVENTORY", !.trend_mechanism.expected_half_life_seconds = 30,
  !.trend_mechanism.l1_signature_sensors = {"quote_replenish_asymmetry"},
  !.safety_exit_policy = Absent, !.story_permission = FALSE, !.hazard_exit = Absent]

Basket == [Kyle EXCEPT
  !.layer = "PORTFOLIO", !.universe = {"AAPL", "MSFT"}, !.depends_on_sensors = Absent,
  !.signal = Absent, !.regime_gate = Absent, !.factor_neutralization = TRUE,
  !.parameters = NoFunction, !.safety_exit_policy = Absent, !.story_permission = FALSE,
  !.trend_mechanism.consumes = [KYLE_INFO |-> 60, INVENTORY |-> 40],
  !.depends_on_signals = <<"kyle", "elsewhere">>]

F(p) == [default |-> 500, min |-> 400, max |-> 2000, numeric |-> TRUE, free |-> TRUE]

KyleDepartures == {
  [Kyle EXCEPT !.schema_version = "1.0"], [Kyle EXCEPT !.has_required_keys = FALSE],
  [Kyle EXCEPT !.respects_floor = FALSE],
  [Kyle EXCEPT !.universe = {"AAPL"}], [Kyle EXCEPT !.signal = Absent],
  [Kyle EXCEPT !.horizon_seconds = Bad], [Kyle EXCEPT !.horizon_seconds = 60],
  [Kyle EXCEPT !.horizon_seconds = 900], [Kyle EXCEPT !.horizon_seconds = 1800],
  [Kyle EXCEPT !.horizon_seconds = 120],
  [Kyle EXCEPT !.regime_gate.compiles = FALSE], [Kyle EXCEPT !.signal.pure = FALSE],
  [Kyle EXCEPT !.depends_on_sensors = <<>>],
  [Kyle EXCEPT !.depends_on_sensors = <<"kyle_lambda_60s">>],
  [Kyle EXCEPT !.depends_on_sensors = <<"kyle_lambda_60s", "micro_price", "vpin_50bucket">>],
  [Kyle EXCEPT !.reads_no_sensor = TRUE], [Kyle EXCEPT !.signal.clock_free = FALSE],
  [Kyle EXCEPT !.signal.reads = Bad], [Kyle EXCEPT !.signal.reads = {"ofi_ewma"}],
  [Kyle EXCEPT !.signal.reads = {"kyle_lambda_60s_zscore", "kyle_lambda_60s"}],
  [Kyle EXCEPT !.regime_gate.names = {"spread_z_30d"}],
  [Kyle EXCEPT !.regime_gate.names = {"ofi_ewma_zscore"}],
  [Kyle EXCEPT !.regime_gate.names = {"kyle_lambda_60s"}],
  [Kyle EXCEPT !.regime_gate.margins = {"posterior_margin"}],
  [Kyle EXCEPT !.regime_gate.posteriors = {"calm"}],
  [Kyle EXCEPT !.data_sources = {"l2_book"}], [Kyle EXCEPT !.router = "SmartRouter"],
  [Kyle EXCEPT !.cost_arithmetic = Absent], [Kyle EXCEPT !.cost_arithmetic.margin_ratio = 250],
  [Kyle EXCEPT !.cost_arithmetic.half_spread_bps = -1],
  [Kyle EXCEPT !.parameters.cost_floor_bps.min = 300],
  [Kyle EXCEPT !.parameters.cost_floor_bps.min = 300, !.parameters.cost_floor_bps.numeric = FALSE],
  [Kyle EXCEPT !.parameters.cost_floor_bps.min = Absent],
  [Kyle EXCEPT !.parameters.cost_floor_bps.default = 100],
  [Kyle EXCEPT !.parameters = [cost_floor_bps |-> F(1), a |-> F(1), b |-> F(1), c |-> F(1)]],
  [Kyle EXCEPT !.parameters = [micro_price |-> F(1)]],
  [Kyle EXCEPT !.trend_mechanism = Absent],
  [Kyle EXCEPT !.trend_mechanism.family = "LIQUIDITY_STRESS"],
  [Kyle EXCEPT !.trend_mechanism.family = "INVENTORY"],
  [Kyle EXCEPT !.trend_mechanism.expected_half_life_seconds = 60],
  [Kyle EXCEPT !.trend_mechanism.l1_signature_sensors = {"book_imbalance"}],
  [Kyle EXCEPT !.trend_mechanism.failure_signature = FALSE],
  [Kyle EXCEPT !.safety_exit_policy = Absent],
  [Kyle EXCEPT !.safety_exit_policy.mode = "gate_close_flat"],
  [Kyle EXCEPT !.safety_exit_policy.mode = "other"],
  [Kyle EXCEPT !.safety_exit_policy.max_hold_after_safe_off = 901],
  [Kyle EXCEPT !.safety_exit_policy.max_hold_after_safe_off = Absent],
  [Kyle EXCEPT !.safety_exit_policy.hard_exit_age_seconds = Absent],
  [Kyle EXCEPT !.story_permission = FALSE],
  [Kyle EXCEPT !.hazard_exit.threshold = 0], [Kyle EXCEPT !.hazard_exit.regimes = {"calm"}],
  [Kyle EXCEPT !.hazard_exit = Absent], [Kyle EXCEPT !.session = "overnight"],
  [Kyle EXCEPT !.lifecycle_state = "LIVE"], [Kyle EXCEPT !.risk_budget.max_drawdown_pct = 0]}

BasketDepartures == {
  [Basket EXCEPT !.universe = Absent], [Basket EXCEPT !.universe = {"AAPL", "XYZ"}],
  [Basket EXCEPT !.depends_on_sensors = <<"ofi_ewma">>],
  [Basket EXCEPT !.factor_neutralization = Absent],
  [Basket EXCEPT !.trend_mechanism.consumes = [KYLE_INFO |-> 60, INVENTORY |-> 20]],
  [Basket EXCEPT !.trend_mechanism = Absent],
  [Basket EXCEPT !.depends_on_signals = <<>>], [Basket EXCEPT !.cost_arithmetic = Absent],
  [Basket EXCEPT !.construct_ok = FALSE], [Basket EXCEPT !.horizon_seconds = 60],
  [Basket EXCEPT !.story_permission = TRUE], [Basket EXCEPT !.max_share_of_gross = 0]}

File(n, s) == [name |-> n, id |-> n, spec |-> s]

SensorOn(id, inputs) == [id |-> id, version |-> "1", inputs |-> inputs]
Sensor(id) == SensorOn(id, {})
Specs == <<Sensor("kyle_lambda_60s"), SensorOn("micro_price", {"kyle_lambda_60s"}),
           Sensor("quote_replenish_asymmetry"), Sensor("ofi_raw"),
           SensorOn("ofi_ewma", {"ofi_raw"}), Sensor("spread_z_30d")>>

Plain == [
  mode |-> "BACKTEST", symbols |-> {"AAPL", "MSFT"},
  dir |-> <<File("kyle", Kyle), File("inventory", Inventory)>>, explicit |-> <<File("basket", Basket)>>,
  overrides |-> [kyle |-> [cost_floor_bps |-> 450]],
  scalars |-> [Defaults EXCEPT !.signal_min_edge_cost_ratio = 150,
                               !.composition_max_universe_size = 2],
  flags |-> [FlagDefaults EXCEPT !.enforce_regime_state_scale_alignment = TRUE,
                          !.prune_unused_sensors = TRUE],
  choices |-> ChoiceDefaults, borrow |-> NoFunction, cached |-> {}, terminal |-> NoFunction,
  halt |-> [on |-> {17}, off |-> {}], regime_states |-> REGIME_SCALE_STATE_NAMES,
  calibration |-> Absent, thresholds |-> Absent, session_open |-> Absent, horizons |-> {30, 300},
  sensor_specs |-> Specs, calendar |-> Absent, ex_dates |-> Absent, rth_date |-> Absent,
  moc_date |-> Absent, signal_max_age |-> Absent, loadings |-> Absent,
  sector_map |-> Absent, client |-> 1]

Enforcing == [Plain EXCEPT !.flags.backtest_enforce_ingest_terminal_health = TRUE]

PlainDepartures == {
  [Plain EXCEPT !.mode = "PAPER"], [Plain EXCEPT !.scalars.risk_max_drawdown_pct = 0],
  [Plain EXCEPT !.scalars.sizer_tilt_floor = 400], [Plain EXCEPT !.symbols = {}],
  [Plain EXCEPT !.scalars.cost_stop_slippage_half_spreads = 50],
  [Plain EXCEPT !.choices.execution_mode = "limit"], [Plain EXCEPT !.borrow = [AAPL |-> "easy"]],
  [Plain EXCEPT !.halt.off = {17}], [Plain EXCEPT !.calibration = 0],
  [Plain EXCEPT !.dir = Absent], [Plain EXCEPT !.dir = <<>>], [Plain EXCEPT !.dir = Bad],
  [Plain EXCEPT !.explicit = <<>>], [Plain EXCEPT !.dir = Absent, !.explicit = <<>>],
  [Plain EXCEPT !.dir = <<File("kyle", Kyle), [name |-> "copy", id |-> "kyle", spec |-> Kyle]>>],
  [Plain EXCEPT !.dir = <<[name |-> "old", id |-> "kyle", spec |-> Kyle]>>],
  [Plain EXCEPT !.explicit = <<File("kyle", Kyle)>>],
  [Plain EXCEPT !.overrides = [kyle |-> [cost_floor_bps |-> 300]]],
  [Plain EXCEPT !.overrides = [kyle |-> [no_such |-> 1]]],
  Enforcing, [Enforcing EXCEPT !.terminal = [AAPL |-> "HEALTHY"]],
  [Enforcing EXCEPT !.terminal = [AAPL |-> "HEALTHY", MSFT |-> "GAP_DETECTED"]],
  [Enforcing EXCEPT !.terminal = [AAPL |-> "HEALTHY", MSFT |-> "HEALTHY"]],
  [Enforcing EXCEPT !.mode = "PAPER", !.terminal = [AAPL |-> "HEALTHY", MSFT |-> "HEALTHY"]],
  [Plain EXCEPT !.flags.require_healthy_disk_cache_manifests = TRUE],
  [Plain EXCEPT !.flags.require_healthy_disk_cache_manifests = TRUE, !.cached = {"HEALTHY"}],
  [Plain EXCEPT !.ex_dates = "d1"], [Plain EXCEPT !.thresholds = [dsr_min |-> Bad]],
  [Plain EXCEPT !.scalars.signal_min_edge_cost_ratio = 50],
  [Plain EXCEPT !.scalars.signal_min_edge_cost_ratio = 0],
  [Plain EXCEPT !.regime_states = Absent], [Plain EXCEPT !.regime_states = Bad],
  [Plain EXCEPT !.regime_states = {"calm", "normal"}],
  [Plain EXCEPT !.regime_states = {"calm", "normal"},
                !.flags.enforce_regime_state_scale_alignment = FALSE],
  [Plain EXCEPT !.sensor_specs = <<>>], [Plain EXCEPT !.sensor_specs = SubSeq(Specs, 1, 3)],
  [Plain EXCEPT !.sensor_specs = Specs \o <<Sensor("ofi_raw")>>],
  [Plain EXCEPT !.sensor_specs = Specs \o <<[Sensor("ofi_raw") EXCEPT !.version = "2"]>>],
  [Plain EXCEPT !.sensor_specs = Specs \o <<Sensor("scheduled_flow_window")>>],
  [Plain EXCEPT !.sensor_specs = Specs \o <<Sensor("scheduled_flow_window")>>, !.calendar = "d1"],
  [Plain EXCEPT !.sensor_specs = [Specs EXCEPT ![1].inputs = {"spread_z_30d"}]],
  [Plain EXCEPT !.sensor_specs = <<Sensor("ofi_ewma"), SensorOn("ofi_raw", {"ofi_ewma"})>>
                                   \o SubSeq(Specs, 1, 3)],
  [Plain EXCEPT !.horizons = {300}], [Plain EXCEPT !.horizons = {}], [Plain EXCEPT !.horizons = {0}],
  [Plain EXCEPT !.rth_date = Bad], [Plain EXCEPT !.calendar = "undated"],
  [Plain EXCEPT !.scalars.composition_max_universe_size = 1], [Plain EXCEPT !.session_open = 1],
  [Plain EXCEPT !.loadings = [fresh |-> TRUE, rows |-> {"AAPL", "MSFT"}]],
  [Plain EXCEPT !.session_open = 1, !.loadings = [fresh |-> TRUE, rows |-> {"AAPL", "MSFT"}]],
  [Plain EXCEPT !.session_open = 1, !.loadings = [fresh |-> FALSE, rows |-> {"AAPL", "MSFT"}]]}

Configured(c, gates, pruned) ==
  [c EXCEPT !.flags.enforce_layer_gates = gates, !.flags.enforce_trend_mechanism = gates,
            !.flags.prune_unused_sensors = pruned]

MCConfigs ==
  {Configured(c, g, p) : g \in BOOLEAN, p \in BOOLEAN, c \in
     {Plain} \cup PlainDepartures
     \cup {[Plain EXCEPT !.dir[1].spec = s] : s \in KyleDepartures}
     \cup {[Plain EXCEPT !.explicit[1].spec = s] : s \in BasketDepartures}}

\* Files: `plain` says what Plain does, `child` and its relatives extend it with
\* one departure each; a loop, a chain of as many files as may be
\* read, and one of one more.
Entry(id, inputs) ==
  [sensor_id |-> id, sensor_version |-> "1", cls |-> "feelies.sensors.impl",
   input_sensor_ids |-> inputs]
PlainDocument == [
  symbols |-> {"AAPL", "MSFT"}, alpha_spec_dir |-> Plain.dir, alpha_specs |-> Plain.explicit,
  parameter_overrides |-> [kyle |-> [cost_floor_bps |-> 300]], signal_min_edge_cost_ratio |-> 150,
  prune_unused_sensors |-> TRUE, horizons_seconds |-> {30, 300}, paper |-> [ib_client_id |-> 2],
  sensor_specs |-> [i \in DOMAIN Specs |-> Entry(Specs[i].id, Specs[i].inputs)]]
On(base, data) == [extends |-> base, data |-> data]
Lengthy == <<"l1", "l2", "l3", "l4", "l5", "l6", "l7", "l8", "l9", "l10", "l11", "l12", "l13",
             "l14", "l15">>
MCConfigFiles ==
  [plain |-> On(Absent, PlainDocument),
   child |-> On("plain", [parameter_overrides |-> [kyle |-> [cost_floor_bps |-> 450]]]),
   other |-> On("plain", [parameter_overrides |-> [inventory |-> [cost_floor_bps |-> 450]]]),
   grandchild |-> On("other", [parameter_overrides |-> [kyle |-> [cost_floor_bps |-> 450]]]),
   live |-> On("child", [mode |-> "PAPER", paper |-> [ib_client_id |-> 3]]),
   defaults |-> On("child", [horizons_seconds |-> Absent, regime_engine |-> Absent]),
   misspelt |-> On("child", [prune_sensors |-> FALSE]),
   mode |-> On("child", [mode |-> "LIVE"]), flag |-> On("child", [prune_unused_sensors |-> Bad]),
   engine |-> On("child", [regime_engine |-> Bad]),
   sensor |-> On("child", [sensor_specs |-> <<[sensor_id |-> "ofi_raw", sensor_version |-> "1"]>>]),
   foreign |-> On("child", [sensor_specs |-> <<[Entry("ofi_raw", {}) EXCEPT !.cls = "mine"]>>]),
   thresholds |-> On("child", [gate_thresholds |-> Bad]),
   broken |-> Bad, orphan |-> On("missing", PlainDocument), pointless |-> On(Bad, PlainDocument),
   loop |-> On("loop", PlainDocument)]
  @@ [n \in {Lengthy[i] : i \in 1..15} |->
        LET i == CHOOSE j \in 1..15 : Lengthy[j] = n IN
        On(IF i = 15 THEN "child" ELSE Lengthy[i + 1], NoFunction)]

Usual == [api_key |-> TRUE, ex_date |-> TRUE, normalizer |-> Absent]
Environments == {
  Usual, [Usual EXCEPT !.api_key = FALSE], [Usual EXCEPT !.ex_date = FALSE],
  [Usual EXCEPT !.normalizer = [massive |-> TRUE, halt |-> Plain.halt]],
  [Usual EXCEPT !.normalizer = [massive |-> TRUE, halt |-> [on |-> {}, off |-> {}]]],
  [Usual EXCEPT !.normalizer = [massive |-> FALSE, halt |-> Plain.halt]]}

BuildCall(p, c, e) == [path |-> p, config |-> c, env |-> e]
MCStarts ==
  {BuildCall(Absent, c, Usual) : c \in MCConfigs}
  \cup {BuildCall(Absent, c, e) : e \in Environments, c \in
          {Plain, [Plain EXCEPT !.mode = "PAPER"], [Plain EXCEPT !.ex_dates = "d1"]}}
  \cup {BuildCall(p, Absent, Usual) : p \in DOMAIN MCConfigFiles \ {Lengthy[i] : i \in 3..15}}
=============================================================================
