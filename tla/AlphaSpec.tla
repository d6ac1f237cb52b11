------------------------------ MODULE AlphaSpec ------------------------------
(***************************************************************************)
(* What an alpha specification must satisfy to be loaded: the schema check *)
(* and the parsers of AlphaLoader, gates G1 to G17 of LayerValidator, the  *)
(* cost-arithmetic disclosure and the static feature-dependency analysis.  *)
(*                                                                         *)
(* A specification is a record.  Absent is a block the YAML does not have, *)
(* Bad a value of the wrong shape.  Inline code is kept as what the static *)
(* scans learn of it: `signal.reads` is the set of snapshot keys, or Bad   *)
(* when one of them is not a literal.  Prices are in hundredths of a basis *)
(* point, ratios in hundredths.                                            *)
(***************************************************************************)
EXTENDS Integers, Sequences, FiniteSets

CONSTANTS Absent, Bad

ASSUME AbsentAssumption == Absent \notin Int /\ Bad \notin Int /\ Absent # Bad

Families == {"KYLE_INFO", "INVENTORY", "HAWKES_SELF_EXCITE", "LIQUIDITY_STRESS",
             "SCHEDULED_FLOW"}

_FAMILY_HALF_LIFE_RANGES_SECONDS ==
  [KYLE_INFO |-> <<60, 1800>>, INVENTORY |-> <<5, 60>>,
   HAWKES_SELF_EXCITE |-> <<5, 60>>, LIQUIDITY_STRESS |-> <<30, 600>>,
   SCHEDULED_FLOW |-> <<60, 1800>>]

_FAMILY_FINGERPRINT_SENSORS ==
  [KYLE_INFO |-> {"kyle_lambda_60s", "micro_price", "book_imbalance"},
   INVENTORY |-> {"quote_replenish_asymmetry"},
   HAWKES_SELF_EXCITE |-> {"hawkes_intensity"},
   LIQUIDITY_STRESS |-> {"vpin_50bucket", "realized_vol_30s"},
   SCHEDULED_FLOW |-> {"scheduled_flow_window"}]

_FAMILY_MAX_HOLD_HALF_LIFE_MULTIPLE ==
  [KYLE_INFO |-> 3, INVENTORY |-> 1, HAWKES_SELF_EXCITE |-> 1,
   LIQUIDITY_STRESS |-> 2, SCHEDULED_FLOW |-> 2]

DEFAULT_REGISTERED_HORIZONS == {30, 120, 300, 900, 1800}

SeqRange(s) == {s[i] : i \in DOMAIN s}

-----------------------------------------------------------------------------
(* Cost arithmetic: cost components and edge are non-negative, the declared *)
(* margin is at least 1.5 and agrees with the computed one within 5%.       *)

cost_total_bps(c) == c.half_spread_bps + c.impact_bps + c.fee_bps

declared_round_trip_cost_bps(c) ==
  IF c.cost_basis = "round_trip" THEN cost_total_bps(c) ELSE 2 * cost_total_bps(c)

\* |edge / cost - margin| <= 0.05, both sides times 100 * cost.
MarginAgrees(c) ==
  LET d == 100 * c.edge_estimate_bps - c.margin_ratio * cost_total_bps(c) IN
  /\ cost_total_bps(c) > 0
  /\ d <= 5 * cost_total_bps(c) /\ -d <= 5 * cost_total_bps(c)

CostOK(c) ==
  /\ c \notin {Absent, Bad}
  /\ c.cost_basis \in {"one_way", "round_trip"}
  /\ \A f \in {"edge_estimate_bps", "half_spread_bps", "impact_bps", "fee_bps", "margin_ratio"} :
       c[f] \in Int
  /\ c.edge_estimate_bps > 0
  /\ c.half_spread_bps >= 0 /\ c.impact_bps >= 0 /\ c.fee_bps >= 0
  /\ c.margin_ratio >= 150
  /\ MarginAgrees(c)

-----------------------------------------------------------------------------
(* The layer gates. *)

IsSignal(s) == s.layer = "SIGNAL"
IsPortfolio(s) == s.layer = "PORTFOLIO"

_check_g1_layer_independence(s) ==
  /\ IsSignal(s) => s.universe = Absent
  /\ IsPortfolio(s) => s.depends_on_sensors = Absent

_check_g2_event_typing(s) == IsSignal(s) => s.signal \notin {Absent, Bad}

\* Bad: a list of horizons.
_check_g3_no_cross_horizon_leakage(s) == s.horizon_seconds # Bad

_check_g4_regime_gate_purity(s) ==
  IsSignal(s) => s.regime_gate \notin {Absent, Bad} /\ s.regime_gate.compiles

_check_g5_signal_purity(s) == IsSignal(s) => s.signal.parses /\ s.signal.pure

\* The loader gives the validator no sensor list, so ids are not resolved here.
_check_g6_feature_dependency_dag(s) ==
  IsSignal(s) =>
    /\ s.depends_on_sensors \notin {Absent, Bad}
    /\ IF s.reads_no_sensor
       THEN s.depends_on_sensors = <<>> /\ s.signal.reads = {} /\ s.regime_gate.names = {}
       ELSE /\ s.depends_on_sensors # <<>>
            /\ Cardinality(SeqRange(s.depends_on_sensors)) = Len(s.depends_on_sensors)

\* Nor a horizon list: the canonical horizons stand in for the platform's.
_check_g7_horizon_registration(s) ==
  IsSignal(s) => s.horizon_seconds \in DEFAULT_REGISTERED_HORIZONS

_check_g8_no_implicit_lookahead(s) == IsSignal(s) => s.signal.clock_free

_check_g10_universe_disclosure(s) ==
  IsPortfolio(s) => s.universe \notin {Absent, Bad} /\ s.universe # {}

_check_g11_factor_neutralization_disclosure(s) ==
  IsPortfolio(s) => s.factor_neutralization \in BOOLEAN

\* A floor parameter that declares a minimum cannot be overridden below the cost;
\* a minimum that is no number in the file is left to the loader, which reads it.
_check_g12_cost_arithmetic_disclosure(s) ==
  IsSignal(s) =>
    /\ CostOK(s.cost_arithmetic)
    /\ "cost_floor_bps" \in DOMAIN s.parameters =>
         LET floor == s.parameters.cost_floor_bps IN
         (floor.min # Absent /\ floor.numeric) => floor.min >= cost_total_bps(s.cost_arithmetic)

_check_g14_data_scope(s) ==
  s.data_sources \subseteq {"l1_nbbo", "trades", "reference_data", "session_calendar"}

_check_g15_fill_assumptions(s) ==
  s.router \in {Absent, "PassiveLimitOrderRouter", "BacktestOrderRouter"}

_check_stress_family_entry_prohibition(s) ==
  s.trend_mechanism.family = "LIQUIDITY_STRESS" => s.signal.returns \subseteq {"FLAT"}

\* Rules 1 to 7 and 10; the horizon is within half and four half-lives.
_check_g16_signal_rules(s) ==
  LET m == s.trend_mechanism
      h == m.expected_half_life_seconds IN
  /\ m.family \in Families
  /\ h \in Int
  /\ h >= _FAMILY_HALF_LIFE_RANGES_SECONDS[m.family][1]
  /\ h <= _FAMILY_HALF_LIFE_RANGES_SECONDS[m.family][2]
  /\ s.horizon_seconds \in Int
  /\ 2 * s.horizon_seconds >= h /\ s.horizon_seconds <= 4 * h
  /\ m.l1_signature_sensors # Bad
  /\ m.l1_signature_sensors \cap _FAMILY_FINGERPRINT_SENSORS[m.family] # {}
  /\ m.failure_signature
  /\ m.l1_signature_sensors \subseteq SeqRange(s.depends_on_sensors)
  /\ _check_stress_family_entry_prohibition(s)

\* Rule 8.  Rule 9 reads a family off depends_on_signals entries that the
\* loader only accepts as plain ids, so it never applies to a loadable spec.
_check_g16_portfolio_rules(s) ==
  LET c == s.trend_mechanism.consumes
      total[F \in SUBSET Families] ==
        IF F = {} THEN 0
        ELSE LET f == CHOOSE f \in F : TRUE IN
             total[F \ {f}] + IF f \in DOMAIN c THEN c[f] ELSE 0
  IN c # Absent =>
       /\ DOMAIN c \subseteq Families
       /\ \A f \in DOMAIN c : c[f] \in 0 .. 100
       /\ total[Families] >= 100

_check_g16_trend_mechanism_compliance(s, enforce) ==
  IF s.trend_mechanism = Absent THEN ~enforce
  ELSE /\ s.trend_mechanism # Bad
       /\ IsSignal(s) => _check_g16_signal_rules(s)
       /\ IsPortfolio(s) => _check_g16_portfolio_rules(s)

Mode(s) == IF s.safety_exit_policy = Absent THEN "gate_close_flat" ELSE s.safety_exit_policy.mode
Decouples(s) == IsSignal(s) /\ Mode(s) = "decouple_caps_only"

\* Mutant of G17: the ceiling is not compared with the decay.
CheckG17WithoutDecay(s) ==
  \/ s.safety_exit_policy = Absent /\ ~s.story_permission
  \/ /\ IsSignal(s) /\ (s.story_permission => Decouples(s))
     /\ Decouples(s) => s.trend_mechanism \notin {Absent, Bad}

\* A deferred exit is bounded by the decay of the mechanism it waits for.
_check_g17_safety_exit_policy(s) ==
  \/ s.safety_exit_policy = Absent /\ ~s.story_permission
  \/ /\ IsSignal(s)
     /\ s.story_permission => Decouples(s)
     /\ Decouples(s) =>
          /\ s.trend_mechanism \notin {Absent, Bad}
          /\ s.trend_mechanism.family \in Families
          /\ s.trend_mechanism.expected_half_life_seconds \in Int
          /\ s.trend_mechanism.expected_half_life_seconds > 0
          /\ LET hold == s.safety_exit_policy.max_hold_after_safe_off IN
             (hold \in Int /\ hold > 0) =>
               hold <= _FAMILY_MAX_HOLD_HALF_LIFE_MULTIPLE[s.trend_mechanism.family]
                         * s.trend_mechanism.expected_half_life_seconds

\* LayerValidator.validate: G1 and G3 only warn when the gates are not enforced.
LayerValidates(s, gates, mechanism) ==
  /\ gates => _check_g1_layer_independence(s) /\ _check_g3_no_cross_horizon_leakage(s)
  /\ _check_g2_event_typing(s) /\ _check_g4_regime_gate_purity(s)
  /\ _check_g5_signal_purity(s) /\ _check_g6_feature_dependency_dag(s)
  /\ _check_g7_horizon_registration(s) /\ _check_g8_no_implicit_lookahead(s)
  /\ _check_g10_universe_disclosure(s) /\ _check_g11_factor_neutralization_disclosure(s)
  /\ _check_g12_cost_arithmetic_disclosure(s)
  /\ _check_g14_data_scope(s) /\ _check_g15_fill_assumptions(s)
  /\ _check_g16_trend_mechanism_compliance(s, mechanism)
  /\ _check_g17_safety_exit_policy(s)

-----------------------------------------------------------------------------
(* The loader. *)

\* The part of _validate_schema before the layer gates.
_validate_schema(s) ==
  /\ s.schema_version = "1.1"
  /\ s.layer \in {"SIGNAL", "PORTFOLIO"}
  /\ s.has_required_keys /\ s.well_named

_parse_session(s) == s.session \in {Absent, "continuous", "closing_auction"}

\* A parameter: its default, its bounds, whether its minimum is written as a
\* number, whether it is free for optimization.
InBounds(p, v) == v \in Int /\ (p.min # Absent => v >= p.min) /\ (p.max # Absent => v <= p.max)

_parse_parameters(s) ==
  /\ \A n \in DOMAIN s.parameters :
       LET p == s.parameters[n] IN
       /\ {p.min, p.max} \subseteq Int \cup {Absent}
       /\ (Absent \notin {p.min, p.max}) => p.min <= p.max
       /\ InBounds(p, p.default)
  /\ Cardinality({n \in DOMAIN s.parameters : s.parameters[n].free}) <= 3

\* Mutant: overrides are not checked against the bounds.
ResolveKnownNames(s, ov) == DOMAIN ov \subseteq DOMAIN s.parameters

\* An override of a name the alpha does not declare is refused, not dropped.
_resolve_params(s, ov) ==
  /\ DOMAIN ov \subseteq DOMAIN s.parameters
  /\ \A n \in DOMAIN ov : InBounds(s.parameters[n], ov[n])

Params(s, ov) ==
  [n \in DOMAIN s.parameters |-> IF n \in DOMAIN ov THEN ov[n] ELSE s.parameters[n].default]

_parse_horizon_seconds(s) == s.horizon_seconds \in Int /\ s.horizon_seconds >= 30

\* RegimeGate.from_spec: margins nobody refers to are an error when strict.
GateBuilds(s, gates) == gates => s.regime_gate.margins \subseteq s.regime_gate.symbols

\* P(state) and the hazard filter must name states the engine publishes.
_validate_gate_posterior_states(s, states) ==
  states # Absent => s.regime_gate.posteriors \subseteq states

_resolve_regime_engine(s, states) == s.regimes_engine => states # Absent

_parse_hazard_exit_block(s, states) ==
  s.hazard_exit # Absent =>
    /\ s.hazard_exit.known_keys
    /\ s.hazard_exit.threshold # Absent => s.hazard_exit.threshold \in 1 .. 100
    /\ s.hazard_exit.min_age # Absent => s.hazard_exit.min_age >= 0
    /\ s.hazard_exit.hard_age # Absent => s.hazard_exit.hard_age > 0
    /\ states # Absent => s.hazard_exit.regimes \subseteq states

_parse_safety_exit_policy_block(s) ==
  s.safety_exit_policy # Absent =>
    LET p == s.safety_exit_policy IN
    /\ p.known_keys
    /\ p.mode \in {"gate_close_flat", "decouple_caps_only"}
    /\ \A f \in {"max_hold_after_safe_off", "hard_exit_age_seconds"} :
         /\ p[f] # Absent => p[f] \in Int /\ p[f] > 0
         /\ p.mode = "decouple_caps_only" => p[f] # Absent

_parse_lifecycle_state(s) == s.lifecycle_state \in {Absent, "RESEARCH"}

_validate_risk_budget(s) ==
  /\ s.risk_budget.max_position_per_symbol > 0
  /\ \A f \in {"max_gross_exposure_pct", "max_drawdown_pct", "capital_allocation_pct"} :
       s.risk_budget[f] > 0 /\ s.risk_budget[f] <= 100

_load_signal_layer(s, ov, gates, states) ==
  /\ _parse_session(s) /\ _parse_parameters(s) /\ _resolve_params(s, ov)
  /\ _parse_horizon_seconds(s)
  /\ GateBuilds(s, gates)
  /\ _resolve_regime_engine(s, states) /\ _validate_gate_posterior_states(s, states)
  /\ s.signal.takes_three
  /\ _parse_hazard_exit_block(s, states) /\ _parse_safety_exit_policy_block(s)
  /\ _parse_lifecycle_state(s) /\ _validate_risk_budget(s)

_load_portfolio_layer(s, ov) ==
  /\ _parse_session(s) /\ _parse_parameters(s) /\ _resolve_params(s, ov)
  /\ _parse_horizon_seconds(s)
  /\ s.depends_on_signals \notin {Absent, Bad} /\ s.depends_on_signals # <<>>
  /\ CostOK(s.cost_arithmetic)
  /\ _parse_hazard_exit_block(s, Absent)
  /\ s.max_share_of_gross > 0 /\ s.max_share_of_gross <= 100
  /\ s.construct_ok
  /\ _parse_lifecycle_state(s) /\ _validate_risk_budget(s)

\* How a load ends: a failed gate raises LayerValidationError, every other
\* failure AlphaLoadError.
load_from_dict(s, ov, gates, mechanism, states) ==
  CASE ~_validate_schema(s) -> "AlphaLoadError"
    [] _validate_schema(s) /\ ~LayerValidates(s, gates, mechanism) -> "LayerValidationError"
    [] OTHER -> IF \/ IsSignal(s) /\ ~_load_signal_layer(s, ov, gates, states)
                   \/ IsPortfolio(s) /\ ~_load_portfolio_layer(s, ov)
                THEN "AlphaLoadError" ELSE "ok"

-----------------------------------------------------------------------------
(* The static dependency analysis.  A horizon feature is [id, h, sensors];  *)
(* `derived` says that a gate name ends in _percentile or _zscore.          *)

feature_ids_for_sensor_at_horizon(sid, h, features) ==
  {f.id : f \in {g \in features : g.h = h /\ sid \in g.sensors}}

AvailableAt(h, features) == {f.id : f \in {g \in features : g.h = h}}

required_warm_feature_ids_for_signal_alpha(s, features, derived) ==
  LET avail == AvailableAt(s.horizon_seconds, features)
      body == IF s.signal.reads = Bad
              THEN UNION {feature_ids_for_sensor_at_horizon(d, s.horizon_seconds, features) :
                            d \in SeqRange(s.depends_on_sensors)}
              ELSE s.signal.reads \cap avail
      gate == UNION {IF n \in derived \cup avail THEN {n}
                     ELSE feature_ids_for_sensor_at_horizon(n, s.horizon_seconds, features) :
                       n \in s.regime_gate.names}
  IN body \cup gate

\* Mutant: a read has to be published, by whatever sensor.
RejectUnpublishedReads(s, features, derived) ==
  /\ s.signal.reads # Bad
  /\ s.signal.reads \subseteq AvailableAt(s.horizon_seconds, features)

\* Every name the body or the gate reads is a feature of declared sensors.
reject_reads_outside_declared_sensors(s, features, derived) ==
  LET h == s.horizon_seconds
      avail == AvailableAt(h, features)
      Expand(n) == LET p == feature_ids_for_sensor_at_horizon(n, h, features) IN
                   IF n \in derived \cup avail \/ p = {} THEN {n} ELSE p
      names == s.signal.reads \cup UNION {Expand(n) : n \in s.regime_gate.names}
      Owners(n) == UNION {f.sensors : f \in {g \in features : g.h = h /\ g.id = n}}
  IN /\ s.signal.reads # Bad
     /\ \A n \in names : Owners(n) # {} /\ Owners(n) \subseteq SeqRange(s.depends_on_sensors)

reject_parameter_shadowed_by_published_id(s, published) ==
  DOMAIN s.parameters \cap published = {}
=============================================================================
