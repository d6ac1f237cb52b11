--------------------------- MODULE PlatformProofs ---------------------------
(***************************************************************************)
(* Proofs about what runs before and beside the kernel.  First Startup,    *)
(* for every configuration and every alpha file: what the loader let pass  *)
(* is kept with the registered alpha (Admitted), what the sensor layer     *)
(* checked is kept by the layers above it (SensorsWired, SignalsServed),   *)
(* what the configuration check and guard H10 demanded survives the        *)
(* builders that replace the configuration (Fed, Anchored), and the        *)
(* platform as built has all of it.  Then LiveFeed: a lost message is      *)
(* told, and the halt store and the trade-feed machine follow the tape,    *)
(* for any number of symbols, messages, disturbances and restarts.  Then   *)
(* EventStore: what a backtest reads from the disk cache is one whole      *)
(* answer of the vendor under an honest label, for any number of           *)
(* backtests, days and crashes.  Then Ingestor: what a resumed ingest      *)
(* reports is in the log.  Last IBSession: an order is placed at most once *)
(* under an id of its own, and never without a durable record.             *)
(***************************************************************************)
EXTENDS Startup, LiveFeed, EventStore, Ingestor, MCIBSession, TLAPS

(***************************************************************************)
(* What the loader leaves of an alpha.                                     *)
(***************************************************************************)
CostCovered(a) ==
    (/\ IsSignal(a.spec) /\ "cost_floor_bps" \in DOMAIN a.spec.parameters
     /\ a.spec.parameters.cost_floor_bps.min # Absent
     /\ a.spec.parameters.cost_floor_bps.numeric) =>
        a.params.cost_floor_bps >= cost_total_bps(a.spec.cost_arithmetic)

\* The ceilings of a deferred exit.
DeferralCapped(s) ==
    Decouples(s) =>
        LET m == s.trend_mechanism
            p == s.safety_exit_policy IN
        /\ p.hard_exit_age_seconds > 0
        /\ p.max_hold_after_safe_off > 0
        /\ p.max_hold_after_safe_off <=
              _FAMILY_MAX_HOLD_HALF_LIFE_MULTIPLE[m.family] * m.expected_half_life_seconds

\* A specification that loads has passed the layer gates and its parsers.
LEMMA LoadedPasses ==
    ASSUME NEW s, NEW ov, NEW gates, NEW mechanism, NEW states,
           load_from_dict(s, ov, gates, mechanism, states) = "ok"
    PROVE  /\ LayerValidates(s, gates, mechanism)
           /\ IsSignal(s) => _load_signal_layer(s, ov, gates, states)
  <1> DEFINE schema == _validate_schema(s)
             gated == LayerValidates(s, gates, mechanism)
             failed == \/ IsSignal(s) /\ ~_load_signal_layer(s, ov, gates, states)
                       \/ IsPortfolio(s) /\ ~_load_portfolio_layer(s, ov)
  <1>1. (CASE ~schema -> "AlphaLoadError"
           [] schema /\ ~gated -> "LayerValidationError"
           [] OTHER -> IF failed THEN "AlphaLoadError" ELSE "ok") = "ok"
    BY DEF load_from_dict
  <1>2. schema /\ gated /\ ~failed
    <2> HIDE DEF schema, gated, failed
    <2> QED  BY <1>1
  <1> QED  BY <1>2

\* Gate G12 and the bounds of a parameter: default and overrides are above the
\* minimum, and the minimum covers the disclosed cost.
LEMMA FloorCovers ==
    ASSUME NEW s, NEW ov, NEW gates, NEW states,
           IsSignal(s) => _load_signal_layer(s, ov, gates, states),
           _check_g12_cost_arithmetic_disclosure(s)
    PROVE  CostCovered([spec |-> s, params |-> Params(s, ov)])
  <1> DEFINE n == "cost_floor_bps"
             p == s.parameters
             cost == cost_total_bps(s.cost_arithmetic)
  <1> SUFFICES ASSUME IsSignal(s), n \in DOMAIN p, p[n].min # Absent, p[n].numeric
               PROVE  Params(s, ov)[n] >= cost
    BY DEF CostCovered
  <1>1. _parse_parameters(s) /\ _resolve_params(s, ov)
    BY DEF _load_signal_layer
  <1>2. p[n].min \in Int /\ InBounds(p[n], p[n].default)
    BY <1>1 DEF _parse_parameters
  <1>3. n \in DOMAIN ov => InBounds(p[n], ov[n])
    BY <1>1 DEF _resolve_params
  <1>4. Params(s, ov)[n] \in Int /\ Params(s, ov)[n] >= p[n].min
    BY <1>2, <1>3 DEF Params, InBounds
  <1>5. p[n].min >= cost /\ CostOK(s.cost_arithmetic)
    BY DEF _check_g12_cost_arithmetic_disclosure
  <1>6. cost \in Int
    BY <1>5 DEF CostOK, cost_total_bps
  <1> HIDE DEF n, p, cost
  <1> QED  BY <1>2, <1>4, <1>5, <1>6

\* Gate G17 with the parser of the block: a ceiling is there, and within decay.
LEMMA CeilingWithinDecay ==
    ASSUME NEW s, NEW ov, NEW gates, NEW states,
           IsSignal(s) => _load_signal_layer(s, ov, gates, states),
           _check_g17_safety_exit_policy(s)
    PROVE  DeferralCapped(s)
  <1> SUFFICES ASSUME Decouples(s)  PROVE  DeferralCapped(s)
    BY DEF DeferralCapped
  <1>1. IsSignal(s) /\ s.safety_exit_policy # Absent
        /\ s.safety_exit_policy.mode = "decouple_caps_only"
    BY DEF Decouples, Mode
  <1>2. _parse_safety_exit_policy_block(s)
    BY <1>1 DEF _load_signal_layer
  <1>3. \A f \in {"max_hold_after_safe_off", "hard_exit_age_seconds"} :
           s.safety_exit_policy[f] \in Int /\ s.safety_exit_policy[f] > 0
    BY <1>1, <1>2 DEF _parse_safety_exit_policy_block
  <1>4. s.safety_exit_policy.max_hold_after_safe_off <=
           _FAMILY_MAX_HOLD_HALF_LIFE_MULTIPLE[s.trend_mechanism.family]
             * s.trend_mechanism.expected_half_life_seconds
    BY <1>1, <1>3 DEF _check_g17_safety_exit_policy
  <1> QED  BY <1>3, <1>4 DEF DeferralCapped

(***************************************************************************)
(* The invariant.                                                          *)
(***************************************************************************)
Admitted == \A i \in DOMAIN registry :
              CostCovered(registry[i]) /\ DeferralCapped(registry[i].spec)

\* From the sensor layer on, every registered sensor has its inputs.
SensorsWired ==
    pc \in {"signals", "composition", "exits", "built"} =>
       /\ sensors = SensorIds(config.sensor_specs)
       /\ SensorSpecsOK(config.sensor_specs)

\* From the signal layer on, every signal was found registrable.
SignalsServed ==
    pc \in {"composition", "exits", "built"} =>
       \A i \in DOMAIN signals :
          /\ i \in DOMAIN registry /\ Registrable(registry[i])
          /\ signals[i] =
               [warm |-> required_warm_feature_ids_for_signal_alpha(registry[i].spec, features, Derived),
                decouple_gate_close |-> Decouples(registry[i].spec)]

\* The cap controllers hold the ceilings of the deferred signals.
CapsHeld ==
    pc = "built" =>
       \A i \in DOMAIN signals : signals[i].decouple_gate_close =>
          /\ i \in composer \cap DOMAIN caps
          /\ caps[i] = [hold |-> registry[i].spec.safety_exit_policy.max_hold_after_safe_off,
                        age |-> registry[i].spec.safety_exit_policy.hard_exit_age_seconds]

\* What CheckConfig demanded of the health rows still holds of the
\* configuration the builders go on with.
Healthy(c) ==
    c.flags.backtest_enforce_ingest_terminal_health =>
       \A s \in c.symbols : s \in DOMAIN c.terminal /\ c.terminal[s] = "HEALTHY"

Fed ==
    /\ pc \notin {"file", "raised"} => Fields \subseteq DOMAIN config
    /\ pc \notin {"file", "config", "raised"} => Healthy(config)

\* Guard H10 of the sensor layer.
Anchored ==
    pc \in {"signals", "composition", "exits", "built"} =>
       ((config.mode = "PAPER" /\ HasScheduler(config)) => config.session_open # Absent)

Wired == Admitted /\ SensorsWired /\ SignalsServed /\ CapsHeld /\ Fed /\ Anchored

\* Nothing is registered before the first alpha is loaded.
LEMMA StartsWired == StartupInit => Wired
  <1> SUFFICES ASSUME StartupInit  PROVE  Wired
    OBVIOUS
  <1>1. pc \in {"file", "config"} /\ registry = NoFunction
    BY DEF StartupInit, Nothing
  <1>2. pc # "file" => Fields \subseteq DOMAIN config
    BY StartsAssumption DEF StartupInit
  <1> QED  BY <1>1, <1>2 DEF Wired, Admitted, SensorsWired, SignalsServed, CapsHeld, Fed, Anchored,
                             NoFunction

\* What from_yaml makes of a document is a configuration.
LEMMA ParsedHasFields ==
    ASSUME NEW d, from_yaml(d) # Bad
    PROVE  Fields \subseteq DOMAIN from_yaml(d)
  BY DEF from_yaml, Fields

\* What CheckConfig and the pruning replace.
LEMMA ReplacedKeepsHealth ==
    ASSUME NEW c, Fields \subseteq DOMAIN c, NEW v,
           NEW f \in {"session_open", "sensor_specs"}
    PROVE  /\ Fields \subseteq DOMAIN [c EXCEPT ![f] = v]
           /\ Healthy(c) => Healthy([c EXCEPT ![f] = v])
  <1> PICK e : e = [c EXCEPT ![f] = v]
    OBVIOUS
  <1>1. DOMAIN e = DOMAIN c
    OBVIOUS
  <1>2. e.flags = c.flags /\ e.symbols = c.symbols /\ e.terminal = c.terminal
    BY DEF Fields
  <1> QED  BY <1>1, <1>2 DEF Healthy

\* An alpha is registered with what load_from_dict let pass.
LEMMA LoadedAdmitted ==
    ASSUME Admitted, Loaded
    PROVE  Admitted'
  <1> PICK f : f = Head(todo)
    OBVIOUS
  <1> PICK ov : ov = OverridesFor(f)
    OBVIOUS
  <1> DEFINE a == [spec |-> f.spec, params |-> Params(f.spec, ov)]
  <1>1. Outcome(f) = "ok" /\ register(f)
    BY DEF Loaded
  <1>2. load_from_dict(f.spec, ov, config.flags.enforce_layer_gates,
                     config.flags.enforce_trend_mechanism, config.regime_states) = "ok"
    BY <1>1 DEF Outcome
  <1>3. /\ LayerValidates(f.spec, config.flags.enforce_layer_gates,
                          config.flags.enforce_trend_mechanism)
        /\ IsSignal(f.spec) => _load_signal_layer(f.spec, ov, config.flags.enforce_layer_gates, config.regime_states)
    BY <1>2, LoadedPasses
  <1>4. _check_g12_cost_arithmetic_disclosure(f.spec) /\ _check_g17_safety_exit_policy(f.spec)
    BY <1>3 DEF LayerValidates
  <1>5. CostCovered(a)
    BY <1>3, <1>4, FloorCovers
  <1>6. DeferralCapped(f.spec)
    BY <1>3, <1>4, CeilingWithinDecay
  <1>7. registry' = [i \in DOMAIN registry \cup {f.id} |-> IF i = f.id THEN a ELSE registry[i]]
    BY <1>1 DEF register
  <1>8. a.spec = f.spec
    OBVIOUS
  <1> HIDE DEF a
  <1>9. SUFFICES ASSUME NEW i \in DOMAIN registry'
                 PROVE  CostCovered(registry'[i]) /\ DeferralCapped(registry'[i].spec)
    BY DEF Admitted
  <1>10. CASE i = f.id
    BY <1>5, <1>6, <1>7, <1>8, <1>10
  <1>11. CASE i # f.id
    BY <1>7, <1>11 DEF Admitted
  <1> QED  BY <1>10, <1>11

\* A builder above the registry.
LEMMA BuildersKeepAdmitted ==
    ASSUME Admitted, UNCHANGED registry
    PROVE  Admitted'
  BY DEF Admitted

\* Every builder keeps what the ones before it established.
LEMMA NextWired ==
    ASSUME Wired, [StartupNext]_startupVars
    PROVE  Wired'
  <1> USE DEF Wired
  <1>0. CASE ReadFile
    <2>1. UNCHANGED registry
      BY <1>0 DEF ReadFile, wiring
    <2>2. \/ pc' \in {"file", "raised"}
          \/ /\ pc' = "config"
             /\ \E d : config' = from_yaml(d) /\ from_yaml(d) # Bad
      BY <1>0 DEF ReadFile, Raise
    <2>3. Fed'
      BY <2>2, ParsedHasFields DEF Fed
    <2> QED  BY <2>1, <2>2, <2>3, BuildersKeepAdmitted
             DEF SensorsWired, SignalsServed, CapsHeld, Anchored
  <1>1. CASE CheckConfig
    <2>1. UNCHANGED registry /\ pc = "config" /\ pc' \in {"load", "raised"}
      BY <1>1 DEF CheckConfig, Raise, wiring
    <2>2. CASE pc' = "load"
      <3>1. /\ Fields \subseteq DOMAIN config
            /\ config' = _ensure_session_open_ns_for_paper(config)
            /\ HealthRowsOK(config) /\ IngestHealthGiven(config)
        BY <1>1, <2>1, <2>2 DEF CheckConfig, Raise, Fed, validate
      <3>2. Healthy(config)
        BY <3>1 DEF Healthy, HealthRowsOK, IngestHealthGiven
      <3>3. Fields \subseteq DOMAIN config' /\ Healthy(config')
        BY <3>1, <3>2, ReplacedKeepsHealth DEF _ensure_session_open_ns_for_paper
      <3>4. Fed'
        BY <3>3 DEF Fed, Healthy
      <3> QED  BY <2>1, <2>2, <3>4, BuildersKeepAdmitted
               DEF SensorsWired, SignalsServed, CapsHeld, Anchored
    <2>3. CASE pc' = "raised"
      BY <2>1, <2>3, BuildersKeepAdmitted DEF SensorsWired, SignalsServed, CapsHeld, Fed, Anchored
    <2> QED  BY <2>1, <2>2, <2>3
  <1>2. CASE Loaded
    <2>1. pc = "load" /\ pc' = "load" /\ UNCHANGED config
      BY <1>2 DEF Loaded
    <2> QED  BY <1>2, <2>1, LoadedAdmitted
             DEF SensorsWired, SignalsServed, CapsHeld, Fed, Anchored, Healthy
  <1>3. CASE Skipped
    <2>1. UNCHANGED <<registry, config>> /\ pc = "load" /\ pc' = "load"
      BY <1>3 DEF Skipped, wiring
    <2> QED  BY <2>1, BuildersKeepAdmitted
             DEF SensorsWired, SignalsServed, CapsHeld, Fed, Anchored, Healthy
  <1>4. CASE LoadRaises
    <2>1. UNCHANGED registry /\ pc' = "raised"
      BY <1>4 DEF LoadRaises, Raise, wiring
    <2> QED  BY <2>1, BuildersKeepAdmitted DEF SensorsWired, SignalsServed, CapsHeld, Fed, Anchored
  <1>5. CASE Bind
    <2>1. UNCHANGED registry /\ pc = "load" /\ pc' \in {"risk", "raised"}
      BY <1>5 DEF Bind, Raise
    <2>2. CASE pc' = "risk"
      <3>1. Fields \subseteq DOMAIN config /\ Healthy(config)
        BY <2>1 DEF Fed
      <3>2. config' = maybe_prune_unused_sensors
        BY <1>5, <2>1, <2>2 DEF Bind, Raise
      <3>3. config' = config \/ \E v : config' = [config EXCEPT !.sensor_specs = v]
        BY <3>2 DEF maybe_prune_unused_sensors
      <3>4. ASSUME NEW v, config' = [config EXCEPT !.sensor_specs = v]
            PROVE  Fields \subseteq DOMAIN config' /\ Healthy(config')
        BY <3>1, <3>4, ReplacedKeepsHealth
      <3>5. Fields \subseteq DOMAIN config' /\ Healthy(config')
        <4>1. CASE config' = config
          BY <3>1, <4>1 DEF Healthy
        <4> QED  BY <3>3, <3>4, <4>1
      <3>6. Fed'
        BY <3>5 DEF Fed, Healthy
      <3> QED  BY <2>1, <2>2, <3>6, BuildersKeepAdmitted
               DEF SensorsWired, SignalsServed, CapsHeld, Anchored
    <2>3. CASE pc' = "raised"
      BY <2>1, <2>3, BuildersKeepAdmitted DEF SensorsWired, SignalsServed, CapsHeld, Fed, Anchored
    <2> QED  BY <2>1, <2>2, <2>3
  <1>6. CASE CreateRisk \/ _create_backend
    <2>1. UNCHANGED <<registry, config>>
      BY <1>6 DEF CreateRisk, _create_backend, wiring
    <2>2. pc \in {"risk", "backend"} /\ pc' \in {"backend", "sensors", "raised"}
      BY <1>6 DEF CreateRisk, _create_backend, Raise
    <2> QED  BY <2>1, <2>2, BuildersKeepAdmitted
             DEF SensorsWired, SignalsServed, CapsHeld, Fed, Anchored, Healthy
  <1>7. CASE _create_sensor_layer
    <2>1. UNCHANGED <<registry, config>> /\ pc = "sensors"
      BY <1>7 DEF _create_sensor_layer
    <2>2. \/ pc' = "raised"
          \/ /\ pc' = "signals" /\ sensors' = SensorIds(config.sensor_specs)
             /\ SensorSpecsOK(config.sensor_specs)
             /\ (HasScheduler(config) /\ config.session_open = Absent) => config.mode = "BACKTEST"
      BY <1>7 DEF _create_sensor_layer, Raise
    <2>3. SensorsWired'
      BY <2>1, <2>2 DEF SensorsWired
    <2>4. Anchored'
      BY <2>1, <2>2 DEF Anchored, HasScheduler
    <2> QED  BY <2>1, <2>2, <2>3, <2>4, BuildersKeepAdmitted
             DEF SignalsServed, CapsHeld, Fed, Healthy
  <1>8. CASE _create_signal_layer
    <2>1. UNCHANGED <<registry, config, sensors, features>> /\ pc = "signals"
      BY <1>8 DEF _create_signal_layer
    <2>2. SensorsWired' /\ Anchored' /\ Fed'
      <3>1. pc' \in {"composition", "raised"}
        BY <1>8 DEF _create_signal_layer, Raise
      <3> QED  BY <2>1, <3>1 DEF SensorsWired, Anchored, HasScheduler, Fed, Healthy
    <2>3. CASE \A i \in signal_alphas : Registrable(registry[i])
      <3>1. /\ pc' = "composition"
            /\ signals' = [i \in signal_alphas |->
                 [warm |-> required_warm_feature_ids_for_signal_alpha(registry[i].spec, features, Derived),
                  decouple_gate_close |-> Decouples(registry[i].spec)]]
        BY <1>8, <2>3 DEF _create_signal_layer
      <3>2. \A i \in signal_alphas : i \in DOMAIN registry
        BY DEF signal_alphas
      <3>3. SignalsServed'
        BY <2>1, <2>3, <3>1, <3>2 DEF SignalsServed, Registrable, Published
      <3> QED  BY <2>1, <2>2, <3>1, <3>3, BuildersKeepAdmitted DEF CapsHeld
    <2>4. CASE ~ \A i \in signal_alphas : Registrable(registry[i])
      <3>1. pc' = "raised"
        BY <1>8, <2>4 DEF _create_signal_layer, Raise
      <3> QED  BY <2>1, <2>2, <3>1, BuildersKeepAdmitted DEF SignalsServed, CapsHeld
    <2> QED  BY <2>3, <2>4
  <1>9. CASE _create_composition_layer
    <2>1. /\ UNCHANGED <<registry, config, sensors, features, signals>>
          /\ pc = "composition" /\ pc' \in {"exits", "raised"}
      BY <1>9 DEF _create_composition_layer, Raise
    <2> QED  BY <2>1, BuildersKeepAdmitted
             DEF SensorsWired, SignalsServed, CapsHeld, Registrable, Published, Fed, Healthy,
                 Anchored, HasScheduler
  <1>10. CASE CreateExits
    <2>1. UNCHANGED <<registry, config, sensors, features, signals>> /\ pc = "exits"
      BY <1>10 DEF CreateExits
    <2>2. \/ pc' = "raised"
          \/ /\ pc' = "built"
             /\ caps' = [i \in Decoupled |->
                  [hold |-> registry[i].spec.safety_exit_policy.max_hold_after_safe_off,
                   age |-> registry[i].spec.safety_exit_policy.hard_exit_age_seconds]]
             /\ composer' = Decoupled
      BY <1>10 DEF CreateExits, _create_deferral_cap_controller, _create_exit_composer, Raise
    <2>3. CapsHeld'
      BY <2>1, <2>2 DEF CapsHeld, Decoupled
    <2> QED  BY <2>1, <2>2, <2>3, BuildersKeepAdmitted
             DEF SensorsWired, SignalsServed, Registrable, Published, Fed, Healthy, Anchored,
                 HasScheduler
  <1>11. CASE UNCHANGED startupVars
    BY <1>11 DEF startupVars, wiring, Admitted, SensorsWired, SignalsServed, CapsHeld, Registrable,
                 Published, Fed, Healthy, Anchored, HasScheduler
  <1> QED  BY <1>0, <1>1, <1>2, <1>3, <1>4, <1>5, <1>6, <1>7, <1>8, <1>9, <1>10, <1>11 DEF StartupNext

(***************************************************************************)
(* The properties.                                                         *)
(***************************************************************************)
\* A name whose owners were found among the declared sensors is served.
LEMMA OwnedServed ==
    ASSUME SensorsWired, pc = "built", NEW s, NEW n,
           SeqRange(s.depends_on_sensors) \subseteq sensors,
           NEW f \in features, f.h = s.horizon_seconds, f.id = n,
           f.sensors \subseteq SeqRange(s.depends_on_sensors)
    PROVE  Served(n, s.horizon_seconds, SeqRange(s.depends_on_sensors))
  <1>1. \A i \in DOMAIN config.sensor_specs : config.sensor_specs[i].inputs \subseteq sensors
    BY DEF SensorsWired, SensorSpecsOK, SensorIds
  <1> QED  BY <1>1 DEF Served

\* The names of the gate as the two analyses of feature_dependencies see them.
LEMMA ReadsServedOf ==
    ASSUME SensorsWired, pc = "built", NEW a, Registrable(a), NEW w,
           w = required_warm_feature_ids_for_signal_alpha(a.spec, features, Derived)
    PROVE  LET s == a.spec
               declared == SeqRange(s.depends_on_sensors)
               ok(n) == n \in w /\ Served(n, s.horizon_seconds, declared)
           IN /\ s.signal.reads # Bad /\ \A n \in s.signal.reads : ok(n)
              /\ \A n \in s.regime_gate.names :
                   \/ ok(n)
                   \/ LET p == feature_ids_for_sensor_at_horizon(n, s.horizon_seconds, features) IN
                      p # {} /\ \A m \in p : ok(m)
  <1> PICK s : s = a.spec
    OBVIOUS
  <1> PICK h : h = s.horizon_seconds
    OBVIOUS
  <1> DEFINE declared == SeqRange(s.depends_on_sensors)
             avail == AvailableAt(h, features)
             Pieces(n) == feature_ids_for_sensor_at_horizon(n, h, features)
             Expand(n) == IF n \in Derived \cup avail \/ Pieces(n) = {} THEN {n} ELSE Pieces(n)
             names == s.signal.reads \cup UNION {Expand(n) : n \in s.regime_gate.names}
             Owners(n) == UNION {f.sensors : f \in {g \in features : g.h = h /\ g.id = n}}
             gate == UNION {IF n \in Derived \cup avail THEN {n} ELSE Pieces(n) :
                              n \in s.regime_gate.names}
  <1>1. declared \subseteq sensors
    BY DEF Registrable
  <1>2. s.signal.reads # Bad /\ \A n \in names : Owners(n) # {} /\ Owners(n) \subseteq declared
    BY DEF Registrable, reject_reads_outside_declared_sensors
  <1>3. w = (s.signal.reads \cap avail) \cup gate
    BY <1>2 DEF required_warm_feature_ids_for_signal_alpha
  <1>4. ASSUME NEW n \in names
        PROVE  n \in avail /\ Served(n, h, declared)
    <2>1. PICK f \in features : f.h = h /\ f.id = n /\ f.sensors # {}
      BY <1>2
    <2>2. f.sensors \subseteq declared
      BY <1>2, <2>1
    <2>3. n \in avail
      BY <2>1 DEF AvailableAt
    <2> QED  BY <1>1, <2>1, <2>2, <2>3, OwnedServed
  <1>5. \A n \in s.signal.reads : n \in w /\ Served(n, h, declared)
    BY <1>3, <1>4
  <1>6. ASSUME NEW n \in s.regime_gate.names
        PROVE  \/ n \in w /\ Served(n, h, declared)
               \/ Pieces(n) # {} /\ \A m \in Pieces(n) : m \in w /\ Served(m, h, declared)
    <2>1. Expand(n) \subseteq names
      OBVIOUS
    <2>2. CASE n \in Derived \cup avail \/ Pieces(n) = {}
      <3>1. n \in names
        BY <2>1, <2>2
      <3>2. n \in avail /\ Served(n, h, declared)
        BY <1>4, <3>1
      <3>3. n \in w
        BY <1>3, <3>2
      <3> QED  BY <3>2, <3>3
    <2>3. CASE ~(n \in Derived \cup avail \/ Pieces(n) = {})
      <3>1. Pieces(n) \subseteq names
        BY <2>1, <2>3
      <3>2. Pieces(n) \subseteq w
        BY <1>3, <2>3
      <3> QED  BY <1>4, <2>3, <3>1, <3>2
    <2> QED  BY <2>2, <2>3
  <1> QED  BY <1>2, <1>5, <1>6

\* What the invariant says of a platform that was built.
LEMMA WiredServes == Wired => PlatformServesAlphas
  <1> SUFFICES ASSUME Wired  PROVE  PlatformServesAlphas
    OBVIOUS
  <1> USE DEF Wired
  <1>1. CostFloorCovers
    BY DEF CostFloorCovers, Admitted, CostCovered
  <1>2. ASSUME pc = "built", NEW i \in DOMAIN signals, signals[i].decouple_gate_close
        PROVE  LET m == registry[i].spec.trend_mechanism IN
               /\ i \in composer \cap DOMAIN caps /\ caps[i].age > 0
               /\ caps[i].hold > 0
               /\ caps[i].hold <= _FAMILY_MAX_HOLD_HALF_LIFE_MULTIPLE[m.family]
                                    * m.expected_half_life_seconds
    <2>1. i \in DOMAIN registry /\ Decouples(registry[i].spec)
      BY <1>2 DEF SignalsServed
    <2>2. DeferralCapped(registry[i].spec)
      BY <2>1 DEF Admitted
    <2> DEFINE p == registry[i].spec.safety_exit_policy
    <2>3. /\ i \in composer \cap DOMAIN caps
          /\ caps[i] = [hold |-> p.max_hold_after_safe_off, age |-> p.hard_exit_age_seconds]
      BY <1>2 DEF CapsHeld
    <2>4. caps[i].hold = p.max_hold_after_safe_off /\ caps[i].age = p.hard_exit_age_seconds
      BY <2>3
    <2> QED  BY <2>1, <2>2, <2>3, <2>4 DEF DeferralCapped
  <1>3. DeferralBounded
    BY <1>2 DEF DeferralBounded
  <1>4. ReadsServed
    <2> SUFFICES ASSUME pc = "built", NEW i \in DOMAIN signals
                 PROVE  LET s == registry[i].spec
                            declared == SeqRange(s.depends_on_sensors)
                            ok(n) == n \in signals[i].warm /\ Served(n, s.horizon_seconds, declared)
                        IN /\ s.signal.reads # Bad /\ \A n \in s.signal.reads : ok(n)
                           /\ \A n \in s.regime_gate.names :
                                \/ ok(n)
                                \/ LET p == feature_ids_for_sensor_at_horizon(n, s.horizon_seconds, features) IN
                                   p # {} /\ \A m \in p : ok(m)
      BY DEF ReadsServed
    <2>1. /\ Registrable(registry[i])
          /\ signals[i].warm =
               required_warm_feature_ids_for_signal_alpha(registry[i].spec, features, Derived)
      BY DEF SignalsServed
    <2> QED  BY <2>1, ReadsServedOf
  <1>5. SessionSound
    BY DEF SessionSound, Anchored, Fed, Healthy
  <1> QED  BY <1>1, <1>3, <1>4, <1>5 DEF PlatformServesAlphas

\* The invariant of startup, for every configuration and alpha file
\* (build_platform).
THEOREM StartupInductive == StartupSpec => []Wired
  BY StartsWired, NextWired, PTL DEF StartupSpec

\* A platform that was built serves what its alphas read, bounds what they
\* defer and charges what they disclosed (build_platform).
THEOREM StartupTheorem == StartupSpec => []PlatformServesAlphas
  BY StartupInductive, WiredServes, PTL

-----------------------------------------------------------------------------
(***************************************************************************)
(* The market data: LiveFeed.                                              *)
(***************************************************************************)
(***************************************************************************)
(* The inductive invariant.                                                *)
(***************************************************************************)
TapeEvents == [feed : Feeds, marks : {{}, {"on"}, {"off"}}]
Statuses == {"none", "HALT_ON", "HALT_OFF"}
Moving == {"move", "enter", "commit"}
Syncing == {"check", "enter", "commit"}
Handling == {"store", "announce", "gate", "judge"} \cup Syncing
Targets == {"HALTED", "HEALTHY"}
Kinds == {"gap", "continuity", "corrupted", "HALT_ON", "HALT_OFF"}

FeedTyped ==
    /\ ws \in {"none", "import", "connect", "read", "store", "put", "backoff", "leaving", "dead"}
              \cup Moving
    /\ move \in [kind : Kinds, feeds : SUBSET Feeds, then : {"read", "store", "put", "backoff"}]
    /\ parsing \in TapeEvents \cup {Sentinel}
    /\ batch \in Seq(TapeEvents) /\ cancelled \in BOOLEAN
    /\ cursor \in [Feeds -> [seq : Nat, body : {"none", "a", "b"}]]
    /\ health \in [Feeds -> DataHealth]
    /\ halted \in SUBSET Symbols /\ blackout \in SUBSET Symbols
    /\ queue \in Seq(TapeEvents \cup {Sentinel}) /\ stopEvent \in BOOLEAN
    /\ kn \in {"off", "get", "ended", "faulted"} \cup Handling
    /\ knSync \in [sym : Symbols \cup {"none"}, target : Targets \cup {"none"}]
    /\ event \in TapeEvents \cup {Sentinel}
    /\ sent \in [Feeds -> Nat] /\ owed \in [Feeds -> Nat]
    /\ printed \in [Symbols -> Statuses] /\ consumed \in [Symbols -> Statuses]
    /\ lostMark \in SUBSET Symbols /\ hidden \in SUBSET Symbols /\ died \in BOOLEAN

\* Where the websocket thread goes next, and what it then needs.
GoesOn(p) == ws = p \/ (ws \in Moving /\ move.then = p)

\* Where each thread is with the message or the print it handles.
ThreadsOK ==
    /\ ws \in Moving => move.feeds # {}
    /\ GoesOn("store") => parsing \in TapeEvents
    /\ GoesOn("put") => batch # <<>>
    /\ ws = "leaving" => stopEvent \/ died
    /\ kn \in Handling => event \in TapeEvents
    /\ kn \in {"store"} \cup Syncing => event.marks # {} /\ consumed[Sym] = classify_halt_status(event.marks)
    /\ kn \in Syncing =>
          knSync.target = IF classify_halt_status(event.marks) = "HALT_ON" THEN "HALTED" ELSE "HEALTHY"
    /\ cancelled => stopEvent

\* The number of a lost message lies ahead of the cursor, or the thread is
\* about to tell its feed.
OwedOK ==
    \A f \in Feeds :
       /\ cursor[f].seq <= sent[f]
       /\ owed[f] # 0 =>
             /\ health[f] = "HEALTHY" /\ cursor[f].seq # 0 /\ owed[f] <= sent[f]
             /\ cursor[f].seq < owed[f] \/ (ws \in Moving /\ move.kind = "gap" /\ f \in move.feeds)

\* A sentinel is there only for a session that is stopped, without a feed, or
\* not running.
SentinelsOK ==
    (\E i \in DOMAIN queue : queue[i] = Sentinel) =>
       stopEvent \/ died \/ kn \in {"off", "ended", "faulted"}

IsPrint(e, s) == e.feed[1] = s /\ e.marks # {}

Holds(q, s) == \E i \in DOMAIN q : IsPrint(q[i], s)

\* The last halt print of s in q, if there is one, says v.
LastPrint(q, s, v) ==
    \A i \in DOMAIN q :
       IsPrint(q[i], s) /\ (\A j \in DOMAIN q : j > i => ~IsPrint(q[j], s)) =>
          classify_halt_status(q[i].marks) = v

\* ... and that is what the last one parsed said.
LastSays(q, s) == LastPrint(q, s, printed[s])

Clear(s) == ~Holds(batch, s) /\ ~Holds(queue, s)

HaltStored(s) == s \in halted <=> printed[s] = "HALT_ON"

HaltSettled(s) ==
    HaltStored(s) /\ (health[Trade(s)] # "CORRUPTED" => (health[Trade(s)] = "HALTED" <=> s \in halted))

\* The kernel is at a print of s: about to store it, or moving the machine.
Handles(s) == kn \in {"store"} \cup Syncing /\ Sym = s
Moves(s) == kn \in Syncing /\ Sym = s

\* Until the kernel has processed the last print of s, that print is on its way.
HaltOK(s) ==
    s \notin lostMark \cup hidden /\ kn # "faulted" =>
       /\ LastSays(batch, s)
       /\ ~Holds(batch, s) => LastSays(queue, s)
       /\ Clear(s) /\ Handles(s) => classify_halt_status(event.marks) = printed[s]
       /\ Clear(s) /\ Moves(s) => HaltStored(s)
       /\ Clear(s) /\ ~Handles(s) => HaltSettled(s)

HaltsOK == \A s \in Symbols : HaltOK(s)

\* A thread that moves a machine for a halt print holds it in the frame.
SyncHeld ==
    ws \in Moving /\ move.kind \in {"HALT_ON", "HALT_OFF"} =>
       \A f \in move.feeds : f = Trade(f[1]) /\ Holds(batch, f[1])

\* A suspension that was processed and not lifted since is in the store.
SuspendedOK ==
    \A s \in Symbols :
       consumed[s] = "HALT_ON" /\ printed[s] = "HALT_ON" /\ ~(kn = "store" /\ Sym = s) =>
          s \in halted

FeedIInv ==
    FeedTyped /\ ThreadsOK /\ OwedOK /\ SentinelsOK /\ HaltsOK /\ SyncHeld /\ SuspendedOK

(***************************************************************************)
(* The queue and the frame: what is added at one end and taken at the      *)
(* other.                                                                  *)
(***************************************************************************)
\* Adding what is no halt print of s changes nothing for s (_consume).
LEMMA AddPlain ==
    ASSUME NEW S, NEW q \in Seq(S), NEW e \in S, NEW s, NEW v, ~IsPrint(e, s)
    PROVE  /\ Holds(Append(q, e), s) <=> Holds(q, s)
           /\ LastPrint(q, s, v) => LastPrint(Append(q, e), s, v)
  <1>. DEFINE r == Append(q, e)
  <1>1. /\ DOMAIN q = 1..Len(q) /\ DOMAIN r = 1..(Len(q) + 1) /\ Len(q) \in Nat
        /\ \A i \in DOMAIN q : r[i] = q[i]
        /\ r[Len(q) + 1] = e
    OBVIOUS
  <1>. HIDE DEF r
  <1>2. Holds(r, s) <=> Holds(q, s)
    BY <1>1 DEF Holds
  <1>3. LastPrint(q, s, v) => LastPrint(r, s, v)
    BY <1>1 DEF LastPrint
  <1>. QED BY <1>2, <1>3 DEF r

\* A halt print of s that is added is the last one (Accept).
LEMMA AddPrint ==
    ASSUME NEW S, NEW q \in Seq(S), NEW e \in S, NEW s, IsPrint(e, s)
    PROVE  /\ Holds(Append(q, e), s)
           /\ LastPrint(Append(q, e), s, classify_halt_status(e.marks))
  <1>. DEFINE r == Append(q, e)
  <1>1. /\ DOMAIN r = 1..(Len(q) + 1) /\ Len(q) \in Nat
        /\ r[Len(q) + 1] = e
    OBVIOUS
  <1>. HIDE DEF r
  <1>2. Holds(r, s)
    BY <1>1 DEF Holds
  <1>3. LastPrint(r, s, classify_halt_status(e.marks))
    BY <1>1 DEF LastPrint
  <1>. QED BY <1>2, <1>3 DEF r

\* Taking the head (events, _consume).
LEMMA TakeHead ==
    ASSUME NEW S, NEW q \in Seq(S), q # <<>>, NEW s, NEW v
    PROVE  /\ LastPrint(q, s, v) => LastPrint(Tail(q), s, v)
           /\ ~IsPrint(Head(q), s) => (Holds(Tail(q), s) <=> Holds(q, s))
           /\ IsPrint(Head(q), s) => Holds(q, s)
           /\ IsPrint(Head(q), s) /\ ~Holds(Tail(q), s) /\ LastPrint(q, s, v) =>
                 classify_halt_status(Head(q).marks) = v
  <1>. DEFINE r == Tail(q)
              h == Head(q)
  <1>1. /\ Len(q) \in Nat /\ Len(q) > 0 /\ DOMAIN q = 1..Len(q)
        /\ DOMAIN r = 1..(Len(q) - 1)
        /\ \A i \in DOMAIN r : r[i] = q[i + 1]
        /\ h = q[1]
    OBVIOUS
  <1>. HIDE DEF r, h
  <1>2. \A i \in DOMAIN r : i + 1 \in DOMAIN q /\ r[i] = q[i + 1]
    BY <1>1
  <1>3. \A j \in DOMAIN q : j = 1 \/ (j - 1 \in DOMAIN r /\ r[j - 1] = q[j])
    BY <1>1
  <1>4. LastPrint(q, s, v) => LastPrint(r, s, v)
    <2>. SUFFICES ASSUME LastPrint(q, s, v), NEW i \in DOMAIN r, IsPrint(r[i], s),
                         \A j \in DOMAIN r : j > i => ~IsPrint(r[j], s)
                  PROVE  classify_halt_status(r[i].marks) = v
      BY DEF LastPrint
    <2>1. i + 1 \in DOMAIN q /\ r[i] = q[i + 1] /\ i \in Nat
      BY <1>1, <1>2
    <2>2. \A j \in DOMAIN q : j > i + 1 => ~IsPrint(q[j], s)
      BY <1>1, <1>3
    <2>. QED BY <2>1, <2>2 DEF LastPrint
  <1>5. ~IsPrint(h, s) => (Holds(r, s) <=> Holds(q, s))
    BY <1>1, <1>2, <1>3 DEF Holds
  <1>6. IsPrint(h, s) => Holds(q, s)
    BY <1>1 DEF Holds
  <1>7. IsPrint(h, s) /\ ~Holds(r, s) /\ LastPrint(q, s, v) => classify_halt_status(h.marks) = v
    BY <1>1, <1>3 DEF Holds, LastPrint
  <1>. QED BY <1>4, <1>5, <1>6, <1>7 DEF r, h

\* What is put back in its order after the sentinels were taken out
\* (_drain_stale_sentinels).
LEMMA Drained ==
    ASSUME NEW S, NEW q \in Seq(S), NEW n \in Nat, NEW order \in [1..n -> DOMAIN q],
           \A i, j \in 1..n : i < j => order[i] < order[j],
           {order[i] : i \in 1..n} = {i \in DOMAIN q : q[i] # Sentinel},
           NEW r, r = [i \in 1..n |-> q[order[i]]],
           NEW s, NEW v
    PROVE  /\ r \in Seq(S)
           /\ \A i \in DOMAIN r : r[i] # Sentinel
           /\ Holds(r, s) <=> Holds(q, s)
           /\ LastPrint(q, s, v) => LastPrint(r, s, v)
  <1>1. ~IsPrint(Sentinel, s)
    BY DEF IsPrint, Sentinel
  <1>2. DOMAIN q = 1..Len(q) /\ DOMAIN r = 1..n /\ Len(q) \in Nat
    OBVIOUS
  <1>3. \A i \in 1..n : order[i] \in DOMAIN q /\ r[i] = q[order[i]] /\ r[i] \in S /\ r[i] # Sentinel
    OBVIOUS
  <1>4. \A j \in DOMAIN q : q[j] # Sentinel => \E i \in 1..n : order[i] = j
    OBVIOUS
  <1>5. r \in Seq(S)
    BY <1>2, <1>3
  <1>6. Holds(r, s) <=> Holds(q, s)
    BY <1>1, <1>2, <1>3, <1>4 DEF Holds
  <1>7. LastPrint(q, s, v) => LastPrint(r, s, v)
    <2>. SUFFICES ASSUME LastPrint(q, s, v), NEW i \in DOMAIN r, IsPrint(r[i], s),
                         \A j \in DOMAIN r : j > i => ~IsPrint(r[j], s)
                  PROVE  classify_halt_status(r[i].marks) = v
      BY DEF LastPrint
    <2>1. order[i] \in DOMAIN q /\ r[i] = q[order[i]]
      BY <1>2, <1>3
    <2>2. ASSUME NEW j \in DOMAIN q, j > order[i], IsPrint(q[j], s) PROVE FALSE
      <3>1. PICK k \in 1..n : order[k] = j
        BY <1>1, <1>4, <2>2
      <3>2. k > i
        BY <1>2, <2>1, <2>2, <3>1
      <3>. QED BY <1>2, <1>3, <2>2, <3>1, <3>2
    <2>. QED BY <2>1, <2>2 DEF LastPrint
  <1>. QED BY <1>2, <1>3, <1>5, <1>6, <1>7

(***************************************************************************)

(***************************************************************************)
(* The machines and the messages.                                          *)
(***************************************************************************)
\* g, after h, is as HALTED as h was, or CORRUPTED.
SameHalt(h, g) == g = "CORRUPTED" \/ (h # "CORRUPTED" /\ (g = "HALTED" <=> h = "HALTED"))

\* What a move asks for is one of the states, and a report of a gap or of its
\* end neither halts nor resumes a machine that is not halted (_check_gap,
\* notify_feed_interrupted, _mark_corrupted).
LEMMA HealthMoves ==
    ASSUME NEW kind \in Kinds, NEW h \in DataHealth
    PROVE  /\ TargetOf[kind] \in DataHealth
           /\ kind = "gap" => TargetOf[kind] # "HEALTHY" /\ (Asked(kind, h) <=> h = "HEALTHY")
           /\ kind = "corrupted" => SameHalt(h, TargetOf[kind])
           /\ kind \in {"gap", "continuity"} /\ h \notin {"HALTED", "CORRUPTED"} =>
                 SameHalt(h, TargetOf[kind])
  BY DEF Kinds, DataHealth, TargetOf, Asked, SameHalt

\* The machine whose turn it is is one of those asked for.
LEMMA TurnIn ==
    ASSUME FeedTyped, move.feeds # {}
    PROVE  Turn \in move.feeds /\ Turn \in Feeds /\ health[Turn] \in DataHealth
  <1>1. move.feeds \in SUBSET Feeds
    BY DEF FeedTyped
  <1>2. PICK g \in move.feeds : TRUE
    OBVIOUS
  <1>3. \E f \in move.feeds : f[2] = "quote" \/ Quote(f[1]) \notin move.feeds
    BY <1>2 DEF Quote
  <1>4. Turn \in move.feeds
    BY <1>3, Zenon DEF Turn
  <1>. QED BY <1>1, <1>4 DEF FeedTyped

\* Turning to the machines of some feeds (notify_feed_interrupted).
LEMMA AsksMoves ==
    ASSUME NEW kind \in Kinds, NEW feeds \in SUBSET Feeds, feeds # {},
           NEW after \in {"read", "store", "put", "backoff"}, Asks(kind, feeds, after)
    PROVE  /\ move' \in [kind : Kinds, feeds : SUBSET Feeds, then : {"read", "store", "put", "backoff"}]
           /\ ws' = "move" /\ move'.feeds # {} /\ move'.kind = kind /\ move'.feeds = feeds
           /\ move'.then = after
           /\ \A p : GoesOn(p)' <=> p \in {"move", after}
  BY DEF Asks, GoesOn, Moving

\* An interruption is told to both feeds of every symbol it names.
LEMMA Notified ==
    ASSUME NEW symbols \in SUBSET Symbols, symbols # {},
           NEW after \in {"read", "store", "put", "backoff"}, notify_feed_interrupted(symbols, after)
    PROVE  /\ move' \in [kind : Kinds, feeds : SUBSET Feeds, then : {"read", "store", "put", "backoff"}]
           /\ ws' = "move" /\ move'.feeds # {} /\ move'.kind = "gap"
           /\ \A f \in Feeds : f[1] \in symbols => f \in move'.feeds
           /\ \A p : GoesOn(p)' <=> p \in {"move", after}
  <1>. DEFINE feeds == UNION {FeedsOf(s) : s \in symbols}
  <1>1. feeds \in SUBSET Feeds
    BY DEF FeedsOf, Quote, Trade, Feeds
  <1>2. feeds # {}
    BY DEF FeedsOf
  <1>3. \A f \in Feeds : f[1] \in symbols => f \in feeds
    BY DEF FeedsOf, Quote, Trade, Feeds
  <1>4. Asks("gap", feeds, after) /\ "gap" \in Kinds
    BY DEF notify_feed_interrupted, Kinds
  <1>. HIDE DEF feeds
  <1>. QED BY <1>1, <1>2, <1>3, <1>4, AsksMoves

\* One machine is done with: the thread turns to the next or goes on.
LEMMA DoneMoves ==
    ASSUME FeedTyped, ws \in Moving, move.feeds # {}, Done
    PROVE  /\ move' \in [kind : Kinds, feeds : SUBSET Feeds, then : {"read", "store", "put", "backoff"}]
           /\ ws' \in {"move", "read", "store", "put", "backoff"}
           /\ ws' \in Moving => move'.feeds # {} /\ move'.kind = move.kind
           /\ ws' \in Moving => \A f : f \in move'.feeds => f \in move.feeds
           /\ \A f \in move.feeds : f # Turn => ws' \in Moving /\ f \in move'.feeds
           /\ \A p : GoesOn(p)' => p = "move" \/ GoesOn(p)
  <1>. DEFINE left == move.feeds \ {Turn}
  <1>1. move \in [kind : Kinds, feeds : SUBSET Feeds, then : {"read", "store", "put", "backoff"}]
    BY DEF FeedTyped
  <1>2. CASE left = {}
    <2>1. ws' = move.then /\ move' = NoMove
      BY <1>2 DEF Done
    <2>. QED BY <1>1, <1>2, <2>1 DEF NoMove, Moving, GoesOn, Kinds
  <1>3. CASE left # {}
    <2>1. ws' = "move" /\ move' = [move EXCEPT !.feeds = left]
      BY <1>3 DEF Done
    <2>2. left \in SUBSET Feeds
      BY <1>1
    <2>. HIDE DEF left
    <2>3. /\ move' \in [kind : Kinds, feeds : SUBSET Feeds, then : {"read", "store", "put", "backoff"}]
          /\ move'.feeds = left /\ move'.kind = move.kind /\ move'.then = move.then
      BY <1>1, <2>1, <2>2
    <2>4. \A p : GoesOn(p)' => p = "move" \/ GoesOn(p)
      BY <2>1, <2>3 DEF GoesOn, Moving
    <2>. QED BY <1>3, <2>1, <2>3, <2>4 DEF left, Moving
  <1>. QED BY <1>2, <1>3

\* A message is the next one of its feed, or one that carries no number, or a
\* number the cursor has passed (_parse_ws).
LEMMA MessageSeq ==
    ASSUME FeedTyped, NEW f \in Feeds, NEW m \in Messages(f)
    PROVE  /\ m.seq \in Nat /\ m.body \in {"a", "b"}
           /\ m.seq = sent[f] + 1 \/ m.seq <= cursor[f].seq
  <1>. DEFINE next == NextMessage(f)
              All == [seq : Nat, body : {"a", "b"}, price : {"positive", "zero", "bad"},
                      time : {"near", "far"}]
  <1>1. sent[f] \in Nat /\ cursor[f].seq \in Nat
    BY DEF FeedTyped
  <1>2. next \in All /\ next.seq = sent[f] + 1
    BY <1>1 DEF NextMessage
  <1>3. Messages(f) =
          {next} \cup {[next EXCEPT !.seq = 0]}
          \cup {[next EXCEPT !.seq = n] : n \in 1..cursor[f].seq}
          \cup {[next EXCEPT !.price = p] : p \in {"zero", "bad"}}
          \cup {[next EXCEPT !.time = "far"], [next EXCEPT !.seq = cursor[f].seq, !.body = "b"]}
    BY DEF Messages, Disturbances
  <1>. HIDE DEF next
  <1>4. CASE m = next
    BY <1>2, <1>4
  <1>5. CASE m = [next EXCEPT !.seq = 0]
    BY <1>1, <1>2, <1>5
  <1>6. CASE \E n \in 1..cursor[f].seq : m = [next EXCEPT !.seq = n]
    BY <1>1, <1>2, <1>6
  <1>7. CASE \E p \in {"zero", "bad"} : m = [next EXCEPT !.price = p]
    BY <1>2, <1>7
  <1>8. CASE m = [next EXCEPT !.time = "far"]
    BY <1>2, <1>8
  <1>9. CASE m = [next EXCEPT !.seq = cursor[f].seq, !.body = "b"]
    BY <1>1, <1>2, <1>9
  <1>. QED BY <1>3, <1>4, <1>5, <1>6, <1>7, <1>8, <1>9

\* What Accept does, its LET and its set of messages opened.

\* What Accept does, its LET and its set of messages opened.
AcceptOf(f, m, marks) ==
    LET kind == GapKind(m.seq, cursor[f].seq)
    IN  /\ ws = "read"
        /\ f \in Feeds /\ m.seq \in Nat /\ m.body \in {"a", "b"}
        /\ m.seq = sent[f] + 1 \/ m.seq <= cursor[f].seq
        /\ marks \in {{}, {"on"}, {"off"}}
        /\ ReadOne(f, m)
        /\ cursor' = [cursor EXCEPT ![f] = _update_last_seen(m)]
        /\ owed' = [owed EXCEPT ![f] = IF m.seq = 0 THEN 0 ELSE @]
        /\ parsing' = [feed |-> f, marks |-> marks]
        /\ IF kind = "none" THEN ws' = "store" /\ UNCHANGED move ELSE Asks(kind, {f}, "store")
        /\ UNCHANGED <<batch, cancelled, health, halted, blackout, queue, stopEvent, knVars,
                       printed, consumed, lostMark, hidden, died>>

\* The message and the conditions an accepted record comes with.
LEMMA AcceptOpened ==
    ASSUME FeedTyped, NEW f \in Feeds, Accept(f)
    PROVE  \E m, marks : AcceptOf(f, m, marks)
  <1>1. PICK m \in Messages(f), marks \in Marks(f) :
           LET kind == GapKind(m.seq, cursor[f].seq)
           IN /\ Receives(f, m)
              /\ _parse_ws(f, m) = "event"
              /\ ReadOne(f, m)
              /\ cursor' = [cursor EXCEPT ![f] = _update_last_seen(m)]
              /\ owed' = [owed EXCEPT ![f] = IF m.seq = 0 THEN 0 ELSE @]
              /\ parsing' = [feed |-> f, marks |-> marks]
              /\ IF kind = "none" THEN ws' = "store" /\ UNCHANGED move ELSE Asks(kind, {f}, "store")
    BY DEF Accept
  <1>2. marks \in {{}, {"on"}, {"off"}}
    BY DEF Marks
  <1>3. /\ m.seq \in Nat /\ m.body \in {"a", "b"}
        /\ m.seq = sent[f] + 1 \/ m.seq <= cursor[f].seq
    BY MessageSeq
  <1>4. ws = "read" /\ UNCHANGED <<batch, cancelled, health, halted, blackout, queue, stopEvent, knVars,
                                  printed, consumed, lostMark, hidden, died>>
    BY DEF Accept, Reading
  <1>5. AcceptOf(f, m, marks)
    BY <1>1, <1>2, <1>3, <1>4 DEF AcceptOf
  <1>. QED BY <1>5

\* What an accepted message leaves, and where the thread goes with it.
LEMMA Checked ==
    ASSUME FeedTyped, NEW f, NEW m, NEW marks, AcceptOf(f, m, marks)
    PROVE  /\ f \in Feeds /\ f[1] \in Symbols
           /\ cursor' \in [Feeds -> [seq : Nat, body : {"none", "a", "b"}]]
           /\ cursor'[f].seq = m.seq
           /\ \A g \in Feeds : g # f => cursor'[g] = cursor[g]
           /\ sent' \in [Feeds -> Nat] /\ owed' \in [Feeds -> Nat]
           /\ parsing' \in TapeEvents
           /\ move' \in [kind : Kinds, feeds : SUBSET Feeds, then : {"read", "store", "put", "backoff"}]
           /\ ws' \in {"move", "store"}
           /\ ws' = "move" => move'.kind \in {"gap", "continuity"} /\ move'.feeds = {f}
           /\ ws' = "store" => GapKind(m.seq, cursor[f].seq) = "none"
           /\ ws' = "move" => move'.kind = GapKind(m.seq, cursor[f].seq)
           /\ \A p : GoesOn(p)' => p \in {"move", "store"}
  <1>1. f \in Feeds /\ m.seq \in Nat /\ m.body \in {"a", "b"} /\ marks \in {{}, {"on"}, {"off"}}
    BY DEF AcceptOf
  <1>2. /\ cursor \in [Feeds -> [seq : Nat, body : {"none", "a", "b"}]]
        /\ sent \in [Feeds -> Nat] /\ owed \in [Feeds -> Nat]
    BY DEF FeedTyped
  <1>3. _update_last_seen(m) \in [seq : Nat, body : {"none", "a", "b"}] /\ _update_last_seen(m).seq = m.seq
    BY <1>1 DEF _update_last_seen
  <1>4. /\ cursor' \in [Feeds -> [seq : Nat, body : {"none", "a", "b"}]]
        /\ cursor'[f].seq = m.seq
        /\ \A g \in Feeds : g # f => cursor'[g] = cursor[g]
    BY <1>1, <1>2, <1>3 DEF AcceptOf
  <1>5. f[1] \in Symbols /\ [feed |-> f, marks |-> marks] \in TapeEvents
    BY <1>1 DEF Feeds, TapeEvents
  <1>6. parsing' \in TapeEvents
    BY <1>5 DEF AcceptOf
  <1>7. sent' \in [Feeds -> Nat] /\ owed' \in [Feeds -> Nat]
    BY <1>1, <1>2 DEF AcceptOf, ReadOne
  <1>. DEFINE kind == GapKind(m.seq, cursor[f].seq)
  <1>8. kind \in {"none", "gap", "continuity"}
    BY DEF GapKind
  <1>9. IF kind = "none" THEN ws' = "store" /\ UNCHANGED move ELSE Asks(kind, {f}, "store")
    BY DEF AcceptOf
  <1>. HIDE DEF kind
  <1>10. CASE kind = "none"
    BY <1>1, <1>4, <1>5, <1>6, <1>7, <1>9, <1>10 DEF FeedTyped, GoesOn, Moving, kind
  <1>11. CASE kind # "none"
    <2>1. kind \in Kinds /\ kind \in {"gap", "continuity"}
      BY <1>8, <1>11 DEF Kinds
    <2>2. {f} \in SUBSET Feeds /\ {f} # {} /\ Asks(kind, {f}, "store")
      BY <1>1, <1>9, <1>11
    <2>3. /\ move' \in [kind : Kinds, feeds : SUBSET Feeds, then : {"read", "store", "put", "backoff"}]
          /\ ws' = "move" /\ move'.kind = kind /\ move'.feeds = {f}
          /\ \A p : GoesOn(p)' <=> p \in {"move", "store"}
      BY <2>1, <2>2, AsksMoves
    <2>. QED BY <1>1, <1>4, <1>5, <1>6, <1>7, <2>1, <2>3 DEF kind
  <1>. QED BY <1>10, <1>11

(***************************************************************************)
(* The inductive invariant at the start, and its typing step by step.      *)
(***************************************************************************)
\* A new feed, whose threads have not begun.
LEMMA FeedInitIInv == FeedInit => FeedIInv
  <1>. SUFFICES ASSUME FeedInit PROVE FeedIInv
    OBVIOUS
  <1>. USE DEF FeedInit
  <1>1. FeedTyped
    <2>1. NoSync \in [sym : Symbols \cup {"none"}, target : Targets \cup {"none"}]
      BY DEF NoSync
    <2>2. NoCursor \in [seq : Nat, body : {"none", "a", "b"}]
      BY DEF NoCursor
    <2>3. cursor \in [Feeds -> [seq : Nat, body : {"none", "a", "b"}]]
      BY <2>2
    <2>4. health \in [Feeds -> DataHealth]
      BY DEF DataHealth
    <2>5. batch \in Seq(TapeEvents) /\ queue \in Seq(TapeEvents \cup {Sentinel})
      OBVIOUS
    <2>6. event \in TapeEvents \cup {Sentinel} /\ parsing \in TapeEvents \cup {Sentinel}
      OBVIOUS
    <2>7. move \in [kind : Kinds, feeds : SUBSET Feeds, then : {"read", "store", "put", "backoff"}]
      BY DEF NoMove, Kinds
    <2>. QED BY <2>1, <2>3, <2>4, <2>5, <2>6, <2>7 DEF FeedTyped, Statuses
  <1>2. ThreadsOK
    BY DEF ThreadsOK, Syncing, Handling, Moving, GoesOn
  <1>3. OwedOK
    BY DEF OwedOK, NoCursor
  <1>4. SentinelsOK
    BY DEF SentinelsOK
  <1>5. HaltsOK
    <2>. SUFFICES ASSUME NEW s \in Symbols PROVE HaltOK(s)
      BY DEF HaltsOK
    <2>1. Trade(s) \in Feeds
      BY DEF Trade, Feeds
    <2>2. LastSays(batch, s) /\ LastSays(queue, s)
      BY DEF LastSays, LastPrint
    <2>3. HaltSettled(s)
      BY <2>1 DEF HaltSettled, HaltStored
    <2>. QED BY <2>2, <2>3 DEF HaltOK, Handles, Moves, Syncing
  <1>6. SyncHeld /\ SuspendedOK
    BY DEF SyncHeld, SuspendedOK, Moving
  <1>. QED BY <1>1, <1>2, <1>3, <1>4, <1>5, <1>6 DEF FeedIInv

\* What is owed for a feed is cleared where the feed is not HEALTHY (Settle).
LEMMA UntoldIs ==
    ASSUME NEW o \in [Feeds -> Nat], NEW h, owed' = Untold(o, h)
    PROVE  /\ owed' \in [Feeds -> Nat]
           /\ \A f \in Feeds : owed'[f] = IF h[f] # "HEALTHY" THEN 0 ELSE o[f]
  BY DEF Untold

\* The sentinel that is enqueued, or not when the queue is full.
LEMMA SentinelQueued ==
    ASSUME FeedTyped, queue' = enqueue_nowait(Sentinel)
    PROVE  /\ queue' \in Seq(TapeEvents \cup {Sentinel})
           /\ \A s, v : LastPrint(queue, s, v) => LastPrint(queue', s, v)
           /\ \A s : Holds(queue', s) <=> Holds(queue, s)
  <1>1. queue \in Seq(TapeEvents \cup {Sentinel}) /\ Sentinel \in TapeEvents \cup {Sentinel}
    BY DEF FeedTyped
  <1>2. \A s : ~IsPrint(Sentinel, s)
    BY DEF IsPrint, Sentinel
  <1>3. CASE queue' = queue
    BY <1>1, <1>3
  <1>4. CASE queue' = Append(queue, Sentinel)
    <2>1. queue' \in Seq(TapeEvents \cup {Sentinel})
      BY <1>1, <1>4
    <2>2. ASSUME NEW s, NEW v
          PROVE  /\ Holds(queue', s) <=> Holds(queue, s)
                 /\ LastPrint(queue, s, v) => LastPrint(queue', s, v)
      BY <1>1, <1>2, <1>4, AddPlain
    <2>. QED BY <2>1, <2>2
  <1>. QED BY <1>3, <1>4 DEF enqueue_nowait

\* The queue the sentinels were taken out of.
LEMMA QueueDrained ==
    ASSUME FeedTyped, _drain_stale_sentinels
    PROVE  /\ queue' \in Seq(TapeEvents \cup {Sentinel})
           /\ \A i \in DOMAIN queue' : queue'[i] # Sentinel
           /\ \A s, v : LastPrint(queue, s, v) => LastPrint(queue', s, v)
           /\ \A s : Holds(queue', s) <=> Holds(queue, s)
  <1>1. queue \in Seq(TapeEvents \cup {Sentinel}) /\ Len(queue) \in Nat
    BY DEF FeedTyped
  <1>0. PICK n \in 0..Len(queue) :
           \E order \in [1..n -> DOMAIN queue] :
              /\ \A i, j \in 1..n : i < j => order[i] < order[j]
              /\ {order[i] : i \in 1..n} = {i \in DOMAIN queue : queue[i] # Sentinel}
              /\ queue' = [i \in 1..n |-> queue[order[i]]]
    BY DEF _drain_stale_sentinels
  <1>2. PICK order \in [1..n -> DOMAIN queue] :
           /\ \A i, j \in 1..n : i < j => order[i] < order[j]
           /\ {order[i] : i \in 1..n} = {i \in DOMAIN queue : queue[i] # Sentinel}
           /\ queue' = [i \in 1..n |-> queue[order[i]]]
    BY <1>0
  <1>3. n \in Nat
    BY <1>1
  <1>4. ASSUME NEW s, NEW v
        PROVE  /\ queue' \in Seq(TapeEvents \cup {Sentinel})
               /\ \A i \in DOMAIN queue' : queue'[i] # Sentinel
               /\ Holds(queue', s) <=> Holds(queue, s)
               /\ LastPrint(queue, s, v) => LastPrint(queue', s, v)
    <2>. DEFINE S == TapeEvents \cup {Sentinel}
    <2>1. queue \in Seq(S)
      BY <1>1
    <2>. HIDE DEF S
    <2>2. /\ queue' \in Seq(S)
          /\ \A i \in DOMAIN queue' : queue'[i] # Sentinel
          /\ Holds(queue', s) <=> Holds(queue, s)
          /\ LastPrint(queue, s, v) => LastPrint(queue', s, v)
      BY <1>2, <1>3, <2>1, Drained, SMTT(15)
    <2>. QED BY <2>2 DEF S
  <1>. QED BY <1>4

\* The store and the machine's target after a print of s, in either thread
\* (_sync_halt_store_and_health).
LEMMA Stored ==
    ASSUME FeedTyped, NEW s \in Symbols, NEW status \in {"HALT_ON", "HALT_OFF"},
           SyncStore(s, status)
    PROVE  /\ halted' \in SUBSET Symbols /\ blackout' \in SUBSET Symbols
           /\ s \in halted' <=> status = "HALT_ON"
           /\ \A o \in Symbols : o # s => (o \in halted' <=> o \in halted)
           /\ SyncTarget(s, status) \in [sym : Symbols \cup {"none"}, target : Targets \cup {"none"}]
           /\ SyncTarget(s, status) # NoSync =>
                 /\ SyncTarget(s, status).sym = s
                 /\ SyncTarget(s, status).target =
                       IF status = "HALT_ON" THEN "HALTED" ELSE "HEALTHY"
           /\ SyncTarget(s, status) = NoSync =>
                 status = "HALT_OFF" /\ health[Trade(s)] # "HALTED"
  <1>1. halted \in SUBSET Symbols /\ blackout \in SUBSET Symbols
    BY DEF FeedTyped
  <1>2. halted' \in SUBSET Symbols /\ blackout' \in SUBSET Symbols
    BY <1>1 DEF SyncStore
  <1>3. s \in halted' <=> status = "HALT_ON"
    BY <1>1 DEF SyncStore
  <1>4. \A o \in Symbols : o # s => (o \in halted' <=> o \in halted)
    BY <1>1 DEF SyncStore
  <1>5. CASE status = "HALT_ON"
    BY <1>2, <1>3, <1>4, <1>5 DEF SyncTarget, NoSync, Targets
  <1>6. CASE status = "HALT_OFF"
    BY <1>2, <1>3, <1>4, <1>6 DEF SyncTarget, NoSync, Targets
  <1>. QED BY <1>5, <1>6

\* The codebook of a print and of a plain trade (classify_halt_status).
LEMMA Classified ==
    ASSUME NEW marks \in {{}, {"on"}, {"off"}}
    PROVE  /\ classify_halt_status(marks) \in Statuses
           /\ classify_halt_status(marks) = "none" <=> marks = {}
  BY DEF classify_halt_status, Statuses

(***************************************************************************)

(***************************************************************************)
(* What a thread that raises and a full queue leave behind.                *)
(***************************************************************************)
\* The frame is gone, and either the task ends or every symbol is told
\* (MoveRaises).
LEMMA Raised ==
    ASSUME FeedTyped, MoveRaises
    PROVE  /\ move' \in [kind : Kinds, feeds : SUBSET Feeds, then : {"read", "store", "put", "backoff"}]
           /\ owed' \in [Feeds -> Nat]
           /\ lostMark' \in SUBSET Symbols /\ lostMark \subseteq lostMark'
           /\ \A s \in Symbols : Holds(batch, s) => s \in lostMark'
           /\ died' \in BOOLEAN /\ (died => died')
           /\ \/ /\ ws' = "leaving" /\ (stopEvent \/ died')
                 /\ \A f \in Feeds : owed'[f] = 0
              \/ /\ ws' = "move" /\ move'.feeds # {} /\ move'.kind = "gap"
                 /\ \A f \in Feeds : f \in move'.feeds
                 /\ \A f \in Feeds : owed'[f] = 0 \/ (/\ health[f] = "HEALTHY"
                                                      /\ \/ owed'[f] = owed[f]
                                                         \/ owed'[f] = cursor[f].seq)
           /\ ~GoesOn("store")' /\ ~GoesOn("put")'
  <1>1. lostMark' = lostMark \cup
          {batch[i].feed[1] : i \in {j \in DOMAIN batch : batch[j].marks # {}}}
    BY DEF MoveRaises
  <1>2. lostMark' \in SUBSET Symbols
    <2>0. \A e \in TapeEvents : e.feed[1] \in Symbols
      BY DEF TapeEvents, Feeds
    <2>1. \A i \in DOMAIN batch : batch[i].feed[1] \in Symbols
      BY <2>0 DEF FeedTyped
    <2>. QED BY <1>1, <2>1 DEF FeedTyped
  <1>3. \A s \in Symbols : Holds(batch, s) => s \in lostMark'
    BY <1>1 DEF Holds, IsPrint
  <1>4. CASE move.then = "backoff" \/ stopEvent
    <2>1. /\ ws' = "leaving" /\ move' = NoMove /\ died' = (died \/ move.then = "backoff")
          /\ owed' = [f \in Feeds |-> 0]
      BY <1>4 DEF MoveRaises
    <2>2. died \in BOOLEAN
      BY DEF FeedTyped
    <2>. QED BY <1>1, <1>2, <1>3, <1>4, <2>1, <2>2 DEF NoMove, Kinds, GoesOn, Moving
  <1>5. CASE ~(move.then = "backoff" \/ stopEvent)
    <2>. DEFINE o == [f \in Feeds |-> IF owed[f] = 0 /\ Unqueued(f) THEN cursor[f].seq ELSE owed[f]]
    <2>1. notify_feed_interrupted(Symbols, "backoff") /\ owed' = Untold(o, health) /\ died' = died
      BY <1>5 DEF MoveRaises
    <2>2. o \in [Feeds -> Nat] /\ \A f \in Feeds : o[f] = owed[f] \/ o[f] = cursor[f].seq
      BY DEF FeedTyped
    <2>. HIDE DEF o
    <2>3. /\ owed' \in [Feeds -> Nat]
          /\ \A f \in Feeds : owed'[f] = IF health[f] # "HEALTHY" THEN 0 ELSE o[f]
      BY <2>1, <2>2, UntoldIs
    <2>4. Symbols \in SUBSET Symbols /\ Symbols # {}
      BY LiveFeedAssumption
    <2>5. "backoff" \in {"read", "store", "put", "backoff"}
      OBVIOUS
    <2>6. /\ move' \in [kind : Kinds, feeds : SUBSET Feeds, then : {"read", "store", "put", "backoff"}]
          /\ ws' = "move" /\ move'.feeds # {} /\ move'.kind = "gap"
          /\ \A f \in Feeds : f[1] \in Symbols => f \in move'.feeds
          /\ \A p : GoesOn(p)' <=> p \in {"move", "backoff"}
      BY <2>1, <2>4, <2>5, Notified
    <2>7. \A f \in Feeds : f[1] \in Symbols
      BY DEF Feeds
    <2>8. died \in BOOLEAN
      BY DEF FeedTyped
    <2>. QED BY <1>1, <1>2, <1>3, <2>1, <2>2, <2>3, <2>6, <2>7, <2>8
  <1>. QED BY <1>4, <1>5

\* The event that found the queue full is lost, and its feed is told (DropEvent).
LEMMA Dropped ==
    ASSUME FeedTyped, NEW e \in TapeEvents, DropEvent(e), PutOn \in {"read", "put"}
    PROVE  /\ move' \in [kind : Kinds, feeds : SUBSET Feeds, then : {"read", "store", "put", "backoff"}]
           /\ ws' = "move" /\ move'.feeds # {} /\ move'.kind = "gap"
           /\ e.feed \in move'.feeds /\ e.feed \in Feeds
           /\ \A p : GoesOn(p)' <=> p \in {"move", PutOn}
           /\ owed' \in [Feeds -> Nat]
           /\ \A f \in Feeds : owed'[f] = 0 \/ (health[f] = "HEALTHY" /\ owed'[f] = owed[f])
                               \/ (/\ f = e.feed /\ health[f] = "HEALTHY"
                                   /\ owed'[f] = cursor[f].seq)
           /\ lostMark' = (IF e.marks = {} THEN lostMark ELSE lostMark \cup {e.feed[1]})
           /\ lostMark' \in SUBSET Symbols
  <1>. DEFINE o == [owed EXCEPT ![e.feed] = IF @ = 0 THEN cursor[e.feed].seq ELSE @]
  <1>1. e.feed \in Feeds /\ e.feed[1] \in Symbols
    BY DEF TapeEvents, Feeds
  <1>2. /\ o \in [Feeds -> Nat]
        /\ \A f \in Feeds : f # e.feed => o[f] = owed[f]
        /\ o[e.feed] = owed[e.feed] \/ o[e.feed] = cursor[e.feed].seq
    BY <1>1 DEF FeedTyped
  <1>3. /\ notify_feed_interrupted({e.feed[1]}, PutOn) /\ owed' = Untold(o, health)
        /\ lostMark' = (IF e.marks = {} THEN lostMark ELSE lostMark \cup {e.feed[1]})
    BY DEF DropEvent, DropsFrom
  <1>. HIDE DEF o
  <1>4. /\ owed' \in [Feeds -> Nat]
        /\ \A f \in Feeds : owed'[f] = IF health[f] # "HEALTHY" THEN 0 ELSE o[f]
    BY <1>2, <1>3, UntoldIs
  <1>5. {e.feed[1]} \in SUBSET Symbols /\ {e.feed[1]} # {}
    BY <1>1
  <1>6. PutOn \in {"read", "store", "put", "backoff"}
    OBVIOUS
  <1>7. /\ move' \in [kind : Kinds, feeds : SUBSET Feeds, then : {"read", "store", "put", "backoff"}]
        /\ ws' = "move" /\ move'.feeds # {} /\ move'.kind = "gap"
        /\ \A f \in Feeds : f[1] \in {e.feed[1]} => f \in move'.feeds
        /\ \A p : GoesOn(p)' <=> p \in {"move", PutOn}
    BY <1>3, <1>5, <1>6, Notified
  <1>8. \A f \in Feeds : owed'[f] = 0 \/ (health[f] = "HEALTHY" /\ owed'[f] = owed[f])
                         \/ (f = e.feed /\ health[f] = "HEALTHY" /\ owed'[f] = cursor[f].seq)
    BY <1>2, <1>4
  <1>9. lostMark' \in SUBSET Symbols
    BY <1>1, <1>3 DEF FeedTyped
  <1>. QED BY <1>1, <1>3, <1>4, <1>7, <1>8, <1>9

(***************************************************************************)
(* Typing, and where each thread is, step by step.                         *)
(***************************************************************************)
\* The websocket thread moves a machine (MoveSkips .. MoveRaises).
LEMMA MovesThreads ==
    ASSUME FeedTyped, ThreadsOK, MoveSkips \/ MoveAsks \/ MoveEnters \/ MoveCommits \/ MoveRaises
    PROVE  FeedTyped' /\ ThreadsOK'
  <1>. USE DEF moveRest, knVars, Sym
  <1>1. ws \in Moving /\ move.feeds # {}
    BY DEF ThreadsOK, Moving, MoveSkips, MoveAsks, MoveEnters, MoveCommits, MoveRaises
  <1>2. Turn \in Feeds /\ health[Turn] \in DataHealth
    BY <1>1, TurnIn
  <1>3. CASE MoveAsks \/ MoveEnters
    BY <1>3 DEF MoveAsks, MoveEnters, FeedTyped, ThreadsOK, GoesOn, Moving, Handling, Syncing
  <1>4. CASE MoveSkips \/ MoveCommits
    <2>1. Done /\ UNCHANGED moveRest
      BY <1>4 DEF MoveSkips, MoveCommits
    <2>2. /\ move' \in [kind : Kinds, feeds : SUBSET Feeds, then : {"read", "store", "put", "backoff"}]
          /\ ws' \in {"move", "read", "store", "put", "backoff"}
          /\ ws' \in Moving => move'.feeds # {}
          /\ \A p : GoesOn(p)' => p = "move" \/ GoesOn(p)
      BY <1>1, <2>1, DoneMoves
    <2>3. health' \in [Feeds -> DataHealth] /\ owed' \in [Feeds -> Nat] /\ hidden' \in SUBSET Symbols
      <3>1. CASE MoveSkips
        BY <3>1 DEF MoveSkips, FeedTyped
      <3>2. CASE MoveCommits
        <4>1. move.kind \in Kinds
          BY DEF FeedTyped
        <4>2. health' = [health EXCEPT ![Turn] = TargetOf[move.kind]] /\ owed' = Untold(owed, health')
          BY <3>2 DEF MoveCommits, Settle
        <4>3. TargetOf[move.kind] \in DataHealth
          BY <1>2, <4>1, HealthMoves
        <4>4. health' \in [Feeds -> DataHealth]
          BY <4>2, <4>3 DEF FeedTyped
        <4>5. owed \in [Feeds -> Nat]
          BY DEF FeedTyped
        <4>6. owed' \in [Feeds -> Nat]
          BY <4>2, <4>5, UntoldIs
        <4>7. Turn[1] \in Symbols
          BY <1>2 DEF Feeds
        <4>8. hidden' \in SUBSET Symbols
          BY <3>2, <4>7 DEF MoveCommits, FeedTyped
        <4>. QED BY <4>4, <4>6, <4>8
      <3>. QED BY <1>4, <3>1, <3>2
    <2>4. FeedTyped'
      BY <2>1, <2>2, <2>3 DEF FeedTyped, Moving
    <2>. QED BY <2>1, <2>2, <2>4 DEF ThreadsOK, Moving
  <1>5. CASE MoveRaises
    <2>1. UNCHANGED <<cancelled, cursor, health, halted, blackout, queue, stopEvent, knVars,
                      sent, printed, consumed, hidden>> /\ parsing' = Sentinel /\ batch' = <<>>
      BY <1>5 DEF MoveRaises
    <2>2. /\ move' \in [kind : Kinds, feeds : SUBSET Feeds, then : {"read", "store", "put", "backoff"}]
          /\ owed' \in [Feeds -> Nat]
          /\ lostMark' \in SUBSET Symbols /\ died' \in BOOLEAN
          /\ ws' = "leaving" => stopEvent \/ died'
          /\ ws' = "move" => move'.feeds # {}
          /\ ws' \in {"leaving", "move"}
          /\ ~GoesOn("store")' /\ ~GoesOn("put")'
      BY <1>5, Raised
    <2>3. batch' \in Seq(TapeEvents)
      BY <2>1
    <2>4. FeedTyped'
      BY <2>1, <2>2, <2>3 DEF FeedTyped, Moving
    <2>. QED BY <2>1, <2>2, <2>4 DEF ThreadsOK, Moving
  <1>. QED BY <1>3, <1>4, <1>5

\* Every step of the two threads keeps the types, and a thread that handles a
\* message or a print holds one (FeedTyped, ThreadsOK).
LEMMA ThreadsStep ==
    ASSUME FeedTyped, ThreadsOK, FeedNext
    PROVE  FeedTyped' /\ ThreadsOK'
  <1>. USE DEF wsVars, knVars, history, Shared, wsSame, knRest, knSame, Sym
  <1>0. /\ Syncing = {"check", "enter", "commit"} /\ Moving = {"move", "enter", "commit"}
        /\ Handling = {"store", "announce", "gate", "judge", "check", "enter", "commit"}
    BY DEF Syncing, Handling, Moving
  <1>1. CASE start
    <2>1. queue' \in Seq(TapeEvents \cup {Sentinel})
      BY <1>1, QueueDrained DEF start
    <2>. QED BY <1>0, <1>1, <2>1 DEF start, FeedTyped, ThreadsOK, GoesOn
  <1>2. CASE stop
    <2>1. queue' \in Seq(TapeEvents \cup {Sentinel})
      BY <1>2, SentinelQueued DEF stop
    <2>. QED BY <1>0, <1>2, <2>1 DEF stop, FeedTyped, ThreadsOK, GoesOn
  <1>3. CASE halt
    BY <1>0, <1>3 DEF halt, FeedTyped, ThreadsOK, GoesOn
  <1>4. CASE ImportWebsockets
    <2>1. UNCHANGED <<Shared, parsing, batch, cancelled, owed, lostMark, move, queue>>
      BY <1>4 DEF ImportWebsockets
    <2>2. ws' \in {"connect", "leaving"} /\ died' \in BOOLEAN /\ (ws' = "leaving" => died')
      BY <1>4 DEF ImportWebsockets, FeedTyped
    <2>3. FeedTyped'
      BY <1>0, <2>1, <2>2 DEF FeedTyped
    <2>. QED BY <1>0, <2>1, <2>2, <2>3 DEF ThreadsOK, GoesOn
  <1>5. CASE ConnectionClosed \/ BackoffEnds \/ EndFrame
    BY <1>0, <1>5 DEF ConnectionClosed, BackoffEnds, EndFrame, FeedTyped, ThreadsOK, GoesOn
  <1>6. CASE _connect_with_retry \/ ConnectionLost
    <2>1. UNCHANGED <<Shared, parsing, batch, cancelled, owed, lostMark, queue, died>>
      BY <1>6 DEF _connect_with_retry, ConnectionLost
    <2>2. \/ ws' = "read" /\ UNCHANGED move
          \/ \E after \in {"read", "backoff"} : notify_feed_interrupted(Symbols, after)
      BY <1>6 DEF _connect_with_retry, ConnectionLost
    <2>3. CASE ws' = "read" /\ UNCHANGED move
      BY <1>0, <2>1, <2>3 DEF FeedTyped, ThreadsOK, GoesOn
    <2>4. ASSUME NEW after \in {"read", "backoff"}, notify_feed_interrupted(Symbols, after)
          PROVE  FeedTyped' /\ ThreadsOK'
      <3>1. Symbols \in SUBSET Symbols /\ Symbols # {} /\ after \in {"read", "store", "put", "backoff"}
        BY LiveFeedAssumption
      <3>2. /\ move' \in [kind : Kinds, feeds : SUBSET Feeds, then : {"read", "store", "put", "backoff"}]
            /\ ws' = "move" /\ move'.feeds # {}
            /\ \A p : GoesOn(p)' <=> p \in {"move", after}
        BY <2>4, <3>1, Notified
      <3>3. ~GoesOn("store")' /\ ~GoesOn("put")'
        BY <3>2
      <3>4. FeedTyped'
        BY <1>0, <2>1, <3>2 DEF FeedTyped
      <3>. QED BY <1>0, <2>1, <3>2, <3>3, <3>4 DEF ThreadsOK
    <2>. QED BY <2>2, <2>3, <2>4
  <1>7. CASE MoveSkips \/ MoveAsks \/ MoveEnters \/ MoveCommits \/ MoveRaises
    BY <1>7, MovesThreads
  <1>8. CASE _run_loop
    <2>1. queue' \in Seq(TapeEvents \cup {Sentinel})
      BY <1>8, SentinelQueued DEF _run_loop
    <2>. QED BY <1>0, <1>8, <2>1 DEF _run_loop, FeedTyped, ThreadsOK, GoesOn
  <1>9. ASSUME NEW f \in Feeds, MessageLost(f) PROVE FeedTyped' /\ ThreadsOK'
    <2>1. sent' \in [Feeds -> Nat] /\ owed' \in [Feeds -> Nat]
      BY <1>9 DEF MessageLost, FeedTyped
    <2>. QED BY <1>0, <1>9, <2>1 DEF MessageLost, FeedTyped, ThreadsOK, GoesOn
  <1>10. ASSUME NEW f \in Feeds, _mark_corrupted(f) PROVE FeedTyped' /\ ThreadsOK'
    <2>1. PICK m \in Messages(f) : ReadOne(f, m)
      BY <1>10 DEF _mark_corrupted
    <2>2. sent' \in [Feeds -> Nat]
      BY <2>1, MessageSeq DEF ReadOne, FeedTyped
    <2>3. Asks("corrupted", FeedsOf(f[1]), "read")
      BY <1>10 DEF _mark_corrupted
    <2>4. "corrupted" \in Kinds /\ FeedsOf(f[1]) \in SUBSET Feeds /\ FeedsOf(f[1]) # {}
      BY DEF Kinds, FeedsOf, Quote, Trade, Feeds
    <2>5. /\ move' \in [kind : Kinds, feeds : SUBSET Feeds, then : {"read", "store", "put", "backoff"}]
          /\ ws' = "move" /\ move'.feeds # {}
          /\ \A p : GoesOn(p)' <=> p \in {"move", "read"}
      BY <2>3, <2>4, AsksMoves
    <2>6. ~GoesOn("store")' /\ ~GoesOn("put")'
      BY <2>5
    <2>7. UNCHANGED <<parsing, batch, cancelled, cursor, health, halted, blackout, queue, stopEvent,
                      knVars, owed, printed, consumed, lostMark, hidden, died>>
      BY <1>10 DEF _mark_corrupted
    <2>8. FeedTyped'
      BY <1>0, <2>2, <2>5, <2>7 DEF FeedTyped
    <2>. QED BY <1>0, <2>5, <2>6, <2>7, <2>8 DEF ThreadsOK
  <1>11. ASSUME NEW f \in Feeds, Accept(f) PROVE FeedTyped' /\ ThreadsOK'
    <2>1. PICK m, marks : AcceptOf(f, m, marks)
      BY <1>11, AcceptOpened
    <2>2. /\ cursor' \in [Feeds -> [seq : Nat, body : {"none", "a", "b"}]]
          /\ sent' \in [Feeds -> Nat] /\ owed' \in [Feeds -> Nat]
          /\ parsing' \in TapeEvents
          /\ move' \in [kind : Kinds, feeds : SUBSET Feeds, then : {"read", "store", "put", "backoff"}]
          /\ ws' \in {"move", "store"}
          /\ ws' = "move" => move'.feeds = {f}
          /\ \A p : GoesOn(p)' => p \in {"move", "store"}
      BY <2>1, Checked
    <2>3. UNCHANGED <<batch, cancelled, health, halted, blackout, queue, stopEvent, knVars,
                      printed, consumed, lostMark, hidden, died>>
      BY <2>1 DEF AcceptOf
    <2>4. ~GoesOn("put")'
      BY <2>2
    <2>5. FeedTyped'
      BY <1>0, <2>2, <2>3 DEF FeedTyped
    <2>. QED BY <1>0, <2>2, <2>3, <2>4, <2>5 DEF ThreadsOK
  <1>12. CASE _apply_halt_status_ws
    <2>. DEFINE status == classify_halt_status(parsing.marks)
                s == parsing.feed[1]
    <2>1. /\ ws = "store" /\ batch' = Append(batch, parsing) /\ parsing' = Sentinel
          /\ UNCHANGED <<cancelled, cursor, health, queue, stopEvent, knVars, sent, owed, consumed,
                         lostMark, hidden, died>>
      BY <1>12 DEF _apply_halt_status_ws
    <2>2. parsing \in TapeEvents
      BY <2>1 DEF ThreadsOK, GoesOn
    <2>3. s \in Symbols /\ parsing.marks \in {{}, {"on"}, {"off"}} /\ batch' \in Seq(TapeEvents)
      BY <2>1, <2>2 DEF TapeEvents, Feeds, FeedTyped
    <2>4. status \in Statuses
      BY <2>3, Classified
    <2>5. CASE status = "none"
      <3>1. ws' = "read" /\ UNCHANGED <<move, halted, blackout, printed>>
        BY <1>12, <2>5 DEF _apply_halt_status_ws
      <3>. QED BY <1>0, <2>1, <2>3, <3>1 DEF FeedTyped, ThreadsOK, GoesOn
    <2>6. CASE status # "none"
      <3>1. /\ SyncStore(s, status) /\ printed' = [printed EXCEPT ![s] = status]
            /\ \/ ws' = "read" /\ UNCHANGED move
               \/ Asks(status, {Trade(s)}, "read")
        BY <1>12, <2>6 DEF _apply_halt_status_ws
      <3>2. status \in {"HALT_ON", "HALT_OFF"} /\ status \in Kinds
        BY <2>4, <2>6 DEF Statuses, Kinds
      <3>. HIDE DEF status, s
      <3>3. halted' \in SUBSET Symbols /\ blackout' \in SUBSET Symbols
        BY <2>3, <3>1, <3>2, Stored
      <3>4. printed' \in [Symbols -> Statuses]
        BY <2>3, <2>4, <3>1 DEF FeedTyped
      <3>5. /\ move' \in [kind : Kinds, feeds : SUBSET Feeds, then : {"read", "store", "put", "backoff"}]
            /\ ws' \in {"read", "move"} /\ (ws' = "move" => move'.feeds # {})
            /\ ~GoesOn("store")' /\ ~GoesOn("put")'
        <4>1. CASE ws' = "read" /\ UNCHANGED move
          BY <1>0, <4>1 DEF FeedTyped, GoesOn
        <4>2. CASE Asks(status, {Trade(s)}, "read")
          <5>1. {Trade(s)} \in SUBSET Feeds /\ {Trade(s)} # {}
            BY <2>3 DEF Trade, Feeds
          <5>2. /\ move' \in [kind : Kinds, feeds : SUBSET Feeds, then : {"read", "store", "put", "backoff"}]
                /\ ws' = "move" /\ move'.feeds # {}
                /\ \A p : GoesOn(p)' <=> p \in {"move", "read"}
            BY <3>2, <4>2, <5>1, AsksMoves
          <5>. QED BY <5>2
        <4>. QED BY <3>1, <4>1, <4>2
      <3>6. FeedTyped'
        BY <1>0, <2>1, <2>3, <3>3, <3>4, <3>5 DEF FeedTyped
      <3>. QED BY <1>0, <2>1, <3>5, <3>6 DEF ThreadsOK
    <2>. QED BY <2>5, <2>6
  <1>13. CASE _consume
    <2>0. batch \in Seq(TapeEvents) /\ batch # <<>>
      BY <1>13 DEF _consume, FeedTyped, ThreadsOK, GoesOn
    <2>1. Head(batch) \in TapeEvents /\ Tail(batch) \in Seq(TapeEvents)
      BY <2>0
    <2>2. /\ ws = "put" /\ batch' = Tail(batch) /\ UNCHANGED <<Shared, parsing, cancelled, died>>
          /\ PutOn \in {"read", "put"} /\ (PutOn = "put" => batch' # <<>>)
      BY <1>13 DEF _consume, PutOn
    <2>3. CASE Len(queue) < MaxQueue
      <3>1. queue' = Append(queue, Head(batch)) /\ ws' = PutOn /\ UNCHANGED <<move, owed, lostMark>>
        BY <1>13, <2>3 DEF _consume
      <3>2. queue \in Seq(TapeEvents \cup {Sentinel}) /\ Head(batch) \in TapeEvents \cup {Sentinel}
        BY <2>1 DEF FeedTyped
      <3>3. queue' \in Seq(TapeEvents \cup {Sentinel})
        BY <3>1, <3>2
      <3>. QED BY <1>0, <2>1, <2>2, <3>1, <3>3 DEF FeedTyped, ThreadsOK, GoesOn
    <2>4. CASE ~(Len(queue) < MaxQueue)
      <3>1. UNCHANGED queue /\ DropEvent(Head(batch))
        BY <1>13, <2>4 DEF _consume
      <3>2. /\ move' \in [kind : Kinds, feeds : SUBSET Feeds, then : {"read", "store", "put", "backoff"}]
            /\ ws' = "move" /\ move'.feeds # {}
            /\ \A p : GoesOn(p)' <=> p \in {"move", PutOn}
            /\ owed' \in [Feeds -> Nat] /\ lostMark' \in SUBSET Symbols
        BY <2>1, <2>2, <3>1, Dropped
      <3>3. ~GoesOn("store")' /\ (GoesOn("put")' => batch' # <<>>)
        BY <2>2, <3>2
      <3>4. FeedTyped'
        BY <1>0, <2>1, <2>2, <3>1, <3>2 DEF FeedTyped
      <3>. QED BY <1>0, <2>2, <3>1, <3>2, <3>3, <3>4 DEF ThreadsOK
    <2>. QED BY <2>3, <2>4
  <1>14. CASE events
    <2>. DEFINE e == Head(queue)
                status == classify_halt_status(e.marks)
    <2>1. queue \in Seq(TapeEvents \cup {Sentinel}) /\ queue # <<>>
      BY <1>14 DEF events, FeedTyped
    <2>2. e \in TapeEvents \cup {Sentinel} /\ queue' \in Seq(TapeEvents \cup {Sentinel})
      BY <1>14, <2>1 DEF events
    <2>3. e \in TapeEvents => e.feed[1] \in Symbols /\ e.marks \in {{}, {"on"}, {"off"}}
      BY DEF TapeEvents, Feeds
    <2>0. Sentinel.marks = {}
      BY DEF Sentinel
    <2>10. e.marks \in {{}, {"on"}, {"off"}}
      BY <2>0, <2>2, <2>3
    <2>4. status = "none" <=> e.marks = {}
      BY <2>10, Classified
    <2>5. status \in Statuses
      BY <2>10, Classified
    <2>6. CASE e = Sentinel \/ macro # "trading"
      <3>1. lostMark' \in SUBSET Symbols
        BY <1>14, <2>2, <2>3, <2>4, <2>6 DEF events, FeedTyped, Sentinel
      <3>. QED BY <1>0, <1>14, <2>2, <2>6, <3>1 DEF events, FeedTyped, ThreadsOK, GoesOn
    <2>7. CASE ~(e = Sentinel \/ macro # "trading")
      <3>1. /\ event' = e /\ UNCHANGED lostMark
            /\ kn' = IF status = "none" THEN "gate" ELSE "store"
            /\ consumed' = IF status = "none" THEN consumed
                           ELSE [consumed EXCEPT ![e.feed[1]] = status]
        BY <1>14, <2>7 DEF events
      <3>2. e \in TapeEvents
        BY <2>2, <2>7
      <3>. HIDE DEF e, status
      <3>3. consumed' \in [Symbols -> Statuses]
            /\ (status # "none" => consumed'[e.feed[1]] = status)
        BY <2>3, <2>5, <3>1, <3>2 DEF FeedTyped
      <3>4. FeedTyped'
        BY <1>0, <1>14, <2>2, <3>1, <3>2, <3>3 DEF events, FeedTyped
      <3>5. kn' \in {"store"} \cup Syncing =>
               event'.marks # {} /\ consumed'[Sym'] = classify_halt_status(event'.marks)
        BY <1>0, <2>4, <3>1, <3>3 DEF status
      <3>6. kn' \in {"gate", "store"}
        BY <3>1
      <3>. QED BY <1>0, <1>14, <3>1, <3>2, <3>4, <3>5, <3>6 DEF events, ThreadsOK, GoesOn
    <2>. QED BY <2>6, <2>7
  <1>15. CASE IdleTick
    BY <1>0, <1>15 DEF IdleTick, FeedTyped, ThreadsOK, GoesOn
  <1>16. CASE _update_halt_state
    <2>. DEFINE status == classify_halt_status(event.marks)
    <2>1. /\ SyncStore(Sym, status) /\ knSync' = SyncTarget(Sym, status)
          /\ kn' = IF knSync' = NoSync THEN "announce" ELSE "check"
          /\ UNCHANGED <<knSame, health, announced, macro, owed>> /\ kn = "store"
      BY <1>16 DEF _update_halt_state
    <2>2. Sym \in Symbols /\ status \in {"HALT_ON", "HALT_OFF"}
      BY <1>0, <2>1, Classified DEF ThreadsOK, TapeEvents, Feeds, Statuses
    <2>. HIDE DEF status, Sym
    <2>3. /\ halted' \in SUBSET Symbols /\ blackout' \in SUBSET Symbols
          /\ knSync' \in [sym : Symbols \cup {"none"}, target : Targets \cup {"none"}]
          /\ knSync' # NoSync => knSync'.target = IF status = "HALT_ON" THEN "HALTED" ELSE "HEALTHY"
      BY <2>1, <2>2, Stored
    <2>. USE DEF Sym
    <2>4. FeedTyped'
      BY <1>0, <2>1, <2>3 DEF FeedTyped
    <2>5. ThreadsOK'
      BY <1>0, <2>1, <2>3 DEF ThreadsOK, GoesOn, status
    <2>. QED BY <2>4, <2>5
  <1>17. CASE KernelCheck
    BY <1>0, <1>17 DEF KernelCheck, FeedTyped, ThreadsOK, GoesOn
  <1>18. CASE KernelEnter
    BY <1>0, <1>18 DEF KernelEnter, FeedTyped, ThreadsOK, GoesOn
  <1>19. CASE KernelCommit
    <2>1. health' \in [Feeds -> DataHealth] /\ owed' \in [Feeds -> Nat]
      BY <1>0, <1>19, UntoldIs DEF KernelCommit, Settle, FeedTyped, ThreadsOK, DataHealth
    <2>. QED BY <1>0, <1>19, <2>1 DEF KernelCommit, FeedTyped, ThreadsOK, GoesOn
  <1>20. CASE KernelRaises
    BY <1>0, <1>20 DEF KernelRaises, FeedTyped, ThreadsOK, GoesOn
  <1>21. CASE _emit_symbol_halted
    BY <1>0, <1>21 DEF _emit_symbol_halted, FeedTyped, ThreadsOK, GoesOn
  <1>22. CASE Gate
    BY <1>0, <1>22 DEF Gate, FeedTyped, ThreadsOK, GoesOn
  <1>23. CASE Degrade
    BY <1>0, <1>23 DEF Degrade, FeedTyped, ThreadsOK, GoesOn
  <1>24. CASE PassOver
    BY <1>0, <1>24 DEF PassOver, FeedTyped, ThreadsOK, GoesOn
  <1>25. CASE Process
    BY <1>0, <1>25 DEF Process, FeedTyped, ThreadsOK, GoesOn
  <1>. QED BY <1>1, <1>2, <1>3, <1>4, <1>5, <1>6, <1>7, <1>8, <1>9, <1>10, <1>11, <1>12,
              <1>13, <1>14, <1>15, <1>16, <1>17, <1>18, <1>19, <1>20, <1>21,
              <1>22, <1>23, <1>24, <1>25 DEF FeedNext, WebsocketThread, KernelThread

(***************************************************************************)
(* What is owed lies ahead of the cursor, or is about to be told.          *)
(***************************************************************************)
Telling(f) == ws \in Moving /\ move.kind = "gap" /\ f \in move.feeds

\* Steps that accept nothing and lose nothing.
LEMMA OwedKept ==
    ASSUME FeedTyped, OwedOK, cursor' = cursor,
           \A f \in Feeds : sent[f] <= sent'[f] /\ sent'[f] \in Nat,
           \A f \in Feeds : owed'[f] # 0 => owed'[f] = owed[f] /\ health'[f] = "HEALTHY",
           \A f \in Feeds : owed'[f] # 0 /\ Telling(f) => Telling(f)'
    PROVE  OwedOK'
  <1>1. \A f \in Feeds : cursor[f].seq \in Nat /\ sent[f] \in Nat /\ owed[f] \in Nat
    BY DEF FeedTyped
  <1>2. ASSUME NEW f \in Feeds
        PROVE  /\ cursor[f].seq <= sent'[f]
               /\ owed'[f] # 0 =>
                     /\ health'[f] = "HEALTHY" /\ cursor[f].seq # 0 /\ owed'[f] <= sent'[f]
                     /\ cursor[f].seq < owed'[f] \/ Telling(f)'
    BY <1>1 DEF OwedOK, Telling
  <1>. QED BY <1>2 DEF OwedOK, Telling

\* The websocket thread moves a machine: one that is asked about a gap and is
\* HEALTHY leaves HEALTHY before the thread is done with it.
LEMMA MovesOwed ==
    ASSUME FeedTyped, ThreadsOK, OwedOK,
           MoveSkips \/ MoveAsks \/ MoveEnters \/ MoveCommits \/ MoveRaises
    PROVE  OwedOK'
  <1>. USE DEF moveRest
  <1>1. ws \in Moving /\ move.feeds # {}
    BY DEF ThreadsOK, Moving, MoveSkips, MoveAsks, MoveEnters, MoveCommits, MoveRaises
  <1>2. Turn \in Feeds /\ Turn \in move.feeds /\ health[Turn] \in DataHealth
    BY <1>1, TurnIn
  <1>3. move.kind \in Kinds
    BY DEF FeedTyped
  <1>4. /\ cursor' = cursor /\ sent' = sent
        /\ \A f \in Feeds : cursor[f].seq \in Nat /\ sent[f] \in Nat /\ owed[f] \in Nat
        /\ owed \in [Feeds -> Nat]
    BY DEF MoveSkips, MoveAsks, MoveEnters, MoveCommits, MoveRaises, FeedTyped
  <1>5. \A f \in Feeds : owed[f] # 0 => health[f] = "HEALTHY"
    BY DEF OwedOK
  <1>6. CASE MoveAsks \/ MoveEnters
    <2>1. UNCHANGED <<move, health, owed>> /\ ws' \in Moving
      BY <1>6 DEF MoveAsks, MoveEnters, Moving
    <2>2. \A f \in Feeds : Telling(f) => Telling(f)'
      BY <2>1 DEF Telling
    <2>. QED BY <1>4, <1>5, <2>1, <2>2, OwedKept
  <1>7. CASE MoveSkips \/ MoveCommits
    <2>1. Done
      BY <1>7 DEF MoveSkips, MoveCommits
    <2>2. /\ ws' \in Moving => move'.kind = move.kind
          /\ \A f \in move.feeds : f # Turn => ws' \in Moving /\ f \in move'.feeds
      BY <1>1, <2>1, DoneMoves
    <2>3. \A f \in Feeds : f # Turn /\ Telling(f) => Telling(f)'
      BY <2>2 DEF Telling
    <2>4. CASE MoveSkips
      <3>1. UNCHANGED <<health, owed>> /\ ~Asked(move.kind, health[Turn])
        BY <2>4 DEF MoveSkips
      <3>2. move.kind = "gap" => owed[Turn] = 0
        BY <1>2, <1>3, <1>5, <3>1, HealthMoves
      <3>3. \A f \in Feeds : owed'[f] # 0 /\ Telling(f) => Telling(f)'
        BY <2>3, <3>1, <3>2 DEF Telling
      <3>. QED BY <1>4, <1>5, <3>1, <3>3, OwedKept
    <2>5. CASE MoveCommits
      <3>1. health' = [health EXCEPT ![Turn] = TargetOf[move.kind]] /\ owed' = Untold(owed, health')
        BY <2>5 DEF MoveCommits, Settle
      <3>2. \A f \in Feeds : owed'[f] = IF health'[f] # "HEALTHY" THEN 0 ELSE owed[f]
        BY <3>1 DEF Untold
      <3>3. health'[Turn] = TargetOf[move.kind]
        BY <1>2, <3>1 DEF FeedTyped
      <3>4. move.kind = "gap" => owed'[Turn] = 0
        BY <1>2, <1>3, <3>2, <3>3, HealthMoves
      <3>5. \A f \in Feeds : owed'[f] # 0 => owed'[f] = owed[f] /\ health'[f] = "HEALTHY"
        BY <3>2
      <3>6. \A f \in Feeds : owed'[f] # 0 /\ Telling(f) => Telling(f)'
        BY <2>3, <3>4 DEF Telling
      <3>. QED BY <1>4, <3>5, <3>6, OwedKept
    <2>. QED BY <1>7, <2>4, <2>5
  <1>8. CASE MoveRaises
    <2>1. /\ \A f \in Feeds : owed'[f] = 0 \/ (/\ health[f] = "HEALTHY"
                                               /\ owed'[f] = owed[f] \/ owed'[f] = cursor[f].seq
                                               /\ ws' = "move" /\ move'.kind = "gap"
                                               /\ f \in move'.feeds)
          /\ health' = health
      BY <1>8, Raised DEF MoveRaises
    <2>2. ASSUME NEW f \in Feeds
          PROVE  /\ cursor[f].seq <= sent[f]
                 /\ owed'[f] # 0 =>
                       /\ health'[f] = "HEALTHY" /\ cursor[f].seq # 0 /\ owed'[f] <= sent[f]
                       /\ ws' \in Moving /\ move'.kind = "gap" /\ f \in move'.feeds
      BY <1>4, <2>1 DEF OwedOK, Moving
    <2>. QED BY <1>4, <2>2 DEF OwedOK
  <1>. QED BY <1>6, <1>7, <1>8

\* Every step of the feed (Accept, MessageLost, _consume, Settle).
LEMMA OwedStep ==
    ASSUME FeedTyped, ThreadsOK, OwedOK, FeedNext
    PROVE  OwedOK'
  <1>. USE DEF wsVars, knVars, history, Shared, wsSame, knRest, knSame
  <1>0. /\ owed \in [Feeds -> Nat] /\ sent \in [Feeds -> Nat]
        /\ \A f \in Feeds : cursor[f].seq \in Nat /\ sent[f] \in Nat /\ owed[f] \in Nat
        /\ \A f \in Feeds : owed[f] # 0 => health[f] = "HEALTHY"
    BY DEF FeedTyped, OwedOK
  <1>1. ASSUME NEW f \in Feeds, MessageLost(f) PROVE OwedOK'
    <2>1. /\ cursor' = cursor /\ health' = health /\ ws' = ws /\ move' = move
          /\ sent' = [sent EXCEPT ![f] = sent[f] + 1]
          /\ owed' = [owed EXCEPT ![f] =
                        IF owed[f] = 0 /\ cursor[f].seq # 0 /\ health[f] = "HEALTHY"
                          THEN sent[f] + 1 ELSE owed[f]]
      BY <1>1 DEF MessageLost
    <2>2. ASSUME NEW g \in Feeds
          PROVE  /\ cursor[g].seq <= sent'[g]
                 /\ owed'[g] # 0 =>
                       /\ health[g] = "HEALTHY" /\ cursor[g].seq # 0 /\ owed'[g] <= sent'[g]
                       /\ cursor[g].seq < owed'[g] \/ Telling(g)
      <3>1. CASE g = f
        BY <1>0, <2>1, <3>1 DEF OwedOK, Telling
      <3>2. CASE g # f
        BY <1>0, <2>1, <3>2 DEF OwedOK, Telling
      <3>. QED BY <3>1, <3>2
    <2>. QED BY <2>1, <2>2 DEF OwedOK, Telling
  <1>2. ASSUME NEW f \in Feeds, _mark_corrupted(f) PROVE OwedOK'
    <2>1. PICK m \in Messages(f) : ReadOne(f, m)
      BY <1>2 DEF _mark_corrupted
    <2>2. m.seq \in Nat
      BY <2>1, MessageSeq
    <2>3. \A g \in Feeds : sent[g] <= sent'[g] /\ sent'[g] \in Nat
      BY <1>0, <2>1, <2>2 DEF ReadOne
    <2>4. UNCHANGED <<cursor, health, owed>> /\ ws = "read"
      BY <1>2 DEF _mark_corrupted, Reading
    <2>5. \A g \in Feeds : ~Telling(g)
      BY <2>4 DEF Telling, Moving
    <2>. QED BY <1>0, <2>3, <2>4, <2>5, OwedKept
  <1>3. ASSUME NEW f \in Feeds, Accept(f) PROVE OwedOK'
    <2>1. PICK m, marks : AcceptOf(f, m, marks)
      BY <1>3, AcceptOpened
    <2>2. /\ m.seq \in Nat /\ (m.seq = sent[f] + 1 \/ m.seq <= cursor[f].seq)
          /\ ws = "read" /\ health' = health
      BY <2>1 DEF AcceptOf
    <2>3. /\ cursor'[f].seq = m.seq
          /\ \A g \in Feeds : g # f => cursor'[g] = cursor[g]
          /\ ws' \in {"move", "store"}
          /\ ws' = "store" => GapKind(m.seq, cursor[f].seq) = "none"
          /\ ws' = "move" => move'.kind = GapKind(m.seq, cursor[f].seq) /\ move'.feeds = {f}
      BY <2>1, Checked
    <2>4. sent' = [sent EXCEPT ![f] = IF m.seq > sent[f] THEN m.seq ELSE sent[f]]
          /\ owed' = [owed EXCEPT ![f] = IF m.seq = 0 THEN 0 ELSE owed[f]]
      BY <2>1 DEF AcceptOf, ReadOne
    <2>5. cursor[f].seq <= sent[f]
          /\ (owed[f] # 0 => cursor[f].seq # 0 /\ cursor[f].seq < owed[f] /\ owed[f] <= sent[f])
      BY <2>2 DEF OwedOK, Moving
    <2>6. sent'[f] \in Nat /\ m.seq <= sent'[f] /\ sent[f] <= sent'[f]
      BY <1>0, <2>2, <2>4
    <2>7. owed'[f] = (IF m.seq = 0 THEN 0 ELSE owed[f])
      BY <1>0, <2>4
    \* A number past the one that is owed leaves a gap behind it.
    <2>8. owed'[f] # 0 /\ ~(m.seq < owed[f]) => Telling(f)'
      <3>. SUFFICES ASSUME owed'[f] # 0, ~(m.seq < owed[f]) PROVE Telling(f)'
        OBVIOUS
      <3>1. owed[f] # 0 /\ m.seq # 0
        BY <2>7
      <3>2. cursor[f].seq # 0 /\ m.seq > cursor[f].seq + 1
        BY <1>0, <2>2, <2>5, <3>1
      <3>3. GapKind(m.seq, cursor[f].seq) = "gap"
        BY <3>1, <3>2 DEF GapKind
      <3>. QED BY <2>3, <3>3 DEF Telling, Moving
    <2>9. /\ cursor'[f].seq <= sent'[f]
          /\ owed'[f] # 0 =>
                /\ health'[f] = "HEALTHY" /\ cursor'[f].seq # 0 /\ owed'[f] <= sent'[f]
                /\ cursor'[f].seq < owed'[f] \/ Telling(f)'
      BY <1>0, <2>2, <2>3, <2>5, <2>6, <2>7, <2>8
    <2>10. ASSUME NEW g \in Feeds, g # f
           PROVE  /\ cursor'[g].seq <= sent'[g]
                  /\ owed'[g] # 0 =>
                        /\ health'[g] = "HEALTHY" /\ cursor'[g].seq # 0 /\ owed'[g] <= sent'[g]
                        /\ cursor'[g].seq < owed'[g]
      <3>1. sent'[g] = sent[g] /\ cursor'[g] = cursor[g] /\ owed'[g] = owed[g]
        BY <1>0, <2>3, <2>4, <2>10
      <3>. QED BY <1>0, <2>2, <3>1 DEF OwedOK, Moving
    <2>. QED BY <2>9, <2>10 DEF OwedOK, Telling
  <1>4. CASE _consume
    <2>1. cursor' = cursor /\ sent' = sent /\ health' = health /\ ws = "put"
      BY <1>4 DEF _consume
    <2>2. CASE UNCHANGED owed
      <3>1. \A f \in Feeds : ~Telling(f)
        BY <2>1 DEF Telling, Moving
      <3>. QED BY <1>0, <2>1, <2>2, <3>1, OwedKept
    <2>3. CASE DropEvent(Head(batch))
      <3>. DEFINE e == Head(batch)
      <3>1. e \in TapeEvents /\ PutOn \in {"read", "put"}
        BY <1>4 DEF _consume, PutOn, FeedTyped, ThreadsOK, GoesOn
      <3>2. DropEvent(e)
        BY <2>3
      <3>. HIDE DEF e
      <3>3. /\ ws' = "move" /\ move'.kind = "gap" /\ e.feed \in move'.feeds
            /\ \A f \in Feeds : owed'[f] = 0 \/ (health[f] = "HEALTHY" /\ owed'[f] = owed[f])
                               \/ (/\ f = e.feed /\ health[f] = "HEALTHY"
                                   /\ owed'[f] = cursor[f].seq)
        BY <3>1, <3>2, Dropped
      <3>4. ASSUME NEW f \in Feeds
            PROVE  /\ cursor'[f].seq <= sent'[f]
                   /\ owed'[f] # 0 =>
                         /\ health'[f] = "HEALTHY" /\ cursor'[f].seq # 0 /\ owed'[f] <= sent'[f]
                         /\ cursor'[f].seq < owed'[f] \/ Telling(f)'
        BY <1>0, <2>1, <3>3 DEF OwedOK, Telling, Moving
      <3>. QED BY <3>4 DEF OwedOK, Telling
    <2>. QED BY <1>4, <2>2, <2>3 DEF _consume
  <1>5. CASE MoveSkips \/ MoveAsks \/ MoveEnters \/ MoveCommits \/ MoveRaises
    BY <1>5, MovesOwed
  <1>6. CASE \/ start \/ ImportWebsockets \/ _connect_with_retry \/ ConnectionClosed \/ ConnectionLost
             \/ BackoffEnds \/ _run_loop \/ _apply_halt_status_ws \/ EndFrame
    <2>1. UNCHANGED <<cursor, sent, owed, health>> /\ ws \notin Moving
      BY <1>6 DEF start, ImportWebsockets, _connect_with_retry, ConnectionClosed, ConnectionLost,
         BackoffEnds, _run_loop, _apply_halt_status_ws, EndFrame, Moving
    <2>2. \A f \in Feeds : ~Telling(f)
      BY <2>1 DEF Telling
    <2>. QED BY <1>0, <2>1, <2>2, OwedKept
  <1>7. CASE stop \/ halt \/ (KernelThread /\ ~KernelCommit)
    <2>1. UNCHANGED <<cursor, sent, owed, health, ws, move>>
      BY <1>7 DEF stop, halt, KernelThread, events, IdleTick, _update_halt_state, KernelCheck,
         KernelEnter, KernelRaises, _emit_symbol_halted, Gate, Degrade, PassOver, Process
    <2>2. \A f \in Feeds : Telling(f) => Telling(f)'
      BY <2>1 DEF Telling
    <2>. QED BY <1>0, <2>1, <2>2, OwedKept
  <1>8. CASE KernelCommit
    <2>1. UNCHANGED <<cursor, sent, ws, move>> /\ owed' = Untold(owed, health')
      BY <1>8 DEF KernelCommit, Settle
    <2>2. \A f \in Feeds : owed'[f] = IF health'[f] # "HEALTHY" THEN 0 ELSE owed[f]
      BY <1>0, <2>1, UntoldIs
    <2>3. \A f \in Feeds : Telling(f) => Telling(f)'
      BY <2>1 DEF Telling
    <2>. QED BY <1>0, <2>1, <2>2, <2>3, OwedKept
  <1>. QED BY <1>1, <1>2, <1>3, <1>4, <1>5, <1>6, <1>7, <1>8 DEF FeedNext, WebsocketThread

(***************************************************************************)
(* The sentinels, the frame a move belongs to, the suspensions.            *)
(***************************************************************************)
\* Whoever enqueues a sentinel has seen the stop event or ends with an
\* exception, and start() takes out those that an earlier run left (stop,
\* _run_loop, _drain_stale_sentinels).
LEMMA SentinelsStep ==
    ASSUME FeedTyped, ThreadsOK, SentinelsOK, FeedNext
    PROVE  SentinelsOK'
  <1>. USE DEF wsVars, knVars, history, Shared, wsSame, knRest, knSame, moveRest
  <1>0. queue \in Seq(TapeEvents \cup {Sentinel})
    BY DEF FeedTyped
  <1>1. CASE start
    BY <1>1, QueueDrained DEF start, SentinelsOK
  <1>2. CASE stop
    BY <1>2 DEF stop, SentinelsOK
  <1>3. CASE _run_loop
    BY <1>3 DEF _run_loop, SentinelsOK, ThreadsOK
  <1>4. CASE ImportWebsockets
    <2>1. UNCHANGED <<queue, stopEvent, kn>> /\ (died' = died \/ died' = TRUE)
      BY <1>4 DEF ImportWebsockets
    <2>. QED BY <2>1 DEF SentinelsOK
  <1>5. CASE MoveRaises
    <2>1. UNCHANGED <<queue, stopEvent, kn>> /\ (died => died')
      BY <1>5, Raised DEF MoveRaises
    <2>. QED BY <2>1 DEF SentinelsOK
  <1>6. CASE _consume
    <2>1. stopEvent' = stopEvent /\ kn' = kn /\ died' = died
      BY <1>6 DEF _consume
    <2>2. CASE queue' = queue
      BY <2>1, <2>2 DEF SentinelsOK
    <2>3. CASE queue' = Append(queue, Head(batch))
      <3>. DEFINE e == Head(batch)
      <3>1. e \in TapeEvents
        BY <1>6 DEF _consume, FeedTyped, ThreadsOK, GoesOn
      <3>2. e # Sentinel
        BY <3>1 DEF TapeEvents, Feeds, Sentinel
      <3>. HIDE DEF e
      <3>3. \A i \in DOMAIN queue' : queue'[i] = Sentinel => i \in DOMAIN queue /\ queue[i] = Sentinel
        BY <1>0, <2>3, <3>2 DEF e
      <3>. QED BY <2>1, <3>3 DEF SentinelsOK
    <2>. QED BY <1>6, <2>2, <2>3 DEF _consume
  <1>7. CASE events
    <2>1. UNCHANGED <<stopEvent, died>> /\ kn = "get" /\ queue' = Tail(queue) /\ queue # <<>>
      BY <1>7 DEF events
    <2>2. \A i \in DOMAIN queue' : i + 1 \in DOMAIN queue /\ queue'[i] = queue[i + 1]
      BY <1>0, <2>1
    <2>. QED BY <2>1, <2>2 DEF SentinelsOK
  <1>8. CASE \/ halt \/ _connect_with_retry \/ ConnectionClosed \/ ConnectionLost \/ BackoffEnds
             \/ _apply_halt_status_ws \/ MoveSkips \/ MoveAsks \/ MoveEnters \/ MoveCommits \/ EndFrame
    <2>1. UNCHANGED <<queue, stopEvent, kn, died>>
      BY <1>8 DEF halt, _connect_with_retry, ConnectionClosed, ConnectionLost, BackoffEnds,
         _apply_halt_status_ws, MoveSkips, MoveAsks, MoveEnters, MoveCommits, EndFrame
    <2>. QED BY <2>1 DEF SentinelsOK
  <1>9. ASSUME NEW f \in Feeds, MessageLost(f) \/ _mark_corrupted(f) \/ Accept(f) PROVE SentinelsOK'
    <2>1. UNCHANGED <<queue, stopEvent, kn, died>>
      BY <1>9 DEF MessageLost, _mark_corrupted, Accept
    <2>. QED BY <2>1 DEF SentinelsOK
  <1>10. CASE KernelThread /\ ~events
    <2>1. UNCHANGED <<queue, stopEvent, died>> /\ kn \notin {"off", "ended", "faulted"}
      BY <1>10 DEF KernelThread, IdleTick, _update_halt_state, KernelCheck, KernelEnter,
         KernelCommit, KernelRaises, _emit_symbol_halted, Gate, Degrade, PassOver, Process
    <2>. QED BY <2>1 DEF SentinelsOK
  <1>. QED BY <1>1, <1>2, <1>3, <1>4, <1>5, <1>6, <1>7, <1>8, <1>9, <1>10
           DEF FeedNext, WebsocketThread

\* The websocket thread moves a machine for a halt print only with the print in
\* the frame, which is enqueued after it (_apply_halt_status, on_message).
LEMMA SyncHeldStep ==
    ASSUME FeedTyped, ThreadsOK, SyncHeld, FeedNext
    PROVE  SyncHeld'
  <1>. USE DEF wsVars, knVars, history, Shared, wsSame, knRest, knSame, moveRest
  <1>1. CASE _apply_halt_status_ws
    <2>. DEFINE status == classify_halt_status(parsing.marks)
                s == parsing.feed[1]
    <2>1. ws = "store" /\ batch' = Append(batch, parsing)
      BY <1>1 DEF _apply_halt_status_ws
    <2>2. parsing \in TapeEvents /\ batch \in Seq(TapeEvents)
      BY <2>1 DEF ThreadsOK, GoesOn, FeedTyped
    <2>3. CASE ws' = "read"
      BY <2>3 DEF SyncHeld, Moving
    <2>4. CASE status # "none" /\ Asks(status, {Trade(s)}, "read")
      <3>1. parsing.marks # {}
        BY <2>4 DEF classify_halt_status
      <3>2. IsPrint(parsing, s)
        BY <3>1 DEF IsPrint
      <3>3. Holds(batch', s)
        BY <2>1, <2>2, <3>2, AddPrint
      <3>4. move'.feeds = {Trade(s)}
        BY <2>4 DEF Asks
      <3>5. Trade(s) = Trade(Trade(s)[1]) /\ Trade(s)[1] = s
        BY DEF Trade
      <3>. QED BY <3>3, <3>4, <3>5 DEF SyncHeld
    <2>. QED BY <1>1, <2>3, <2>4 DEF _apply_halt_status_ws
  <1>2. CASE MoveSkips \/ MoveCommits
    <2>1. Done /\ batch' = batch
      BY <1>2 DEF MoveSkips, MoveCommits
    <2>2. ws \in Moving /\ move.feeds # {}
      BY <1>2 DEF ThreadsOK, Moving, MoveSkips, MoveCommits
    <2>3. ws' \in Moving => move'.kind = move.kind /\ \A f : f \in move'.feeds => f \in move.feeds
      BY <2>1, <2>2, DoneMoves
    <2>. QED BY <2>1, <2>2, <2>3 DEF SyncHeld
  <1>3. CASE MoveAsks \/ MoveEnters
    BY <1>3 DEF MoveAsks, MoveEnters, SyncHeld, Moving
  <1>4. CASE MoveRaises
    <2>1. ws' = "leaving" \/ move'.kind = "gap"
      BY <1>4, Raised
    <2>. QED BY <2>1 DEF SyncHeld, Moving
  <1>5. CASE _connect_with_retry \/ ConnectionLost \/ _consume
    <2>1. ws' \in {"read", "put"} \/ move'.kind = "gap"
      BY <1>5 DEF _connect_with_retry, ConnectionLost, _consume, PutOn, DropEvent,
         notify_feed_interrupted, Asks
    <2>. QED BY <2>1 DEF SyncHeld, Moving
  <1>6. ASSUME NEW f \in Feeds, _mark_corrupted(f) PROVE SyncHeld'
    BY <1>6 DEF _mark_corrupted, Asks, SyncHeld
  <1>7. ASSUME NEW f \in Feeds, Accept(f) PROVE SyncHeld'
    <2>1. PICK m, marks : AcceptOf(f, m, marks)
      BY <1>7, AcceptOpened
    <2>2. ws' = "store" \/ move'.kind \in {"gap", "continuity"}
      BY <2>1, Checked
    <2>. QED BY <2>2 DEF SyncHeld, Moving
  <1>8. CASE \/ start \/ ImportWebsockets \/ ConnectionClosed \/ BackoffEnds \/ _run_loop \/ EndFrame
    BY <1>8 DEF start, ImportWebsockets, ConnectionClosed, BackoffEnds, _run_loop, EndFrame,
       SyncHeld, Moving
  <1>9. CASE stop \/ halt
    BY <1>9 DEF stop, halt, SyncHeld
  <1>10. ASSUME NEW f \in Feeds, MessageLost(f) PROVE SyncHeld'
    BY <1>10 DEF MessageLost, SyncHeld
  <1>11. CASE KernelThread
    <2>1. UNCHANGED <<ws, move, batch>>
      BY <1>11 DEF KernelThread, events, IdleTick, _update_halt_state, KernelCheck, KernelEnter,
         KernelCommit, KernelRaises, _emit_symbol_halted, Gate, Degrade, PassOver, Process
    <2>. QED BY <2>1 DEF SyncHeld
  <1>. QED BY <1>1, <1>2, <1>3, <1>4, <1>5, <1>6, <1>7, <1>8, <1>9, <1>10, <1>11
           DEF FeedNext, WebsocketThread

\* Only a resume takes a symbol out of the store, and it is then the last
\* print parsed, or the one the kernel processes (_sync_halt_store_and_health).
LEMMA SuspendedStep ==
    ASSUME FeedTyped, ThreadsOK, SuspendedOK, FeedNext
    PROVE  SuspendedOK'
  <1>. USE DEF wsVars, knVars, history, Shared, wsSame, knRest, knSame, moveRest
  <1>1. CASE _apply_halt_status_ws
    <2>. DEFINE status == classify_halt_status(parsing.marks)
                s == parsing.feed[1]
    <2>1. UNCHANGED <<kn, event, consumed>> /\ ws = "store"
      BY <1>1 DEF _apply_halt_status_ws
    <2>2. parsing \in TapeEvents
      BY <2>1 DEF ThreadsOK, GoesOn
    <2>3. s \in Symbols /\ parsing.marks \in {{}, {"on"}, {"off"}}
      BY <2>2 DEF TapeEvents, Feeds
    <2>4. CASE status = "none"
      <3>1. UNCHANGED <<halted, printed>>
        BY <1>1, <2>4 DEF _apply_halt_status_ws
      <3>. QED BY <2>1, <3>1 DEF SuspendedOK, Sym
    <2>5. CASE status # "none"
      <3>1. SyncStore(s, status) /\ printed' = [printed EXCEPT ![s] = status]
        BY <1>1, <2>5 DEF _apply_halt_status_ws
      <3>2. status \in {"HALT_ON", "HALT_OFF"}
        BY <2>3, <2>5, Classified DEF Statuses
      <3>. HIDE DEF status, s
      <3>3. /\ s \in halted' <=> status = "HALT_ON"
            /\ \A o \in Symbols : o # s => (o \in halted' <=> o \in halted)
        BY <2>3, <3>1, <3>2, Stored
      <3>4. /\ printed'[s] = status
            /\ \A o \in Symbols : o # s => printed'[o] = printed[o]
        BY <2>3, <3>1 DEF FeedTyped
      <3>. QED BY <2>1, <3>3, <3>4 DEF SuspendedOK, Sym
    <2>. QED BY <2>4, <2>5
  <1>2. CASE _update_halt_state
    <2>. DEFINE status == classify_halt_status(event.marks)
    <2>1. SyncStore(Sym, status) /\ kn = "store" /\ UNCHANGED <<event, consumed, printed>>
      BY <1>2 DEF _update_halt_state
    <2>2. event \in TapeEvents /\ event.marks # {} /\ consumed[Sym] = status
      BY <2>1 DEF ThreadsOK, Handling
    <2>3. Sym \in Symbols /\ event.marks \in {{}, {"on"}, {"off"}}
      BY <2>2 DEF TapeEvents, Feeds, Sym
    <2>4. status \in {"HALT_ON", "HALT_OFF"}
      BY <2>2, <2>3, Classified DEF Statuses
    <2>. HIDE DEF status, Sym
    <2>5. /\ Sym \in halted' <=> status = "HALT_ON"
          /\ \A o \in Symbols : o # Sym => (o \in halted' <=> o \in halted)
      BY <2>1, <2>3, <2>4, Stored
    <2>. QED BY <2>1, <2>2, <2>5 DEF SuspendedOK
  <1>3. CASE events
    <2>. DEFINE e == Head(queue)
                status == classify_halt_status(e.marks)
    <2>1. UNCHANGED <<halted, printed>> /\ kn = "get"
      BY <1>3 DEF events
    <2>2. CASE e = Sentinel \/ macro # "trading"
      BY <1>3, <2>1, <2>2 DEF events, SuspendedOK
    <2>3. CASE ~(e = Sentinel \/ macro # "trading")
      <3>1. /\ event' = e /\ kn' = IF status = "none" THEN "gate" ELSE "store"
            /\ consumed' = IF status = "none" THEN consumed
                           ELSE [consumed EXCEPT ![e.feed[1]] = status]
        BY <1>3, <2>3 DEF events
      <3>2. consumed \in [Symbols -> Statuses]
        BY DEF FeedTyped
      <3>. HIDE DEF e, status
      <3>3. ASSUME NEW s \in Symbols, ~(kn' = "store" /\ Sym' = s) PROVE consumed'[s] = consumed[s]
        BY <3>1, <3>2, <3>3 DEF Sym
      <3>4. \A s \in Symbols : consumed[s] = "HALT_ON" /\ printed[s] = "HALT_ON" => s \in halted
        BY <2>1 DEF SuspendedOK
      <3>. QED BY <2>1, <3>3, <3>4 DEF SuspendedOK
    <2>. QED BY <2>2, <2>3
  <1>4. CASE \/ stop \/ halt \/ ImportWebsockets \/ _connect_with_retry \/ ConnectionClosed
             \/ ConnectionLost \/ BackoffEnds \/ _run_loop \/ EndFrame \/ _consume
             \/ MoveSkips \/ MoveAsks \/ MoveEnters \/ MoveCommits \/ MoveRaises
    <2>1. UNCHANGED <<kn, event, consumed, printed, halted>>
      BY <1>4 DEF stop, halt, ImportWebsockets, _connect_with_retry, ConnectionClosed, ConnectionLost,
         BackoffEnds, _run_loop, EndFrame, _consume, MoveSkips, MoveAsks, MoveEnters, MoveCommits,
         MoveRaises
    <2>. QED BY <2>1 DEF SuspendedOK, Sym
  <1>5. ASSUME NEW f \in Feeds, MessageLost(f) \/ _mark_corrupted(f) \/ Accept(f) PROVE SuspendedOK'
    <2>1. UNCHANGED <<kn, event, consumed, printed, halted>>
      BY <1>5 DEF MessageLost, _mark_corrupted, Accept
    <2>. QED BY <2>1 DEF SuspendedOK, Sym
  <1>6. CASE start
    BY <1>6 DEF start, SuspendedOK
  <1>7. CASE KernelThread /\ ~events /\ ~_update_halt_state
    <2>1. UNCHANGED <<event, consumed, printed, halted>> /\ kn # "store"
      BY <1>7 DEF KernelThread, IdleTick, KernelCheck, KernelEnter,
         KernelCommit, KernelRaises, _emit_symbol_halted, Gate, Degrade, PassOver, Process
    <2>. QED BY <2>1 DEF SuspendedOK, Sym
  <1>. QED BY <1>1, <1>2, <1>3, <1>4, <1>5, <1>6, <1>7 DEF FeedNext, WebsocketThread, KernelThread

(***************************************************************************)
(* The store and the machines follow the tape.                             *)
(***************************************************************************)
\* A step that neither parses nor processes a print of s keeps HaltOK(s).
LEMMA QuietHalt ==
    ASSUME FeedTyped, NEW s \in Symbols, HaltOK(s),
           lostMark \cup hidden \subseteq (lostMark \cup hidden)',
           kn' # "faulted" => kn # "faulted",
           Handles(s)' <=> Handles(s), Moves(s)' => Moves(s), Handles(s) => event' = event,
           s \in halted' <=> s \in halted, printed'[s] = printed[s],
           SameHalt(health[Trade(s)], health'[Trade(s)]),
           Holds(batch', s) <=> Holds(batch, s), Holds(queue', s) <=> Holds(queue, s),
           LastPrint(batch, s, printed[s]) => LastPrint(batch', s, printed[s]),
           LastPrint(queue, s, printed[s]) => LastPrint(queue', s, printed[s])
    PROVE  HaltOK(s)'
  <1>. SUFFICES ASSUME s \notin (lostMark \cup hidden)', kn' # "faulted"
                PROVE  /\ LastSays(batch, s)'
                       /\ ~Holds(batch', s) => LastSays(queue, s)'
                       /\ Clear(s)' /\ Handles(s)' => classify_halt_status(event'.marks) = printed'[s]
                       /\ Clear(s)' /\ Moves(s)' => HaltStored(s)'
                       /\ Clear(s)' /\ ~Handles(s)' => HaltSettled(s)'
    BY DEF HaltOK
  <1>1. /\ LastSays(batch, s)
        /\ ~Holds(batch, s) => LastSays(queue, s)
        /\ Clear(s) /\ Handles(s) => classify_halt_status(event.marks) = printed[s]
        /\ Clear(s) /\ Moves(s) => HaltStored(s)
        /\ Clear(s) /\ ~Handles(s) => HaltSettled(s)
    BY DEF HaltOK
  <1>2. Clear(s)' <=> Clear(s)
    BY DEF Clear
  <1>3. LastSays(batch, s)' /\ (~Holds(batch', s) => LastSays(queue, s)')
    BY <1>1 DEF LastSays
  <1>4. Handles(s) => event'.marks = event.marks
    OBVIOUS
  <1>5. HaltStored(s) => HaltStored(s)'
    BY DEF HaltStored
  <1>6. HaltSettled(s) => HaltSettled(s)'
    BY <1>5 DEF HaltSettled, SameHalt
  <1>. QED BY <1>1, <1>2, <1>3, <1>4, <1>5, <1>6

\* The same, for every symbol and a step that touches no frame, queue, print
\* or machine.
LEMMA QuietHalts ==
    ASSUME FeedTyped, HaltsOK, lostMark \cup hidden \subseteq (lostMark \cup hidden)',
           kn' # "faulted" => kn # "faulted",
           \A s \in Symbols : Handles(s)' <=> Handles(s),
           \A s \in Symbols : Moves(s)' => Moves(s),
           \A s \in Symbols : Handles(s) => event' = event,
           halted' = halted, printed' = printed, batch' = batch,
           \A f \in Feeds : SameHalt(health[f], health'[f]),
           \A s : Holds(queue', s) <=> Holds(queue, s),
           \A s, v : LastPrint(queue, s, v) => LastPrint(queue', s, v)
    PROVE  HaltsOK'
  <1>1. ASSUME NEW s \in Symbols PROVE HaltOK(s)'
    <2>1. HaltOK(s)
      BY DEF HaltsOK
    <2>2. Trade(s) \in Feeds
      BY DEF Trade, Feeds
    <2>3. SameHalt(health[Trade(s)], health'[Trade(s)])
      BY <2>2
    <2>4. /\ Holds(batch', s) <=> Holds(batch, s)
          /\ Holds(queue', s) <=> Holds(queue, s)
          /\ LastPrint(batch, s, printed[s]) => LastPrint(batch', s, printed[s])
          /\ LastPrint(queue, s, printed[s]) => LastPrint(queue', s, printed[s])
      OBVIOUS
    <2>5. /\ Handles(s)' <=> Handles(s)
          /\ Moves(s)' => Moves(s)
          /\ Handles(s) => event' = event
          /\ s \in halted' <=> s \in halted
          /\ printed'[s] = printed[s]
      OBVIOUS
    <2>. QED BY <2>1, <2>3, <2>4, <2>5, QuietHalt
  <1>. QED BY <1>1 DEF HaltsOK

\* A machine that did not move is as HALTED as it was.
LEMMA SameUnmoved ==
    ASSUME UNCHANGED health
    PROVE  \A f \in Feeds : SameHalt(health[f], health'[f])
  BY DEF SameHalt

\* The websocket thread but for the frame and the machines: nothing is parsed
\* or enqueued, or a sentinel is.
LEMMA QuietWebsocket ==
    ASSUME FeedTyped, HaltsOK,
           \/ ImportWebsockets \/ _connect_with_retry \/ ConnectionClosed \/ ConnectionLost
           \/ BackoffEnds \/ _run_loop \/ MoveSkips \/ MoveAsks \/ MoveEnters \/ EndFrame
           \/ stop \/ halt
           \/ \E f \in Feeds : MessageLost(f) \/ _mark_corrupted(f) \/ Accept(f)
    PROVE  HaltsOK'
  <1>. USE DEF wsVars, knVars, history, Shared, wsSame, moveRest
  <1>1. UNCHANGED <<lostMark, hidden, kn, event, halted, printed, batch, health>>
    BY DEF ImportWebsockets, _connect_with_retry, ConnectionClosed, ConnectionLost, BackoffEnds,
       _run_loop, MoveSkips, MoveAsks, MoveEnters, EndFrame, stop, halt, MessageLost, _mark_corrupted,
       Accept
  <1>2. queue' = queue \/ queue' = enqueue_nowait(Sentinel)
    BY DEF ImportWebsockets, _connect_with_retry, ConnectionClosed, ConnectionLost, BackoffEnds,
       _run_loop, MoveSkips, MoveAsks, MoveEnters, EndFrame, stop, halt, MessageLost, _mark_corrupted,
       Accept
  <1>3. /\ \A s : Holds(queue', s) <=> Holds(queue, s)
        /\ \A s, v : LastPrint(queue, s, v) => LastPrint(queue', s, v)
    BY <1>2, SentinelQueued
  <1>4. \A f \in Feeds : SameHalt(health[f], health'[f])
    BY <1>1, SameUnmoved
  <1>5. \A s \in Symbols : (Handles(s)' <=> Handles(s)) /\ (Moves(s)' <=> Moves(s))
    BY <1>1 DEF Handles, Moves, Sym
  <1>. QED BY <1>1, <1>3, <1>4, <1>5, QuietHalts

\* A new run of the feed.
LEMMA QuietStart ==
    ASSUME FeedTyped, HaltsOK, start
    PROVE  HaltsOK'
  <1>1. UNCHANGED <<lostMark, hidden, event, halted, printed, batch, health>>
        /\ kn \in {"off", "ended"} /\ kn' = "get"
    BY DEF start
  <1>2. /\ \A s : Holds(queue', s) <=> Holds(queue, s)
        /\ \A s, v : LastPrint(queue, s, v) => LastPrint(queue', s, v)
    BY QueueDrained DEF start
  <1>3. \A s \in Symbols : ~Handles(s)' /\ ~Handles(s) /\ ~Moves(s)' /\ ~Moves(s)
    BY <1>1 DEF Handles, Moves, Syncing
  <1>. QED BY <1>1, <1>2, <1>3, SameUnmoved, QuietHalts

\* The kernel between two prints, or once the print is stored and announced.
LEMMA QuietKernel ==
    ASSUME FeedTyped, HaltsOK,
           \/ IdleTick \/ KernelEnter \/ _emit_symbol_halted \/ Gate \/ Degrade \/ PassOver \/ Process
    PROVE  HaltsOK'
  <1>. USE DEF wsVars, knRest, knSame
  <1>1. UNCHANGED <<lostMark, hidden, event, halted, printed, batch, queue, health>>
    BY DEF IdleTick, KernelEnter, _emit_symbol_halted, Gate, Degrade, PassOver, Process
  <1>2. \/ kn = "enter" /\ kn' = "commit"
        \/ kn \notin {"store"} \cup Syncing /\ kn' \notin {"store"} \cup Syncing /\ kn # "faulted"
    BY DEF IdleTick, KernelEnter, _emit_symbol_halted, Gate, Degrade, PassOver, Process, Syncing
  <1>3. \A s \in Symbols : (Handles(s)' <=> Handles(s)) /\ (Moves(s)' <=> Moves(s))
    BY <1>1, <1>2 DEF Handles, Moves, Sym, Syncing
  <1>4. kn # "faulted"
    BY <1>2
  <1>. QED BY <1>1, <1>3, <1>4, SameUnmoved, QuietHalts

\* A halt print that is parsed goes into the frame, and is the last one
\* (_apply_halt_status).
LEMMA ParsedHalts ==
    ASSUME FeedTyped, ThreadsOK, HaltsOK, _apply_halt_status_ws
    PROVE  HaltsOK'
  <1>. DEFINE e == parsing
              status == classify_halt_status(e.marks)
              z == e.feed[1]
  <1>1. /\ ws = "store" /\ batch' = Append(batch, e)
        /\ UNCHANGED <<queue, kn, event, health, lostMark, hidden>>
    BY DEF _apply_halt_status_ws, knVars
  <1>2. e \in TapeEvents /\ batch \in Seq(TapeEvents)
    BY <1>1 DEF ThreadsOK, GoesOn, FeedTyped
  <1>3. z \in Symbols /\ e.marks \in {{}, {"on"}, {"off"}}
    BY <1>2 DEF TapeEvents, Feeds
  <1>4. IF status = "none" THEN UNCHANGED <<halted, printed>>
        ELSE SyncStore(z, status) /\ printed' = [printed EXCEPT ![z] = status]
    BY DEF _apply_halt_status_ws
  <1>5. \A s : IsPrint(e, s) <=> z = s /\ e.marks # {}
    BY DEF IsPrint
  <1>6. status = classify_halt_status(e.marks)
    OBVIOUS
  <1>7. status \in Statuses /\ (status = "none" <=> e.marks = {})
    BY <1>3, Classified
  <1>. HIDE DEF e, status, z
  <1>8. ASSUME NEW s \in Symbols, ~IsPrint(e, s), s \in halted' <=> s \in halted,
               printed'[s] = printed[s]
        PROVE  HaltOK(s)'
    <2>1. HaltOK(s)
      BY DEF HaltsOK
    <2>2. /\ Holds(batch', s) <=> Holds(batch, s)
          /\ LastPrint(batch, s, printed[s]) => LastPrint(batch', s, printed[s])
      BY <1>1, <1>2, <1>8, AddPlain
    <2>3. SameHalt(health[Trade(s)], health'[Trade(s)])
      BY <1>1 DEF SameHalt
    <2>4. /\ Handles(s)' <=> Handles(s)
          /\ Moves(s)' => Moves(s)
      BY <1>1 DEF Handles, Moves, Sym
    <2>. QED BY <1>1, <1>8, <2>1, <2>2, <2>3, <2>4, QuietHalt
  <1>9. CASE status = "none"
    BY <1>4, <1>5, <1>7, <1>8, <1>9 DEF HaltsOK
  <1>10. CASE status # "none"
    <2>1. SyncStore(z, status) /\ printed' = [printed EXCEPT ![z] = status]
      BY <1>4, <1>10
    <2>2. status \in {"HALT_ON", "HALT_OFF"} /\ e.marks # {}
      BY <1>7, <1>10 DEF Statuses
    <2>3. \A o \in Symbols : o # z => (o \in halted' <=> o \in halted) /\ printed'[o] = printed[o]
      BY <1>3, <2>1, <2>2, Stored DEF FeedTyped
    <2>4. printed'[z] = status
      BY <1>3, <2>1 DEF FeedTyped
    <2>5. ASSUME NEW o \in Symbols, o # z PROVE HaltOK(o)'
      <3>1. ~IsPrint(e, o)
        BY <1>5, <2>5
      <3>. QED BY <1>8, <2>3, <2>5, <3>1
    <2>6. ASSUME NEW o \in Symbols, o = z PROVE HaltOK(o)'
      <3>1. IsPrint(e, o)
        BY <1>5, <2>2, <2>6
      <3>2. classify_halt_status(e.marks) = printed'[o]
        BY <1>6, <2>4, <2>6
      <3>3. Holds(batch', o) /\ LastPrint(batch', o, printed'[o])
        BY <1>1, <1>2, <3>1, <3>2, AddPrint
      <3>. QED BY <3>3 DEF HaltOK, Clear, LastSays
    <2>. QED BY <2>5, <2>6 DEF HaltsOK
  <1>. QED BY <1>9, <1>10

\* The websocket thread writes a machine: for a halt print, which is then in its
\* frame; for a corruption; or for the gap check and an interruption, which hide
\* a halt the kernel wrote after they looked (MoveCommits).
LEMMA CommitHalts ==
    ASSUME FeedTyped, ThreadsOK, HaltsOK, SyncHeld, MoveCommits
    PROVE  HaltsOK'
  <1>. USE DEF moveRest, knVars
  <1>1. /\ UNCHANGED <<lostMark, kn, event, halted, printed, batch, queue>> /\ ws = "commit"
        /\ health' = [health EXCEPT ![Turn] = TargetOf[move.kind]]
        /\ hidden' = IF move.kind \in {"gap", "continuity"} /\ health[Turn] \in {"HALTED", "CORRUPTED"}
                       THEN hidden \cup {Turn[1]} ELSE hidden
    BY DEF MoveCommits
  <1>2. ws \in Moving /\ move.feeds # {}
    BY <1>1 DEF ThreadsOK, Moving
  <1>3. Turn \in Feeds /\ Turn \in move.feeds /\ health[Turn] \in DataHealth
    BY <1>2, TurnIn
  <1>4. move.kind \in Kinds
    BY DEF FeedTyped
  <1>5. move.kind \in {"HALT_ON", "HALT_OFF"} => Holds(batch, Turn[1])
    BY <1>2, <1>3 DEF SyncHeld
  <1>6. health'[Turn] = TargetOf[move.kind] /\ \A f \in Feeds : f # Turn => health'[f] = health[f]
    BY <1>1, <1>3 DEF FeedTyped
  <1>. DEFINE t == Turn
  <1>7. /\ move.kind = "corrupted" => SameHalt(health[t], health'[t])
        /\ move.kind \in {"gap", "continuity"} =>
              SameHalt(health[t], health'[t]) \/ t[1] \in hidden'
    BY <1>1, <1>3, <1>4, <1>6, HealthMoves
  <1>8. lostMark \cup hidden \subseteq (lostMark \cup hidden)'
    BY <1>1
  <1>9. t \in Feeds /\ \A f \in Feeds : f # t => health'[f] = health[f]
    BY <1>3, <1>6
  <1>10. move.kind \in {"HALT_ON", "HALT_OFF"} => Holds(batch, t[1])
    BY <1>5
  <1>. HIDE DEF t
  <1>11. ASSUME NEW s \in Symbols PROVE HaltOK(s)'
    <2>1. HaltOK(s) /\ Trade(s) \in Feeds /\ Trade(s)[1] = s
      BY DEF HaltsOK, Trade, Feeds
    <2>2. CASE SameHalt(health[Trade(s)], health'[Trade(s)])
      <3>1. (Handles(s)' <=> Handles(s)) /\ (Moves(s)' <=> Moves(s))
        BY <1>1 DEF Handles, Moves, Sym
      <3>. QED BY <1>1, <1>8, <2>1, <2>2, <3>1, QuietHalt
    <2>3. CASE s \in hidden'
      BY <2>3 DEF HaltOK
    <2>4. CASE Holds(batch, s)
      <3>1. Holds(batch', s) /\ (LastPrint(batch, s, printed[s]) => LastPrint(batch', s, printed'[s]))
        BY <1>1, <2>4
      <3>. SUFFICES ASSUME s \notin (lostMark \cup hidden)', kn' # "faulted"
                    PROVE  LastPrint(batch', s, printed'[s])
        BY <3>1 DEF HaltOK, Clear, LastSays
      <3>2. s \notin lostMark \cup hidden /\ kn # "faulted"
        BY <1>1, <1>8
      <3>. QED BY <2>1, <3>1, <3>2 DEF HaltOK, LastSays
    <2>5. CASE Trade(s) # t
      BY <1>9, <2>1, <2>2, <2>5 DEF SameHalt
    <2>6. CASE Trade(s) = t
      <3>1. t[1] = s
        BY <2>1, <2>6
      <3>. QED BY <1>4, <1>7, <1>10, <2>2, <2>3, <2>4, <2>6, <3>1 DEF Kinds
    <2>. QED BY <2>5, <2>6
  <1>. QED BY <1>11 DEF HaltsOK

\* A frame that is lost with its prints is known to have lost them
\* (on_message, MoveRaises).
LEMMA RaiseHalts ==
    ASSUME FeedTyped, HaltsOK, MoveRaises
    PROVE  HaltsOK'
  <1>. USE DEF knVars
  <1>1. UNCHANGED <<kn, event, halted, printed, hidden, queue, health>> /\ batch' = <<>>
    BY DEF MoveRaises
  <1>2. /\ lostMark \subseteq lostMark'
        /\ \A s \in Symbols : Holds(batch, s) => s \in lostMark'
    BY Raised
  <1>3. ASSUME NEW s \in Symbols PROVE HaltOK(s)'
    <2>1. HaltOK(s)
      BY DEF HaltsOK
    <2>2. CASE Holds(batch, s)
      BY <1>2, <2>2 DEF HaltOK
    <2>3. CASE ~Holds(batch, s)
      <3>1. ~Holds(batch', s) /\ LastPrint(batch', s, printed[s])
        BY <1>1 DEF Holds, LastPrint
      <3>2. SameHalt(health[Trade(s)], health'[Trade(s)])
        BY <1>1 DEF SameHalt
      <3>3. (Handles(s)' <=> Handles(s)) /\ (Moves(s)' <=> Moves(s))
        BY <1>1 DEF Handles, Moves, Sym
      <3>4. lostMark \cup hidden \subseteq (lostMark \cup hidden)'
        BY <1>1, <1>2
      <3>. QED BY <1>1, <2>1, <2>3, <3>1, <3>2, <3>3, <3>4, QuietHalt
    <2>. QED BY <2>2, <2>3
  <1>. QED BY <1>3 DEF HaltsOK

\* The head of the frame moves to the end of the queue, or is lost and known
\* to be (_consume).
LEMMA ConsumeHalts ==
    ASSUME FeedTyped, ThreadsOK, HaltsOK, _consume
    PROVE  HaltsOK'
  <1>. USE DEF Shared, knVars
  <1>. DEFINE e == Head(batch)
  <1>1. batch \in Seq(TapeEvents) /\ batch # <<>> /\ batch' = Tail(batch)
        /\ UNCHANGED <<kn, event, halted, printed, hidden, health>>
    BY DEF _consume, FeedTyped, ThreadsOK, GoesOn
  <1>2. e \in TapeEvents /\ queue \in Seq(TapeEvents \cup {Sentinel})
    BY <1>1 DEF FeedTyped
  <1>3. e.feed[1] \in Symbols
    BY <1>2 DEF TapeEvents, Feeds
  <1>4. \/ /\ queue' = Append(queue, e)
           /\ UNCHANGED lostMark
        \/ /\ queue' = queue
           /\ lostMark' = IF e.marks = {} THEN lostMark ELSE lostMark \cup {e.feed[1]}
    BY DEF _consume, DropEvent, DropsFrom
  <1>5. ASSUME NEW s, NEW v
        PROVE  /\ LastPrint(batch, s, v) => LastPrint(batch', s, v)
               /\ ~IsPrint(e, s) => (Holds(batch', s) <=> Holds(batch, s))
               /\ IsPrint(e, s) => Holds(batch, s)
               /\ IsPrint(e, s) /\ ~Holds(batch', s) /\ LastPrint(batch, s, v) =>
                     classify_halt_status(e.marks) = v
    BY <1>1, TakeHead
  <1>. HIDE DEF e
  <1>6. \A f \in Feeds : SameHalt(health[f], health'[f])
    BY <1>1, SameUnmoved
  <1>7. lostMark \cup hidden \subseteq (lostMark \cup hidden)'
    BY <1>1, <1>4
  <1>8. ASSUME NEW s \in Symbols PROVE HaltOK(s)'
    <2>1. HaltOK(s) /\ Trade(s) \in Feeds
      BY DEF HaltsOK, Trade, Feeds
    <2>2. CASE ~IsPrint(e, s)
      <3>0. e \in TapeEvents \cup {Sentinel}
        BY <1>2
      <3>1. queue' = Append(queue, e) =>
              /\ Holds(queue', s) <=> Holds(queue, s)
              /\ LastPrint(queue, s, printed[s]) => LastPrint(queue', s, printed[s])
        BY <1>2, <2>2, <3>0, AddPlain
      <3>2. queue' = queue =>
              /\ Holds(queue', s) <=> Holds(queue, s)
              /\ LastPrint(queue, s, printed[s]) => LastPrint(queue', s, printed[s])
        OBVIOUS
      <3>3. /\ Holds(queue', s) <=> Holds(queue, s)
            /\ LastPrint(queue, s, printed[s]) => LastPrint(queue', s, printed[s])
        BY <1>4, <3>1, <3>2
      <3>4. SameHalt(health[Trade(s)], health'[Trade(s)])
        BY <1>6, <2>1
      <3>5. (Handles(s)' <=> Handles(s)) /\ (Moves(s)' <=> Moves(s))
        BY <1>1 DEF Handles, Moves, Sym
      <3>6. /\ LastPrint(batch, s, printed[s]) => LastPrint(batch', s, printed[s])
            /\ Holds(batch', s) <=> Holds(batch, s)
        BY <1>5, <2>2
      <3>. QED BY <1>1, <1>7, <2>1, <3>3, <3>4, <3>5, <3>6, QuietHalt
    <2>3. CASE IsPrint(e, s) /\ queue' = Append(queue, e) /\ lostMark' = lostMark
      <3>0. e \in TapeEvents \cup {Sentinel}
        BY <1>2
      <3>1. Holds(queue', s) /\ LastPrint(queue', s, classify_halt_status(e.marks))
        BY <1>2, <2>3, <3>0, AddPrint
      <3>. SUFFICES ASSUME s \notin (lostMark \cup hidden)', kn' # "faulted"
                    PROVE  LastPrint(batch', s, printed'[s])
                           /\ (~Holds(batch', s) => LastPrint(queue', s, printed'[s]))
        BY <3>1 DEF HaltOK, LastSays, Clear
      <3>2. LastPrint(batch, s, printed[s])
        BY <1>1, <2>1, <2>3 DEF HaltOK, LastSays
      <3>3. LastPrint(batch', s, printed[s])
        BY <1>5, <3>2
      <3>4. ~Holds(batch', s) => classify_halt_status(e.marks) = printed[s]
        BY <1>5, <2>3, <3>2
      <3>. QED BY <1>1, <3>1, <3>3, <3>4
    <2>4. CASE IsPrint(e, s) /\ lostMark' = lostMark \cup {e.feed[1]}
      BY <2>4 DEF HaltOK, IsPrint
    <2>. QED BY <1>4, <2>2, <2>3, <2>4 DEF IsPrint
  <1>. QED BY <1>8 DEF HaltsOK

\* The kernel takes the head of the queue (events).
LEMMA EventsHalts ==
    ASSUME FeedTyped, HaltsOK, events
    PROVE  HaltsOK'
  <1>. USE DEF knRest, wsVars
  <1>. DEFINE e == Head(queue)
              status == classify_halt_status(e.marks)
  <1>1. /\ queue \in Seq(TapeEvents \cup {Sentinel}) /\ queue # <<>> /\ queue' = Tail(queue)
        /\ kn = "get" /\ UNCHANGED <<batch, halted, printed, health, hidden>>
    BY DEF events, FeedTyped
  <1>2. e \in TapeEvents \cup {Sentinel}
    BY <1>1
  <1>3. /\ e.marks \in {{}, {"on"}, {"off"}}
        /\ e.marks # {} => e.feed[1] \in Symbols
    BY <1>2 DEF TapeEvents, Feeds, Sentinel
  <1>4. status = "none" <=> e.marks = {}
    BY <1>3, Classified
  <1>5. \/ /\ kn' = "ended" /\ event' = event
           /\ lostMark' = IF status = "none" THEN lostMark ELSE lostMark \cup {e.feed[1]}
        \/ /\ event' = e /\ lostMark' = lostMark
           /\ kn' = IF status = "none" THEN "gate" ELSE "store"
    BY DEF events
  <1>6. ASSUME NEW s, NEW v
        PROVE  /\ LastPrint(queue, s, v) => LastPrint(queue', s, v)
               /\ ~IsPrint(e, s) => (Holds(queue', s) <=> Holds(queue, s))
               /\ IsPrint(e, s) => Holds(queue, s)
               /\ IsPrint(e, s) /\ ~Holds(queue', s) /\ LastPrint(queue, s, v) =>
                     classify_halt_status(e.marks) = v
    BY <1>1, TakeHead
  <1>7. lostMark \cup hidden \subseteq (lostMark \cup hidden)'
    BY <1>1, <1>5
  <1>8. \A s \in Symbols : ~Handles(s) /\ ~Moves(s) /\ ~Moves(s)'
    BY <1>1, <1>5 DEF Handles, Moves, Syncing
  <1>9. status = classify_halt_status(e.marks)
    OBVIOUS
  <1>. HIDE DEF e, status
  <1>10. ASSUME NEW s \in Symbols PROVE HaltOK(s)'
    <2>1. HaltOK(s) /\ Trade(s) \in Feeds
      BY DEF HaltsOK, Trade, Feeds
    <2>2. CASE ~IsPrint(e, s)
      <3>1. ~Handles(s)'
        BY <1>4, <1>5, <2>2 DEF Handles, Sym, IsPrint, Syncing
      <3>2. SameHalt(health[Trade(s)], health'[Trade(s)])
        BY <1>1, <2>1, SameUnmoved
      <3>. QED BY <1>1, <1>6, <1>7, <1>8, <2>1, <2>2, <3>1, <3>2, QuietHalt
    <2>3. CASE IsPrint(e, s) /\ kn' = "ended"
      <3>1. s \in lostMark'
        BY <1>4, <1>5, <2>3 DEF IsPrint
      <3>. QED BY <3>1 DEF HaltOK
    <2>4. CASE IsPrint(e, s) /\ kn' = "store" /\ event' = e /\ lostMark' = lostMark
      <3>1. Handles(s)' /\ ~Moves(s)'
        BY <1>8, <2>4 DEF Handles, Sym, IsPrint
      <3>. SUFFICES ASSUME s \notin (lostMark \cup hidden)', kn' # "faulted"
                    PROVE  /\ LastSays(batch, s)'
                           /\ ~Holds(batch', s) => LastSays(queue, s)'
                           /\ Clear(s)' => classify_halt_status(event'.marks) = printed'[s]
        BY <3>1 DEF HaltOK
      <3>2. LastSays(batch, s) /\ (~Holds(batch, s) => LastSays(queue, s))
        BY <1>1, <2>1, <2>4 DEF HaltOK
      <3>. QED BY <1>1, <1>6, <2>4, <3>2 DEF LastSays, Clear
    <2>. QED BY <1>4, <1>5, <2>2, <2>3, <2>4 DEF IsPrint
  <1>. QED BY <1>10 DEF HaltsOK

\* What holds of a symbol whose last print the kernel is at.
LEMMA KernelHolds ==
    ASSUME FeedTyped, ThreadsOK, HaltsOK, kn \in {"store"} \cup Syncing
    PROVE  /\ Sym \in Symbols /\ event.marks \in {{}, {"on"}, {"off"}} /\ event.marks # {}
           /\ classify_halt_status(event.marks) \in {"HALT_ON", "HALT_OFF"}
           /\ HaltOK(Sym) /\ Handles(Sym) /\ Trade(Sym) \in Feeds
           /\ health[Trade(Sym)] \in DataHealth
           /\ \A s \in Symbols : s # Sym => HaltOK(s) /\ ~Handles(s) /\ ~Moves(s)
  <1>1. event \in TapeEvents /\ event.marks # {}
    BY DEF ThreadsOK, Handling, Syncing
  <1>2. Sym \in Symbols /\ event.marks \in {{}, {"on"}, {"off"}}
    BY <1>1 DEF TapeEvents, Feeds, Sym
  <1>3. Trade(Sym) \in Feeds
    BY <1>2 DEF Trade, Feeds
  <1>4. classify_halt_status(event.marks) \in {"HALT_ON", "HALT_OFF"}
    BY <1>1, <1>2, Classified DEF Statuses
  <1>. QED BY <1>1, <1>2, <1>3, <1>4 DEF FeedTyped, HaltsOK, Handles, Moves

\* A step that handles the print of Sym and leaves the other symbols alone.
LEMMA OthersHalt ==
    ASSUME FeedTyped, ThreadsOK, HaltsOK, kn \in {"store"} \cup Syncing,
           UNCHANGED <<lostMark, hidden, event, printed, batch, queue>>,
           \A s \in Symbols : s # Sym => (s \in halted' <=> s \in halted),
           \A s \in Symbols : s # Sym => health'[Trade(s)] = health[Trade(s)],
           HaltOK(Sym)'
    PROVE  HaltsOK'
  <1>1. Sym \in Symbols /\ Sym' = Sym
    BY KernelHolds DEF Sym
  <1>2. kn # "faulted"
    BY DEF Syncing
  <1>3. ASSUME NEW s \in Symbols, s # Sym PROVE HaltOK(s)'
    <2>1. HaltOK(s) /\ ~Handles(s) /\ ~Moves(s) /\ ~Handles(s)' /\ ~Moves(s)'
      BY <1>1, <1>3, KernelHolds DEF Handles, Moves
    <2>2. SameHalt(health[Trade(s)], health'[Trade(s)]) /\ (s \in halted' <=> s \in halted)
      BY <1>3 DEF SameHalt
    <2>. QED BY <1>2, <2>1, <2>2, QuietHalt
  <1>4. ASSUME NEW s \in Symbols PROVE HaltOK(s)'
    <2>1. CASE s # Sym
      BY <1>3, <2>1
    <2>2. CASE s = Sym
      <3>1. HaltOK(event.feed[1])'
        BY DEF Sym
      <3>2. event'.feed[1] = s
        BY <1>1, <2>2 DEF Sym
      <3>. QED BY <3>1, <3>2 DEF HaltOK
    <2>. QED BY <2>1, <2>2
  <1>. QED BY <1>4 DEF HaltsOK

\* The kernel stores what the print says; a resume that finds no halted
\* machine is settled by that alone (_update_halt_state).
LEMMA StoreHalts ==
    ASSUME FeedTyped, ThreadsOK, HaltsOK, _update_halt_state
    PROVE  HaltsOK'
  <1>. USE DEF knSame, knRest, wsVars
  <1>. DEFINE status == classify_halt_status(event.marks)
              s == Sym
  <1>1. /\ SyncStore(s, status) /\ knSync' = SyncTarget(s, status) /\ kn = "store"
        /\ kn' = IF knSync' = NoSync THEN "announce" ELSE "check"
        /\ UNCHANGED <<lostMark, hidden, event, printed, batch, queue, health>>
    BY DEF _update_halt_state
  <1>2. /\ s \in Symbols /\ status \in {"HALT_ON", "HALT_OFF"} /\ HaltOK(s) /\ Handles(s)
        /\ s' = s
    BY <1>1, KernelHolds DEF Sym
  <1>3. status = classify_halt_status(event'.marks) /\ s' = Sym'
    BY <1>1
  <1>. HIDE DEF status
  <1>4. /\ s \in halted' <=> status = "HALT_ON"
        /\ \A o \in Symbols : o # s => (o \in halted' <=> o \in halted)
        /\ SyncTarget(s, status) = NoSync => status = "HALT_OFF" /\ health[Trade(s)] # "HALTED"
    BY <1>1, <1>2, Stored
  <1>5. HaltOK(s)'
    <2>. SUFFICES ASSUME s \notin (lostMark \cup hidden)', kn' # "faulted"
                  PROVE  /\ LastSays(batch, s)'
                         /\ ~Holds(batch, s)' => LastSays(queue, s)'
                         /\ Clear(s)' /\ Handles(s)' => classify_halt_status(event'.marks) = printed'[s]
                         /\ Clear(s)' /\ Moves(s)' => HaltStored(s)'
                         /\ Clear(s)' /\ ~Handles(s)' => HaltSettled(s)'
      BY <1>2 DEF HaltOK
    <2>1. /\ LastSays(batch, s)
          /\ ~Holds(batch, s) => LastSays(queue, s)
          /\ Clear(s) => status = printed[s]
      BY <1>1, <1>2 DEF HaltOK, status
    <2>2. LastSays(batch, s)' /\ (~Holds(batch, s)' => LastSays(queue, s)')
      BY <1>1, <1>2, <2>1 DEF LastSays
    <2>3. Clear(s)' <=> Clear(s)
      BY <1>1, <1>2 DEF Clear
    <2>4. Clear(s) => HaltStored(s)'
      BY <1>1, <1>2, <1>4, <2>1 DEF HaltStored
    <2>5. ~Handles(s)' => kn' = "announce"
      BY <1>1, <1>2, <1>3 DEF Handles, Syncing
    <2>6. Clear(s) /\ kn' = "announce" => HaltSettled(s)'
      BY <1>1, <1>2, <1>4, <2>4 DEF HaltSettled, NoSync
    <2>. QED BY <1>3, <2>1, <2>2, <2>3, <2>4, <2>5, <2>6, <1>1, <1>2
  <1>6. \A o \in Symbols : o # s => health'[Trade(o)] = health[Trade(o)]
    BY <1>1
  <1>. QED BY <1>1, <1>4, <1>5, <1>6, OthersHalt

\* The kernel finds a machine that needs no move, or moves it to where the
\* stored print wants it (KernelCheck, KernelCommit).
LEMMA MoveHalts ==
    ASSUME FeedTyped, ThreadsOK, HaltsOK, KernelCheck \/ KernelCommit
    PROVE  HaltsOK'
  <1>. USE DEF knSame, knRest, wsVars
  <1>. DEFINE status == classify_halt_status(event.marks)
              s == Sym
              target == IF status = "HALT_ON" THEN "HALTED" ELSE "HEALTHY"
  <1>1. /\ UNCHANGED <<lostMark, hidden, event, printed, batch, queue, halted>> /\ kn \in {"check", "commit"}
        /\ kn' \in {"enter", "announce"} /\ (kn' = "enter" => health' = health)
    BY DEF KernelCheck, KernelCommit
  <1>2. /\ s \in Symbols /\ status \in {"HALT_ON", "HALT_OFF"} /\ HaltOK(s) /\ Handles(s)
        /\ health[Trade(s)] \in DataHealth /\ Trade(s) \in Feeds /\ s' = s
    BY <1>1, KernelHolds DEF Sym, Syncing
  <1>3. knSync.target = target /\ Moves(s)
    BY <1>1 DEF ThreadsOK, Syncing, Moves
  <1>4. kn' = "announce" => health'[Trade(s)] = target
                            \/ (health' = health /\ ~can_transition(health[Trade(s)], target))
    BY <1>2, <1>3 DEF KernelCheck, KernelCommit, FeedTyped
  <1>5. \A o \in Symbols : o # s => health'[Trade(o)] = health[Trade(o)]
    <2>1. \A o \in Symbols : o # s => Trade(o) # Trade(s) /\ Trade(o) \in Feeds
      BY DEF Trade, Feeds
    <2>. QED BY <2>1 DEF KernelCheck, KernelCommit, FeedTyped
  <1>6. status = classify_halt_status(event'.marks) /\ s' = Sym'
    BY <1>1
  <1>. HIDE DEF status
  <1>7. /\ LastSays(batch, s)' <=> LastSays(batch, s)
        /\ LastSays(queue, s)' <=> LastSays(queue, s)
        /\ Holds(batch, s)' <=> Holds(batch, s)
        /\ Clear(s)' <=> Clear(s)
        /\ HaltStored(s)' <=> HaltStored(s)
    BY <1>1, <1>2 DEF LastSays, Clear, HaltStored
  <1>8. s \notin lostMark \cup hidden =>
           /\ LastSays(batch, s)
           /\ ~Holds(batch, s) => LastSays(queue, s)
           /\ Clear(s) => status = printed[s] /\ HaltStored(s)
    BY <1>1, <1>2, <1>3 DEF HaltOK, status
  <1>9. s \notin lostMark \cup hidden /\ Clear(s) /\ kn' = "announce" => HaltSettled(s)'
    <2>. SUFFICES ASSUME s \notin lostMark \cup hidden, Clear(s), kn' = "announce" PROVE HaltSettled(s)'
      OBVIOUS
    <2>1. HaltStored(s) /\ (s \in halted <=> status = "HALT_ON")
      BY <1>8 DEF HaltStored
    <2>2. CASE health'[Trade(s)] = target
      BY <1>1, <1>2, <1>7, <2>1, <2>2 DEF HaltSettled
    <2>3. CASE health' = health /\ ~can_transition(health[Trade(s)], target)
      <3>1. status = "HALT_ON" => health[Trade(s)] \in {"HALTED", "CORRUPTED"}
        BY <1>2, <2>3 DEF can_transition, _DATA_TRANSITIONS, DataHealth
      <3>2. status # "HALT_ON" => health[Trade(s)] \in {"HEALTHY", "CORRUPTED"}
        BY <1>2, <2>3 DEF can_transition, _DATA_TRANSITIONS, DataHealth
      <3>. QED BY <1>1, <1>2, <1>7, <2>1, <2>3, <3>1, <3>2 DEF HaltSettled
    <2>. QED BY <1>4, <2>2, <2>3
  <1>10. ~Handles(s)' => kn' = "announce"
    BY <1>1, <1>2, <1>6 DEF Handles, Syncing
  <1>11. HaltOK(s)'
    <2>. SUFFICES ASSUME s \notin (lostMark \cup hidden)', kn' # "faulted"
                  PROVE  /\ LastSays(batch, s)'
                         /\ ~Holds(batch, s)' => LastSays(queue, s)'
                         /\ Clear(s)' /\ Handles(s)' => classify_halt_status(event'.marks) = printed'[s]
                         /\ Clear(s)' /\ Moves(s)' => HaltStored(s)'
                         /\ Clear(s)' /\ ~Handles(s)' => HaltSettled(s)'
      BY <1>2 DEF HaltOK
    <2>. QED BY <1>1, <1>2, <1>6, <1>7, <1>8, <1>9, <1>10
  <1>. QED BY <1>1, <1>5, <1>11, OthersHalt DEF Syncing

\* A step of the feed keeps the store and the machines with the tape.
LEMMA HaltsStep ==
    ASSUME FeedTyped, ThreadsOK, HaltsOK, SyncHeld, FeedNext
    PROVE  HaltsOK'
  <1>1. CASE KernelRaises
    BY <1>1 DEF KernelRaises, HaltsOK, HaltOK
  <1>. QED BY <1>1, ParsedHalts, CommitHalts, RaiseHalts, ConsumeHalts, EventsHalts, StoreHalts,
              MoveHalts, QuietWebsocket, QuietStart, QuietKernel
           DEF FeedNext, WebsocketThread, KernelThread

(***************************************************************************)
(* The theorems.                                                           *)
(***************************************************************************)
\* The inductive invariant of the two threads, whose looks at a machine and
\* writes of it are steps apart (LiveFeed).
THEOREM FeedInductive == FeedSpec => []FeedIInv
  <1>1. FeedInit => FeedIInv
    BY FeedInitIInv
  <1>2. FeedIInv /\ [FeedNext]_feedVars => FeedIInv'
    <2>. SUFFICES ASSUME FeedIInv, [FeedNext]_feedVars PROVE FeedIInv'
      OBVIOUS
    <2>1. CASE FeedNext
      BY <2>1, ThreadsStep, OwedStep, SentinelsStep, HaltsStep, SyncHeldStep, SuspendedStep
      DEF FeedIInv
    <2>2. CASE UNCHANGED feedVars
      BY <2>2 DEF feedVars, wsVars, knVars, history, FeedIInv, FeedTyped, ThreadsOK, GoesOn, OwedOK,
         SentinelsOK, HaltsOK, HaltOK, Handles, Moves, LastSays, LastPrint, Holds, Clear, HaltStored,
         HaltSettled, SyncHeld, SuspendedOK, Sym
    <2>. QED BY <2>1, <2>2
  <1>. QED BY <1>1, <1>2, PTL DEF FeedSpec

\* A message lost on the wire, at the full queue or with a frame is told by the
\* time the thread is done with a later one of its feed, but for the two losses
\* the code forgets (_check_gap, notify_feed_interrupted).
THEOREM FeedTellsLoss == FeedSpec => []LossTold
  <1>1. FeedIInv => LossTold
    <2>. SUFFICES ASSUME FeedIInv, ws \notin Moving, NEW f \in Feeds, owed[f] # 0
                  PROVE  cursor[f].seq <= owed[f]
      BY DEF LossTold, Moving
    <2>1. cursor[f].seq < owed[f]
      BY DEF FeedIInv, OwedOK
    <2>2. cursor[f].seq \in Nat /\ owed[f] \in Nat
      BY DEF FeedIInv, FeedTyped
    <2>. QED BY <2>1, <2>2
  <1>. QED BY <1>1, FeedInductive, PTL

\* With both threads at rest the store and the trade-feed machine say what the
\* tape said last, but where a print was lost or a report that had looked before
\* has overwritten HALTED; and nothing is walked inside a halt even then
\* (_sync_halt_store_and_health, _data_health_blocks_trading).
THEOREM FeedRespectsHalts == FeedSpec => HaltsRespected
  <1>1. FeedIInv => HaltFollowsTape
    <2>. SUFFICES ASSUME FeedIInv, AtRest, NEW s \in Symbols, s \notin lostMark \cup hidden,
                         health[Trade(s)] # "CORRUPTED"
                  PROVE  /\ s \in halted <=> printed[s] = "HALT_ON"
                         /\ health[Trade(s)] = "HALTED" <=> s \in halted
      BY DEF HaltFollowsTape
    <2>1. Clear(s) /\ ~Handles(s) /\ kn # "faulted"
      BY DEF AtRest, Clear, Holds, Handles, Syncing
    <2>2. HaltOK(s)
      BY DEF FeedIInv, HaltsOK
    <2>3. HaltSettled(s)
      BY <2>1, <2>2 DEF HaltOK
    <2>. QED BY <2>3 DEF HaltSettled, HaltStored
  <1>2. FeedIInv /\ [FeedNext]_feedVars =>
          [(Process /\ event.feed = Quote(Sym)) =>
              ~(consumed[Sym] = "HALT_ON" /\ printed[Sym] = "HALT_ON")]_feedVars
    <2>. SUFFICES ASSUME FeedIInv, Process, event.feed = Quote(Sym),
                         consumed[Sym] = "HALT_ON", printed[Sym] = "HALT_ON"
                  PROVE  FALSE
      OBVIOUS
    <2>1. kn = "judge" /\ Sym \notin halted
      BY DEF Process
    <2>2. Sym \in Symbols
      BY <2>1 DEF FeedIInv, ThreadsOK, Handling, TapeEvents, Feeds, Sym
    <2>. QED BY <2>1, <2>2 DEF FeedIInv, SuspendedOK
  <1>. QED BY <1>1, <1>2, FeedInductive, PTL DEF FeedSpec, HaltsRespected, NoTradeInsideHalt

\* A session in its trading mode ends only when this run of the feed is stopped
\* or its task has died: the sentinels of an earlier one are gone (start,
\* _drain_stale_sentinels, _run_loop).
THEOREM FeedEndsOnlyWhenStopped == FeedSpec => EndsOnlyWhenStopped
  <1>1. FeedIInv /\ [FeedNext]_feedVars =>
          [(kn = "get" /\ kn' = "ended" /\ macro = "trading") => stopEvent \/ died]_feedVars
    <2>. SUFFICES ASSUME FeedIInv, FeedNext, kn = "get", kn' = "ended", macro = "trading"
                  PROVE  stopEvent \/ died
      OBVIOUS
    <2>1. events \/ IdleTick
      BY DEF FeedNext, start, stop, halt, WebsocketThread, KernelThread, ImportWebsockets,
         _connect_with_retry, ConnectionClosed, ConnectionLost, BackoffEnds, _run_loop, MessageLost,
         _mark_corrupted, Accept, _apply_halt_status_ws, MoveSkips, MoveAsks, MoveEnters, MoveCommits,
         MoveRaises, EndFrame, _consume, _update_halt_state,
         KernelCheck, KernelEnter, KernelCommit, KernelRaises, _emit_symbol_halted, Gate, Degrade,
         PassOver, Process, Shared, wsSame, moveRest, knVars
    <2>2. CASE IdleTick
      BY <2>2 DEF IdleTick
    <2>3. CASE events
      <3>1. queue # <<>> /\ Head(queue) = Sentinel
        BY <2>3, Classified DEF events
      <3>2. queue \in Seq(TapeEvents \cup {Sentinel})
        BY DEF FeedIInv, FeedTyped
      <3>3. 1 \in DOMAIN queue /\ queue[1] = Sentinel
        BY <3>1, <3>2
      <3>. QED BY <3>3 DEF FeedIInv, SentinelsOK
    <2>. QED BY <2>1, <2>2, <2>3
  <1>. QED BY <1>1, FeedInductive, PTL DEF FeedSpec, EndsOnlyWhenStopped

-----------------------------------------------------------------------------
\* What the assumption says of names and of what is asked for.
LEMMA NamesDiffer == /\ Schema # "old" /\ "none" \notin Backtests
                     /\ "mixed" \notin Backtests /\ "earlier" \notin Backtests
  BY StoreAssumption

\* The whole day is one of the tapes a fetch can end with.
LEMMA TapesThere == \A k \in Keys : /\ Len(Tapes[k]) \in Nat
                                     /\ Len(Tapes[k]) \in DOMAIN Tapes[k]
                                     /\ DOMAIN Tapes[k] \subseteq Nat
  BY StoreAssumption

\* What a backtest is asked for.
LEMMA AskedOnce == \A r \in Requests : /\ r.gaps \in BOOLEAN
                                        /\ KeysOf(r.symbols) \in Seq(Keys)
                                        /\ IsInjective(KeysOf(r.symbols))
  BY StoreAssumption

(***************************************************************************)
(* How a step changes papers and backtests.                                *)
(***************************************************************************)
\* g is f after a rename, a close or a death: the same content.
Copies(g, f) ==
    /\ g.by = f.by /\ g.tape = f.tape /\ g.schema = f.schema /\ g.label = f.label
    /\ g.whole => f.whole \/ f.by \in Backtests

Blank(g) == g.by \in {"none", "mixed"} /\ ~g.whole

\* g is what p has just begun to write of the day k.
Written(g, p, k) ==
    /\ bt[p].pc \in Saves /\ Day(p) = k
    /\ g.by = p /\ g.tape = bt[p].tape /\ g.schema = Schema

\* The step is one of p: no day becomes unsaved, and while a day is being saved
\* the answer stays the same.
Advances(p) ==
    /\ DOMAIN bt' = Backtests /\ \A q \in Backtests \ {p} : bt'[q] = bt[q]
    /\ bt[p].pc # "idle" => bt'[p].ask = bt[p].ask
    /\ \A k \in Keys : ~Unsaved(p, k) =>
          /\ ~Unsaved(p, k)'
          /\ At(p, k, HasOpened)' => At(p, k, HasOpened) /\ bt'[p].tape = bt[p].tape
    /\ \A k \in Keys : fetched[k] \subseteq fetched'[k]

\* Every paper of a day was one before, is blank, or is what p writes.
PapersMove(p) ==
    \A k \in Keys :
       /\ \A g \in Papers(k)' :
             \/ Blank(g)
             \/ \E f \in Papers(k) : Copies(g, f)
             \/ Written(g, p, k) /\ ~Unsaved(p, k)' /\ bt'[p].tape = bt[p].tape
       /\ \A g \in Manifests(k)' :
             \/ Blank(g)
             \/ \E f \in Manifests(k) : Copies(g, f)
             \/ Written(g, p, k) /\ g.label = LabelOf(k, bt[p].tape, bt[p].ask.gaps)

\* The papers of every file stay honest when one backtest moves.
LEMMA PapersKept ==
    ASSUME StoreIInv, NEW p \in Backtests, Advances(p), PapersMove(p)
    PROVE  PapersOK'
  <1>0. /\ "none" \notin Backtests /\ "mixed" \notin Backtests
        /\ \A q \in Backtests : BacktestOK(bt[q])
    BY NamesDiffer DEF StoreIInv, StoreTypeOK
  <1>. SUFFICES ASSUME NEW k \in Keys
                PROVE  /\ \A f \in Papers(k)' : Honest(k, f)'
                       /\ \A f, g \in Papers(k)' : f.by = g.by /\ f.by \in Backtests => f.tape = g.tape
                       /\ \A m \in Manifests(k)' : Labelled(k, m)'
    BY DEF PapersOK
  <1>1. \A f \in Papers(k) : f.by = p => ~Unsaved(p, k) /\ bt[p].pc # "idle"
    BY DEF StoreIInv, PapersOK, Honest, Unsaved
  <1>2. \A f \in Papers(k) : f.by = p /\ bt[p].pc \in Saves /\ Day(p) = k => f.tape = bt[p].tape
    <2>. SUFFICES ASSUME NEW f \in Papers(k), f.by = p, bt[p].pc \in Saves, Day(p) = k
                  PROVE  f.tape = bt[p].tape
      OBVIOUS
    <2>1. bt[p].todo # <<>> /\ bt[p].todo \in Seq(Keys)
      BY <1>0 DEF BacktestOK, BacktestTyped, AtADay
    <2>2. bt[p].pc \in HasOpened
      <3>1. 1 \in DOMAIN bt[p].todo /\ bt[p].todo[1] = k
        BY <2>1 DEF Day
      <3>. QED BY <1>1, <3>1 DEF Unsaved
    <2>. QED BY <2>1, <2>2 DEF StoreIInv, PapersOK, Honest, At
  <1>3. ASSUME NEW g \in Papers(k)' PROVE Honest(k, g)'
    <2>1. CASE Blank(g)
      BY <1>0, <2>1 DEF Blank, Honest
    <2>2. ASSUME NEW f \in Papers(k), Copies(g, f) PROVE Honest(k, g)'
      <3>1. Honest(k, f)
        BY DEF StoreIInv, PapersOK
      <3>2. g.whole => g.by \notin {"none", "mixed"}
        BY <1>0, <2>2, <3>1 DEF Honest, Copies
      <3>3. ASSUME g.by = p PROVE Honest(k, g)'
        BY <1>1, <2>2, <3>1, <3>2, <3>3 DEF Honest, Copies, Advances
      <3>4. ASSUME g.by \in Backtests, g.by # p PROVE Honest(k, g)'
        <4>1. bt'[g.by] = bt[g.by]
          BY <3>4 DEF Advances
        <4>. QED BY <2>2, <3>1, <3>2, <3>4, <4>1 DEF Honest, Copies, Advances, Unsaved, At, Day
      <3>. QED BY <3>2, <3>3, <3>4 DEF Honest
    <2>3. CASE Written(g, p, k) /\ ~Unsaved(p, k)' /\ bt'[p].tape = bt[p].tape
      <3>1. bt[p].ask.cached /\ bt[p].tape \in fetched[k] /\ bt[p].ask \in Requests
        BY <1>0, <2>3 DEF Written, StoreIInv, BacktestsOK, DayOK, Day, BacktestOK, BacktestTyped, Saves
      <3>2. bt'[p].ask = bt[p].ask /\ fetched[k] \subseteq fetched'[k]
        BY <2>3 DEF Advances, Written, Saves
      <3>3. p # "none" /\ p # "mixed"
        BY <1>0
      <3>. QED BY <2>3, <3>1, <3>2, <3>3 DEF Honest, Written
    <2>. QED BY <2>1, <2>2, <2>3 DEF PapersMove
  <1>4. ASSUME NEW g \in Papers(k)', g.by \in Backtests
        PROVE  \/ \E f \in Papers(k) : f.by = g.by /\ f.tape = g.tape
               \/ g.by = p /\ bt[p].pc \in Saves /\ Day(p) = k /\ g.tape = bt[p].tape
    BY <1>0, <1>4 DEF PapersMove, Blank, Copies, Written
  <1>5. ASSUME NEW f \in Papers(k)', NEW g \in Papers(k)', f.by = g.by, f.by \in Backtests
        PROVE  f.tape = g.tape
    BY <1>2, <1>4, <1>5 DEF StoreIInv, PapersOK
  <1>6. ASSUME NEW m \in Manifests(k)', m.by \in Backtests
        PROVE  m.label = LabelOf(k, m.tape, bt'[m.by].ask.gaps)
    <2>1. ASSUME NEW f \in Manifests(k), Copies(m, f)
          PROVE  m.label = LabelOf(k, m.tape, bt'[m.by].ask.gaps)
      <3>1. f \in Papers(k) /\ m.by = f.by
        BY <2>1 DEF Papers, Copies
      <3>2. bt'[m.by].ask = bt[m.by].ask
        BY <1>1, <1>6, <3>1 DEF Advances
      <3>. QED BY <1>6, <2>1, <3>1, <3>2 DEF StoreIInv, PapersOK, Labelled, Copies
    <2>2. CASE Written(m, p, k) /\ m.label = LabelOf(k, bt[p].tape, bt[p].ask.gaps)
      BY <2>2 DEF Written, Advances, Saves
    <2>. QED BY <1>0, <1>6, <2>1, <2>2 DEF PapersMove, Blank
  <1>7. \A m \in Manifests(k)' : Labelled(k, m)'
    BY <1>6 DEF Labelled
  <1>. QED BY <1>3, <1>5, <1>7

\* What an earlier build left stays what it was, or goes.
EarlierMove ==
    \A k \in Keys :
       /\ files'[k].dataTmp.by # "earlier" /\ files'[k].manTmp.by # "earlier"
       /\ files'[k].data.by = "earlier" =>
             files[k].data.by = "earlier" /\ files'[k].data.tape = files[k].data.tape
       /\ \A g \in Manifests(k)' : g.by = "earlier" => \E f \in Manifests(k) : Copies(g, f)
       /\ fetched[k] \subseteq fetched'[k]

\* What earlier versions left is only ever replaced.
LEMMA EarlierKept ==
    ASSUME StoreIInv, EarlierMove
    PROVE  EarlierOK'
  <1>. SUFFICES ASSUME NEW k \in Keys
                PROVE  /\ files'[k].dataTmp.by # "earlier" /\ files'[k].manTmp.by # "earlier"
                       /\ \A m \in Manifests(k)' :
                             (m.by = "earlier" /\ m.schema = Schema /\ files'[k].data.by = "earlier") =>
                                /\ files'[k].data.tape \in fetched'[k] /\ m.label = "absent"
                       /\ \A m, n \in Manifests(k)' :
                             m.by = "earlier" /\ n.by = "earlier" => m.label = n.label
    BY DEF EarlierOK
  <1>1. /\ \A m \in Manifests(k) :
              (m.by = "earlier" /\ m.schema = Schema /\ files[k].data.by = "earlier") =>
                 /\ files[k].data.tape \in fetched[k] /\ m.label = "absent"
        /\ \A m, n \in Manifests(k) : m.by = "earlier" /\ n.by = "earlier" => m.label = n.label
    BY DEF StoreIInv, EarlierOK
  <1>. QED BY <1>1 DEF EarlierMove, Copies

\* A step of p that touches no file: what p has read is still what it read, or
\* is the manifest that is there.
LEMMA QuietStep ==
    ASSUME StoreIInv, NEW p \in Backtests, Advances(p), files' = files,
           bt'[p].pc \in Reads =>
              LET k == Head(bt'[p].todo) IN
              \/ bt[p].pc \in Reads /\ bt'[p].man = bt[p].man /\ Day(p) = k /\ bt[p].todo # <<>>
              \/ bt'[p].man = files[k].man
    PROVE  PapersOK' /\ EarlierOK'
  <1>0. files \in [Keys -> Directories]
    BY DEF StoreIInv, StoreTypeOK
  <1>1. ASSUME NEW k \in Keys, NEW g \in Manifests(k)' PROVE g \in Manifests(k)
    <2>1. CASE g \in {files'[k].man, files'[k].manTmp}
      BY <2>1 DEF Manifests
    <2>2. ASSUME NEW q \in Backtests, At(q, k, Reads)', g = bt'[q].man PROVE g \in Manifests(k)
      <3>1. CASE q # p
        BY <2>2, <3>1 DEF Manifests, Readers, At, Advances, Day
      <3>2. CASE q = p
        BY <2>2, <3>2 DEF Manifests, Readers, At, Day
      <3>. QED BY <3>1, <3>2
    <2>. QED BY <1>1, <2>1, <2>2 DEF Manifests, Readers
  <1>2. ASSUME NEW k \in Keys, NEW g \in Papers(k)' PROVE g \in Papers(k)
    BY <1>1, <1>2 DEF Papers
  <1>3. \A g : Copies(g, g)
    BY DEF Copies
  <1>4. PapersMove(p)
    BY <1>1, <1>2, <1>3 DEF PapersMove
  <1>5. EarlierMove
    BY <1>1, <1>3 DEF EarlierMove, StoreIInv, EarlierOK, Advances
  <1>. QED BY <1>4, <1>5, PapersKept, EarlierKept

\* The other backtests are as they were.
BacktestSound(b) == BacktestOK(b) /\ DayOK(b) /\ GotOK(b) /\ CheckedOK(b)

\* The backtests that did not move are as sound as they were.
LEMMA OthersKept ==
    ASSUME StoreIInv, NEW p \in Backtests, Advances(p), BacktestSound(bt[p])'
    PROVE  (\A q \in Backtests : BacktestOK(bt[q]))' /\ BacktestsOK'
  <1>1. ASSUME NEW q \in Backtests, q # p PROVE BacktestSound(bt[q])'
    <2>1. BacktestSound(bt[q]) /\ bt'[q] = bt[q]
      BY <1>1 DEF StoreIInv, StoreTypeOK, BacktestsOK, BacktestSound, Advances
    <2>2. \A k \in Keys : fetched[k] \subseteq fetched'[k]
      BY DEF Advances
    <2>3. DayOK(bt[q])'
      <3>1. bt[q].pc \in Saves \cup {"keep", "label"} => Head(bt[q].todo) \in Keys
        BY <2>1 DEF BacktestSound, BacktestOK, BacktestTyped, AtADay, Reads
      <3>. QED BY <2>1, <2>2, <3>1 DEF BacktestSound, DayOK
    <2>4. GotOK(bt[q])'
      <3>1. \A i \in DOMAIN bt[q].got : bt[q].got[i] \in DayRecords
        BY <2>1 DEF BacktestSound, BacktestOK, BacktestTyped
      <3>2. \A i \in DOMAIN bt[q].got : bt[q].got[i].key \in Keys
        BY <3>1 DEF DayRecords
      <3>. QED BY <2>1, <2>2, <3>2 DEF BacktestSound, GotOK, LabelOK
    <2>. QED BY <2>1, <2>3, <2>4 DEF BacktestSound, BacktestOK, BacktestTyped, CheckedOK
  <1>. QED BY <1>1 DEF BacktestSound, BacktestsOK

(***************************************************************************)
(* The ways a step of p advances.                                          *)
(***************************************************************************)
OneStep(p) ==
    /\ DOMAIN bt' = Backtests /\ \A q \in Backtests \ {p} : bt'[q] = bt[q]
    /\ bt[p].pc # "idle" => bt'[p].ask = bt[p].ask
    /\ \A k \in Keys : fetched[k] \subseteq fetched'[k]

\* Within a day, or past the days.
LEMMA SameDays ==
    ASSUME StoreIInv, NEW p \in Backtests, OneStep(p), bt[p].pc # "idle", bt'[p].pc # "idle",
           bt'[p].todo = bt[p].todo,
           bt[p].pc \in HasOpened => bt'[p].pc \in HasOpened /\ bt'[p].tape = bt[p].tape
    PROVE  Advances(p)
  <1>1. bt[p].todo \in Seq(Keys)
    BY DEF StoreIInv, StoreTypeOK, BacktestOK, BacktestTyped
  <1>2. ASSUME NEW k \in Keys, ~Unsaved(p, k)
        PROVE  /\ ~Unsaved(p, k)'
               /\ At(p, k, HasOpened)' => At(p, k, HasOpened) /\ bt'[p].tape = bt[p].tape
    <2>1. ~Unsaved(p, k)'
      BY <1>2 DEF Unsaved
    <2>2. ASSUME At(p, k, HasOpened)' PROVE bt[p].pc \in HasOpened /\ At(p, k, HasOpened)
      <3>1. bt[p].todo # <<>> /\ 1 \in DOMAIN bt[p].todo /\ bt[p].todo[1] = k /\ Day(p) = k
        BY <1>1, <2>2 DEF At, Day
      <3>. QED BY <1>2, <3>1 DEF Unsaved, At
    <2>. QED BY <2>1, <2>2
  <1>. QED BY <1>2 DEF Advances, OneStep

\* To the next day.
LEMMA NextDays ==
    ASSUME StoreIInv, NEW p \in Backtests, OneStep(p), bt[p].pc # "idle", bt'[p].pc = "day",
           bt[p].todo # <<>>, bt'[p].todo = Tail(bt[p].todo)
    PROVE  Advances(p)
  <1>1. bt[p].todo \in Seq(Keys)
    BY DEF StoreIInv, StoreTypeOK, BacktestOK, BacktestTyped
  <1>2. \A i \in DOMAIN bt'[p].todo :
           i + 1 \in DOMAIN bt[p].todo /\ bt'[p].todo[i] = bt[p].todo[i + 1] /\ i + 1 > 1
    BY <1>1
  <1>3. ASSUME NEW k \in Keys, ~Unsaved(p, k)
        PROVE  ~Unsaved(p, k)' /\ ~At(p, k, HasOpened)'
    BY <1>2, <1>3 DEF Unsaved, At, HasOpened
  <1>. QED BY <1>3 DEF Advances, OneStep

\* From the start: it has saved nothing.
LEMMA FirstDays ==
    ASSUME NEW p \in Backtests, OneStep(p), bt[p].pc = "idle"
    PROVE  Advances(p)
  BY DEF Advances, OneStep, Unsaved

\* A step that touches no file.
LEMMA QuietIInv ==
    ASSUME StoreIInv, NEW p \in Backtests, Advances(p), UNCHANGED <<files, crashes>>,
           DOMAIN fetched' = Keys, \A k \in Keys : fetched'[k] \subseteq DOMAIN Tapes[k],
           BacktestSound(bt[p])',
           bt'[p].pc \in Reads =>
              LET k == Head(bt'[p].todo) IN
              \/ bt[p].pc \in Reads /\ bt'[p].man = bt[p].man /\ Day(p) = k /\ bt[p].todo # <<>>
              \/ bt'[p].man = files[k].man
    PROVE  StoreIInv'
  <1>1. PapersOK' /\ EarlierOK'
    BY QuietStep
  <1>2. (\A q \in Backtests : BacktestOK(bt[q]))' /\ BacktestsOK'
    BY OthersKept
  <1>. QED BY <1>1, <1>2 DEF StoreIInv, StoreTypeOK, Advances

\* The states of files and of a new process.
LEMMA NoFileOK == /\ NoFile \in FileRecords /\ "absent" \in Labels /\ "HEALTHY" \in Labels
                  /\ NoFile.by = "none" /\ ~NoFile.whole /\ NoFile.open = {}
                  /\ NoFile.schema = "none" /\ NoFile.label = "absent" /\ NoFile.tape = 0
  <1>1. "absent" \in Labels /\ "HEALTHY" \in Labels
    BY DEF Labels
  <1>. HIDE DEF Labels
  <1>. QED BY <1>1 DEF NoFile, FileRecords

\* A backtest that has not begun.
LEMMA NotStartedSound == BacktestSound(NotStarted)
  <1>1. NoFile \in FileRecords
    BY NoFileOK
  <1>2. <<>> \in Seq(Keys) /\ <<>> \in Seq(DayRecords) /\ IsInjective(<<>>)
    BY DEF IsInjective
  <1>3. BacktestOK(NotStarted)
    BY <1>1, <1>2 DEF NotStarted, BacktestOK, BacktestTyped, AtADay, Reads, Saves, Phases
  <1>4. DayOK(NotStarted) /\ GotOK(NotStarted) /\ CheckedOK(NotStarted)
    BY DEF NotStarted, DayOK, GotOK, CheckedOK, Reads, Saves
  <1>. QED BY <1>3, <1>4 DEF BacktestSound

\* A file an earlier version left.
LEMMA EarlierFileOK ==
    ASSUME NEW n \in Nat, NEW before \in {"old schema", "unlabelled", "mixed"},
           NEW by \in {"mixed", "earlier"}
    PROVE  LET f == EarlierFile(n, before, by) IN
           /\ f \in FileRecords
           /\ f.by = by /\ f.whole = (by = "earlier") /\ f.tape = n
           /\ f.schema = IF before = "old schema" THEN "old" ELSE Schema
           /\ f.label = IF before = "unlabelled" THEN "absent" ELSE "HEALTHY"
  <1>1. "absent" \in Labels /\ "HEALTHY" \in Labels
    BY NoFileOK
  <1>. QED BY <1>1, NamesDiffer DEF EarlierFile, FileRecords

\* A day nothing is stored of.
LEMMA EmptyDayOK == /\ EmptyDay \in Directories
                    /\ EmptyDay.data = NoFile /\ EmptyDay.dataTmp = NoFile
                    /\ EmptyDay.man = NoFile /\ EmptyDay.manTmp = NoFile
  BY NoFileOK DEF EmptyDay, Directories

LeftEarlier(d, n) ==
    /\ d \in Directories
    /\ d.dataTmp = NoFile /\ d.manTmp = NoFile
    /\ d.man.by = "earlier" /\ d.data.by \in {"earlier", "mixed"}
    /\ d.data.whole = (d.data.by = "earlier") /\ d.data.tape = n
    /\ (d.data.by = "earlier" /\ d.man.schema = Schema) =>
          d.man.label = "absent" /\ d.data.schema = Schema

\* A day an earlier version left.
LEMMA EarlierDayOK ==
    ASSUME NEW n \in Nat, NEW before \in {"old schema", "unlabelled", "mixed"}
    PROVE  LeftEarlier(EarlierDay(n, before), n)
  <1>. DEFINE by == IF before = "mixed" THEN "mixed" ELSE "earlier"
              f == EarlierFile(n, before, by)
              m == EarlierFile(n, before, "earlier")
  <1>1. by \in {"mixed", "earlier"} /\ (by = "mixed" <=> before = "mixed")
    OBVIOUS
  <1>2. EarlierDay(n, before) = [data |-> f, dataTmp |-> NoFile, man |-> m, manTmp |-> NoFile]
    BY DEF EarlierDay
  <1>. HIDE DEF by
  <1>3. /\ f.by = by /\ f.whole = (by = "earlier") /\ f.tape = n
        /\ f.schema = IF before = "old schema" THEN "old" ELSE Schema
    BY DEF EarlierFile
  <1>4. /\ m.by = "earlier"
        /\ m.schema = IF before = "old schema" THEN "old" ELSE Schema
        /\ m.label = IF before = "unlabelled" THEN "absent" ELSE "HEALTHY"
    BY DEF EarlierFile
  <1>9. f \in FileRecords /\ m \in FileRecords
    BY <1>1, EarlierFileOK, Zenon
  <1>. HIDE DEF f, m
  <1>5. [data |-> f, dataTmp |-> NoFile, man |-> m, manTmp |-> NoFile] \in Directories
    BY <1>9, NoFileOK DEF Directories
  <1>6. LET r == [data |-> f, dataTmp |-> NoFile, man |-> m, manTmp |-> NoFile] IN
        r.data = f /\ r.dataTmp = NoFile /\ r.man = m /\ r.manTmp = NoFile
    OBVIOUS
  <1>7. f.by \in {"earlier", "mixed"} /\ f.whole = (f.by = "earlier")
    BY <1>1, <1>3
  <1>8. (f.by = "earlier" /\ m.schema = Schema) => m.label = "absent" /\ f.schema = Schema
    BY <1>1, <1>3, <1>4, NamesDiffer
  <1>. QED BY <1>2, <1>3, <1>4, <1>5, <1>6, <1>7, <1>8, Zenon DEF LeftEarlier

\* The directory the first backtest finds.
LEMMA StoreInitIInv == StoreInit => StoreIInv
  <1>. SUFFICES ASSUME StoreInit PROVE StoreIInv
    OBVIOUS
  <1>1. PICK before \in [Keys -> {"nothing", "old schema", "unlabelled", "mixed"}] :
           files = [k \in Keys |-> IF before[k] = "nothing" THEN EmptyDay
                                   ELSE EarlierDay(Len(Tapes[k]), before[k])]
    BY DEF StoreInit
  <1>2. ASSUME NEW k \in Keys
        PROVE  /\ files[k] \in Directories
               /\ files[k].dataTmp = NoFile /\ files[k].manTmp = NoFile
               /\ files[k].man = NoFile \/ files[k].man.by = "earlier"
               /\ files[k].data = NoFile \/ files[k].data.by \in {"earlier", "mixed"}
               /\ files[k].data.by \in {"none", "mixed"} => ~files[k].data.whole
               /\ files[k].data.by = "earlier" => files[k].data.whole
               /\ (files[k].data.by = "earlier" /\ files[k].man.schema = Schema) =>
                     files[k].man.label = "absent" /\ files[k].data.schema = Schema
               /\ fetched[k] \subseteq DOMAIN Tapes[k]
               /\ files[k].data.whole /\ files[k].data.schema = Schema =>
                     files[k].data.tape \in fetched[k]
    <2>0. fetched[k] = IF files[k].data.whole /\ files[k].data.schema = Schema
                       THEN {files[k].data.tape} ELSE {}
      BY DEF StoreInit
    <2>1. CASE before[k] = "nothing"
      <3>1. files[k] = EmptyDay
        BY <1>1, <2>1
      <3>. QED BY <2>0, <3>1, EmptyDayOK, NoFileOK
    <2>2. CASE before[k] # "nothing"
      <3>. DEFINE n == Len(Tapes[k])
      <3>1. files[k] = EarlierDay(n, before[k])
        BY <1>1, <2>2
      <3>2. n \in Nat /\ n \in DOMAIN Tapes[k] /\ before[k] \in {"old schema", "unlabelled", "mixed"}
        BY <2>2, TapesThere
      <3>. HIDE DEF n
      <3>3. LeftEarlier(files[k], n)
        BY <3>1, <3>2, EarlierDayOK, Zenon
      <3>. QED BY <2>0, <3>2, <3>3 DEF LeftEarlier
    <2>. QED BY <2>1, <2>2
  <1>3. bt = [p \in Backtests |-> NotStarted] /\ DOMAIN fetched = Keys /\ DOMAIN files = Keys
    BY <1>1 DEF StoreInit
  <1>4. BacktestSound(NotStarted)
    BY NotStartedSound
  <1>5. StoreTypeOK
    <2>1. files = [k \in Keys |-> files[k]]
      BY <1>1
    <2>2. files \in [Keys -> Directories]
      BY <1>2, <2>1
    <2>. QED BY <1>2, <1>3, <1>4, <2>2 DEF StoreTypeOK, BacktestSound
  <1>6. \A k \in Keys : Readers(k) = {}
    BY <1>3 DEF Readers, At, NotStarted, Reads
  <1>7. \A k \in Keys : /\ Manifests(k) = {files[k].man, files[k].manTmp}
                         /\ Papers(k) = {files[k].data, files[k].dataTmp, files[k].man, files[k].manTmp}
    BY <1>6 DEF Manifests, Papers
  <1>8. \A k \in Keys : \A f \in Papers(k) :
           f.by \notin Backtests /\ (f.whole => f.by \notin {"none", "mixed"})
    <2>. TAKE k \in Keys
    <2>1. /\ files[k].data.by \notin Backtests /\ files[k].man.by \notin Backtests
          /\ NoFile.by \notin Backtests /\ ~NoFile.whole
      BY <1>2, NoFileOK, NamesDiffer
    <2>2. files[k].data.whole => files[k].data.by \notin {"none", "mixed"}
      BY <1>2
    <2>3. files[k].man.whole => files[k].man.by \notin {"none", "mixed"}
      BY <1>2, NoFileOK
    <2>. QED BY <1>2, <1>7, <2>1, <2>2, <2>3
  <1>9. PapersOK
    BY <1>7, <1>8 DEF PapersOK, Honest, Labelled, Papers
  <1>10. EarlierOK
    BY <1>2, <1>7, NoFileOK, ZenonT(20) DEF EarlierOK
  <1>. QED BY <1>3, <1>4, <1>5, <1>9, <1>10 DEF StoreIInv, BacktestsOK, BacktestSound

(***************************************************************************)
(* The steps that touch no file.                                           *)
(***************************************************************************)
LEMMA FailsQuiet ==
    ASSUME StoreIInv, NEW p \in Backtests, bt[p].pc # "idle", NEW v, Fails(p, v),
           UNCHANGED <<files, crashes, fetched>>
    PROVE  StoreIInv'
  <1>. DEFINE b == bt[p]
  <1>1. BacktestSound(b) /\ DOMAIN bt = Backtests /\ DOMAIN fetched = Keys
    BY DEF StoreIInv, StoreTypeOK, BacktestsOK, BacktestSound
  <1>2. /\ bt'[p] = [b EXCEPT !.pc = "failed", !.verdict = v]
        /\ DOMAIN bt' = Backtests /\ \A q \in Backtests \ {p} : bt'[q] = bt[q]
    BY <1>1 DEF Fails
  <1>. HIDE DEF b
  <1>3. BacktestOK(bt'[p])
    <2>1. BacktestOK(b) /\ b.pc # "idle" /\ "failed" \in Phases \ {"idle"} /\ "failed" \notin AtADay
      BY <1>1 DEF BacktestSound, AtADay, Reads, Saves, Phases, b
    <2>. QED BY <1>2, <2>1 DEF BacktestOK, BacktestTyped
  <1>4. /\ bt'[p].pc = "failed" /\ bt'[p].todo = b.todo /\ bt'[p].got = b.got
        /\ bt'[p].ask = b.ask /\ bt'[p].tape = b.tape /\ bt'[p].man = b.man
    BY <1>1, <1>2 DEF BacktestSound, BacktestOK, BacktestTyped
  <1>. USE DEF b
  <1>5. BacktestSound(bt[p])'
    BY <1>1, <1>3, <1>4 DEF BacktestSound, DayOK, GotOK, LabelOK, CheckedOK, Saves, Reads
  <1>6. OneStep(p)
    BY <1>2, <1>4 DEF OneStep
  <1>7. Advances(p)
    BY <1>4, <1>6, SameDays DEF HasOpened
  <1>. QED BY <1>1, <1>4, <1>5, <1>7, QuietIInv DEF StoreIInv, StoreTypeOK, Reads

\* A step that only moves on.
LEMMA GoesQuiet ==
    ASSUME StoreIInv, NEW p \in Backtests, NEW phase \in Phases \ ({"idle"} \cup HasOpened \cup Reads \cup Saves),
           bt[p].pc \notin {"idle"} \cup HasOpened, Goes(p, phase),
           UNCHANGED <<files, crashes, fetched>>,
           phase \in AtADay => bt[p].todo # <<>>,
           phase = "load" => bt[p].ask.cached \/ bt[p].ask.offline,
           phase \in {"replay", "done"} => bt[p].pc \in {"replay", "done"}
    PROVE  StoreIInv'
  <1>. DEFINE b == bt[p]
  <1>1. BacktestSound(b) /\ DOMAIN bt = Backtests /\ DOMAIN fetched = Keys
    BY DEF StoreIInv, StoreTypeOK, BacktestsOK, BacktestSound
  <1>2. /\ bt'[p] = [b EXCEPT !.pc = phase]
        /\ DOMAIN bt' = Backtests /\ \A q \in Backtests \ {p} : bt'[q] = bt[q]
    BY <1>1 DEF Goes
  <1>. HIDE DEF b
  <1>3. BacktestOK(bt'[p])
    <2>1. /\ BacktestOK(b) /\ b.pc # "idle" /\ b.pc # "failed" /\ phase \in Phases \ {"idle"}
          /\ phase \in AtADay => b.todo # <<>>
      BY <1>1 DEF BacktestSound, HasOpened, b
    <2>. QED BY <1>2, <2>1 DEF BacktestOK, BacktestTyped
  <1>4. /\ bt'[p].pc = phase /\ bt'[p].todo = b.todo /\ bt'[p].got = b.got
        /\ bt'[p].ask = b.ask /\ bt'[p].tape = b.tape /\ bt'[p].man = b.man
    BY <1>1, <1>2 DEF BacktestSound, BacktestOK, BacktestTyped
  <1>. USE DEF b
  <1>5. BacktestSound(bt[p])'
    BY <1>1, <1>3, <1>4 DEF BacktestSound, DayOK, GotOK, LabelOK, CheckedOK, HasOpened, Reads, Saves
  <1>6. OneStep(p)
    BY <1>2, <1>4 DEF OneStep
  <1>7. Advances(p)
    BY <1>4, <1>6, SameDays
  <1>. QED BY <1>1, <1>4, <1>5, <1>7, QuietIInv DEF StoreIInv, StoreTypeOK, Reads

\* The cache has not the day: it is fetched.
LEMMA MissOK ==
    ASSUME StoreIInv, NEW p \in Backtests, bt[p].pc \in {"load", "data"}, Miss(p),
           UNCHANGED <<files, crashes, fetched>>
    PROVE  StoreIInv'
  <1>1. bt[p].todo # <<>>
    BY DEF StoreIInv, StoreTypeOK, BacktestOK, BacktestTyped, AtADay, Reads
  <1>2. "fetch" \in Phases \ ({"idle"} \cup HasOpened \cup Reads \cup Saves)
    BY DEF Phases, AtADay, HasOpened, Reads, Saves
  <1>. QED BY <1>1, <1>2, FailsQuiet, GoesQuiet DEF Miss, HasOpened

\* The next day, or the merge after the last.
LEMMA NextDayOK ==
    ASSUME StoreIInv, NEW p \in Backtests, NextDay(p)
    PROVE  StoreIInv'
  <1>1. {"merge", "load", "fetch"} \subseteq Phases \ ({"idle"} \cup HasOpened \cup Reads \cup Saves)
    BY DEF Phases, AtADay, HasOpened, Reads, Saves
  <1>2. "merge" \notin AtADay
    BY DEF AtADay, Reads, Saves
  <1>. QED BY <1>1, <1>2, GoesQuiet DEF NextDay, HasOpened

\* From the days to the replay.
LEMMA LaterOK ==
    ASSUME StoreIInv, NEW p \in Backtests, NEW c, bt' = [bt EXCEPT ![p] = c],
           bt[p].pc \in {"merge", "prepare", "boot", "replay"},
           c.pc \in {"prepare", "boot", "replay", "done"},
           BacktestOK(c), CheckedOK(c),
           c.todo = bt[p].todo, c.got = bt[p].got, c.ask = bt[p].ask,
           UNCHANGED <<files, crashes, fetched>>
    PROVE  StoreIInv'
  <1>1. BacktestSound(bt[p]) /\ DOMAIN bt = Backtests /\ DOMAIN fetched = Keys
    BY DEF StoreIInv, StoreTypeOK, BacktestsOK, BacktestSound
  <1>2. bt'[p] = c /\ DOMAIN bt' = Backtests /\ \A q \in Backtests \ {p} : bt'[q] = bt[q]
    BY <1>1
  <1>3. BacktestSound(bt[p])'
    BY <1>1, <1>2 DEF BacktestSound, DayOK, GotOK, LabelOK, CheckedOK, Reads, Saves
  <1>4. OneStep(p)
    BY <1>2 DEF OneStep
  <1>5. Advances(p)
    BY <1>2, <1>4, SameDays DEF HasOpened
  <1>. QED BY <1>1, <1>2, <1>3, <1>5, QuietIInv DEF StoreIInv, StoreTypeOK, Reads

\* The days are merged into one log.
LEMMA MergeOK ==
    ASSUME StoreIInv, NEW p \in Backtests, Merge(p)
    PROVE  StoreIInv'
  <1>. DEFINE days == [i \in DOMAIN bt[p].got |-> Events(p, bt[p].got[i].key, bt[p].got[i].tape)]
              log == append_batch(<<>>, resequence_event_list(FlattenSeq(days)))
              c == [bt[p] EXCEPT !.pc = "prepare", !.log = log]
  <1>1. CASE Fails(p, "causality")
    BY <1>1, FailsQuiet DEF Merge, Local
  <1>2. CASE bt' = [bt EXCEPT ![p].pc = "prepare", ![p].log = log]
    <2>. HIDE DEF log
    <2>1. BacktestOK(bt[p])
      BY DEF StoreIInv, StoreTypeOK
    <2>2. BacktestOK(c) /\ CheckedOK(c) /\ c.pc = "prepare" /\ c.todo = bt[p].todo
          /\ c.got = bt[p].got /\ c.ask = bt[p].ask
      BY <2>1 DEF Merge, BacktestOK, BacktestTyped, CheckedOK, Phases, AtADay, Reads, Saves
    <2>3. bt' = [bt EXCEPT ![p] = c]
      BY <1>2
    <2>. HIDE DEF c
    <2>. QED BY <2>2, <2>3, LaterOK DEF Merge, Local
  <1>. QED BY <1>1, <1>2 DEF Merge

\* Regular hours only, if asked.
LEMMA PrepareOK ==
    ASSUME StoreIInv, NEW p \in Backtests, prepare_backtest_event_log(p)
    PROVE  StoreIInv'
  <1>. DEFINE kept == IF bt[p].ask.rth THEN SelectSeq(bt[p].log, LAMBDA e : e.ts \in RTH)
                      ELSE bt[p].log
              c == [bt[p] EXCEPT !.pc = "boot", !.log = kept]
  <1>1. CASE Fails(p, "no quotes")
    BY <1>1, FailsQuiet DEF prepare_backtest_event_log, Local
  <1>2. CASE bt' = [bt EXCEPT ![p].pc = "boot", ![p].log = kept]
    <2>. HIDE DEF kept
    <2>1. BacktestOK(bt[p])
      BY DEF StoreIInv, StoreTypeOK
    <2>2. BacktestOK(c) /\ CheckedOK(c) /\ c.pc = "boot" /\ c.todo = bt[p].todo
          /\ c.got = bt[p].got /\ c.ask = bt[p].ask
      BY <2>1 DEF prepare_backtest_event_log, BacktestOK, BacktestTyped, CheckedOK, Phases, AtADay, Reads, Saves
    <2>3. bt' = [bt EXCEPT ![p] = c]
      BY <1>2
    <2>. HIDE DEF c
    <2>. QED BY <2>2, <2>3, LaterOK DEF prepare_backtest_event_log, Local
  <1>. QED BY <1>1, <1>2 DEF prepare_backtest_event_log

\* Boot: the labels are checked.
LEMMA VerifyOK ==
    ASSUME StoreIInv, NEW p \in Backtests, _verify_data_integrity(p)
    PROVE  StoreIInv'
  <1>. DEFINE c == [bt[p] EXCEPT !.pc = "replay", !.at = 1]
  <1>1. CASE Fails(p, "unhealthy")
    BY <1>1, FailsQuiet DEF _verify_data_integrity, Local
  <1>2. CASE /\ bt' = [bt EXCEPT ![p].pc = "replay", ![p].at = 1]
             /\ bt[p].ask.healthy => _attach_disk_cache_health_rows(bt[p].got) = {"HEALTHY"}
    <2>1. BacktestOK(bt[p])
      BY DEF StoreIInv, StoreTypeOK
    <2>2. BacktestOK(c) /\ c.pc = "replay" /\ c.todo = bt[p].todo
          /\ c.got = bt[p].got /\ c.ask = bt[p].ask
      BY <2>1 DEF _verify_data_integrity, BacktestOK, BacktestTyped, Phases, AtADay, Reads, Saves
    <2>3. bt[p].ask.healthy => \A i \in DOMAIN bt[p].got : bt[p].got[i].label = "HEALTHY"
      <3>. SUFFICES ASSUME bt[p].ask.healthy, NEW i \in DOMAIN bt[p].got
                    PROVE  bt[p].got[i].label = "HEALTHY"
        OBVIOUS
      <3>1. (IF bt[p].got[i].label = "absent" THEN "UNKNOWN" ELSE bt[p].got[i].label)
               \in _attach_disk_cache_health_rows(bt[p].got)
        BY Zenon DEF _attach_disk_cache_health_rows
      <3>. QED BY <1>2, <3>1
    <2>4. CheckedOK(c)
      BY <2>2, <2>3 DEF CheckedOK
    <2>5. bt' = [bt EXCEPT ![p] = c]
      BY <1>2
    <2>. HIDE DEF c
    <2>. QED BY <2>2, <2>4, <2>5, LaterOK DEF _verify_data_integrity, Local
  <1>. QED BY <1>1, <1>2 DEF _verify_data_integrity

\* The replay.
LEMMA ReplayOK ==
    ASSUME StoreIInv, NEW p \in Backtests, ReplayEvents(p)
    PROVE  StoreIInv'
  <1>1. CASE Fails(p, "causality")
    BY <1>1, FailsQuiet DEF ReplayEvents, Local
  <1>2. CASE Goes(p, "done")
    <2>1. "done" \in Phases \ ({"idle"} \cup HasOpened \cup Reads \cup Saves) /\ "done" \notin AtADay
      BY DEF Phases, AtADay, HasOpened, Reads, Saves
    <2>. QED BY <1>2, <2>1, GoesQuiet DEF ReplayEvents, Local, HasOpened
  <1>3. ASSUME NEW at, NEW clock, bt' = [bt EXCEPT ![p].at = at, ![p].clock = clock]
        PROVE  StoreIInv'
    <2>. DEFINE c == [bt[p] EXCEPT !.at = at, !.clock = clock]
    <2>1. BacktestOK(bt[p]) /\ CheckedOK(bt[p])
      BY DEF StoreIInv, StoreTypeOK, BacktestsOK
    <2>2. BacktestOK(c) /\ CheckedOK(c) /\ c.pc = "replay" /\ c.todo = bt[p].todo
          /\ c.got = bt[p].got /\ c.ask = bt[p].ask
      BY <2>1 DEF ReplayEvents, BacktestOK, BacktestTyped, CheckedOK, AtADay, Reads, Saves
    <2>3. bt' = [bt EXCEPT ![p] = c]
      BY <1>3
    <2>. HIDE DEF c
    <2>. QED BY <2>2, <2>3, LaterOK DEF ReplayEvents, Local
  <1>. QED BY <1>1, <1>2, <1>3 DEF ReplayEvents

\* A day of a backtest that is saving, reading or fetching it.
LEMMA DayIs ==
    ASSUME StoreIInv, NEW p \in Backtests, bt[p].pc \in AtADay
    PROVE  /\ Day(p) \in Keys /\ bt[p].todo # <<>> /\ bt[p].todo \in Seq(Keys)
           /\ files[Day(p)] \in Directories
           /\ bt[p].ask \in Requests /\ bt[p].pc \notin {"idle", "failed"}
  <1>1. BacktestOK(bt[p]) /\ files \in [Keys -> Directories]
    BY DEF StoreIInv, StoreTypeOK
  <1>2. bt[p].todo # <<>> /\ bt[p].todo \in Seq(Keys) /\ bt[p].pc \notin {"idle", "failed"}
        /\ bt[p].ask \in Requests
    BY <1>1 DEF BacktestOK, BacktestTyped, AtADay, Reads, Saves
  <1>3. Day(p) \in Keys
    BY <1>2 DEF Day
  <1>. QED BY <1>1, <1>2, <1>3

\* Reading the manifest, then the data file.
LEMMA LoadOK ==
    ASSUME StoreIInv, NEW p \in Backtests, load(p)
    PROVE  StoreIInv'
  <1>. DEFINE k == Day(p)
              man == read_manifest(k)
  <1>0. /\ k \in Keys /\ bt[p].todo # <<>> /\ files[k] \in Directories
        /\ BacktestSound(bt[p]) /\ DOMAIN bt = Backtests /\ DOMAIN fetched = Keys
        /\ \A kk \in Keys : fetched[kk] \subseteq DOMAIN Tapes[kk]
    BY DayIs DEF load, AtADay, StoreIInv, StoreTypeOK, BacktestsOK, BacktestSound
  <1>1. CASE Miss(p)
    BY <1>1, MissOK DEF load
  <1>2. CASE man # NoFile /\ man.schema = Schema /\ bt' = [bt EXCEPT ![p].pc = "data", ![p].man = man]
    <2>1. man = files[k].man /\ man.whole /\ man \in FileRecords
      BY <1>0, <1>2 DEF read_manifest, Directories
    <2>. HIDE DEF man, k
    <2>2. /\ bt'[p] = [bt[p] EXCEPT !.pc = "data", !.man = man]
          /\ DOMAIN bt' = Backtests /\ \A q \in Backtests \ {p} : bt'[q] = bt[q]
      BY <1>0, <1>2
    <2>3. BacktestOK(bt'[p])
      <3>1. BacktestOK(bt[p]) /\ bt[p].pc = "load"
        BY <1>0 DEF load, BacktestSound
      <3>2. bt[p].todo # <<>> /\ bt[p].ask \in Requests
        BY <1>0, <3>1 DEF BacktestOK, BacktestTyped
      <3>3. "data" \in Phases
        BY DEF Phases, AtADay, Reads
      <3>4. BacktestTyped(bt'[p])
        <4>1. BacktestTyped(bt[p]) /\ bt'[p] = [bt[p] EXCEPT !.pc = "data", !.man = man]
          BY <2>2, <3>1 DEF BacktestOK
        <4>2. man \in FileRecords
          BY <2>1
        <4>. QED BY <3>3, <4>1, <4>2 DEF BacktestTyped
      <3>5. bt'[p].pc = "data" /\ bt'[p].todo = bt[p].todo /\ bt'[p].ask = bt[p].ask
        BY <2>2, <3>1 DEF BacktestOK, BacktestTyped
      <3>. QED BY <3>1, <3>2, <3>4, <3>5 DEF BacktestOK
    <2>4. /\ bt'[p].pc = "data" /\ bt'[p].todo = bt[p].todo /\ bt'[p].got = bt[p].got
          /\ bt'[p].ask = bt[p].ask /\ bt'[p].man = man
      BY <1>0, <2>2 DEF BacktestSound, BacktestOK, BacktestTyped
    <2>5. BacktestSound(bt[p])'
      BY <1>0, <1>2, <2>1, <2>3, <2>4 DEF load, BacktestSound, DayOK, GotOK, LabelOK, CheckedOK, Reads, Saves
    <2>6. OneStep(p)
      BY <2>2, <2>4 DEF load, OneStep
    <2>7. Advances(p)
      BY <2>4, <2>6, SameDays DEF load, HasOpened
    <2>8. Head(bt'[p].todo) = k
      BY <2>4 DEF k, Day
    <2>. QED BY <1>0, <2>1, <2>4, <2>5, <2>7, <2>8, QuietIInv DEF load
  <1>. QED BY <1>1, <1>2 DEF load

\* A data file that matches the manifest that was read is what the manifest's
\* writer fetched.
LEMMA MatchOK ==
    ASSUME StoreIInv, NEW p \in Backtests, bt[p].pc = "data",
           Matches(files[Day(p)].data, bt[p].man)
    PROVE  LET k == Day(p)
               data == files[k].data
           IN  /\ data.whole /\ data.tape \in fetched[k]
               /\ bt[p].man.by \in Backtests => bt[p].man.tape = data.tape
               /\ bt[p].man.by = "earlier" => bt[p].man.label = "absent"
  <1>. DEFINE k == Day(p)
              data == files[k].data
  <1>0. /\ k \in Keys /\ bt[p].todo # <<>> /\ files[k] \in Directories
        /\ bt[p].man.whole /\ bt[p].man.schema = Schema
    BY DayIs DEF AtADay, Reads, StoreIInv, BacktestsOK, DayOK
  <1>1. bt[p].man \in Manifests(k) /\ data \in Papers(k) /\ bt[p].man \in Papers(k)
    BY <1>0 DEF Papers, Manifests, Readers, At, Reads
  <1>2. data.whole /\ data.by = bt[p].man.by
    BY DEF Matches
  <1>3. data.by \in Backtests \cup {"none", "mixed", "earlier"}
    BY <1>0 DEF Directories, FileRecords
  <1>4. Honest(k, data)
    BY <1>0, <1>1 DEF StoreIInv, PapersOK
  <1>5. CASE data.by \in Backtests
    BY <1>0, <1>1, <1>2, <1>4, <1>5, NamesDiffer DEF Honest, StoreIInv, PapersOK
  <1>6. CASE data.by = "earlier"
    BY <1>0, <1>1, <1>2, <1>6, NamesDiffer DEF StoreIInv, EarlierOK
  <1>. QED BY <1>2, <1>3, <1>4, <1>5, <1>6 DEF Honest

\* The data file is read and compared with the manifest.
LEMMA LoadDataOK ==
    ASSUME StoreIInv, NEW p \in Backtests, LoadData(p)
    PROVE  StoreIInv'
  <1>. DEFINE k == Day(p)
              data == files[k].data
  <1>0. /\ k \in Keys /\ bt[p].todo # <<>> /\ files[k] \in Directories
        /\ BacktestSound(bt[p]) /\ DOMAIN bt = Backtests /\ DOMAIN fetched = Keys
        /\ \A kk \in Keys : fetched[kk] \subseteq DOMAIN Tapes[kk]
    BY DayIs DEF LoadData, AtADay, Reads, StoreIInv, StoreTypeOK, BacktestsOK, BacktestSound
  <1>1. CASE Miss(p)
    BY <1>1, MissOK DEF LoadData
  <1>2. CASE /\ Matches(data, bt[p].man)
             /\ bt' = [bt EXCEPT ![p].pc = "label", ![p].tape = IF data.whole THEN data.tape ELSE 0]
    <2>. DEFINE t == data.tape
    <2>1. /\ data.whole /\ t \in fetched[k] /\ t \in Nat
          /\ bt[p].man.by \in Backtests => bt[p].man.tape = t
          /\ bt[p].man.by = "earlier" => bt[p].man.label = "absent"
      BY <1>0, <1>2, MatchOK DEF LoadData, Directories, FileRecords
    <2>2. /\ bt'[p] = [bt[p] EXCEPT !.pc = "label", !.tape = t]
          /\ DOMAIN bt' = Backtests /\ \A q \in Backtests \ {p} : bt'[q] = bt[q]
      BY <1>0, <1>2, <2>1
    <2>. HIDE DEF t, k
    <2>3. BacktestOK(bt'[p])
      <3>1. BacktestOK(bt[p]) /\ bt[p].pc = "data"
        BY <1>0 DEF LoadData, BacktestSound
      <3>2. bt[p].todo # <<>> /\ bt[p].ask \in Requests
        BY <1>0, <3>1 DEF BacktestOK, BacktestTyped
      <3>3. "label" \in Phases
        BY DEF Phases, AtADay, Reads
      <3>4. BacktestTyped(bt'[p])
        <4>1. BacktestTyped(bt[p]) /\ bt'[p] = [bt[p] EXCEPT !.pc = "label", !.tape = t]
          BY <2>2, <3>1 DEF BacktestOK
        <4>2. t \in Nat
          BY <2>1
        <4>. QED BY <3>3, <4>1, <4>2 DEF BacktestTyped
      <3>5. bt'[p].pc = "label" /\ bt'[p].todo = bt[p].todo /\ bt'[p].ask = bt[p].ask
        BY <2>2, <3>1 DEF BacktestOK, BacktestTyped
      <3>. QED BY <3>1, <3>2, <3>4, <3>5 DEF BacktestOK
    <2>4. /\ bt'[p].pc = "label" /\ bt'[p].todo = bt[p].todo /\ bt'[p].got = bt[p].got
          /\ bt'[p].ask = bt[p].ask /\ bt'[p].man = bt[p].man /\ bt'[p].tape = t
      BY <1>0, <2>2 DEF BacktestSound, BacktestOK, BacktestTyped
    <2>8. Head(bt'[p].todo) = k
      BY <2>4 DEF k, Day
    <2>5. BacktestSound(bt[p])'
      BY <1>0, <2>1, <2>3, <2>4, <2>8 DEF LoadData, BacktestSound, DayOK, GotOK, LabelOK, CheckedOK, Reads, Saves
    <2>6. OneStep(p)
      BY <2>2, <2>4 DEF LoadData, OneStep
    <2>7. Advances(p)
      BY <2>4, <2>6, SameDays DEF LoadData, HasOpened
    <2>. QED BY <1>0, <2>4, <2>5, <2>7, <2>8, QuietIInv DEF LoadData, Reads, k
  <1>. QED BY <1>1, <1>2 DEF LoadData

IsDay(d, k, t, l, r) ==
    d \in DayRecords /\ d.key = k /\ d.tape = t /\ d.label = l /\ d.raced = r

\* The record of a day that was had.
LEMMA DayRecordOK ==
    ASSUME NEW k \in Keys, NEW t \in Nat, NEW s \in {"cache", "api"}, NEW l \in Labels,
           NEW r \in BOOLEAN
    PROVE  IsDay([key |-> k, tape |-> t, source |-> s, label |-> l, raced |-> r], k, t, l, r)
  BY DEF DayRecords, IsDay

\* The day is had, and the next one begins.
LEMMA KeepOK ==
    ASSUME StoreIInv, NEW p \in Backtests, bt[p].pc \in {"label", "keep"},
           NEW day \in DayRecords, Keep(p, day),
           day.tape \in fetched[day.key], LabelOK(bt[p], day),
           UNCHANGED <<files, crashes, fetched>>
    PROVE  StoreIInv'
  <1>. DEFINE b == bt[p]
  <1>1. /\ BacktestSound(b) /\ DOMAIN bt = Backtests /\ DOMAIN fetched = Keys
        /\ \A kk \in Keys : fetched[kk] \subseteq DOMAIN Tapes[kk]
    BY DEF StoreIInv, StoreTypeOK, BacktestsOK, BacktestSound
  <1>2. b.todo # <<>> /\ b.todo \in Seq(Keys) /\ b.ask \in Requests
    BY DayIs DEF AtADay, Reads
  <1>3. /\ bt'[p] = [b EXCEPT !.pc = "day", !.got = Append(b.got, day), !.todo = Tail(b.todo),
                              !.man = NoFile, !.tape = 0]
        /\ DOMAIN bt' = Backtests /\ \A q \in Backtests \ {p} : bt'[q] = bt[q]
    BY <1>1 DEF Keep
  <1>4. b.got \in Seq(DayRecords) /\ BacktestTyped(b) /\ IsInjective(b.todo)
    BY <1>1 DEF BacktestSound, BacktestOK, BacktestTyped
  <1>5. Tail(b.todo) \in Seq(Keys) /\ Append(b.got, day) \in Seq(DayRecords) /\ "day" \in Phases
    BY <1>2, <1>4 DEF Phases
  <1>6. BacktestTyped(bt'[p])
    <2>1. bt'[p] = [b EXCEPT !.pc = "day", !.got = Append(b.got, day), !.todo = Tail(b.todo),
                              !.man = NoFile, !.tape = 0]
      BY <1>3
    <2>. DEFINE got == Append(b.got, day)
                days == Tail(b.todo)
    <2>2. NoFile \in FileRecords /\ days \in Seq(Keys) /\ got \in Seq(DayRecords)
      BY <1>5, NoFileOK
    <2>3. bt'[p] = [b EXCEPT !.pc = "day", !.got = got, !.todo = days, !.man = NoFile, !.tape = 0]
      BY <2>1
    <2>. HIDE DEF got, days, b
    <2>4. BacktestTyped(b) /\ "day" \in Phases
      BY <1>4, <1>5
    <2>. DEFINE c == [b EXCEPT !.pc = "day", !.got = got, !.todo = days]
    <2>5. BacktestTyped(c)
      BY <2>2, <2>4 DEF BacktestTyped
    <2>. DEFINE zero == 0
    <2>6. bt'[p] = [c EXCEPT !.man = NoFile, !.tape = zero]
      BY <2>3
    <2>7. NoFile \in FileRecords /\ zero \in Nat
      BY NoFileOK
    <2>. HIDE DEF c, zero
    <2>. QED BY <2>5, <2>6, <2>7 DEF BacktestTyped
  <1>7. /\ bt'[p].pc = "day" /\ bt'[p].todo = Tail(b.todo) /\ bt'[p].got = Append(b.got, day)
        /\ bt'[p].ask = b.ask
    BY <1>3, <1>4 DEF BacktestTyped
  <1>8. IsInjective(Tail(b.todo))
    BY <1>2, <1>4 DEF IsInjective
  <1>9. BacktestOK(bt'[p])
    BY <1>2, <1>6, <1>7, <1>8 DEF BacktestOK, AtADay, Reads, Saves
  <1>10. GotOK(bt[p])'
    <2>. SUFFICES ASSUME NEW i \in DOMAIN bt'[p].got
                  PROVE  /\ bt'[p].got[i].tape \in fetched[bt'[p].got[i].key]
                         /\ LabelOK(bt'[p], bt'[p].got[i])
      BY DEF GotOK
    <2>1. CASE i = Len(b.got) + 1
      BY <1>4, <1>7, <2>1 DEF LabelOK
    <2>2. CASE i # Len(b.got) + 1
      <3>1. i \in DOMAIN b.got /\ bt'[p].got[i] = b.got[i]
        BY <1>4, <1>7, <2>2
      <3>. QED BY <1>1, <1>7, <3>1 DEF BacktestSound, GotOK, LabelOK
    <2>. QED BY <2>1, <2>2
  <1>11. BacktestSound(bt[p])'
    BY <1>7, <1>9, <1>10 DEF BacktestSound, DayOK, CheckedOK, Reads, Saves
  <1>12. OneStep(p)
    BY <1>3, <1>7 DEF OneStep
  <1>13. Advances(p)
    BY <1>2, <1>7, <1>12, NextDays
  <1>. QED BY <1>1, <1>7, <1>11, <1>13, QuietIInv DEF Reads

\* A fetched day is kept.
LEMMA KeepDayOK ==
    ASSUME StoreIInv, NEW p \in Backtests, KeepDay(p)
    PROVE  StoreIInv'
  <1>. DEFINE k == Day(p)
              label == LabelOf(k, bt[p].tape, bt[p].ask.gaps)
              day == Got(p, "api", label, p)
  <1>1. k \in Keys /\ bt[p].ask \in Requests
    BY DayIs DEF KeepDay, AtADay
  <1>2. bt[p].tape \in fetched[k] /\ fetched[k] \subseteq DOMAIN Tapes[k]
    BY <1>1 DEF KeepDay, StoreIInv, StoreTypeOK, BacktestsOK, DayOK, Day
  <1>3. bt[p].tape \in DOMAIN Tapes[k] /\ bt[p].tape \in Nat /\ bt[p].ask.gaps \in BOOLEAN
    BY <1>1, <1>2, TapesThere, AskedOnce
  <1>4. label \in Labels
    BY <1>1, <1>3 DEF Labels
  <1>. HIDE DEF label, k
  <1>5. day = [key |-> k, tape |-> bt[p].tape, source |-> "api", label |-> label, raced |-> FALSE]
    BY DEF Got, k
  <1>6. IsDay(day, k, bt[p].tape, label, FALSE)
    <2>1. "api" \in {"cache", "api"} /\ FALSE \in BOOLEAN
      OBVIOUS
    <2>. QED BY <1>1, <1>3, <1>4, <1>5, <2>1, DayRecordOK, Zenon
  <1>7. LabelOK(bt[p], day)
    BY <1>6 DEF LabelOK, label, IsDay
  <1>8. Keep(p, day) /\ bt[p].pc = "keep" /\ UNCHANGED <<files, crashes, fetched>>
    BY DEF KeepDay, label, k
  <1>. HIDE DEF day
  <1>. QED BY <1>2, <1>6, <1>7, <1>8, KeepOK DEF IsDay

\* A manifest with the writer of the one read carries the label of the answer.
LEMMA SameWriter ==
    ASSUME StoreIInv, NEW p \in Backtests, bt[p].pc = "label", GapsAgree,
           read_manifest(Day(p)) # NoFile, read_manifest(Day(p)).label = "HEALTHY",
           read_manifest(Day(p)).by = bt[p].man.by
    PROVE  LabelOf(Day(p), bt[p].tape, bt[p].ask.gaps) = "HEALTHY"
  <1>. DEFINE k == Day(p)
              m == files[k].man
              n == bt[p].man
  <1>1. /\ k \in Keys /\ files[k] \in Directories /\ bt[p].todo # <<>> /\ bt[p].ask \in Requests
        /\ bt[p].ask.cached \/ bt[p].ask.offline
        /\ n.by \in Backtests => n.tape = bt[p].tape
        /\ n.by = "earlier" => n.label = "absent"
    BY DayIs DEF AtADay, Reads, StoreIInv, BacktestsOK, DayOK
  <1>2. read_manifest(k) = m /\ m.whole
    BY DEF read_manifest
  <1>3. m \in Manifests(k) /\ n \in Manifests(k) /\ m \in Papers(k) /\ n \in Papers(k)
    BY <1>1 DEF Papers, Manifests, Readers, At, Reads
  <1>4. Honest(k, m) /\ Labelled(k, m)
    BY <1>1, <1>3 DEF StoreIInv, PapersOK
  <1>5. m.by \in Backtests \cup {"earlier"}
    BY <1>1, <1>2, <1>4 DEF Honest, Directories, FileRecords
  <1>6. m.by # "earlier"
    BY <1>1, <1>2, <1>3, NamesDiffer DEF StoreIInv, EarlierOK
  <1>7. m.tape = n.tape
    BY <1>1, <1>2, <1>3, <1>5, <1>6 DEF StoreIInv, PapersOK
  <1>8. m.label = LabelOf(k, m.tape, bt[m.by].ask.gaps) /\ bt[m.by].ask \in Requests
        /\ bt[m.by].ask.cached
    BY <1>4, <1>5, <1>6 DEF Honest, Labelled
  <1>9. bt[m.by].ask.gaps = bt[p].ask.gaps
    BY <1>1, <1>8 DEF GapsAgree
  <1>. QED BY <1>1, <1>2, <1>5, <1>6, <1>7, <1>8, <1>9

\* The label of a cached day.
LEMMA ReadLabelOK ==
    ASSUME StoreIInv, NEW p \in Backtests, ReadLabel(p)
    PROVE  StoreIInv'
  <1>. DEFINE k == Day(p)
              man == read_manifest(k)
              label == IF man = NoFile THEN "absent" ELSE man.label
              day == Got(p, "cache", label, man.by)
  <1>1. CASE Fails(p, "unhealthy")
    BY <1>1, FailsQuiet DEF ReadLabel
  <1>2. CASE Keep(p, day)
    <2>1. k \in Keys /\ files[k] \in Directories
      BY DayIs DEF ReadLabel, AtADay, Reads
    <2>2. bt[p].tape \in fetched[k] /\ fetched[k] \subseteq DOMAIN Tapes[k]
      BY <2>1 DEF ReadLabel, StoreIInv, StoreTypeOK, BacktestsOK, DayOK, Day
    <2>3. bt[p].tape \in Nat
      BY <2>1, <2>2, TapesThere
    <2>4. label \in Labels
      BY <2>1, NoFileOK DEF read_manifest, Directories, FileRecords
    <2>5. label = "HEALTHY" => man # NoFile /\ man.label = "HEALTHY"
      OBVIOUS
    <2>6. LabelOf(k, bt[p].tape, bt[p].ask.gaps) = "HEALTHY"
             \/ ~GapsAgree \/ label # "HEALTHY" \/ man.by # bt[p].man.by
      BY <2>5, SameWriter DEF ReadLabel
    <2>. HIDE DEF label, man, k
    <2>7. day = [key |-> k, tape |-> bt[p].tape, source |-> "cache", label |-> label,
                 raced |-> man.by # bt[p].man.by]
      BY DEF Got, k
    <2>8. (man.by # bt[p].man.by) \in BOOLEAN
      OBVIOUS
    <2>9. IsDay(day, k, bt[p].tape, label, man.by # bt[p].man.by)
      <3>1. "cache" \in {"cache", "api"}
        OBVIOUS
      <3>. QED BY <2>1, <2>3, <2>4, <2>7, <2>8, <3>1, DayRecordOK, Zenon
    <2>10. LabelOK(bt[p], day)
      BY <2>6, <2>9 DEF LabelOK, IsDay
    <2>. HIDE DEF day
    <2>. QED BY <1>2, <2>2, <2>9, <2>10, KeepOK DEF IsDay, ReadLabel
  <1>. QED BY <1>1, <1>2 DEF ReadLabel

\* The first step of a backtest.
LEMMA FirstStepOK ==
    ASSUME StoreIInv, NEW p \in Backtests, NEW c, bt' = [bt EXCEPT ![p] = c],
           bt[p].pc = "idle", c.pc \in {"day", "failed"}, BacktestOK(c), c.got = <<>>,
           UNCHANGED <<files, crashes, fetched>>
    PROVE  StoreIInv'
  <1>1. BacktestSound(bt[p]) /\ DOMAIN bt = Backtests /\ DOMAIN fetched = Keys
    BY DEF StoreIInv, StoreTypeOK, BacktestsOK, BacktestSound
  <1>2. bt'[p] = c /\ DOMAIN bt' = Backtests /\ \A q \in Backtests \ {p} : bt'[q] = bt[q]
    BY <1>1
  <1>3. BacktestSound(bt[p])'
    BY <1>2 DEF BacktestSound, DayOK, GotOK, CheckedOK, Reads, Saves
  <1>4. OneStep(p)
    BY <1>2 DEF OneStep
  <1>5. Advances(p)
    BY <1>4, FirstDays
  <1>. QED BY <1>1, <1>2, <1>3, <1>5, QuietIInv DEF StoreIInv, StoreTypeOK, Reads

\* A backtest is asked for.
LEMMA BeginOK ==
    ASSUME StoreIInv, NEW p \in Backtests, Begin(p)
    PROVE  StoreIInv'
  <1>1. bt[p] = NotStarted /\ BacktestOK(NotStarted)
    BY NotStartedSound DEF Begin, StoreIInv, StoreTypeOK, BacktestOK, BacktestSound
  <1>2. CASE Fails(p, "unusable")
    <2>. DEFINE c == [NotStarted EXCEPT !.pc = "failed", !.verdict = "unusable"]
    <2>1. bt' = [bt EXCEPT ![p] = c]
      BY <1>1, <1>2 DEF Fails
    <2>2. /\ NotStarted.todo = <<>> /\ NotStarted.got = <<>> /\ "failed" \in Phases
          /\ BacktestTyped(NotStarted) /\ IsInjective(NotStarted.todo)
      BY <1>1 DEF NotStarted, Phases, BacktestOK
    <2>3. BacktestTyped(c) /\ c.pc = "failed" /\ c.got = NotStarted.got /\ c.todo = NotStarted.todo
      BY <2>2 DEF BacktestTyped
    <2>. HIDE DEF c
    <2>4. BacktestOK(c)
      BY <2>2, <2>3 DEF BacktestOK, AtADay, Reads, Saves
    <2>. QED BY <2>1, <2>2, <2>3, <2>4, FirstStepOK DEF Begin
  <1>3. ASSUME NEW ask \in Requests,
               bt' = [bt EXCEPT ![p] = [NotStarted EXCEPT !.pc = "day", !.ask = ask,
                                                    !.todo = KeysOf(ask.symbols)]]
        PROVE  StoreIInv'
    <2>. DEFINE days == KeysOf(ask.symbols)
                c == [NotStarted EXCEPT !.pc = "day", !.ask = ask, !.todo = days]
    <2>1. bt' = [bt EXCEPT ![p] = c]
      BY <1>3
    <2>2. days \in Seq(Keys) /\ IsInjective(days)
      BY AskedOnce
    <2>. HIDE DEF days
    <2>3. NotStarted.got = <<>> /\ "day" \in Phases /\ BacktestTyped(NotStarted)
      BY <1>1 DEF NotStarted, Phases, BacktestOK
    <2>4. BacktestTyped(c)
      BY <2>2, <2>3 DEF BacktestTyped
    <2>5. c.pc = "day" /\ c.got = NotStarted.got /\ c.todo = days /\ c.ask = ask
      BY <2>3 DEF BacktestTyped
    <2>. HIDE DEF c
    <2>6. BacktestOK(c)
      BY <2>2, <2>4, <2>5 DEF BacktestOK, AtADay, Reads, Saves
    <2>. QED BY <2>1, <2>3, <2>5, <2>6, FirstStepOK DEF Begin
  <1>. QED BY <1>2, <1>3 DEF Begin

\* The vendor's answer.
LEMMA IngestOK ==
    ASSUME StoreIInv, NEW p \in Backtests, ingest(p)
    PROVE  StoreIInv'
  <1>. DEFINE k == Day(p)
  <1>0. /\ k \in Keys /\ bt[p].todo # <<>> /\ bt[p].ask \in Requests
        /\ BacktestSound(bt[p]) /\ DOMAIN bt = Backtests /\ DOMAIN fetched = Keys
        /\ \A kk \in Keys : fetched[kk] \subseteq DOMAIN Tapes[kk]
    BY DayIs DEF ingest, AtADay, StoreIInv, StoreTypeOK, BacktestsOK, BacktestSound
  <1>1. CASE Fails(p, "download") /\ UNCHANGED fetched
    BY <1>1, FailsQuiet DEF ingest
  <1>2. ASSUME NEW i \in DOMAIN Tapes[k],
               bt' = [bt EXCEPT ![p].pc = IF bt[p].ask.cached THEN "openData" ELSE "keep",
                                ![p].tape = i],
               fetched' = [fetched EXCEPT ![k] = @ \cup {i}]
        PROVE  StoreIInv'
    <2>. DEFINE phase == IF bt[p].ask.cached THEN "openData" ELSE "keep"
    <2>1. i \in Nat
      BY <1>0, TapesThere
    <2>2. /\ bt'[p] = [bt[p] EXCEPT !.pc = phase, !.tape = i]
          /\ DOMAIN bt' = Backtests /\ \A q \in Backtests \ {p} : bt'[q] = bt[q]
      BY <1>0, <1>2
    <2>3. /\ phase \in {"openData", "keep"} /\ phase \in Phases /\ phase \notin {"idle", "failed"}
          /\ phase = "openData" => bt[p].ask.cached
      BY DEF Phases, AtADay, Saves
    <2>4. i \in fetched'[k] /\ DOMAIN fetched' = Keys
          /\ \A kk \in Keys : fetched[kk] \subseteq fetched'[kk] /\ fetched'[kk] \subseteq DOMAIN Tapes[kk]
      BY <1>0, <1>2
    <2>. HIDE DEF phase, k
    <2>5. BacktestTyped(bt[p]) /\ IsInjective(bt[p].todo)
      BY <1>0 DEF BacktestSound, BacktestOK
    <2>6. BacktestTyped(bt'[p])
      <3>1. bt'[p] = [bt[p] EXCEPT !.pc = phase, !.tape = i] /\ phase \in Phases
        BY <2>2, <2>3
      <3>. QED BY <2>1, <2>5, <3>1 DEF BacktestTyped
    <2>7. /\ bt'[p].pc = phase /\ bt'[p].todo = bt[p].todo /\ bt'[p].got = bt[p].got
          /\ bt'[p].ask = bt[p].ask /\ bt'[p].tape = i
      BY <2>2, <2>5 DEF BacktestTyped
    <2>8. BacktestOK(bt'[p])
      BY <1>0, <2>3, <2>5, <2>6, <2>7 DEF BacktestOK
    <2>9. GotOK(bt[p])'
      <3>1. \A j \in DOMAIN bt[p].got : bt[p].got[j] \in DayRecords
        BY <2>5 DEF BacktestTyped
      <3>. QED BY <1>0, <2>4, <2>7, <3>1 DEF BacktestSound, GotOK, LabelOK, DayRecords
    <2>10. Head(bt'[p].todo) = k
      BY <2>7 DEF k, Day
    <2>11. BacktestSound(bt[p])'
      BY <2>3, <2>4, <2>7, <2>8, <2>9, <2>10 DEF BacktestSound, DayOK, CheckedOK, Reads, Saves
    <2>12. OneStep(p)
      BY <2>2, <2>4, <2>7 DEF OneStep
    <2>13. Advances(p)
      BY <2>3, <2>7, <2>12, SameDays DEF ingest, HasOpened
    <2>. QED BY <2>3, <2>4, <2>7, <2>11, <2>13, QuietIInv DEF ingest, Reads
  <1>. QED BY <1>1, <1>2 DEF ingest

(***************************************************************************)
(* The steps of a save, and a crash.                                       *)
(***************************************************************************)
\* What opening, closing and dying do to one file.
LEMMA OpenedOK ==
    ASSUME NEW f \in FileRecords, NEW p \in Backtests, NEW t \in Nat, NEW l \in Labels
    PROVE  LET g == Opened(f, p, t, l) IN
           /\ g \in FileRecords
           /\ \/ g.by = p /\ g.tape = t /\ g.schema = Schema /\ g.label = l /\ ~g.whole
              \/ Blank(g)
           /\ g.by # "earlier"
  <1>1. CASE f.open = {}
    <2>. DEFINE g == [by |-> p, whole |-> FALSE, open |-> {p}, tape |-> t, schema |-> Schema,
                      label |-> l]
    <2>1. Opened(f, p, t, l) = g
      BY <1>1 DEF Opened
    <2>2. g \in FileRecords
      BY DEF FileRecords
    <2>3. g.by = p /\ g.tape = t /\ g.schema = Schema /\ g.label = l /\ ~g.whole
      OBVIOUS
    <2>. HIDE DEF g
    <2>. QED BY <2>1, <2>2, <2>3, NamesDiffer
  <1>2. CASE f.open # {}
    <2>. DEFINE open == f.open \cup {p}
                g == [f EXCEPT !.by = "mixed", !.whole = FALSE, !.open = open]
    <2>1. Opened(f, p, t, l) = g
      BY <1>2 DEF Opened
    <2>2. open \in SUBSET Backtests
      BY DEF FileRecords
    <2>. HIDE DEF open
    <2>3. g \in FileRecords /\ g.by = "mixed" /\ ~g.whole
      BY <2>2 DEF FileRecords
    <2>. HIDE DEF g
    <2>. QED BY <2>1, <2>3, NamesDiffer DEF Blank
  <1>. QED BY <1>1, <1>2

\* A file its writer closes or abandons.
LEMMA ClosedOK ==
    ASSUME NEW f \in FileRecords, NEW p \in Backtests
    PROVE  /\ Closed(f, p) \in FileRecords /\ Copies(Closed(f, p), f)
           /\ Abandoned(f, p) \in FileRecords /\ Copies(Abandoned(f, p), f)
  <1>. DEFINE open == f.open \ {p}
              w == (f.by = p)
              g == [f EXCEPT !.open = open, !.whole = w]
              h == [f EXCEPT !.open = open]
  <1>1. open \in SUBSET Backtests /\ w \in BOOLEAN /\ (w => f.by \in Backtests)
    BY DEF FileRecords
  <1>2. Closed(f, p) \in {f, g} /\ Abandoned(f, p) = h
    BY DEF Closed, Abandoned
  <1>. HIDE DEF open, w
  <1>3. g \in FileRecords /\ h \in FileRecords
    BY <1>1 DEF FileRecords
  <1>4. Copies(g, f) /\ Copies(h, f) /\ Copies(f, f)
    BY <1>1 DEF FileRecords, Copies
  <1>. QED BY <1>2, <1>3, <1>4

\* What is left to show of a step that writes files.
LEMMA FileStep ==
    ASSUME StoreIInv, NEW p \in Backtests, Advances(p), PapersMove(p), EarlierMove,
           BacktestSound(bt[p])', files' \in [Keys -> Directories], fetched' = fetched
    PROVE  StoreIInv'
  <1>1. PapersOK' /\ EarlierOK'
    BY PapersKept, EarlierKept
  <1>2. (\A q \in Backtests : BacktestOK(bt[q]))' /\ BacktestsOK'
    BY OthersKept
  <1>. QED BY <1>1, <1>2 DEF StoreIInv, StoreTypeOK, Advances

\* The next step of a save.
LEMMA SaveStep ==
    ASSUME StoreIInv, NEW p \in Backtests, bt[p].pc \in Saves, NEW phase \in Saves \cup {"keep"},
           phase # "openData", Goes(p, phase), fetched' = fetched, NEW k, Day(p) = k
    PROVE  /\ Advances(p) /\ BacktestSound(bt[p])'
           /\ bt'[p].pc = phase /\ bt'[p].tape = bt[p].tape /\ ~Unsaved(p, k)'
  <1>. DEFINE b == bt[p]
  <1>0. /\ BacktestSound(b) /\ DOMAIN bt = Backtests
        /\ b.todo # <<>> /\ b.todo \in Seq(Keys) /\ b.ask \in Requests
        /\ BacktestTyped(b) /\ IsInjective(b.todo)
    BY DayIs DEF AtADay, StoreIInv, StoreTypeOK, BacktestsOK, BacktestSound, BacktestOK
  <1>1. /\ bt'[p] = [b EXCEPT !.pc = phase]
        /\ DOMAIN bt' = Backtests /\ \A q \in Backtests \ {p} : bt'[q] = bt[q]
    BY <1>0 DEF Goes
  <1>2. phase \in Phases /\ phase \notin {"idle", "failed"} /\ phase \in HasOpened
        /\ phase \notin {"label", "load", "data", "replay", "done"}
    BY DEF Phases, AtADay, Saves, HasOpened
  <1>3. BacktestTyped(bt'[p])
    <2>1. bt'[p] = [bt[p] EXCEPT !.pc = phase] /\ BacktestTyped(bt[p]) /\ phase \in Phases
      BY <1>0, <1>1, <1>2
    <2>. QED BY <2>1 DEF BacktestTyped
  <1>4. /\ bt'[p].pc = phase /\ bt'[p].todo = b.todo /\ bt'[p].got = b.got
        /\ bt'[p].ask = b.ask /\ bt'[p].tape = b.tape
    BY <1>0, <1>1 DEF BacktestTyped
  <1>5. BacktestOK(bt'[p])
    BY <1>0, <1>2, <1>3, <1>4 DEF BacktestOK
  <1>6. BacktestSound(bt[p])'
    <2>1. DayOK(b) /\ GotOK(b)
      BY <1>0 DEF BacktestSound
    <2>2. DayOK(bt[p])'
      BY <1>2, <1>4, <2>1 DEF DayOK, Reads
    <2>3. GotOK(bt[p])'
      BY <1>4, <2>1 DEF GotOK, LabelOK
    <2>. QED BY <1>2, <1>4, <1>5, <2>2, <2>3 DEF BacktestSound, CheckedOK
  <1>7. OneStep(p)
    BY <1>1, <1>4 DEF OneStep
  <1>8. Advances(p)
    BY <1>2, <1>4, <1>7, SameDays DEF Saves
  <1>9. \A i \in DOMAIN b.todo : b.todo[i] = k => i = 1
    BY <1>0 DEF Day, IsInjective
  <1>10. ~Unsaved(p, k)'
    BY <1>0, <1>2, <1>4, <1>9 DEF Unsaved
  <1>. QED BY <1>4, <1>6, <1>8, <1>10

\* The manifests read by others stay among the papers.
LEMMA ManifestsNext ==
    ASSUME StoreIInv, NEW p \in Backtests, Advances(p), bt[p].pc \notin Reads, bt'[p].pc \notin Reads,
           NEW k \in Keys
    PROVE  \A g \in Manifests(k)' :
              g \in {files'[k].man, files'[k].manTmp} \/ g \in Manifests(k)
  <1>. SUFFICES ASSUME NEW q \in Readers(k)' PROVE bt'[q].man \in Manifests(k)
    BY DEF Manifests
  <1>1. q \in Backtests /\ q # p /\ bt'[q] = bt[q]
    BY DEF Readers, At, Advances
  <1>. QED BY <1>1 DEF Manifests, Readers, At, Day

\* How a step of p may move the files of the day k.
DataMoves(p, k) ==
    \A g \in {files'[k].data, files'[k].dataTmp} :
       \/ Blank(g) \/ \E f \in {files[k].data, files[k].dataTmp} : Copies(g, f)
       \/ Written(g, p, k) /\ ~Unsaved(p, k)' /\ bt'[p].tape = bt[p].tape

ManifestMoves(p, k) ==
    \A g \in {files'[k].man, files'[k].manTmp} :
       \/ Blank(g) \/ \E f \in {files[k].man, files[k].manTmp} : Copies(g, f)
       \/ /\ Written(g, p, k) /\ ~Unsaved(p, k)' /\ bt'[p].tape = bt[p].tape
          /\ g.label = LabelOf(k, bt[p].tape, bt[p].ask.gaps)

NoneEarlier(k) ==
    /\ files'[k].dataTmp.by # "earlier" /\ files'[k].manTmp.by # "earlier"
    /\ files'[k].data.by = "earlier" =>
          files[k].data.by = "earlier" /\ files'[k].data.tape = files[k].data.tape

\* A step of p that replaces the files of a day.
LEMMA DayStep ==
    ASSUME StoreIInv, NEW p \in Backtests, Advances(p), BacktestSound(bt[p])',
           bt[p].pc \notin Reads, bt'[p].pc \notin Reads, fetched' = fetched,
           NEW k \in Keys, files' \in [Keys -> Directories],
           \A j \in Keys \ {k} : files'[j] = files[j],
           DataMoves(p, k), ManifestMoves(p, k), NoneEarlier(k)
    PROVE  StoreIInv'
  <1>0. \A g : Copies(g, g)
    BY DEF Copies
  <1>1. ASSUME NEW j \in Keys, NEW g \in Manifests(j)'
        PROVE  \/ Blank(g) \/ \E f \in Manifests(j) : Copies(g, f)
               \/ /\ Written(g, p, j) /\ ~Unsaved(p, j)' /\ bt'[p].tape = bt[p].tape
                  /\ g.label = LabelOf(j, bt[p].tape, bt[p].ask.gaps)
    <2>1. CASE g \in Manifests(j)
      BY <1>0, <2>1
    <2>2. CASE g \in {files'[j].man, files'[j].manTmp} /\ j # k
      BY <1>0, <2>2 DEF Manifests
    <2>3. CASE g \in {files'[j].man, files'[j].manTmp} /\ j = k
      BY <2>3 DEF Manifests, ManifestMoves
    <2>. QED BY <1>1, <2>1, <2>2, <2>3, ManifestsNext
  <1>2. ASSUME NEW j \in Keys, NEW g \in Papers(j)'
        PROVE  \/ Blank(g) \/ \E f \in Papers(j) : Copies(g, f)
               \/ Written(g, p, j) /\ ~Unsaved(p, j)' /\ bt'[p].tape = bt[p].tape
    <2>1. CASE g \in Manifests(j)'
      BY <1>1, <2>1 DEF Papers
    <2>2. CASE g \in {files'[j].data, files'[j].dataTmp} /\ j # k
      BY <1>0, <2>2 DEF Papers
    <2>3. CASE g \in {files'[j].data, files'[j].dataTmp} /\ j = k
      BY <2>3 DEF Papers, DataMoves
    <2>. QED BY <1>2, <2>1, <2>2, <2>3 DEF Papers
  <1>3. PapersMove(p)
    BY <1>1, <1>2 DEF PapersMove
  <1>4. ASSUME NEW j \in Keys
        PROVE  /\ files'[j].dataTmp.by # "earlier" /\ files'[j].manTmp.by # "earlier"
               /\ files'[j].data.by = "earlier" =>
                     files[j].data.by = "earlier" /\ files'[j].data.tape = files[j].data.tape
    <2>1. CASE j = k
      BY <2>1 DEF NoneEarlier
    <2>2. CASE j # k
      BY <2>2 DEF StoreIInv, EarlierOK
    <2>. QED BY <2>1, <2>2
  <1>5. EarlierMove
    BY <1>1, <1>4, NamesDiffer DEF EarlierMove, Blank, Written
  <1>. QED BY <1>3, <1>5, FileStep

\* The temporary data file is opened.
LEMMA OpenDataOK ==
    ASSUME StoreIInv, NEW p \in Backtests, OpenData(p)
    PROVE  StoreIInv'
  <1>. DEFINE g == Opened(files[Day(p)].dataTmp, p, bt[p].tape, "absent")
  <1>0. /\ bt[p].pc = "openData" /\ "openData" \in Saves /\ "closeData" \in Saves
        /\ Goes(p, "closeData") /\ fetched' = fetched
        /\ files' = [files EXCEPT ![Day(p)].dataTmp = g]
    BY DEF OpenData, Saving, Saves
  <1>1. /\ Day(p) \in Keys /\ files[Day(p)] \in Directories /\ bt[p].tape \in Nat
        /\ files \in [Keys -> Directories]
    BY <1>0, DayIs DEF AtADay, StoreIInv, StoreTypeOK, BacktestOK, BacktestTyped
  <1>2. PICK k \in Keys : k = Day(p)
    BY <1>1
  <1>3. /\ Advances(p) /\ BacktestSound(bt[p])' /\ bt'[p].pc = "closeData"
        /\ bt'[p].tape = bt[p].tape /\ ~Unsaved(p, k)'
    BY <1>0, <1>2, SaveStep
  <1>4. files[k].dataTmp \in FileRecords /\ "absent" \in Labels
    BY <1>1, <1>2, NoFileOK DEF Directories
  <1>5. /\ g \in FileRecords /\ g.by # "earlier"
        /\ Blank(g) \/ Written(g, p, k)
    BY <1>0, <1>1, <1>2, <1>4, OpenedOK DEF Written
  <1>. HIDE DEF g
  <1>6. /\ files'[k].dataTmp = g /\ files'[k].data = files[k].data
        /\ files'[k].man = files[k].man /\ files'[k].manTmp = files[k].manTmp
        /\ files' \in [Keys -> Directories] /\ \A j \in Keys \ {k} : files'[j] = files[j]
    BY <1>0, <1>1, <1>2, <1>5 DEF Directories
  <1>7. files[k].manTmp.by # "earlier"
    BY DEF StoreIInv, EarlierOK
  <1>8. \A f : Copies(f, f)
    BY DEF Copies
  <1>9. bt[p].pc \notin Reads /\ bt'[p].pc \notin Reads
    BY <1>0, <1>3 DEF Reads
  <1>10. DataMoves(p, k)
    BY <1>3, <1>5, <1>6, <1>8 DEF DataMoves
  <1>11. ManifestMoves(p, k)
    BY <1>6, <1>8 DEF ManifestMoves
  <1>12. NoneEarlier(k)
    BY <1>5, <1>6, <1>7 DEF NoneEarlier
  <1>. QED BY <1>0, <1>3, <1>6, <1>9, <1>10, <1>11, <1>12, DayStep

\* The temporary data file is closed.
LEMMA CloseDataOK ==
    ASSUME StoreIInv, NEW p \in Backtests, CloseData(p)
    PROVE  StoreIInv'
  <1>0. /\ bt[p].pc = "closeData" /\ "closeData" \in Saves /\ "renameData" \in Saves
        /\ Goes(p, "renameData") /\ fetched' = fetched
        /\ files' = [files EXCEPT ![Day(p)].dataTmp = Closed(@, p), ![Day(p)].data = Closed(@, p)]
    BY DEF CloseData, Saving, Saves
  <1>1. /\ Day(p) \in Keys /\ files[Day(p)] \in Directories /\ files \in [Keys -> Directories]
    BY <1>0, DayIs DEF AtADay, StoreIInv, StoreTypeOK
  <1>2. PICK k \in Keys : k = Day(p)
    BY <1>1
  <1>3. /\ Advances(p) /\ BacktestSound(bt[p])' /\ bt'[p].pc = "renameData"
    BY <1>0, <1>2, SaveStep
  <1>. DEFINE g == Closed(files[k].dataTmp, p)
              h == Closed(files[k].data, p)
  <1>4. files[k].dataTmp \in FileRecords /\ files[k].data \in FileRecords
    BY <1>1, <1>2 DEF Directories
  <1>5. /\ g \in FileRecords /\ h \in FileRecords
        /\ Copies(g, files[k].dataTmp) /\ Copies(h, files[k].data)
    BY <1>4, ClosedOK
  <1>6. files' = [files EXCEPT ![k].dataTmp = g, ![k].data = h]
    BY <1>0, <1>2
  <1>. HIDE DEF g, h
  <1>7. /\ files'[k].dataTmp = g /\ files'[k].data = h
        /\ files'[k].man = files[k].man /\ files'[k].manTmp = files[k].manTmp
        /\ files' \in [Keys -> Directories] /\ \A j \in Keys \ {k} : files'[j] = files[j]
    BY <1>1, <1>5, <1>6 DEF Directories
  <1>8. files[k].dataTmp.by # "earlier" /\ files[k].manTmp.by # "earlier"
    BY DEF StoreIInv, EarlierOK
  <1>9. \A f : Copies(f, f)
    BY DEF Copies
  <1>10. bt[p].pc \notin Reads /\ bt'[p].pc \notin Reads
    BY <1>0, <1>3 DEF Reads
  <1>11. NoneEarlier(k)
    BY <1>5, <1>7, <1>8 DEF Copies, NoneEarlier
  <1>12. DataMoves(p, k)
    BY <1>5, <1>7, <1>9 DEF DataMoves
  <1>13. ManifestMoves(p, k)
    BY <1>5, <1>7, <1>9 DEF ManifestMoves
  <1>. QED BY <1>0, <1>3, <1>7, <1>10, <1>11, <1>12, <1>13, DayStep

\* The temporary manifest is closed.
LEMMA CloseManifestOK ==
    ASSUME StoreIInv, NEW p \in Backtests, CloseManifest(p)
    PROVE  StoreIInv'
  <1>0. /\ bt[p].pc = "closeMan" /\ "closeMan" \in Saves /\ "renameMan" \in Saves
        /\ Goes(p, "renameMan") /\ fetched' = fetched
        /\ files' = [files EXCEPT ![Day(p)].manTmp = Closed(@, p), ![Day(p)].man = Closed(@, p)]
    BY DEF CloseManifest, Saving, Saves
  <1>1. /\ Day(p) \in Keys /\ files[Day(p)] \in Directories /\ files \in [Keys -> Directories]
    BY <1>0, DayIs DEF AtADay, StoreIInv, StoreTypeOK
  <1>2. PICK k \in Keys : k = Day(p)
    BY <1>1
  <1>3. /\ Advances(p) /\ BacktestSound(bt[p])' /\ bt'[p].pc = "renameMan"
    BY <1>0, <1>2, SaveStep
  <1>. DEFINE g == Closed(files[k].manTmp, p)
              h == Closed(files[k].man, p)
  <1>4. files[k].manTmp \in FileRecords /\ files[k].man \in FileRecords
    BY <1>1, <1>2 DEF Directories
  <1>5. /\ g \in FileRecords /\ h \in FileRecords
        /\ Copies(g, files[k].manTmp) /\ Copies(h, files[k].man)
    BY <1>4, ClosedOK
  <1>6. files' = [files EXCEPT ![k].manTmp = g, ![k].man = h]
    BY <1>0, <1>2
  <1>. HIDE DEF g, h
  <1>7. /\ files'[k].manTmp = g /\ files'[k].man = h
        /\ files'[k].data = files[k].data /\ files'[k].dataTmp = files[k].dataTmp
        /\ files' \in [Keys -> Directories] /\ \A j \in Keys \ {k} : files'[j] = files[j]
    BY <1>1, <1>5, <1>6 DEF Directories
  <1>8. files[k].dataTmp.by # "earlier" /\ files[k].manTmp.by # "earlier"
    BY DEF StoreIInv, EarlierOK
  <1>9. \A f : Copies(f, f)
    BY DEF Copies
  <1>10. bt[p].pc \notin Reads /\ bt'[p].pc \notin Reads
    BY <1>0, <1>3 DEF Reads
  <1>11. NoneEarlier(k)
    BY <1>5, <1>7, <1>8 DEF Copies, NoneEarlier
  <1>12. DataMoves(p, k)
    BY <1>5, <1>7, <1>9 DEF DataMoves
  <1>13. ManifestMoves(p, k)
    BY <1>5, <1>7, <1>9 DEF ManifestMoves
  <1>. QED BY <1>0, <1>3, <1>7, <1>10, <1>11, <1>12, <1>13, DayStep

\* The data file replaces the one before it.
LEMMA RenameDataOK ==
    ASSUME StoreIInv, NEW p \in Backtests, RenameData(p)
    PROVE  StoreIInv'
  <1>1. CASE files[Day(p)].dataTmp = NoFile
    BY <1>1, FailsQuiet DEF RenameData
  <1>2. CASE files[Day(p)].dataTmp # NoFile
    <2>0. /\ bt[p].pc = "renameData" /\ "renameData" \in Saves /\ "openMan" \in Saves \cup {"keep"}
          /\ Goes(p, "openMan") /\ fetched' = fetched
          /\ files' = [files EXCEPT ![Day(p)].data = files[Day(p)].dataTmp, ![Day(p)].dataTmp = NoFile]
      BY <1>2 DEF RenameData, Saves
    <2>1. /\ Day(p) \in Keys /\ files[Day(p)] \in Directories /\ files \in [Keys -> Directories]
      BY <2>0, DayIs DEF AtADay, StoreIInv, StoreTypeOK
    <2>2. PICK k \in Keys : k = Day(p)
      BY <2>1
    <2>3. /\ Advances(p) /\ BacktestSound(bt[p])' /\ bt'[p].pc = "openMan"
      BY <2>0, <2>2, SaveStep
    <2>. DEFINE f == files[k].dataTmp
                blank == NoFile
    <2>4. f \in FileRecords /\ blank \in FileRecords /\ Blank(blank) /\ blank.by # "earlier"
      BY <2>1, <2>2, NoFileOK DEF Directories, Blank
    <2>5. files' = [files EXCEPT ![k].data = f, ![k].dataTmp = blank]
      BY <2>0, <2>2
    <2>6. f = files[k].dataTmp
      OBVIOUS
    <2>. HIDE DEF f, blank
    <2>7. /\ files'[k].dataTmp = blank /\ files'[k].data = f
          /\ files'[k].man = files[k].man /\ files'[k].manTmp = files[k].manTmp
          /\ files' \in [Keys -> Directories] /\ \A j \in Keys \ {k} : files'[j] = files[j]
      BY <2>1, <2>4, <2>5 DEF Directories
    <2>8. files[k].dataTmp.by # "earlier" /\ files[k].manTmp.by # "earlier"
      BY DEF StoreIInv, EarlierOK
    <2>9. \A e : Copies(e, e)
      BY DEF Copies
    <2>10. bt[p].pc \notin Reads /\ bt'[p].pc \notin Reads
      BY <2>0, <2>3 DEF Reads
    <2>11. NoneEarlier(k)
      BY <2>4, <2>6, <2>7, <2>8 DEF NoneEarlier
    <2>12. DataMoves(p, k)
      BY <2>4, <2>6, <2>7, <2>9 DEF DataMoves
    <2>13. ManifestMoves(p, k)
      BY <2>4, <2>6, <2>7, <2>9 DEF ManifestMoves
    <2>. QED BY <2>0, <2>3, <2>7, <2>10, <2>11, <2>12, <2>13, DayStep
  <1>. QED BY <1>1, <1>2

\* The manifest replaces the one before it.
LEMMA RenameManifestOK ==
    ASSUME StoreIInv, NEW p \in Backtests, RenameManifest(p)
    PROVE  StoreIInv'
  <1>1. CASE files[Day(p)].manTmp = NoFile
    BY <1>1, FailsQuiet DEF RenameManifest
  <1>2. CASE files[Day(p)].manTmp # NoFile
    <2>0. /\ bt[p].pc = "renameMan" /\ "renameMan" \in Saves /\ "keep" \in Saves \cup {"keep"}
          /\ Goes(p, "keep") /\ fetched' = fetched
          /\ files' = [files EXCEPT ![Day(p)].man = files[Day(p)].manTmp, ![Day(p)].manTmp = NoFile]
      BY <1>2 DEF RenameManifest, Saves
    <2>1. /\ Day(p) \in Keys /\ files[Day(p)] \in Directories /\ files \in [Keys -> Directories]
      BY <2>0, DayIs DEF AtADay, StoreIInv, StoreTypeOK
    <2>2. PICK k \in Keys : k = Day(p)
      BY <2>1
    <2>3. /\ Advances(p) /\ BacktestSound(bt[p])' /\ bt'[p].pc = "keep"
      BY <2>0, <2>2, SaveStep
    <2>. DEFINE f == files[k].manTmp
                blank == NoFile
    <2>4. f \in FileRecords /\ blank \in FileRecords /\ Blank(blank) /\ blank.by # "earlier"
      BY <2>1, <2>2, NoFileOK DEF Directories, Blank
    <2>5. files' = [files EXCEPT ![k].man = f, ![k].manTmp = blank]
      BY <2>0, <2>2
    <2>6. f = files[k].manTmp
      OBVIOUS
    <2>. HIDE DEF f, blank
    <2>7. /\ files'[k].manTmp = blank /\ files'[k].man = f
          /\ files'[k].data = files[k].data /\ files'[k].dataTmp = files[k].dataTmp
          /\ files' \in [Keys -> Directories] /\ \A j \in Keys \ {k} : files'[j] = files[j]
      BY <2>1, <2>4, <2>5 DEF Directories
    <2>8. files[k].dataTmp.by # "earlier" /\ files[k].manTmp.by # "earlier"
      BY DEF StoreIInv, EarlierOK
    <2>9. \A e : Copies(e, e)
      BY DEF Copies
    <2>10. bt[p].pc \notin Reads /\ bt'[p].pc \notin Reads
      BY <2>0, <2>3 DEF Reads
    <2>11. NoneEarlier(k)
      BY <2>4, <2>6, <2>7, <2>8 DEF NoneEarlier
    <2>12. DataMoves(p, k)
      BY <2>4, <2>6, <2>7, <2>9 DEF DataMoves
    <2>13. ManifestMoves(p, k)
      BY <2>4, <2>6, <2>7, <2>9 DEF ManifestMoves
    <2>. QED BY <2>0, <2>3, <2>7, <2>10, <2>11, <2>12, <2>13, DayStep
  <1>. QED BY <1>1, <1>2

\* The temporary manifest is opened.
LEMMA OpenManifestOK ==
    ASSUME StoreIInv, NEW p \in Backtests, OpenManifest(p)
    PROVE  StoreIInv'
  <1>. DEFINE label == LabelOf(Day(p), bt[p].tape, bt[p].ask.gaps)
              g == Opened(files[Day(p)].manTmp, p, bt[p].tape, label)
  <1>0. /\ bt[p].pc = "openMan" /\ "openMan" \in Saves /\ "closeMan" \in Saves
        /\ Goes(p, "closeMan") /\ fetched' = fetched
        /\ files' = [files EXCEPT ![Day(p)].manTmp = g]
    BY DEF OpenManifest, Saving, Saves
  <1>1. /\ Day(p) \in Keys /\ files[Day(p)] \in Directories /\ bt[p].tape \in Nat
        /\ files \in [Keys -> Directories]
    BY <1>0, DayIs DEF AtADay, StoreIInv, StoreTypeOK, BacktestOK, BacktestTyped
  <1>2. PICK k \in Keys : k = Day(p)
    BY <1>1
  <1>3. /\ Advances(p) /\ BacktestSound(bt[p])' /\ bt'[p].pc = "closeMan"
        /\ bt'[p].tape = bt[p].tape /\ ~Unsaved(p, k)'
    BY <1>0, <1>2, SaveStep
  <1>4. files[k].manTmp \in FileRecords /\ label \in Labels
    <2>1. bt[p].tape \in DOMAIN Tapes[Day(p)] /\ bt[p].ask.gaps \in BOOLEAN
      BY <1>0, <1>1, AskedOnce, DayIs DEF AtADay, StoreIInv, StoreTypeOK, BacktestsOK, DayOK, Day
    <2>. QED BY <1>1, <1>2, <2>1 DEF Directories, Labels
  <1>5. /\ g \in FileRecords /\ g.by # "earlier"
        /\ Blank(g) \/ (Written(g, p, k) /\ g.label = label)
    <2>. HIDE DEF label
    <2>1. /\ g \in FileRecords /\ g.by # "earlier"
          /\ \/ Blank(g)
             \/ g.by = p /\ g.tape = bt[p].tape /\ g.schema = Schema /\ g.label = label
      BY <1>1, <1>2, <1>4, OpenedOK
    <2>2. bt[p].pc \in Saves /\ Day(p) = k
      BY <1>0, <1>2
    <2>. HIDE DEF g
    <2>. QED BY <2>1, <2>2 DEF Written
  <1>. HIDE DEF g
  <1>6. /\ files'[k].manTmp = g /\ files'[k].data = files[k].data
        /\ files'[k].man = files[k].man /\ files'[k].dataTmp = files[k].dataTmp
        /\ files' \in [Keys -> Directories] /\ \A j \in Keys \ {k} : files'[j] = files[j]
    BY <1>0, <1>1, <1>2, <1>5 DEF Directories
  <1>7. files[k].dataTmp.by # "earlier"
    BY DEF StoreIInv, EarlierOK
  <1>8. \A f : Copies(f, f)
    BY DEF Copies
  <1>9. bt[p].pc \notin Reads /\ bt'[p].pc \notin Reads
    BY <1>0, <1>3 DEF Reads
  <1>10. DataMoves(p, k)
    BY <1>6, <1>8 DEF DataMoves
  <1>11. ManifestMoves(p, k)
    BY <1>2, <1>3, <1>5, <1>6, <1>8 DEF ManifestMoves
  <1>12. NoneEarlier(k)
    BY <1>5, <1>6, <1>7 DEF NoneEarlier
  <1>. QED BY <1>0, <1>3, <1>6, <1>9, <1>10, <1>11, <1>12, DayStep

\* Whoever dies leaves its files as they are, and goes where it never was.
LEMMA CrashOK ==
    ASSUME StoreIInv, NEW p \in Backtests, Killed(p)
    PROVE  StoreIInv'
  <1>. DEFINE b == bt[p]
  <1>0. /\ BacktestSound(b) /\ DOMAIN bt = Backtests /\ BacktestTyped(b) /\ IsInjective(b.todo)
        /\ files \in [Keys -> Directories] /\ b.pc # "idle" /\ fetched' = fetched
    BY DEF Killed, StoreIInv, StoreTypeOK, BacktestsOK, BacktestSound, BacktestOK
  <1>1. /\ bt'[p] = [b EXCEPT !.pc = "failed", !.verdict = "killed"]
        /\ DOMAIN bt' = Backtests /\ \A q \in Backtests \ {p} : bt'[q] = bt[q]
    BY <1>0 DEF Killed, Fails
  <1>2. BacktestTyped(bt'[p])
    <2>1. bt'[p] = [bt[p] EXCEPT !.pc = "failed", !.verdict = "killed"] /\ BacktestTyped(bt[p])
          /\ "failed" \in Phases
      BY <1>0, <1>1 DEF Phases
    <2>. QED BY <2>1 DEF BacktestTyped
  <1>3. /\ bt'[p].pc = "failed" /\ bt'[p].todo = b.todo /\ bt'[p].got = b.got
        /\ bt'[p].ask = b.ask /\ bt'[p].tape = b.tape
    BY <1>0, <1>1 DEF BacktestTyped
  <1>4. BacktestOK(bt'[p])
    BY <1>0, <1>2, <1>3 DEF BacktestOK, AtADay, Reads, Saves
  <1>5. BacktestSound(bt[p])'
    <2>1. GotOK(bt[p])'
      BY <1>0, <1>3 DEF BacktestSound, GotOK, LabelOK
    <2>. QED BY <1>3, <1>4, <2>1 DEF BacktestSound, DayOK, CheckedOK, Reads, Saves
  <1>6. OneStep(p)
    BY <1>0, <1>1, <1>3 DEF OneStep
  <1>7. Advances(p)
    BY <1>0, <1>3, <1>6, SameDays DEF HasOpened
  <1>8. \A k \in Keys :
           LET d == Abandoned(files[k].data, p)
               t == Abandoned(files[k].dataTmp, p)
               m == Abandoned(files[k].man, p)
               n == Abandoned(files[k].manTmp, p)
           IN  /\ files'[k] = [data |-> d, dataTmp |-> t, man |-> m, manTmp |-> n]
               /\ d \in FileRecords /\ t \in FileRecords /\ m \in FileRecords /\ n \in FileRecords
               /\ Copies(d, files[k].data) /\ Copies(t, files[k].dataTmp)
               /\ Copies(m, files[k].man) /\ Copies(n, files[k].manTmp)
    <2>. TAKE k \in Keys
    <2>1. /\ files[k].data \in FileRecords /\ files[k].dataTmp \in FileRecords
          /\ files[k].man \in FileRecords /\ files[k].manTmp \in FileRecords
      BY <1>0 DEF Directories
    <2>2. files'[k] = [data |-> Abandoned(files[k].data, p),
                       dataTmp |-> Abandoned(files[k].dataTmp, p),
                       man |-> Abandoned(files[k].man, p),
                       manTmp |-> Abandoned(files[k].manTmp, p)]
      BY DEF Killed
    <2>. QED BY <2>1, <2>2, ClosedOK
  <1>9. \A k \in Keys :
           /\ files'[k] \in Directories
           /\ Copies(files'[k].data, files[k].data) /\ Copies(files'[k].dataTmp, files[k].dataTmp)
           /\ Copies(files'[k].man, files[k].man) /\ Copies(files'[k].manTmp, files[k].manTmp)
    <2>. TAKE k \in Keys
    <2>. DEFINE d == Abandoned(files[k].data, p)
                t == Abandoned(files[k].dataTmp, p)
                m == Abandoned(files[k].man, p)
                n == Abandoned(files[k].manTmp, p)
    <2>1. /\ files'[k] = [data |-> d, dataTmp |-> t, man |-> m, manTmp |-> n]
          /\ d \in FileRecords /\ t \in FileRecords /\ m \in FileRecords /\ n \in FileRecords
          /\ Copies(d, files[k].data) /\ Copies(t, files[k].dataTmp)
          /\ Copies(m, files[k].man) /\ Copies(n, files[k].manTmp)
      BY <1>8
    <2>. HIDE DEF d, t, m, n
    <2>2. /\ files'[k] \in Directories
          /\ files'[k].data = d /\ files'[k].dataTmp = t
          /\ files'[k].man = m /\ files'[k].manTmp = n
      BY <2>1 DEF Directories
    <2>. QED BY <2>1, <2>2
  <1>10. files' \in [Keys -> Directories]
    <2>1. files' = [k \in Keys |-> files'[k]]
      BY DEF Killed
    <2>. QED BY <1>9, <2>1
  <1>11. ASSUME NEW k \in Keys, NEW g \in Manifests(k)'
         PROVE  \E f \in Manifests(k) : Copies(g, f)
    <2>1. CASE g \in Manifests(k)
      BY <2>1 DEF Copies
    <2>2. CASE g \in {files'[k].man, files'[k].manTmp}
      BY <1>9, <2>2 DEF Manifests
    <2>3. CASE g \notin {files'[k].man, files'[k].manTmp}
      <3>1. PICK q \in Readers(k)' : g = bt'[q].man
        BY <1>11, <2>3 DEF Manifests
      <3>2. q \in Backtests /\ q # p /\ bt'[q] = bt[q] /\ q \in Readers(k)
        BY <1>1, <1>3, <3>1 DEF Readers, At, Reads, Day
      <3>. QED BY <3>1, <3>2 DEF Manifests, Copies
    <2>. QED BY <2>2, <2>3
  <1>12. ASSUME NEW k \in Keys, NEW g \in Papers(k)'
         PROVE  \E f \in Papers(k) : Copies(g, f)
    BY <1>9, <1>11, <1>12 DEF Papers
  <1>13. PapersMove(p)
    BY <1>11, <1>12 DEF PapersMove
  <1>14. EarlierMove
    BY <1>0, <1>9, <1>11 DEF EarlierMove, Copies, StoreIInv, EarlierOK
  <1>. QED BY <1>0, <1>5, <1>7, <1>10, <1>13, <1>14, FileStep

(***************************************************************************)
(* The theorems.                                                           *)
(***************************************************************************)
\* The inductive invariant: every paper of a day is a whole answer of the
\* vendor under its writer's label, or cannot pass for one
(* (DiskEventCache.save and load, run_backtest_api).                       *)
THEOREM StoreInductive == StoreSpec => []StoreIInv
  <1>1. StoreInit => StoreIInv
    BY StoreInitIInv
  <1>2. StoreIInv /\ [StoreNext]_storeVars => StoreIInv'
    <2>. SUFFICES ASSUME StoreIInv, [StoreNext]_storeVars PROVE StoreIInv'
      OBVIOUS
    <2>1. CASE UNCHANGED storeVars
      BY <2>1 DEF storeVars, StoreIInv, StoreTypeOK, PapersOK, EarlierOK, BacktestsOK, Honest,
         Labelled, Papers, Manifests, Readers, At, Day, Unsaved, DayOK, GotOK, LabelOK, CheckedOK
    <2>2. ASSUME NEW p \in Backtests, Step(p) PROVE StoreIInv'
      BY <2>2, BeginOK, NextDayOK, LoadOK, LoadDataOK, ReadLabelOK, IngestOK, OpenDataOK,
         CloseDataOK, RenameDataOK, OpenManifestOK, CloseManifestOK, RenameManifestOK, KeepDayOK,
         MergeOK, PrepareOK, VerifyOK, ReplayOK DEF Step
    <2>3. ASSUME NEW p \in Backtests, Killed(p) PROVE StoreIInv'
      BY <2>3, CrashOK
    <2>. QED BY <2>1, <2>2, <2>3 DEF StoreNext
  <1>. QED BY <1>1, <1>2, PTL DEF StoreSpec

\* Whatever crashed or saved at the same time, a day a backtest has got is one
\* complete answer of the vendor (DiskEventCache.save, load).
THEOREM WholeDaysServed == StoreSpec => []CacheServesWholeDays
  <1>1. StoreIInv => CacheServesWholeDays
    BY DEF StoreIInv, BacktestsOK, GotOK, CacheServesWholeDays
  <1>. QED BY <1>1, StoreInductive, PTL

\* A backtest that asks for healthy days replays no other, but for the race of
\* the two readings of a manifest (_attach_disk_cache_health_rows,
\* _verify_data_integrity).
THEOREM HealthyDaysReplayed == GapsAgree => (StoreSpec => []OnlyHealthyReplayed)
  <1>. SUFFICES ASSUME GapsAgree PROVE StoreSpec => []OnlyHealthyReplayed
    OBVIOUS
  <1>1. StoreIInv => OnlyHealthyReplayed
    BY DEF StoreIInv, BacktestsOK, GotOK, LabelOK, CheckedOK, OnlyHealthyReplayed
  <1>. QED BY <1>1, StoreInductive, PTL

\* A resumed ingest of one symbol reports nothing the log does not hold: a
\* symbol is marked done when it is in the log (MassiveHistoricalIngestor.ingest,
\* mark_done).
THEOREM CompletedHeld == OneAtATime => (IngestSpec => []CompletedIsHeld)
  <1>. SUFFICES ASSUME OneAtATime PROVE IngestSpec => []CompletedIsHeld
    OBVIOUS
  <1>1. IngestInit => IngestIInv
    BY DEF IngestInit, IngestIInv
  <1>2. IngestIInv /\ [IngestNext]_ingestVars => IngestIInv'
    <2>. SUFFICES ASSUME IngestIInv, [IngestNext]_ingestVars PROVE IngestIInv'
      OBVIOUS
    <2>. USE DEF IngestIInv
    <2>1. CASE Call
      <3>1. PICK symbols \in IngestCalls : calling' = symbols /\ multi' = (Len(symbols) > 1)
        BY <2>1 DEF Call
      <3>2. symbols = <<symbols[1]>>
        BY DEF OneAtATime
      <3>3. Len(symbols) = 1
        BY DEF OneAtATime
      <3>4. ~multi'
        <4>1. ~(Len(symbols) > 1)
          BY ONLY <3>3
        <4>. QED BY <3>1, <4>1, Zenon
      <3>5. calling' = <<calling'[1]>>
        BY <3>1, <3>2, Zenon
      <3>. QED BY <2>1, <3>4, <3>5 DEF Call
    <2>2. CASE SkipDone
      <3>1. calling = <<calling[1]>>
        BY <2>2 DEF SkipDone
      <3>2. \A s : Tail(<<s>>) = <<>>
        OBVIOUS
      <3>. QED BY <2>2, <3>1, <3>2 DEF SkipDone
    <2>3. CASE IngestSymbol
      <3>1. calling = <<calling[1]>>
        BY <2>3 DEF IngestSymbol
      <3>2. \A s : Tail(<<s>>) = <<>>
        OBVIOUS
      <3>. QED BY <2>3, <3>1, <3>2 DEF IngestSymbol
    <2>4. CASE BreaksOff
      BY <2>4 DEF BreaksOff
    <2>5. CASE _finalize_multi_symbol_merge
      BY <2>5 DEF _finalize_multi_symbol_merge
    <2>6. CASE UNCHANGED ingestVars
      BY <2>6 DEF ingestVars
    <2>. QED BY <2>1, <2>2, <2>3, <2>4, <2>5, <2>6 DEF IngestNext
  <1>3. IngestIInv => CompletedIsHeld
    BY DEF IngestIInv, CompletedIsHeld
  <1>. QED BY <1>1, <1>2, <1>3, PTL DEF IngestSpec
-----------------------------------------------------------------------------
(***************************************************************************)
(* IBSession.  Order identity for every set of orders and any number of    *)
(* restarts, as long as the connection is opened once per process, every   *)
(* code the router takes for a rejection is one, and the gateway keeps its *)
(* ids (Regular).  Crashes, torn lines and repeated submissions may happen *)
(* anywhere.                                                               *)
(***************************************************************************)
Regular == Situations \subseteq {"torn", "resubmit"}

\* MaxOf is the maximum.
LEMMA MaxOfFacts ==
    ASSUME NEW a \in Nat, NEW b \in Nat
    PROVE  MaxOf(a, b) \in Nat /\ MaxOf(a, b) >= a /\ MaxOf(a, b) >= b
  BY DEF MaxOf

\* IInv without its type part.
Rest ==
    /\ NeverPlacedTwice /\ WriteBeforeWire /\ IdsNeverReused
    /\ Remembered /\ Owned /\ NotAnswered /\ Counters /\ Outside /\ Underway

\* The initial states satisfy the inductive invariant.
LEMMA InitIInv == Init => IInv
<1> SUFFICES ASSUME Init PROVE IInv
  OBVIOUS
<1>1. TypeOK
  <2>1. torn \in BOOLEAN
    BY Zenon DEF Init
  <2> QED BY <2>1 DEF Init, TypeOK, JournalStates, Connections
<1>2. Rest
  BY DEF Init, Rest, WriteBeforeWire, Remembered, IdsNeverReused, NeverPlacedTwice,
       Owned, NotAnswered, Counters, Outside, Underway, Alive, Known
<1> QED BY <1>1, <1>2 DEF IInv, Rest

\* Every step keeps the inductive invariant.
LEMMA StepIInv == ASSUME Regular, IInv, [Next]_vars PROVE IInv'
<1> USE DEF Regular
<1>0. TypeOK /\ Rest
  BY DEF IInv, Rest
<1> SUFFICES TypeOK' /\ Rest'
  BY DEF IInv, Rest
<1>1. CASE Start
  <2>1. TypeOK'
    BY <1>0, <1>1 DEF Start, gwVars, TypeOK, Connections, JournalStates, Entries
  <2>2. Rest'
    BY <1>0, <1>1 DEF Start, gwVars, TypeOK, Entries, Rest,
       WriteBeforeWire, Remembered, IdsNeverReused, NeverPlacedTwice,
       Owned, NotAnswered, Counters, Outside, Underway, Alive, Known
  <2> QED BY <2>1, <2>2
<1>2. CASE Crash \/ CrashAppending
  <2>0. Dies /\ torn' \in BOOLEAN /\ gwNext' = gwNext
    BY <1>0, <1>2 DEF Crash, CrashAppending, Dies, TypeOK
  <2>1. TypeOK'
    BY <1>0, <2>0 DEF Dies, TypeOK, Connections, JournalStates
  <2>2. Rest'
    BY <1>0, <2>0 DEF Dies, TypeOK, Rest, WriteBeforeWire, Remembered, IdsNeverReused, NeverPlacedTwice,
       Owned, NotAnswered, Counters, Outside, Underway, Alive, Known
  <2> QED BY <2>1, <2>2
<1>3. CASE Connect
  <2>1. TypeOK'
    BY <1>0, <1>3 DEF Connect, diskVars, gwVars, TypeOK, Connections, JournalStates, Entries
  <2>2. Rest'
    BY <1>0, <1>3 DEF Connect, diskVars, gwVars, TypeOK, Entries, Rest,
       WriteBeforeWire, Remembered, IdsNeverReused, NeverPlacedTwice,
       Owned, NotAnswered, Counters, Outside, Underway, Alive, Known
  <2> QED BY <2>1, <2>2
<1>4. CASE Disconnect
  <2>1. TypeOK'
    BY <1>0, <1>4 DEF Disconnect, Connected, diskVars, gwVars, TypeOK, Connections, JournalStates, Entries
  <2>2. Rest'
    BY <1>0, <1>4 DEF Disconnect, Connected, diskVars, gwVars, TypeOK, Entries, Rest,
       WriteBeforeWire, Remembered, IdsNeverReused, NeverPlacedTwice,
       Owned, NotAnswered, Counters, Outside, Underway, Alive, Known
  <2> QED BY <2>1, <2>2
<1>5. CASE NextValidId
  <2>0. /\ nextId' \in Nat /\ nextId' >= nextId /\ nextId' >= gwNext
        /\ UNCHANGED <<onDisk, journal, run, main, submitted, meta, submitQ, fillQ, gwVars>>
        /\ Connected /\ conn' = "ready" /\ ~torn'
        /\ idOnDisk' \in Nat /\ idJournal' \in Nat
    <3>1. nextId \in Nat /\ gwNext \in Nat /\ idJournal \in Nat /\ idOnDisk \in Nat
      BY <1>0 DEF TypeOK
    <3>2. nextId' = MaxOf(nextId, MaxOf(gwNext, idJournal)) /\ AppendNextId(nextId')
      BY <1>5 DEF NextValidId
    <3>3. MaxOf(gwNext, idJournal) \in Nat /\ MaxOf(gwNext, idJournal) >= gwNext
      BY <3>1, MaxOfFacts
    <3>4. nextId' \in Nat /\ nextId' >= nextId /\ nextId' >= gwNext
      BY <3>1, <3>2, <3>3, MaxOfFacts
    <3>5. idOnDisk' \in Nat /\ idJournal' \in Nat
      BY <3>1, <3>2, <3>4, MaxOfFacts DEF AppendNextId
    <3> QED BY <3>2, <3>4, <3>5, <1>5 DEF NextValidId, AppendNextId
  <2>1. TypeOK'
    <3>1. torn' \in BOOLEAN
      BY <1>5, Zenon DEF NextValidId, AppendNextId
    <3> QED BY <1>0, <2>0, <3>1 DEF gwVars, TypeOK, Connections
  <2>2. WriteBeforeWire'
    BY <1>0, <2>0 DEF Connected, gwVars, TypeOK, Entries, Rest,
       WriteBeforeWire, Remembered, IdsNeverReused, NeverPlacedTwice,
       Owned, NotAnswered, Counters, Outside, Underway, Alive, Known
  <2>3. Remembered'
    BY <1>0, <2>0 DEF Connected, gwVars, TypeOK, Entries, Rest,
       WriteBeforeWire, Remembered, IdsNeverReused, NeverPlacedTwice,
       Owned, NotAnswered, Counters, Outside, Underway, Alive, Known
  <2>4. IdsNeverReused'
    BY <1>0, <2>0 DEF Connected, gwVars, TypeOK, Entries, Rest,
       WriteBeforeWire, Remembered, IdsNeverReused, NeverPlacedTwice,
       Owned, NotAnswered, Counters, Outside, Underway, Alive, Known
  <2>5. NeverPlacedTwice'
    BY <1>0, <2>0 DEF Connected, gwVars, TypeOK, Entries, Rest,
       WriteBeforeWire, Remembered, IdsNeverReused, NeverPlacedTwice,
       Owned, NotAnswered, Counters, Outside, Underway, Alive, Known
  <2>6. Owned'
    BY <1>0, <2>0 DEF Connected, gwVars, TypeOK, Entries, Rest,
       WriteBeforeWire, Remembered, IdsNeverReused, NeverPlacedTwice,
       Owned, NotAnswered, Counters, Outside, Underway, Alive, Known
  <2>7. NotAnswered'
    BY <1>0, <2>0 DEF Connected, gwVars, TypeOK, Entries, Rest,
       WriteBeforeWire, Remembered, IdsNeverReused, NeverPlacedTwice,
       Owned, NotAnswered, Counters, Outside, Underway, Alive, Known
  <2>8. Counters'
    BY <1>0, <2>0 DEF Connected, gwVars, TypeOK, Entries, Rest,
       WriteBeforeWire, Remembered, IdsNeverReused, NeverPlacedTwice,
       Owned, NotAnswered, Counters, Outside, Underway, Alive, Known
  <2>9. Outside'
    BY <1>0, <2>0 DEF Connected, gwVars, TypeOK, Entries, Rest,
       WriteBeforeWire, Remembered, IdsNeverReused, NeverPlacedTwice,
       Owned, NotAnswered, Counters, Outside, Underway, Alive, Known
  <2>10. Underway'
    BY <1>0, <2>0 DEF Connected, gwVars, TypeOK, Entries, Rest,
       WriteBeforeWire, Remembered, IdsNeverReused, NeverPlacedTwice,
       Owned, NotAnswered, Counters, Outside, Underway, Alive, Known
  <2> QED BY <2>1, <2>2, <2>3, <2>4, <2>5, <2>6, <2>7, <2>8, <2>9, <2>10 DEF Rest
<1>6. ASSUME NEW o \in Orders, JournalAttempt(o) PROVE TypeOK' /\ Rest'
  <2>1. TypeOK'
    BY <1>0, <1>6 DEF JournalAttempt, AppendOutcome, InSession, gwVars, TypeOK, Connections, JournalStates, Entries
  <2>2. Rest'
    BY <1>0, <1>6 DEF JournalAttempt, AppendOutcome, InSession, gwVars, TypeOK, Entries, Rest,
       WriteBeforeWire, Remembered, IdsNeverReused, NeverPlacedTwice,
       Owned, NotAnswered, Counters, Outside, Underway, Alive, Known
  <2> QED BY <2>1, <2>2
<1>7. CASE RouterSubmit
  <2>1. TypeOK'
    BY <1>0, <1>7 DEF RouterSubmit, diskVars, gwVars, TypeOK, Connections, JournalStates, Entries
  <2>2. Rest'
    BY <1>0, <1>7 DEF RouterSubmit, diskVars, gwVars, TypeOK, Entries, Rest,
       WriteBeforeWire, Remembered, IdsNeverReused, NeverPlacedTwice,
       Owned, NotAnswered, Counters, Outside, Underway, Alive, Known
  <2> QED BY <2>1, <2>2
<1>8. ASSUME NEW id \in fillQ, NEW o \in Orders, PollReject(id, o) PROVE TypeOK' /\ Rest'
  <2>1. TypeOK'
    BY <1>0, <1>8 DEF PollReject, AppendOutcome, InSession, gwVars, TypeOK, Connections, JournalStates, Entries
  <2>2. Rest'
    BY <1>0, <1>8 DEF PollReject, AppendOutcome, InSession, gwVars, TypeOK, Entries, Rest,
       WriteBeforeWire, Remembered, IdsNeverReused, NeverPlacedTwice,
       Owned, NotAnswered, Counters, Outside, Underway, Alive, Known
  <2> QED BY <2>1, <2>2
<1>9. ASSUME NEW id \in fillQ, PollUnknown(id) PROVE TypeOK' /\ Rest'
  <2>1. TypeOK'
    BY <1>0, <1>9 DEF PollUnknown, diskVars, InSession, gwVars, TypeOK, Connections, JournalStates, Entries
  <2>2. Rest'
    BY <1>0, <1>9 DEF PollUnknown, diskVars, InSession, gwVars, TypeOK, Entries, Rest,
       WriteBeforeWire, Remembered, IdsNeverReused, NeverPlacedTwice,
       Owned, NotAnswered, Counters, Outside, Underway, Alive, Known
  <2> QED BY <2>1, <2>2
<1>10. ASSUME NEW e \in submitQ, WriterPlaceOrder(e) PROVE TypeOK' /\ Rest'
  <2>0. /\ gwNext' \in Nat \ {0} /\ gwNext' >= gwNext /\ gwNext' > e.id
        /\ e \in Entries
    <3>1. e \in Entries /\ e.id \in Nat /\ e.id + 1 \in Nat /\ gwNext \in Nat \ {0}
      BY <1>0, <1>10 DEF TypeOK, Entries
    <3>2. gwNext' = MaxOf(gwNext, e.id + 1)
      BY <1>10 DEF WriterPlaceOrder
    <3>3. gwNext' \in Nat /\ gwNext' >= gwNext /\ gwNext' >= e.id + 1
      BY <3>1, <3>2, MaxOfFacts
    <3> QED BY <3>1, <3>3
  <2>a. /\ Connected /\ submitQ' = submitQ \ {e} /\ placed' = placed \cup {e}
        /\ UNCHANGED <<diskVars, run, conn, main, journal, idJournal, submitted, meta,
                       nextId, fillQ, refused>>
    BY <1>10 DEF WriterPlaceOrder
  <2>1. TypeOK'
    BY <1>0, <2>0, <2>a DEF Connected, diskVars, TypeOK, Connections, JournalStates, Entries
  <2>2. WriteBeforeWire'
    BY <1>0, <1>10, <2>0, <2>a DEF Connected, diskVars, TypeOK, Entries, Rest,
       WriteBeforeWire, Remembered, IdsNeverReused, NeverPlacedTwice,
       Owned, NotAnswered, Counters, Outside, Underway, Alive, Known
  <2>3. Remembered'
    BY <1>0, <1>10, <2>0, <2>a DEF Connected, diskVars, TypeOK, Entries, Rest,
       WriteBeforeWire, Remembered, IdsNeverReused, NeverPlacedTwice,
       Owned, NotAnswered, Counters, Outside, Underway, Alive, Known
  <2>4. IdsNeverReused'
    BY <1>0, <1>10, <2>0, <2>a DEF Connected, diskVars, TypeOK, Entries, Rest,
       WriteBeforeWire, Remembered, IdsNeverReused, NeverPlacedTwice,
       Owned, NotAnswered, Counters, Outside, Underway, Alive, Known
  <2>5. NeverPlacedTwice'
    BY <1>0, <1>10, <2>0, <2>a DEF Connected, diskVars, TypeOK, Entries, Rest,
       WriteBeforeWire, Remembered, IdsNeverReused, NeverPlacedTwice,
       Owned, NotAnswered, Counters, Outside, Underway, Alive, Known
  <2>6. Owned'
    BY <1>0, <1>10, <2>0, <2>a DEF Connected, diskVars, TypeOK, Entries, Rest,
       WriteBeforeWire, Remembered, IdsNeverReused, NeverPlacedTwice,
       Owned, NotAnswered, Counters, Outside, Underway, Alive, Known
  <2>7. NotAnswered'
    BY <1>0, <1>10, <2>0, <2>a DEF Connected, diskVars, TypeOK, Entries, Rest,
       WriteBeforeWire, Remembered, IdsNeverReused, NeverPlacedTwice,
       Owned, NotAnswered, Counters, Outside, Underway, Alive, Known
  <2>8. Counters'
    BY <1>0, <1>10, <2>0, <2>a DEF Connected, diskVars, TypeOK, Entries, Rest,
       WriteBeforeWire, Remembered, IdsNeverReused, NeverPlacedTwice,
       Owned, NotAnswered, Counters, Outside, Underway, Alive, Known
  <2>9. Outside'
    BY <1>0, <1>10, <2>0, <2>a DEF Connected, diskVars, TypeOK, Entries, Rest,
       WriteBeforeWire, Remembered, IdsNeverReused, NeverPlacedTwice,
       Owned, NotAnswered, Counters, Outside, Underway, Alive, Known
  <2>10. Underway'
    BY <1>0, <1>10, <2>0, <2>a DEF Connected, diskVars, TypeOK, Entries, Rest,
       WriteBeforeWire, Remembered, IdsNeverReused, NeverPlacedTwice,
       Owned, NotAnswered, Counters, Outside, Underway, Alive, Known
  <2> QED BY <2>1, <2>2, <2>3, <2>4, <2>5, <2>6, <2>7, <2>8, <2>9, <2>10 DEF Rest
<1>11. ASSUME NEW e \in submitQ, WriterPlaceOrderFails(e) PROVE TypeOK' /\ Rest'
  <2>1. TypeOK'
    BY <1>0, <1>11 DEF WriterPlaceOrderFails, Connected, diskVars, gwVars, TypeOK, Connections, JournalStates, Entries
  <2>2. WriteBeforeWire'
    BY <1>0, <1>11 DEF WriterPlaceOrderFails, Connected, diskVars, gwVars, TypeOK, Entries, Rest,
       WriteBeforeWire, Remembered, IdsNeverReused, NeverPlacedTwice,
       Owned, NotAnswered, Counters, Outside, Underway, Alive, Known
  <2>3. Remembered'
    BY <1>0, <1>11 DEF WriterPlaceOrderFails, Connected, diskVars, gwVars, TypeOK, Entries, Rest,
       WriteBeforeWire, Remembered, IdsNeverReused, NeverPlacedTwice,
       Owned, NotAnswered, Counters, Outside, Underway, Alive, Known
  <2>4. IdsNeverReused'
    BY <1>0, <1>11 DEF WriterPlaceOrderFails, Connected, diskVars, gwVars, TypeOK, Entries, Rest,
       WriteBeforeWire, Remembered, IdsNeverReused, NeverPlacedTwice,
       Owned, NotAnswered, Counters, Outside, Underway, Alive, Known
  <2>5. NeverPlacedTwice'
    BY <1>0, <1>11 DEF WriterPlaceOrderFails, Connected, diskVars, gwVars, TypeOK, Entries, Rest,
       WriteBeforeWire, Remembered, IdsNeverReused, NeverPlacedTwice,
       Owned, NotAnswered, Counters, Outside, Underway, Alive, Known
  <2>6. Owned'
    BY <1>0, <1>11 DEF WriterPlaceOrderFails, Connected, diskVars, gwVars, TypeOK, Entries, Rest,
       WriteBeforeWire, Remembered, IdsNeverReused, NeverPlacedTwice,
       Owned, NotAnswered, Counters, Outside, Underway, Alive, Known
  <2>7. NotAnswered'
    BY <1>0, <1>11 DEF WriterPlaceOrderFails, Connected, diskVars, gwVars, TypeOK, Entries, Rest,
       WriteBeforeWire, Remembered, IdsNeverReused, NeverPlacedTwice,
       Owned, NotAnswered, Counters, Outside, Underway, Alive, Known
  <2>8. Counters'
    BY <1>0, <1>11 DEF WriterPlaceOrderFails, Connected, diskVars, gwVars, TypeOK, Entries, Rest,
       WriteBeforeWire, Remembered, IdsNeverReused, NeverPlacedTwice,
       Owned, NotAnswered, Counters, Outside, Underway, Alive, Known
  <2>9. Outside'
    BY <1>0, <1>11 DEF WriterPlaceOrderFails, Connected, diskVars, gwVars, TypeOK, Entries, Rest,
       WriteBeforeWire, Remembered, IdsNeverReused, NeverPlacedTwice,
       Owned, NotAnswered, Counters, Outside, Underway, Alive, Known
  <2>10. Underway'
    BY <1>0, <1>11 DEF WriterPlaceOrderFails, Connected, diskVars, gwVars, TypeOK, Entries, Rest,
       WriteBeforeWire, Remembered, IdsNeverReused, NeverPlacedTwice,
       Owned, NotAnswered, Counters, Outside, Underway, Alive, Known
  <2> QED BY <2>1, <2>2, <2>3, <2>4, <2>5, <2>6, <2>7, <2>8, <2>9, <2>10 DEF Rest
<1>12. ASSUME NEW e \in placed, GatewayRefuse(e) PROVE TypeOK' /\ Rest'
  <2>1. TypeOK'
    BY <1>0, <1>12 DEF GatewayRefuse, Connected, diskVars, TypeOK, Connections, JournalStates, Entries
  <2>2. WriteBeforeWire'
    BY <1>0, <1>12 DEF GatewayRefuse, Connected, diskVars, TypeOK, Entries, Rest,
       WriteBeforeWire, Remembered, IdsNeverReused, NeverPlacedTwice,
       Owned, NotAnswered, Counters, Outside, Underway, Alive, Known
  <2>3. Remembered'
    BY <1>0, <1>12 DEF GatewayRefuse, Connected, diskVars, TypeOK, Entries, Rest,
       WriteBeforeWire, Remembered, IdsNeverReused, NeverPlacedTwice,
       Owned, NotAnswered, Counters, Outside, Underway, Alive, Known
  <2>4. IdsNeverReused'
    BY <1>0, <1>12 DEF GatewayRefuse, Connected, diskVars, TypeOK, Entries, Rest,
       WriteBeforeWire, Remembered, IdsNeverReused, NeverPlacedTwice,
       Owned, NotAnswered, Counters, Outside, Underway, Alive, Known
  <2>5. NeverPlacedTwice'
    BY <1>0, <1>12 DEF GatewayRefuse, Connected, diskVars, TypeOK, Entries, Rest,
       WriteBeforeWire, Remembered, IdsNeverReused, NeverPlacedTwice,
       Owned, NotAnswered, Counters, Outside, Underway, Alive, Known
  <2>6. Owned'
    BY <1>0, <1>12 DEF GatewayRefuse, Connected, diskVars, TypeOK, Entries, Rest,
       WriteBeforeWire, Remembered, IdsNeverReused, NeverPlacedTwice,
       Owned, NotAnswered, Counters, Outside, Underway, Alive, Known
  <2>7. NotAnswered'
    BY <1>0, <1>12 DEF GatewayRefuse, Connected, diskVars, TypeOK, Entries, Rest,
       WriteBeforeWire, Remembered, IdsNeverReused, NeverPlacedTwice,
       Owned, NotAnswered, Counters, Outside, Underway, Alive, Known
  <2>8. Counters'
    BY <1>0, <1>12 DEF GatewayRefuse, Connected, diskVars, TypeOK, Entries, Rest,
       WriteBeforeWire, Remembered, IdsNeverReused, NeverPlacedTwice,
       Owned, NotAnswered, Counters, Outside, Underway, Alive, Known
  <2>9. Outside'
    BY <1>0, <1>12 DEF GatewayRefuse, Connected, diskVars, TypeOK, Entries, Rest,
       WriteBeforeWire, Remembered, IdsNeverReused, NeverPlacedTwice,
       Owned, NotAnswered, Counters, Outside, Underway, Alive, Known
  <2>10. Underway'
    BY <1>0, <1>12 DEF GatewayRefuse, Connected, diskVars, TypeOK, Entries, Rest,
       WriteBeforeWire, Remembered, IdsNeverReused, NeverPlacedTwice,
       Owned, NotAnswered, Counters, Outside, Underway, Alive, Known
  <2> QED BY <2>1, <2>2, <2>3, <2>4, <2>5, <2>6, <2>7, <2>8, <2>9, <2>10 DEF Rest
<1>13. ASSUME NEW e \in placed, GatewayWarning(e) PROVE TypeOK' /\ Rest'
  BY <1>13 DEF GatewayWarning
<1>14. CASE UNCHANGED vars
  <2>1. TypeOK'
    BY <1>0, <1>14 DEF vars, diskVars, memVars, gwVars, TypeOK, Connections, JournalStates, Entries
  <2>2. Rest'
    BY <1>0, <1>14 DEF vars, diskVars, memVars, gwVars, TypeOK, Entries, Rest,
       WriteBeforeWire, Remembered, IdsNeverReused, NeverPlacedTwice,
       Owned, NotAnswered, Counters, Outside, Underway, Alive, Known
  <2> QED BY <2>1, <2>2
<1> QED
  BY <1>1, <1>2, <1>3, <1>4, <1>5, <1>6, <1>7, <1>8, <1>9, <1>10, <1>11, <1>12, <1>13, <1>14 DEF Next, Main

\* The inductive invariant holds: in every Regular deployment the journal's
\* disk and memory, the router, the queues and the gateway stay consistent.
THEOREM InductiveInvariant == ASSUME Regular PROVE Spec => []IInv
<1>1. Init => IInv
  BY InitIInv
<1>2. IInv /\ [Next]_vars => IInv'
  BY StepIInv
<1> QED BY <1>1, <1>2, PTL DEF Spec

\* A platform order is at work at most once, through any number of crashes,
\* torn lines and restarts (record_attempt before submit, must_refuse).
THEOREM NeverPlacedTwiceTheorem == ASSUME Regular PROVE Spec => []NeverPlacedTwice
<1>1. IInv => NeverPlacedTwice
  BY DEF IInv
<1> QED BY <1>1, InductiveInvariant, PTL

\* A replay of the journal answers UNKNOWN for every order that may be at
\* work (fsync-per-record, write-before-wire).
THEOREM WriteBeforeWireTheorem == ASSUME Regular PROVE Spec => []WriteBeforeWire
<1>1. IInv => WriteBeforeWire
  BY DEF IInv
<1> QED BY <1>1, InductiveInvariant, PTL

\* An IB order id names one order as long as anybody knows it (nextValidId,
\* next_order_id).
THEOREM IdsNeverReusedTheorem == ASSUME Regular PROVE Spec => []IdsNeverReused
<1>1. IInv => IdsNeverReused
  BY DEF IInv
<1> QED BY <1>1, InductiveInvariant, PTL

-----------------------------------------------------------------------------
(* The other installation of MCIBSession, whose situations are any at all.   *)
(* Why no record is missing although a session may run on a torn file: the   *)
(* counter is 0 from Disconnect until NextValidId, whose record takes the    *)
(* damage, and without an id RouterSubmit queues nothing.                    *)
RoughRecorded ==
    /\ RoughNothingSentUnrecorded
    /\ rOnDisk \in [Orders -> {"ABSENT", "UNKNOWN", "REJECTED"}]
    /\ rConn \in {"off", "new", "wait", "ready", "closed"}
    /\ rMain \in Orders \cup {Idle} /\ rTorn \in BOOLEAN
    /\ \A e \in rSubmitQ \cup rPlaced : e.order \in Orders
    /\ rConn = "ready" => ~rTorn
    /\ rConn = "closed" => rNextId = 0
    /\ rMain # Idle => \/ rConn = "closed"
                       \/ rConn = "ready" /\ rOnDisk[rMain] # "ABSENT"

\* Every step of the installation keeps its records.
LEMMA RoughStep == ASSUME RoughRecorded, [Rough!Next]_roughVars PROVE RoughRecorded'
<1> USE IdleAssumption DEF RoughRecorded, RoughNothingSentUnrecorded, Rough!NothingSentUnrecorded
<1>1. CASE Rough!Start
  BY <1>1 DEF Rough!Start, Rough!gwVars
<1>2. CASE Rough!Crash \/ Rough!CrashAppending
  BY <1>2 DEF Rough!Crash, Rough!CrashAppending, Rough!Dies
<1>3. CASE Rough!Connect \/ Rough!Disconnect
  BY <1>3 DEF Rough!Connect, Rough!Disconnect, Rough!Connected, Rough!diskVars, Rough!gwVars
<1>4. CASE Rough!NextValidId
  BY <1>4 DEF Rough!NextValidId, Rough!Connected, Rough!AppendNextId, Rough!gwVars
<1>5. ASSUME NEW o \in Orders, Rough!JournalAttempt(o) PROVE RoughRecorded'
  BY <1>5 DEF Rough!JournalAttempt, Rough!InSession, Rough!AppendOutcome, Rough!gwVars
<1>6. CASE Rough!RouterSubmit
  <2>1. /\ rMain # Idle /\ rMain' = Idle
        /\ UNCHANGED <<rOnDisk, rTorn, rConn, rPlaced>>
    BY <1>6 DEF Rough!RouterSubmit, Rough!diskVars, Rough!gwVars
  <2>2. CASE UNCHANGED <<rNextId, rSubmitQ>>
    BY <2>1, <2>2
  <2>3. CASE ~UNCHANGED <<rNextId, rSubmitQ>>
    <3> DEFINE e == [id |-> rNextId, order |-> rMain, run |-> rRun]
    <3>1. rNextId # 0 /\ rSubmitQ' = rSubmitQ \cup {e} /\ e.order = rMain
      BY <1>6, <2>3 DEF Rough!RouterSubmit
    <3> HIDE DEF e
    <3> QED
      BY <2>1, <3>1
  <2> QED
    BY <2>2, <2>3
<1>7. ASSUME NEW id \in rFillQ, NEW o \in Orders, Rough!PollReject(id, o) PROVE RoughRecorded'
  BY <1>7 DEF Rough!PollReject, Rough!InSession, Rough!AppendOutcome, Rough!gwVars
<1>8. ASSUME NEW id \in rFillQ, Rough!PollUnknown(id) PROVE RoughRecorded'
  BY <1>8 DEF Rough!PollUnknown, Rough!diskVars, Rough!gwVars
<1>9. ASSUME NEW e \in rSubmitQ, Rough!WriterPlaceOrder(e) \/ Rough!WriterPlaceOrderFails(e)
      PROVE  RoughRecorded'
  BY <1>9 DEF Rough!WriterPlaceOrder, Rough!WriterPlaceOrderFails, Rough!diskVars, Rough!gwVars
<1>10. ASSUME NEW e \in rPlaced, Rough!GatewayRefuse(e) \/ Rough!GatewayWarning(e)
       PROVE  RoughRecorded'
  BY <1>10 DEF Rough!GatewayRefuse, Rough!GatewayWarning, Rough!diskVars, Rough!gwVars
<1>11. CASE UNCHANGED roughVars
  BY <1>11 DEF roughVars
<1> QED
  BY <1>1, <1>2, <1>3, <1>4, <1>5, <1>6, <1>7, <1>8, <1>9, <1>10, <1>11 DEF Rough!Next, Rough!Main

\* No order reaches the writer or the gateway without a record that survives any
\* crash, for every set of orders and every combination of torn lines, reopened
\* connections, misread codes, repeated submissions and ids that start anew
\* (install_on's submit wrapper, fsync-per-record).
THEOREM RoughTheorem == MCSpec => []RoughNothingSentUnrecorded
<1>1. MCInit => RoughRecorded
  <2> SUFFICES ASSUME Rough!Init PROVE RoughRecorded
    BY DEF MCInit
  <2>1. rTorn \in BOOLEAN
    BY Zenon DEF Rough!Init
  <2> QED
    BY <2>1 DEF Rough!Init, RoughRecorded, RoughNothingSentUnrecorded, Rough!NothingSentUnrecorded
<1>2. RoughRecorded /\ [MCNext]_<<installation, vars, roughVars>> => RoughRecorded'
  <2>1. [MCNext]_<<installation, vars, roughVars>> => [Rough!Next]_roughVars
    BY DEF MCNext
  <2> QED
    BY <2>1, RoughStep
<1>3. RoughRecorded => RoughNothingSentUnrecorded
  BY DEF RoughRecorded
<1> QED
  BY <1>1, <1>2, <1>3, PTL DEF MCSpec
=============================================================================
