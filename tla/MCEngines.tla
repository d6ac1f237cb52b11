----------------------------- MODULE MCEngines -----------------------------
(***************************************************************************)
(* The parts that compute rather than wait: the promotion lifecycle, the   *)
(* regime engine and its detector, the cross-validation of a study, the    *)
(* sensors, the features and the gates, the cost of a trade, the portfolio *)
(* pipeline and the books of account.  They share no state, so one         *)
(* behaviour explores one of them, chosen at the start; the others rest in *)
(* one of their initial states.                                            *)
(***************************************************************************)
EXTENDS Promotion, Regime, CrossValidation, Gates, Costs, CrossSection, Accounts

CONSTANTS Programs, a1

(* One package of every kind exactly at the default thresholds, packages    *)
(* one step to either side of the fields the operator and the alphas        *)
(* override, a NaN, and submissions the dispatcher must refuse.             *)
RA == [kind |-> "research_acceptance", schema_valid |-> TRUE,
       determinism_replay_passed |-> TRUE, branch_coverage_pct |-> 9000,
       line_coverage_pct |-> 8000, lookahead_bias_check_passed |-> TRUE,
       fault_injection_pass_count |-> 3, fault_injection_total |-> 3,
       cost_sensitivity_passed |-> TRUE, latency_sensitivity_passed |-> TRUE]
CP == [kind |-> "cpcv", fold_count |-> 8, embargo_bars |-> 1, sharpes_len |-> 8,
       sharpes_finite |-> TRUE, sharpes_mean |-> 100, sharpes_median |-> 90,
       mean_sharpe |-> 100, median_sharpe |-> 90, p_value |-> 5, hash_ok |-> TRUE]
DS == [kind |-> "dsr", observed_sharpe |-> 150, trials_count |-> 4, skewness |-> 0,
       kurtosis |-> 300, dsr |-> 100, dsr_p_value |-> 5]
PW == [kind |-> "paper_window", trading_days |-> 5, sample_size |-> 0,
       slippage_residual_bps |-> 150, fill_rate_drift_pct |-> -1000,
       latency_ks_p |-> 10, pnl_compression_ratio |-> 60, anomalous_event_count |-> 0]
CS(hit) == [kind |-> "capital_stage", tier |-> "SMALL_CAPITAL", deployment_days |-> 10,
            pnl_compression_ratio_realised |-> 100, slippage_residual_bps |-> 250,
            hit_rate_residual_pp |-> hit, fill_rate_drift_pct |-> 1000]
QT == [kind |-> "quarantine_trigger", net_alpha_negative_days |-> 9,
       hit_rate_residual_pp |-> -1400, microstructure_metrics_breached |-> 1,
       crowding_symptoms |-> 2, pnl_compression_ratio_5d |-> 30]
RV == [kind |-> "revalidation", hypothesis_re_derived |-> TRUE,
       oos_walkforward_sharpe |-> 100, parameter_drift_resolved |-> TRUE,
       human_signoff |-> TRUE]
CV == [kind |-> "conditional_cvar", cvar_level |-> 10, horizon_bars |-> 1,
       subpopulation_size |-> 200, effective_tail_sample |-> 20, hold_cvar |-> -50,
       flatten_cvar |-> -50, cvar_delta |-> 0, cpcv_fold_count |-> 8,
       cpcv_embargo_bars |-> 1, inv12_cost_multiplier |-> 150,
       inv12_latency_multiplier |-> 200, modeled_fills |-> TRUE, path_len |-> 8,
       path_finite |-> TRUE, path_mean |-> 0]
TB == [kind |-> "turnover_bound", baseline_round_trips |-> 20,
       deferral_round_trips |-> 30, declared_max_ratio |-> 150,
       observed_ratio |-> 150, subpopulation_size |-> 20]
QF == [kind |-> "quote_freeze_backstop", quote_freeze_episodes |-> 1,
       exited_by_session_flatten |-> 1, breached_session_backstop |-> 0,
       session_flatten_bound_seconds |-> 60, max_hold_seconds_observed |-> 60]

MCSubmissions ==
  {<<RA>>, <<[RA EXCEPT !.fault_injection_total = 0]>>,
   <<PW, CP, DS>>, <<PW, CP>>, <<PW, DS, [CP EXCEPT !.p_value = 6]>>,
   <<[PW EXCEPT !.pnl_compression_ratio = NaN], CP, DS>>,
   <<CS(-500)>>, <<CS(-600)>>, <<CS(-400)>>, <<QT>>, <<QT, QT>>, <<>>,
   <<RV>>, <<CV, TB, QF>>, <<CV, TB, [QF EXCEPT !.exited_by_session_flatten = 0]>>}

None0 == [f \in {} |-> 0]

MCPlatforms ==
  {[small_max_hit_rate_residual_pp |-> -500], [dsr_mim |-> 100]}

MCManifests ==
  {[cap |-> FALSE, ov |-> None0, valid |-> TRUE],
   [cap |-> TRUE, ov |-> None0, valid |-> TRUE],
   [cap |-> FALSE, ov |-> [small_max_hit_rate_residual_pp |-> -600], valid |-> TRUE],
   [cap |-> FALSE, ov |-> [small_max_hit_rate_residual_pp |-> -400, cpcv_max_p_value |-> 6], valid |-> TRUE]}

Legacy == [schema_valid |-> TRUE, determinism_test_passed |-> TRUE,
           feature_values_finite |-> TRUE, paper_days |-> 30, paper_sharpe |-> 100,
           paper_hit_rate |-> 50, paper_max_drawdown_pct |-> 500,
           quarantine_triggers |-> 0, cost_model_validated |-> TRUE,
           revalidation_notes |-> TRUE]
MCLegacyForms == {Legacy, [Legacy EXCEPT !.paper_days = 29]}

MCBreakerRows ==
  {[n_fills |-> 30, net |-> 10, decay |-> FALSE, mean_edge_bps |-> 2, mean_cost_bps |-> 3],
   [n_fills |-> 29, net |-> -10, decay |-> TRUE, mean_edge_bps |-> 0, mean_cost_bps |-> 3]}

(* The third line may be stamped by a clock that was set back.             *)
MCClockReadings == <<{2}, {2}, {1, 3}, {3}, {3}>>

(* Five quotes, two of them of the other symbol; a locked quote comes late. *)
QuoteOf(sym, spread) ==
    [sym |-> sym, spread |-> spread, gap |-> IF spread = "locked" THEN 2 ELSE 1]
MCRegimeTapes ==
    {t \in [1 .. 5 -> {QuoteOf("x", c) : c \in {"tight", "wide", "locked"}}
                       \union {QuoteOf("y", "tight")}] :
        Cardinality({i \in 1 .. 5 : t[i].sym = "y"}) = 2 /\ t[1].sym = "x"}

(* Every sensor on the events it is written for: narrow, wide and crossed  *)
(* books, trades at, between and through them, and trades that fill many   *)
(* buckets at once.                                                        *)
QuoteAt(b, a, x, y) == [quote |-> TRUE, bid |-> b, ask |-> a, bsz |-> x, asz |-> y]
TradeAt(p, n) == [quote |-> FALSE, price |-> p, size |-> n, sweep |-> TRUE]
CrossedBook == QuoteAt(3, 2, 1, 1)
FourBooks == {QuoteAt(1, 2, 1, 1), QuoteAt(1, 3, 2, 1), QuoteAt(2, 3, 1, 3), CrossedBook}
ThreeBooks == {QuoteAt(1, 2, 1, 1), QuoteAt(2, 4, 1, 1), CrossedBook}
EmptyBook == QuoteAt(1, 2, 0, 0)
QuoteFed == {"ofi", "ofi_raw", "imbalance", "micro", "rate", "flicker", "replenish", "vol", "break",
             "spread", "stress", "snr"}
TradeFed == {"sweep", "inventory", "vpin", "hawkes", "calendar"}
BothFed == {"through", "kyle", "kyle_welford"}
MCBarLengths == {2, 3}
MCCalendar ==
    <<[id |-> 2, from |-> 1, to |-> 5, whose |-> "all", prior |-> 1],
      [id |-> 4, from |-> 2, to |-> 9, whose |-> "ours", prior |-> -1],
      [id |-> 3, from |-> 3, to |-> 4, whose |-> "others", prior |-> 1],
      [id |-> 1, from |-> 3, to |-> 5, whose |-> "ours", prior |-> -1]>>
MCQuotesOf == [k \in QuoteFed \union TradeFed \union BothFed |->
    IF k \in {"ofi_raw", "imbalance", "micro", "rate"} THEN {QuoteAt(1, 3, 2, 1), EmptyBook, CrossedBook}
    ELSE IF k \in QuoteFed THEN FourBooks ELSE IF k \in TradeFed THEN {} ELSE ThreeBooks]
MCTradesOf == [k \in DOMAIN MCQuotesOf |->
    IF k \in QuoteFed THEN {}
    ELSE IF k = "calendar" THEN {TradeAt(1, 1)}
    ELSE IF k = "vpin" THEN {TradeAt(1, 1), TradeAt(2, 2), TradeAt(1, 5), TradeAt(2, 11)}
    ELSE IF k \in TradeFed
    THEN {TradeAt(1, 1), TradeAt(2, 3), TradeAt(2, 0), [TradeAt(3, 1) EXCEPT !.sweep = FALSE]}
    ELSE {TradeAt(2, 1), TradeAt(3, 2)}]

(* Tight and wide books, thin and empty touches. *)
MCTariffs == [floor : {0, 3}, stress : {1, 2}, htb : {0, 300}, split : BOOLEAN, within : {0, 5}]
MCNBBOs == [bid : {1000}, ask : {1001, 1004}, bsz : {0, 100, 200}, asz : {100, 200}]

(* Two feeders and an exit-only one over three symbols. *)
Forecasts == {[dir |-> 1, edge |-> 1, old |-> FALSE], [dir |-> 1, edge |-> 3, old |-> TRUE],
              [dir |-> -1, edge |-> 2, old |-> FALSE]}
Stale == [dir |-> 1, edge |-> 3, old |-> TRUE]
Bearish == [dir |-> -1, edge |-> 2, old |-> FALSE]
MCFamilyOf == [f \in {"kyle", "inventory", "stress"} |->
    IF f = "kyle" THEN "KYLE_INFO" ELSE IF f = "inventory" THEN "INVENTORY" ELSE "LIQUIDITY_STRESS"]
MCExitOnly == {"LIQUIDITY_STRESS"}
Rows == UNION {[F -> Forecasts] : F \in SUBSET {"kyle", "inventory"}}
FewRows == {<<>>, [f \in {"kyle", "inventory"} |-> IF f = "kyle" THEN Stale ELSE Bearish],
            [f \in {"inventory"} |-> Stale], [f \in {"kyle"} |-> Bearish],
            [f \in {"stress"} |-> Bearish]}
MCContexts == {c \in [Universe -> Rows \union FewRows] :
                  c["s1"] \in FewRows /\ c["s2"] \in Rows /\ c["s3"] \in FewRows}

Plain == [caps |-> <<>>, cap |-> 60, consumes |-> {"KYLE_INFO", "INVENTORY", "LIQUIDITY_STRESS"},
          decay |-> TRUE, loads |-> [s \in Universe |-> 0], sectors |-> <<>>,
          budget |-> 1000, name |-> 400, solver |-> FALSE]
MCFunds ==
  {Plain, [Plain EXCEPT !.caps = [m \in {"KYLE_INFO"} |-> 40], !.cap = 90],
   [Plain EXCEPT !.loads = [s \in Universe |-> IF s = "s1" THEN 2 ELSE 1], !.decay = FALSE],
   [Plain EXCEPT !.sectors = [s \in {"s1", "s2"} |-> "tech"], !.consumes = {"KYLE_INFO"}, !.cap = 100],
   [Plain EXCEPT !.sectors = [s \in Universe |-> "tech"], !.name = 300],
   [Plain EXCEPT !.budget = 1001, !.name = 600]}
MCSolverFunds == {[Plain EXCEPT !.solver = TRUE]}
MCAnswers == {-800, -601, -599, 0, 599, 601, 800}
MCAllFunds == MCFunds \union MCSolverFunds

(* Conditions on the regime, on features and on a sensor; some that fail,  *)
(* and blocks that must not load.                                          *)
Leaf(n) == [op |-> "name", args |-> <<>>, id |-> n]
Const(n) == [op |-> "constant", args |-> <<>>, value |-> Number(n)]
Call(op, args) == [op |-> op, args |-> args]
Compared(l, op, r) == [op |-> "compare", args |-> <<l, r>>, ops |-> <<op>>]
P(state) == Call("P", <<Leaf(state)>>)
Calm == Compared(P("normal"), ">", Call("+", <<Const(50), Leaf("margin")>>))
InNormal == Compared(Leaf("dominant"), "==", [Const(0) EXCEPT !.value = Text("normal")])
Flow == Compared(Leaf("ofi"), ">", Const(100))
Deviates == Compared(Leaf("ofi_zscore"), ">=", Leaf("entry"))
Between == [op |-> "compare", args |-> <<Const(0), Leaf("spread"), Const(200)>>, ops |-> <<"<", "<">>]
Conditions ==
    {Calm, Flow, Deviates, Between, Compared(Leaf("dominant"), ">", Const(100)),
     Compared(Leaf("entropy"), "<", Leaf("p40")), Compared(Call("/", <<Const(100), Leaf("ofi")>>), "<", Const(100)),
     Compared(Call("max", <<Leaf("ofi"), Leaf("p101")>>), ">", Const(100)),
     Call("or", <<Flow, InNormal>>), Call("or", <<InNormal, Flow>>), Call("and", <<Between, Deviates>>)}
Manifest(on, off) ==
    [on |-> on, off |-> off, margins |-> [n \in {"margin"} \intersect NamesOf(Nodes(on)) |-> 5],
     parameters |-> [entry |-> Number(150), mode |-> Text("fast")], engine |-> "any", reads |-> {"spread_z"}]
MCGateBlocks ==
    {Manifest(on, Call("not", <<InNormal>>)) : on \in Conditions}
    \union {Manifest(on, Compared(Leaf("ofi"), "<=", Const(0))) : on \in {Calm, Between, Deviates}}
    \union {[Manifest(Calm, Call("not", <<Between>>)) EXCEPT !.engine = "second"],
            Manifest(Call("P", <<Const(1)>>), Flow), Manifest(Call("eval", <<>>), Flow),
            Manifest(Flow, Compared(Leaf("mode"), "==", Const(0))), Manifest(P("unheard"), Flow),
            [Manifest(Flow, Flow) EXCEPT !.margins = [margin |-> 5]],
            [Manifest(Flow, Flow) EXCEPT !.parameters = [ofi |-> Number(0)]]}
MCLiterals == [p40 |-> 40, p101 |-> 101]
MCFeatureSensor == [ofi |-> "ofi", ofi_zscore |-> "ofi", spread_z |-> "spread"]
Feature(v) == [warm |-> TRUE, stale |-> FALSE, value |-> v]
NotWarm == [warm |-> FALSE, stale |-> FALSE, value |-> 0]
Shot(f, z, s) == [ofi |-> f, ofi_zscore |-> z, spread_z |-> s]
Aged == [Feature(200) EXCEPT !.stale = TRUE]
MCSnapshots ==
    {Shot(f, z, Feature(0)) : f \in {Feature(0), Feature(200), Aged, NotWarm}, z \in {Feature(150), NotWarm}}
    \union {Shot(Feature(200), [Feature(150) EXCEPT !.stale = TRUE], Feature(0))}
    \union {Shot(f, Feature(150), Aged) : f \in {Feature(200), NotWarm}}
MCSensorCaches == {<<>>, [ofi |-> 200, spread |-> 100]}
RegimeOf(name, at, normal) ==
    [engine |-> name, at |-> at, calibrated |-> TRUE, separation |-> 100, entropy |-> 30,
     posteriors |-> [normal |-> normal, breakout |-> 100 - normal],
     dominant |-> IF normal > 50 THEN "normal" ELSE "breakout"]
MCRegimeCaches ==
    {<<>>, <<RegimeOf("first", 1, 60)>>, <<[RegimeOf("first", 1, 60) EXCEPT !.calibrated = FALSE]>>,
     <<RegimeOf("first", 1, 20), [RegimeOf("second", 1, 80) EXCEPT !.separation = 10]>>,
     <<RegimeOf("first", 1, 80), RegimeOf("second", 2, 20)>>}

(* A signed share of one side or of both; what fills cost and books quote. *)
MCSamples == {[pos |-> 0, neg |-> 0], [pos |-> 1, neg |-> 0], [pos |-> 1, neg |-> 2]}
MCDeals == {[price |-> 10, fee |-> 1], [price |-> 13, fee |-> 0]}
MCAccountQuotes == {[bid |-> 9, ask |-> 11], [bid |-> 0, ask |-> 12]}
MCStrategyOrder == <<"A", "B">>

-----------------------------------------------------------------------------
VARIABLE program

OneTape == CHOOSE t \in RegimeTapes : TRUE
OneStudy == CHOOSE s \in Studies : TRUE
OneTrade == CHOOSE t \in Trades : TRUE
OneBlock == CHOOSE g \in GateBlocks : Loads(g)
OneContext == CHOOSE c \in Contexts : TRUE

enginesVars == <<program, promotionVars, regimeVars, studyVars, sensorVars, featureVars,
                 costVars, sectionVars, accountsVars, gateVars>>

EnginesInit ==
    /\ program \in Programs
    /\ PromotionInit
    /\ tape \in IF program = "regime" THEN RegimeTapes ELSE {OneTape}
    /\ engine = NewEngine(Names(tape)) /\ kernel = NewKernel(Names(tape))
    /\ store = <<>> /\ stage = "off" /\ pos = 0 /\ runs = 0 /\ traces = <<>>
    /\ study \in IF program = "study" THEN Studies ELSE {OneStudy}
    /\ splits = <<>> /\ measured = <<>> /\ paths = {} /\ curves = {} /\ phase = "split"
    /\ sensor \in IF program = "sensors" THEN DOMAIN QuotesOf ELSE {"kyle"}
    /\ prints = <<>> /\ held = StateOf(sensor) /\ reading = Silent
    /\ feature \in IF program = "features" THEN FeatureKinds ELSE {"rolling"}
    /\ clock = 0 /\ heard = <<>> /\ win = NoWindow /\ boundary = 0 /\ value = Cold
    /\ trade \in IF program = "costs" THEN Trades ELSE {OneTrade}
    /\ deal = "signal" /\ expected = Unpriced /\ charged = 0 /\ stopped = FALSE
    /\ fund \in IF program = "portfolio" THEN Funds ELSE {Plain}
    /\ signals \in IF program = "portfolio" THEN Contexts ELSE {OneContext}
    /\ intent = NoIntent
    /\ AccountsInit
    /\ block \in IF program = "gates" THEN {g \in GateBlocks : Loads(g)} ELSE {OneBlock}
    /\ latched = FALSE /\ was = FALSE /\ seen = <<>>
    /\ raised = "nothing" /\ close = "none" /\ entering = FALSE

EnginesNext ==
    /\ UNCHANGED program
    /\ \/ /\ program = "promotion" /\ PromotionNext
          /\ UNCHANGED <<regimeVars, studyVars, sensorVars, featureVars, costVars, sectionVars, accountsVars, gateVars>>
       \/ /\ program = "regime" /\ RegimeNext
          /\ UNCHANGED <<promotionVars, studyVars, sensorVars, featureVars, costVars, sectionVars, accountsVars, gateVars>>
       \/ /\ program = "study" /\ StudyNext
          /\ UNCHANGED <<promotionVars, regimeVars, sensorVars, featureVars, costVars, sectionVars, accountsVars, gateVars>>
       \/ /\ program = "sensors" /\ SensorNext
          /\ UNCHANGED <<promotionVars, regimeVars, studyVars, featureVars, costVars, sectionVars, accountsVars, gateVars>>
       \/ /\ program = "features" /\ FeatureNext
          /\ UNCHANGED <<promotionVars, regimeVars, studyVars, sensorVars, costVars, sectionVars, accountsVars, gateVars>>
       \/ /\ program = "costs" /\ CostNext
          /\ UNCHANGED <<promotionVars, regimeVars, studyVars, sensorVars, featureVars, sectionVars, accountsVars, gateVars>>
       \/ /\ program = "portfolio" /\ SectionNext
          /\ UNCHANGED <<promotionVars, regimeVars, studyVars, sensorVars, featureVars, costVars, accountsVars, gateVars>>
       \/ /\ program = "accounts" /\ AccountsNext
          /\ UNCHANGED <<promotionVars, regimeVars, studyVars, sensorVars, featureVars, costVars, sectionVars, gateVars>>
       \/ /\ program = "gates" /\ GateNext
          /\ UNCHANGED <<promotionVars, regimeVars, studyVars, sensorVars, featureVars, costVars, sectionVars, accountsVars>>

EnginesSpec == EnginesInit /\ [][EnginesNext]_enginesVars
=============================================================================
