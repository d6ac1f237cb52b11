---------------------------- MODULE GateEvidence ----------------------------
(***************************************************************************)
(* The promotion gates of src/feelies/promotion/evidence.py: what evidence *)
(* each gate asks for, the validators, the thresholds and who may override *)
(* them.                                                                   *)
(*                                                                         *)
(* A float of the code is an integer number of hundredths, or NaN.  Every  *)
(* Python comparison with a NaN is false, so a validator that reports an   *)
(* error "if value < limit" lets a NaN pass: Below and Above keep that.  A *)
(* list of fold statistics is kept as its length, whether all its members  *)
(* are finite, and the mean and median the validator recomputes from it.   *)
(***************************************************************************)
EXTENDS Integers, FiniteSets

CONSTANT NaN          \* not-a-number (also stands for an infinity)

ASSUME NaNAssumption == NaN \notin Int

Num == Int \cup {NaN}

\* "value < limit" and "value > limit" as Python evaluates them.
Below(v, limit) == v # NaN /\ v < limit
Above(v, limit) == v # NaN /\ v > limit
AbsAbove(v, limit) == v # NaN /\ (v > limit \/ -v > limit)
IsClose(v, w) == v # NaN /\ w # NaN /\ v = w

-----------------------------------------------------------------------------
(* The evidence packages. *)

ResearchAcceptanceEvidence ==
  [kind : {"research_acceptance"}, schema_valid : BOOLEAN,
   determinism_replay_passed : BOOLEAN, branch_coverage_pct : Num,
   line_coverage_pct : Num, lookahead_bias_check_passed : BOOLEAN,
   fault_injection_pass_count : Int, fault_injection_total : Int,
   cost_sensitivity_passed : BOOLEAN, latency_sensitivity_passed : BOOLEAN]

\* sharpes_* abstract the tuple fold_sharpes; hash_ok: empty or well formed.
CPCVEvidence ==
  [kind : {"cpcv"}, fold_count : Int, embargo_bars : Int, sharpes_len : Nat,
   sharpes_finite : BOOLEAN, sharpes_mean : Int, sharpes_median : Int,
   mean_sharpe : Num, median_sharpe : Num, p_value : Num, hash_ok : BOOLEAN]

DSREvidence ==
  [kind : {"dsr"}, observed_sharpe : Num, trials_count : Int, skewness : Num,
   kurtosis : Num, dsr : Num, dsr_p_value : Num]

PaperWindowEvidence ==
  [kind : {"paper_window"}, trading_days : Int, sample_size : Int,
   slippage_residual_bps : Num, fill_rate_drift_pct : Num, latency_ks_p : Num,
   pnl_compression_ratio : Num, anomalous_event_count : Int]

CapitalStageEvidence ==
  [kind : {"capital_stage"}, tier : {"SMALL_CAPITAL", "SCALED"},
   deployment_days : Int, pnl_compression_ratio_realised : Num,
   slippage_residual_bps : Num, hit_rate_residual_pp : Num,
   fill_rate_drift_pct : Num]

QuarantineTriggerEvidence ==
  [kind : {"quarantine_trigger"}, net_alpha_negative_days : Int,
   hit_rate_residual_pp : Num, microstructure_metrics_breached : Nat,
   crowding_symptoms : Nat, pnl_compression_ratio_5d : Num]

RevalidationEvidence ==
  [kind : {"revalidation"}, hypothesis_re_derived : BOOLEAN,
   oos_walkforward_sharpe : Num, parameter_drift_resolved : BOOLEAN,
   human_signoff : BOOLEAN]

\* path_* abstract the tuple path_cvar_deltas.
ConditionalCVaREvidence ==
  [kind : {"conditional_cvar"}, cvar_level : Num, horizon_bars : Int,
   subpopulation_size : Int, effective_tail_sample : Int, hold_cvar : Num,
   flatten_cvar : Num, cvar_delta : Num, cpcv_fold_count : Int,
   cpcv_embargo_bars : Int, inv12_cost_multiplier : Num,
   inv12_latency_multiplier : Num, modeled_fills : BOOLEAN,
   path_len : Nat, path_finite : BOOLEAN, path_mean : Int]

TurnoverBoundEvidence ==
  [kind : {"turnover_bound"}, baseline_round_trips : Int,
   deferral_round_trips : Int, declared_max_ratio : Num,
   observed_ratio : Num, subpopulation_size : Int]

QuoteFreezeBackstopEvidence ==
  [kind : {"quote_freeze_backstop"}, quote_freeze_episodes : Int,
   exited_by_session_flatten : Int, breached_session_backstop : Int,
   session_flatten_bound_seconds : Num, max_hold_seconds_observed : Num]

Evidence ==
  ResearchAcceptanceEvidence \cup CPCVEvidence \cup DSREvidence
  \cup PaperWindowEvidence \cup CapitalStageEvidence
  \cup QuarantineTriggerEvidence \cup RevalidationEvidence
  \cup ConditionalCVaREvidence \cup TurnoverBoundEvidence
  \cup QuoteFreezeBackstopEvidence

-----------------------------------------------------------------------------
(* GateThresholds: the fields, their defaults and the direction in which a *)
(* change makes the gate stricter.                                         *)

MinFields ==
  {"research_min_branch_coverage_pct", "research_min_line_coverage_pct",
   "research_min_fault_injection_pass_pct", "paper_min_trading_days",
   "paper_min_sample_size", "paper_min_latency_ks_p",
   "paper_min_pnl_compression_ratio", "cpcv_min_folds",
   "cpcv_min_mean_sharpe", "cpcv_min_embargo_bars", "dsr_min",
   "small_min_deployment_days", "small_min_pnl_compression_ratio",
   "small_max_hit_rate_residual_pp", "revalidation_min_oos_sharpe",
   "decouple_cvar_min_tail_sample", "decouple_cvar_min_folds",
   "decouple_cvar_min_embargo_bars", "decouple_turnover_min_sample",
   "decouple_quote_freeze_min_episodes"}

MaxFields ==
  {"paper_max_slippage_residual_bps", "paper_max_fill_rate_drift_pct",
   "paper_max_pnl_compression_ratio", "paper_max_anomalous_events",
   "cpcv_max_p_value", "dsr_max_p_value", "small_max_pnl_compression_ratio",
   "small_max_slippage_residual_bps", "small_max_fill_rate_drift_pct",
   "decouple_cvar_max_level", "decouple_cvar_tolerance",
   "decouple_turnover_ceiling_ratio"}

FreeFields ==
  {"quarantine_max_net_alpha_negative_days",
   "quarantine_max_hit_rate_residual_pp",
   "quarantine_max_pnl_compression_ratio_5d",
   "quarantine_min_microstructure_breaches",
   "quarantine_min_crowding_symptoms"}

ThresholdFields == MinFields \cup MaxFields \cup FreeFields

Thresholds == [ThresholdFields -> Int]

\* The skill-pinned defaults (hundredths for the float fields).
GateThresholds ==
  [research_min_branch_coverage_pct |-> 9000,
   research_min_line_coverage_pct |-> 8000,
   research_min_fault_injection_pass_pct |-> 10000,
   paper_min_trading_days |-> 5, paper_min_sample_size |-> 0,
   paper_max_slippage_residual_bps |-> 150,
   paper_max_fill_rate_drift_pct |-> 1000, paper_min_latency_ks_p |-> 10,
   paper_min_pnl_compression_ratio |-> 60,
   paper_max_pnl_compression_ratio |-> 120, paper_max_anomalous_events |-> 0,
   cpcv_min_folds |-> 8, cpcv_min_mean_sharpe |-> 100, cpcv_max_p_value |-> 5,
   cpcv_min_embargo_bars |-> 1, dsr_min |-> 100, dsr_max_p_value |-> 5,
   small_min_deployment_days |-> 10, small_min_pnl_compression_ratio |-> 50,
   small_max_pnl_compression_ratio |-> 100,
   small_max_slippage_residual_bps |-> 250,
   small_max_hit_rate_residual_pp |-> -500,
   small_max_fill_rate_drift_pct |-> 1000,
   quarantine_max_net_alpha_negative_days |-> 10,
   quarantine_max_hit_rate_residual_pp |-> -1500,
   quarantine_max_pnl_compression_ratio_5d |-> 30,
   quarantine_min_microstructure_breaches |-> 2,
   quarantine_min_crowding_symptoms |-> 3,
   revalidation_min_oos_sharpe |-> 100, decouple_cvar_max_level |-> 10,
   decouple_cvar_min_tail_sample |-> 20, decouple_cvar_tolerance |-> 0,
   decouple_cvar_min_folds |-> 8, decouple_cvar_min_embargo_bars |-> 1,
   decouple_turnover_ceiling_ratio |-> 150,
   decouple_turnover_min_sample |-> 20,
   decouple_quote_freeze_min_episodes |-> 1]

\* A proposed override as parsed from YAML: a value of the declared type, or
\* something parse_gate_thresholds_overrides refuses (an unknown field, a
\* string, a bool where a number is declared).
OverridesOK(ov) ==
  /\ DOMAIN ov \subseteq ThresholdFields
  /\ \A f \in DOMAIN ov : ov[f] \in Int

apply_gate_thresholds_overrides(base, ov) ==
  [f \in DOMAIN base |-> IF f \in DOMAIN ov THEN ov[f] ELSE base[f]]

\* Mutant: the direction is taken from the max_ in the field's name.
StricterByName(f, v, floor) ==
  IF f \in MaxFields \cup {"small_max_hit_rate_residual_pp"} THEN v <= floor
  ELSE f \in MinFields => v >= floor

\* Is v at least as strict as floor for field f?
Stricter(f, v, floor) ==
  /\ f \in MinFields => v >= floor
  /\ f \in MaxFields => v <= floor

assert_per_alpha_overrides_respect_floor(floor, pinned, ov) ==
  \A f \in DOMAIN ov : f \in pinned => Stricter(f, ov[f], floor[f])

-----------------------------------------------------------------------------
(* The validators: TRUE when the code's error list is empty. *)

validate_research_acceptance(e, t) ==
  /\ e.schema_valid /\ e.determinism_replay_passed
  /\ ~Below(e.branch_coverage_pct, t.research_min_branch_coverage_pct)
  /\ ~Below(e.line_coverage_pct, t.research_min_line_coverage_pct)
  /\ e.lookahead_bias_check_passed
  /\ e.fault_injection_total > 0
  /\ 10000 * e.fault_injection_pass_count
       >= t.research_min_fault_injection_pass_pct * e.fault_injection_total
  /\ e.cost_sensitivity_passed /\ e.latency_sensitivity_passed

validate_cpcv(e, t) ==
  /\ e.fold_count >= t.cpcv_min_folds
  /\ e.fold_count > 0 => e.sharpes_len = e.fold_count
  /\ e.sharpes_len > 0 =>
       /\ e.sharpes_finite
       /\ IsClose(e.mean_sharpe, e.sharpes_mean)
       /\ IsClose(e.median_sharpe, e.sharpes_median)
  /\ ~Below(e.mean_sharpe, t.cpcv_min_mean_sharpe)
  /\ e.p_value # NaN /\ e.p_value > 0 /\ e.p_value <= 100
  /\ e.p_value <= t.cpcv_max_p_value
  /\ e.embargo_bars >= t.cpcv_min_embargo_bars
  /\ e.hash_ok

validate_dsr(e, t) ==
  /\ NaN \notin {e.observed_sharpe, e.skewness, e.kurtosis, e.dsr, e.dsr_p_value}
  /\ e.dsr_p_value >= 0 /\ e.dsr_p_value <= 100
  /\ ~Below(e.dsr, t.dsr_min)
  /\ ~Above(e.dsr_p_value, t.dsr_max_p_value)
  /\ e.trials_count > 0

validate_paper_window(e, t) ==
  /\ e.trading_days >= t.paper_min_trading_days
  /\ e.sample_size >= t.paper_min_sample_size
  /\ ~Above(e.slippage_residual_bps, t.paper_max_slippage_residual_bps)
  /\ ~AbsAbove(e.fill_rate_drift_pct, t.paper_max_fill_rate_drift_pct)
  /\ ~Below(e.latency_ks_p, t.paper_min_latency_ks_p)
  /\ ~Below(e.pnl_compression_ratio, t.paper_min_pnl_compression_ratio)
  /\ ~Above(e.pnl_compression_ratio, t.paper_max_pnl_compression_ratio)
  /\ e.anomalous_event_count <= t.paper_max_anomalous_events

validate_capital_stage(e, t) ==
  /\ e.deployment_days >= t.small_min_deployment_days
  /\ ~Below(e.pnl_compression_ratio_realised, t.small_min_pnl_compression_ratio)
  /\ ~Above(e.pnl_compression_ratio_realised, t.small_max_pnl_compression_ratio)
  /\ ~Above(e.slippage_residual_bps, t.small_max_slippage_residual_bps)
  /\ ~Below(e.hit_rate_residual_pp, t.small_max_hit_rate_residual_pp)
  /\ ~AbsAbove(e.fill_rate_drift_pct, t.small_max_fill_rate_drift_pct)
  /\ e.tier = "SMALL_CAPITAL"

\* Consistency only: the quarantine goes ahead whatever this says.
validate_quarantine_trigger(e, t) ==
  \/ e.net_alpha_negative_days >= t.quarantine_max_net_alpha_negative_days
  \/ /\ e.hit_rate_residual_pp # NaN
     /\ e.hit_rate_residual_pp <= t.quarantine_max_hit_rate_residual_pp
  \/ /\ e.pnl_compression_ratio_5d # NaN
     /\ e.pnl_compression_ratio_5d <= t.quarantine_max_pnl_compression_ratio_5d
  \/ e.microstructure_metrics_breached >= t.quarantine_min_microstructure_breaches
  \/ e.crowding_symptoms >= t.quarantine_min_crowding_symptoms

validate_revalidation(e, t) ==
  /\ e.hypothesis_re_derived
  /\ ~Below(e.oos_walkforward_sharpe, t.revalidation_min_oos_sharpe)
  /\ e.parameter_drift_resolved
  /\ e.human_signoff

\* The power of the tail is recomputed, so it cannot be claimed.
validate_conditional_cvar(e, t) ==
  /\ e.cvar_level # NaN /\ e.cvar_level > 0
  /\ e.cvar_level <= t.decouple_cvar_max_level
  /\ e.horizon_bars > 0
  /\ e.subpopulation_size >= 0 /\ e.effective_tail_sample >= 0
  /\ e.effective_tail_sample <= e.subpopulation_size
  /\ e.cvar_level <= 100 =>
       e.effective_tail_sample = (e.cvar_level * e.subpopulation_size) \div 100
  /\ NaN \notin {e.hold_cvar, e.flatten_cvar, e.cvar_delta}
  /\ e.path_finite
  /\ e.cvar_delta = e.hold_cvar - e.flatten_cvar
  /\ e.path_len > 0 => e.cvar_delta = e.path_mean
  /\ e.cpcv_fold_count > 0 => e.path_len = e.cpcv_fold_count
  /\ e.modeled_fills
  /\ ~Below(e.inv12_cost_multiplier, 150)
  /\ ~Below(e.inv12_latency_multiplier, 200)
  /\ e.effective_tail_sample >= t.decouple_cvar_min_tail_sample
  /\ e.cpcv_fold_count >= t.decouple_cvar_min_folds
  /\ e.cpcv_embargo_bars >= t.decouple_cvar_min_embargo_bars
  /\ e.cvar_delta >= -t.decouple_cvar_tolerance

validate_turnover_bound(e, t) ==
  /\ e.baseline_round_trips > 0
  /\ e.deferral_round_trips >= 0
  /\ e.subpopulation_size >= t.decouple_turnover_min_sample
  /\ ~(e.declared_max_ratio # NaN /\ e.declared_max_ratio <= 0)
  /\ ~Above(e.declared_max_ratio, t.decouple_turnover_ceiling_ratio)
  /\ e.observed_ratio # NaN
  /\ e.observed_ratio * e.baseline_round_trips = 100 * e.deferral_round_trips
  /\ e.declared_max_ratio # NaN => e.observed_ratio <= e.declared_max_ratio

validate_quote_freeze_backstop(e, t) ==
  /\ e.quote_freeze_episodes >= t.decouple_quote_freeze_min_episodes
  /\ ~(e.session_flatten_bound_seconds # NaN /\ e.session_flatten_bound_seconds <= 0)
  /\ e.breached_session_backstop <= 0
  /\ e.exited_by_session_flatten = e.quote_freeze_episodes
  /\ (NaN \notin {e.max_hold_seconds_observed, e.session_flatten_bound_seconds})
       => e.max_hold_seconds_observed <= e.session_flatten_bound_seconds

\* _EVIDENCE_REGISTRY: the validator of each kind.
Validates(e, t) ==
  CASE e.kind = "research_acceptance" -> validate_research_acceptance(e, t)
    [] e.kind = "cpcv" -> validate_cpcv(e, t)
    [] e.kind = "dsr" -> validate_dsr(e, t)
    [] e.kind = "paper_window" -> validate_paper_window(e, t)
    [] e.kind = "capital_stage" -> validate_capital_stage(e, t)
    [] e.kind = "quarantine_trigger" -> validate_quarantine_trigger(e, t)
    [] e.kind = "revalidation" -> validate_revalidation(e, t)
    [] e.kind = "conditional_cvar" -> validate_conditional_cvar(e, t)
    [] e.kind = "turnover_bound" -> validate_turnover_bound(e, t)
    [] e.kind = "quote_freeze_backstop" -> validate_quote_freeze_backstop(e, t)

-----------------------------------------------------------------------------
(* The gate matrix and its dispatcher. *)

GATE_EVIDENCE_REQUIREMENTS ==
  [research_to_paper |-> {"research_acceptance"},
   paper_to_live |-> {"paper_window", "cpcv", "dsr"},
   live_promote_capital_tier |-> {"capital_stage"},
   live_to_quarantined |-> {"quarantine_trigger"},
   quarantined_to_paper |-> {"revalidation"},
   quarantined_to_decommissioned |-> {},
   decouple_caps_only |->
     {"conditional_cvar", "turnover_bound", "quote_freeze_backstop"}]

GateId == DOMAIN GATE_EVIDENCE_REQUIREMENTS

KIND_TO_TYPE == {"research_acceptance", "cpcv", "dsr", "paper_window",
  "capital_stage", "quarantine_trigger", "revalidation", "conditional_cvar",
  "turnover_bound", "quote_freeze_backstop"}

Kinds(evs) == {evs[i].kind : i \in DOMAIN evs}

\* Neither an unsupported type nor two packages of one type.
Unambiguous(evs) ==
  /\ Kinds(evs) \subseteq KIND_TO_TYPE
  /\ \A i, j \in DOMAIN evs : evs[i].kind = evs[j].kind => i = j

\* Packages the gate does not ask for are let through unread.
validate_gate(gate, evs, t) ==
  /\ Unambiguous(evs)
  /\ GATE_EVIDENCE_REQUIREMENTS[gate] \subseteq Kinds(evs)
  /\ \A i \in DOMAIN evs :
       evs[i].kind \in GATE_EVIDENCE_REQUIREMENTS[gate] => Validates(evs[i], t)

\* The metadata of a ledger entry: whether it carries a schema version, its
\* evidence sections, and the co-keys the lifecycle adds.  evidence_to_metadata
\* raises on an ambiguous submission (callers guard with Unambiguous).
evidence_to_metadata(evs, cokeys) ==
  [version |-> TRUE, sections |-> {evs[i] : i \in DOMAIN evs}, cokeys |-> cokeys]

\* Mutant: the co-keys of the decoupling authorization are not reserved.
ReservedReasonOnly == {"reason"}

RESERVED_METADATA_KEYS == {"reason", "config_version", "authorized_by"}

\* Reading it back raises when a key is neither an evidence kind nor reserved.
MetadataReadable(md) == md.version => md.cokeys \subseteq RESERVED_METADATA_KEYS

metadata_to_evidence(md) == IF md.version THEN md.sections ELSE {}
=============================================================================
