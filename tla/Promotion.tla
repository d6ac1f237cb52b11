----------------------------- MODULE Promotion -----------------------------
(***************************************************************************)
(* The life of an alpha from research to live capital: AlphaRegistry,      *)
(* AlphaLifecycle, the promotion ledger, the circuit breaker that demotes, *)
(* and what `feelies promote` reads back from the ledger.                  *)
(*                                                                         *)
(* A transition is three steps, in the order of the state machine's        *)
(* callbacks: the ledger line is written, the revocation hook runs, the    *)
(* state is committed.  The process may die between any two of them, and   *)
(* a write may leave part of its line behind.                              *)
(***************************************************************************)
EXTENDS GateEvidence, Sequences, SequencesExt

CONSTANTS
  Alphas,       \* alpha ids
  None,         \* nothing there
  Garbled,      \* a ledger line that does not parse
  Platforms,    \* the gate_thresholds blocks platform.yaml may hold
  Manifests,    \* what an alpha's YAML may declare: [cap, ov, valid]
  Submissions,  \* the evidence sequences an operator may hand in
  LegacyForms,  \* the unstructured PromotionEvidence packages
  ClockReadings, \* [1 .. MaxLines -> what the clock may read at the n-th line]
  BreakerRows,  \* an alpha's realized edge and cost over a window of fills
  MaxLines,     \* bound: ledger lines
  MaxFaults     \* bound: crashes and failed ledger writes

VARIABLES
  up,       \* a platform has been built
  pins,     \* its gate_thresholds block
  reg,      \* [Alphas -> None or the alpha's lifecycle]
  flight,     \* None or the transition in flight
  file,     \* the lines of the ledger file, without their metadata
  torn,     \* its last line has no newline
  ckpt,     \* [Alphas -> None or a lifecycle checkpoint]
  faults,   \* crashes and failed writes so far
  mark,     \* history: readable entries of the alpha at registration
  insync    \* history: the lifecycle began where the ledger ends

promotionVars == <<up, pins, reg, flight, file, torn, ckpt, faults, mark, insync>>

State == {"RESEARCH", "PAPER", "LIVE", "QUARANTINED", "DECOMMISSIONED"}

_LIFECYCLE_TRANSITIONS ==
  [RESEARCH |-> {"PAPER"}, PAPER |-> {"LIVE"}, LIVE |-> {"LIVE", "QUARANTINED"},
   QUARANTINED |-> {"PAPER", "DECOMMISSIONED"}, DECOMMISSIONED |-> {}]

_REVOCATION_STATES == {"QUARANTINED", "DECOMMISSIONED"}

Triggers ==
  {"pass_paper_gate", "pass_live_gate", "revalidation_passed", "edge_decay_detected",
   "promote_capital_tier", "authorize_decouple_caps_only", "decommissioned"}

PromotionLedgerEntry ==
  [alpha : Alphas, from : State, to : State, trigger : Triggers, timestamp_ns : Nat]

\* A transition between its validation and its commit.
InFlight ==
  [step : {"ledger", "hook", "commit"}, rec : PromotionLedgerEntry,
   md : [version : BOOLEAN, sections : SUBSET Evidence,
         cokeys : SUBSET {"reason", "config_version", "authorized_by", "evidence"}],
   thr : Thresholds]

ASSUME PromotionAssumption ==
  /\ MaxLines \in Nat /\ MaxFaults \in Nat
  /\ None \notin Alphas \cup {"SMALL_CAPITAL", "SCALED"} /\ Garbled # None
  /\ None \notin InFlight
  /\ \A n \in 1 .. MaxLines : ClockReadings[n] \subseteq Nat
  /\ \A evs \in Submissions : evs \in Seq(Evidence)
  /\ BreakerRows \subseteq [n_fills : Int, net : Int, decay : BOOLEAN,
                           mean_edge_bps : Int, mean_cost_bps : Int]

-----------------------------------------------------------------------------
(* Capital tier: the scan of the history, newest first, up to the entry   *)
(* into LIVE; a restored lifecycle falls back on its checkpoint.          *)

LastIn(h, P(_)) ==
  LET S == {i \in DOMAIN h : P(h[i])} IN
  IF S = {} THEN 0 ELSE CHOOSE i \in S : \A j \in S : j <= i

EntersLive(r) == r.to = "LIVE" /\ r.from # "LIVE"
Escalates(r) == r.trigger = "promote_capital_tier"

\* Mutant: an escalation of an earlier stay in LIVE counts.
TierOfAnyEpoch(lc) ==
  IF lc.state # "LIVE" THEN None
  ELSE IF LastIn(lc.hist, Escalates) > 0 THEN "SCALED"
  ELSE IF lc.persisted # None THEN lc.persisted ELSE "SMALL_CAPITAL"

current_capital_tier(lc) ==
  LET e == LastIn(lc.hist, Escalates)
      l == LastIn(lc.hist, EntersLive) IN
  IF lc.state # "LIVE" THEN None
  ELSE IF e > l THEN "SCALED"
  ELSE IF l > 0 THEN "SMALL_CAPITAL"
  ELSE IF lc.persisted # None THEN lc.persisted ELSE "SMALL_CAPITAL"

-----------------------------------------------------------------------------
(* The ledger file. *)

\* PromotionLedger.append: an unterminated last line swallows the new entry.
append(f, t, rec) ==
  IF t THEN [f EXCEPT ![Len(f)] = Garbled] ELSE Append(f, rec)

\* What a write that stops part way can leave: nothing, a broken line, or the
\* whole record without its newline.
PartialAppends(f, t, rec) ==
  {<<f, t>>} \cup
  IF t THEN {<<[f EXCEPT ![Len(f)] = Garbled], TRUE>>}
  ELSE {<<Append(f, Garbled), TRUE>>, <<Append(f, rec), TRUE>>}

\* PromotionLedger.entries / _read_entries_safely: up to the first bad line.
entries(f) ==
  LET bad == {i \in DOMAIN f : f[i] = Garbled} IN
  IF bad = {} THEN f
  ELSE SubSeq(f, 1, (CHOOSE i \in bad : \A j \in bad : i <= j) - 1)

entries_for(f, a) ==
  FoldLeft(LAMBDA kept, r : IF r.alpha = a THEN Append(kept, r) ELSE kept, <<>>, entries(f))

Clean(f) == \A i \in DOMAIN f : f[i] # Garbled

-----------------------------------------------------------------------------
(* What `feelies promote` makes of the entries of one alpha. *)

_gate_for_entry(r) ==
  CASE r.from = "RESEARCH" /\ r.to = "PAPER" -> "research_to_paper"
    [] r.from = "PAPER" /\ r.to = "LIVE" -> "paper_to_live"
    [] r.from = "LIVE" /\ r.to = "QUARANTINED" -> "live_to_quarantined"
    [] r.from = "QUARANTINED" /\ r.to = "PAPER" -> "quarantined_to_paper"
    [] r.from = "QUARANTINED" /\ r.to = "DECOMMISSIONED" -> "quarantined_to_decommissioned"
    [] r.trigger = "promote_capital_tier" -> "live_promote_capital_tier"
    [] r.trigger = "authorize_decouple_caps_only" -> "decouple_caps_only"
    [] OTHER -> "none"

\* sorted(rows, key=timestamp_ns), which is stable: row k has k - 1 before it.
Before(es, i, j) ==
  \/ es[i].timestamp_ns < es[j].timestamp_ns
  \/ es[i].timestamp_ns = es[j].timestamp_ns /\ i < j

ByTime(es) ==
  [k \in DOMAIN es |->
     es[CHOOSE i \in DOMAIN es : Cardinality({j \in DOMAIN es : Before(es, j, i)}) = k - 1]]

\* Tier and state of the newest row.
TierOfRows(rows) ==
  IF rows = <<>> \/ rows[Len(rows)].to # "LIVE" THEN None
  ELSE IF LastIn(rows, Escalates) > LastIn(rows, EntersLive) THEN "SCALED"
  ELSE "SMALL_CAPITAL"

StateOfRows(rows) == IF rows = <<>> THEN "RESEARCH" ELSE rows[Len(rows)].to

_capital_tier_from_entries(es) == TierOfRows(ByTime(es))

\* _build_alpha_summaries: the state the ledger shows for the alpha.
SummaryState(es) == StateOfRows(ByTime(es))

\* _replay_one, against the default thresholds.
_replay_one(r, md) ==
  IF ~md.version \/ _gate_for_entry(r) = "none" THEN "skipped"
  ELSE IF ~MetadataReadable(md) THEN "fail"
  ELSE IF validate_gate(_gate_for_entry(r), SetToSeq(metadata_to_evidence(md)), GateThresholds)
       THEN "ok" ELSE "fail"

-----------------------------------------------------------------------------
(* Building the platform and registering alphas. *)

PlatformThresholds == apply_gate_thresholds_overrides(GateThresholds, pins)

PromotionInit ==
  /\ up = FALSE /\ pins = <<>>
  /\ reg = [a \in Alphas |-> None] /\ flight = None
  /\ file = <<>> /\ torn = FALSE
  /\ ckpt = [a \in Alphas |-> None]
  /\ faults = 0
  /\ mark = [a \in Alphas |-> 0]
  /\ insync = [a \in Alphas |-> FALSE]

\* build_platform: a bad gate_thresholds block refuses the build.
Build(p) ==
  /\ ~up /\ OverridesOK(p)
  /\ up' = TRUE /\ pins' = p
  /\ UNCHANGED <<reg, flight, file, torn, ckpt, faults, mark, insync>>

\* AlphaRegistry.register: nothing is changed unless every check passes.
register(a, m) ==
  /\ up /\ flight = None
  /\ reg[a] = None
  /\ m.valid /\ OverridesOK(m.ov)
  /\ assert_per_alpha_overrides_respect_floor(PlatformThresholds, DOMAIN pins, m.ov)
  /\ reg' = [reg EXCEPT ![a] =
       [cap |-> m.cap, thr |-> apply_gate_thresholds_overrides(PlatformThresholds, m.ov),
        state |-> "RESEARCH", hist |-> <<>>, persisted |-> None]]
  /\ mark' = [mark EXCEPT ![a] = Len(entries_for(file, a))]
  /\ insync' = [insync EXCEPT ![a] = Len(entries_for(file, a)) = 0]
  /\ UNCHANGED <<up, pins, flight, file, torn, ckpt, faults>>

unregister(a) ==
  /\ up /\ flight = None /\ reg[a] # None
  /\ reg' = [reg EXCEPT ![a] = None]
  /\ UNCHANGED <<up, pins, flight, file, torn, ckpt, faults, mark, insync>>

-----------------------------------------------------------------------------
(* Transitions. *)

Registered(a) == up /\ flight = None /\ reg[a] # None

CapAllows(lc, target) == ~(lc.cap /\ target \in {"PAPER", "LIVE"})

\* StateMachine.transition up to its first callback.  The wall clock may step
\* back and a simulated clock starts at 0 in every process.
Begin(a, target, trigger, md) ==
  /\ target \in _LIFECYCLE_TRANSITIONS[reg[a].state]
  /\ Len(file) < MaxLines
  /\ \E now \in ClockReadings[Len(file) + 1] :
       flight' = [step |-> "ledger",
                  rec |-> [alpha |-> a, from |-> reg[a].state, to |-> target,
                           trigger |-> trigger, timestamp_ns |-> now],
                  md |-> md, thr |-> reg[a].thr]
  /\ UNCHANGED <<up, pins, reg, file, torn, ckpt, faults, mark, insync>>

\* The promotion AlphaRegistry.promote picks for the state the alpha is in.
NextGate(s) ==
  CASE s = "RESEARCH" -> <<"research_to_paper", "PAPER", "pass_paper_gate">>
    [] s = "PAPER" -> <<"paper_to_live", "LIVE", "pass_live_gate">>
    [] s = "QUARANTINED" -> <<"quarantined_to_paper", "PAPER", "revalidation_passed">>
    [] OTHER -> <<"none", "none", "none">>

\* promote with structured evidence.
promote(a, evs) ==
  /\ Registered(a)
  /\ LET g == NextGate(reg[a].state) IN
     /\ g[1] # "none"
     /\ CapAllows(reg[a], g[2])
     /\ validate_gate(g[1], evs, reg[a].thr)
     /\ Begin(a, g[2], g[3], evidence_to_metadata(evs, {}))

check_paper_gate(e) == e.schema_valid /\ e.determinism_test_passed /\ e.feature_values_finite

check_live_gate(e) ==
  /\ e.paper_days >= 30
  /\ ~Below(e.paper_sharpe, 100)
  /\ ~Below(e.paper_hit_rate, 50)
  /\ ~Above(e.paper_max_drawdown_pct, 500)
  /\ e.quarantine_triggers <= 0
  /\ e.cost_model_validated

check_revalidation_gate(e) == e.determinism_test_passed /\ e.revalidation_notes

\* promote with the unstructured package, which the thresholds do not touch.
promote_legacy(a, e) ==
  /\ Registered(a)
  /\ LET g == NextGate(reg[a].state) IN
     /\ g[1] # "none"
     /\ CapAllows(reg[a], g[2])
     /\ CASE g[1] = "research_to_paper" -> check_paper_gate(e)
          [] g[1] = "paper_to_live" -> check_live_gate(e)
          [] OTHER -> check_revalidation_gate(e)
     /\ Begin(a, g[2], g[3], [version |-> FALSE, sections |-> {}, cokeys |-> {"evidence"}])

promote_capital_tier(a, evs) ==
  /\ Registered(a) /\ Len(evs) = 1
  /\ reg[a].state = "LIVE" /\ current_capital_tier(reg[a]) # "SCALED"
  /\ validate_gate("live_promote_capital_tier", evs, reg[a].thr)
  /\ Begin(a, "LIVE", "promote_capital_tier", evidence_to_metadata(evs, {}))

authorize_decouple(a, evs) ==
  /\ Registered(a) /\ reg[a].state = "LIVE"
  /\ validate_gate("decouple_caps_only", evs, reg[a].thr)
  /\ Begin(a, "LIVE", "authorize_decouple_caps_only",
           evidence_to_metadata(evs, {"config_version", "authorized_by"}))

\* quarantine: the validator only warns, but evidence_to_metadata raises on an
\* ambiguous submission and the demotion is then not attempted.
quarantine(a, evs) ==
  /\ Registered(a)
  /\ Unambiguous(evs)
  /\ Begin(a, "QUARANTINED", "edge_decay_detected", evidence_to_metadata(evs, {"reason"}))

decommission(a) ==
  /\ Registered(a)
  /\ Begin(a, "DECOMMISSIONED", "decommissioned",
           [version |-> FALSE, sections |-> {}, cokeys |-> {"reason"}])

-----------------------------------------------------------------------------
(* The circuit breaker: an alpha whose realized edge does not pay its cost *)
(* is recommended for quarantine.  margin is mean_edge / mean_cost.        *)

evaluate_cost_circuit_breaker(row) ==
  IF row.n_fills < 30 THEN "INSUFFICIENT_EVIDENCE"
  ELSE IF row.net <= 0 THEN "QUARANTINE"
  ELSE IF row.decay THEN "QUARANTINE"
  ELSE IF row.mean_cost_bps > 0 /\ row.mean_edge_bps < row.mean_cost_bps THEN "QUARANTINE"
  ELSE IF row.mean_cost_bps > 0 /\ 2 * row.mean_edge_bps < 3 * row.mean_cost_bps THEN "WATCH"
  ELSE "OK"

\* compression: the margin in hundredths, 1.0 when there is no cost to divide by.
_recommendation_to_quarantine_evidence(row) ==
  LET pays == row.mean_cost_bps > 0 IN
  [kind |-> "quarantine_trigger", net_alpha_negative_days |-> 0,
   hit_rate_residual_pp |-> 0, microstructure_metrics_breached |-> 0,
   crowding_symptoms |->
     Cardinality({x \in {"net", "edge", "decay"} :
       \/ x = "net" /\ row.net <= 0
       \/ x = "edge" /\ pays /\ row.mean_edge_bps < row.mean_cost_bps
       \/ x = "decay" /\ row.decay}),
   pnl_compression_ratio_5d |->
     IF ~pays THEN 100
     ELSE IF row.mean_edge_bps <= 0 THEN 0
     ELSE (100 * row.mean_edge_bps) \div row.mean_cost_bps]

apply_recommendation(a, row) ==
  /\ evaluate_cost_circuit_breaker(row) = "QUARANTINE"
  /\ Registered(a) /\ reg[a].state = "LIVE"
  /\ quarantine(a, <<_recommendation_to_quarantine_evidence(row)>>)

-----------------------------------------------------------------------------
(* The callbacks of the transition in flight, then its commit. *)

\* _record_to_ledger.
RecordToLedger ==
  /\ flight # None /\ flight.step = "ledger"
  /\ file' = append(file, torn, flight.rec)
  /\ torn' = FALSE
  /\ flight' = [flight EXCEPT !.step = "hook"]
  /\ UNCHANGED <<up, pins, reg, ckpt, faults, mark, insync>>

\* The write raises: the transition is rolled back.
LedgerWriteFails ==
  /\ flight # None /\ flight.step = "ledger"
  /\ faults < MaxFaults /\ faults' = faults + 1
  /\ \E ft \in PartialAppends(file, torn, flight.rec) : file' = ft[1] /\ torn' = ft[2]
  /\ flight' = None
  /\ UNCHANGED <<up, pins, reg, ckpt, mark, insync>>

\* Mutant: a hook that raises rolls the transition back.
HookRollsBack ==
  /\ flight # None /\ flight.step = "hook"
  /\ flight' = None \/ flight' = [flight EXCEPT !.step = "commit"]
  /\ UNCHANGED <<up, pins, reg, file, torn, ckpt, faults, mark, insync>>

\* _maybe_fire_revocation_hook: a flatten that raises is logged and swallowed,
\* so a demotion always goes on to its commit.
FireRevocationHook ==
  /\ flight # None /\ flight.step = "hook"
  /\ flight' = [flight EXCEPT !.step = "commit"]
  /\ UNCHANGED <<up, pins, reg, file, torn, ckpt, faults, mark, insync>>

Commit ==
  /\ flight # None /\ flight.step = "commit"
  /\ LET a == flight.rec.alpha IN
     reg' = [reg EXCEPT ![a].state = flight.rec.to, ![a].hist = Append(@, flight.rec)]
  /\ flight' = None
  /\ UNCHANGED <<up, pins, file, torn, ckpt, faults, mark, insync>>

-----------------------------------------------------------------------------
(* Checkpoint, restore, and the death of the process. *)

checkpoint(a) ==
  /\ Registered(a)
  /\ ckpt' = [ckpt EXCEPT ![a] =
       [state |-> reg[a].state, tier |-> current_capital_tier(reg[a]),
        at |-> IF insync[a] THEN Len(entries_for(file, a)) ELSE -1]]
  /\ UNCHANGED <<up, pins, reg, flight, file, torn, faults, mark, insync>>

\* Mutant: a checkpoint is believed whatever the manifest says now.
RestoreUncapped(a) ==
  /\ Registered(a) /\ reg[a].hist = <<>> /\ ckpt[a] # None
  /\ reg' = [reg EXCEPT ![a].state = ckpt[a].state, ![a].persisted = ckpt[a].tier]
  /\ insync' = [insync EXCEPT ![a] = ckpt[a].at = Len(entries_for(file, a))]
  /\ UNCHANGED <<up, pins, flight, file, torn, ckpt, faults, mark>>

\* restore, on the lifecycle a restarted process has just registered.
restore(a) ==
  /\ Registered(a) /\ reg[a].hist = <<>> /\ ckpt[a] # None
  /\ CapAllows(reg[a], ckpt[a].state)
  /\ reg' = [reg EXCEPT ![a].state = ckpt[a].state, ![a].persisted = ckpt[a].tier]
  /\ insync' = [insync EXCEPT ![a] = ckpt[a].at = Len(entries_for(file, a))]
  /\ UNCHANGED <<up, pins, flight, file, torn, ckpt, faults, mark>>

Crash ==
  /\ up /\ faults < MaxFaults
  /\ \/ /\ flight # None /\ flight.step = "ledger"
        /\ \E ft \in PartialAppends(file, torn, flight.rec) : file' = ft[1] /\ torn' = ft[2]
     \/ UNCHANGED <<file, torn>>
  /\ up' = FALSE /\ pins' = <<>> /\ flight' = None
  /\ reg' = [a \in Alphas |-> None]
  /\ faults' = faults + 1
  /\ UNCHANGED <<ckpt, mark, insync>>

PromotionNext ==
  \/ \E p \in Platforms : Build(p)
  \/ \E a \in Alphas :
       \/ \E m \in Manifests : register(a, m)
       \/ unregister(a)
       \/ \E evs \in Submissions :
            promote(a, evs) \/ promote_capital_tier(a, evs)
            \/ authorize_decouple(a, evs) \/ quarantine(a, evs)
       \/ \E e \in LegacyForms : promote_legacy(a, e)
       \/ decommission(a)
       \/ \E row \in BreakerRows : apply_recommendation(a, row)
       \/ checkpoint(a) \/ restore(a)
  \/ RecordToLedger \/ LedgerWriteFails \/ FireRevocationHook \/ Commit \/ Crash

PromotionSpec == PromotionInit /\ [][PromotionNext]_promotionVars

-----------------------------------------------------------------------------
(* Properties. *)

\* While no line was lost, the readable entries of an alpha since it was
\* registered are exactly its committed transitions, in order, plus the one
\* that is between its ledger write and its commit: a hook that fails never
\* leaves a recorded demotion uncommitted (lifecycle.py, "demotion commits"),
\* and nothing is committed unrecorded.
LedgerTellsHistory ==
  (Clean(file) /\ ~torn) =>
    \A a \in Alphas : reg[a] # None =>
      LET es == entries_for(file, a)
          open == IF flight # None /\ flight.rec.alpha = a /\ flight.step # "ledger"
                  THEN <<flight.rec>> ELSE <<>>
      IN SubSeq(es, mark[a] + 1, Len(es)) = reg[a].hist \o open

\* "so a ledger replay agrees with the live state machine" (cli/promote.py):
\* for a lifecycle that began where the ledger ends, or was restored from a
\* checkpoint as recent as the ledger, the state and the capital tier the
\* command line shows are those of the process, though the process may have
\* only its checkpoint to go by.  The command line sorts by timestamp, so this
\* is so as long as the clocks that stamped the entries never stepped back.
InOrder(es) ==
  \A i, j \in DOMAIN es : i < j => es[i].timestamp_ns <= es[j].timestamp_ns

LedgerAgreesOnTier ==
  (Clean(file) /\ ~torn /\ flight = None) =>
    \A a \in Alphas : (reg[a] # None /\ insync[a] /\ InOrder(entries_for(file, a))) =>
      /\ SummaryState(entries_for(file, a)) = reg[a].state
      /\ _capital_tier_from_entries(entries_for(file, a)) = current_capital_tier(reg[a])

\* Evidence that moved an alpha also passes its gate with every threshold the
\* operator pinned in platform.yaml put back to the pinned value: no per-alpha
\* override, in whichever direction its field is strict, got round a floor.
FloorsHold ==
  (flight # None /\ flight.rec.to # "QUARANTINED") =>
    \A e \in flight.md.sections :
      e.kind \in GATE_EVIDENCE_REQUIREMENTS[_gate_for_entry(flight.rec)] =>
        Validates(e, [f \in ThresholdFields |->
          IF f \in DOMAIN pins THEN pins[f] ELSE flight.thr[f]])

\* A research-only alpha is never active, neither promoted nor rehydrated from
\* a checkpoint an earlier, uncapped version of its manifest left.
ResearchCapHolds ==
  \A a \in Alphas : (reg[a] # None /\ reg[a].cap) => reg[a].state \notin {"PAPER", "LIVE"}

\* Every transition about to be recorded that was granted under thresholds no
\* looser than the defaults will replay without error: its gate is recovered
\* from the states and the trigger, and its evidence from the metadata.
ReplayAgrees ==
  (flight # None /\ flight.rec.to # "QUARANTINED") =>
    \/ \E f \in ThresholdFields : ~Stricter(f, flight.thr[f], GateThresholds[f])
    \/ _replay_one(flight.rec, flight.md) # "fail"

\* Whatever was written, torn or lost, the ledger says of an alpha what its
\* lifecycle says (in the order of its timestamps, if no clock stepped back), and
\* a gate replayed from it decides as it did; and no alpha is promoted below the
\* platform's thresholds or out of its research cap
\* (ledger.py, lifecycle.py, cli/promote.py, evidence.py, registry.py).
PromotionSound ==
    /\ LedgerTellsHistory /\ LedgerAgreesOnTier /\ ReplayAgrees
    /\ FloorsHold /\ ResearchCapHolds
=============================================================================
