---------------------------- MODULE EngineProofs ----------------------------
(***************************************************************************)
(* Proofs about what an alpha passes before it trades and what tells it    *)
(* the market it trades in.  First Promotion, for every platform, set of   *)
(* manifests, submissions and any number of crashes: the invariant relates *)
(* the registry to the transition in flight and both to the whole lines of *)
(* the ledger.  Then CrossValidation, for every series and every way to    *)
(* cut it: the invariant follows a study fold by fold.  Then Regime, for   *)
(* every tape, floor and number of runs: every departure is called once,   *)
(* and a run after a reset is the run before it.  That part bounds the     *)
(* arithmetic of the filter, relates the detector's state to the           *)
(* announcements of the run, and carries both through boot, quote,         *)
(* shutdown and reset.  Last the kernel that drives them, for both trading *)
(* modes, every set of layers and situations and any number of intents per *)
(* quote: IInv is inductive and carries the three theorems of every        *)
(* session, and what a day without exceptions adds follows.                *)
(***************************************************************************)
EXTENDS Promotion, Regime, CrossValidation, MCKernelLifecycle, FiniteSetTheorems, SequenceTheorems, TLAPS

(***************************************************************************)
(* The life of an alpha and its ledger.                                    *)
(***************************************************************************)
\* The step of entries_for, and what it keeps of the list so far.
Keep(a, kept, r) == IF r.alpha = a THEN Append(kept, r) ELSE kept
OfAlpha(a, k, kept) == kept \in Seq({r \in PromotionLedgerEntry : r.alpha = a})

Kept == INSTANCE FoldTheorems WITH Step <- Keep, Good <- OfAlpha

-----------------------------------------------------------------------------
\* Of a file with no bad line every entry is read.
LEMMA CleanIsRead ==
    ASSUME NEW f, Clean(f) PROVE entries(f) = f
  BY DEF Clean, entries

\* The entries of an alpha are a fold over the entries that are read.
LEMMA KeptIs ==
    ASSUME NEW f, NEW a PROVE entries_for(f, a) = Kept!Fold(a, <<>>, entries(f))
  BY DEF entries_for, FoldLeft, MapThenFoldSet, Keep, Kept!Fold, Kept!FoldLeft,
         Kept!MapThenFoldSet, Max, Kept!Max

\* The entries of an alpha are records of the alpha.
LEMMA EntriesOf ==
    ASSUME NEW f \in Seq(PromotionLedgerEntry), NEW a, Clean(f)
    PROVE  entries_for(f, a) \in Seq({r \in PromotionLedgerEntry : r.alpha = a})
  <1>1. OfAlpha(a, 0, <<>>)
    BY DEF OfAlpha
  <1>2. ASSUME NEW k \in 0 .. (Len(f) - 1), NEW x, OfAlpha(a, k, x)
        PROVE  OfAlpha(a, k + 1, Keep(a, x, f[k + 1]))
    <2>1. f[k + 1] \in PromotionLedgerEntry
      <3>1. k + 1 \in 1 .. Len(f)
        OBVIOUS
      <3>. QED BY <3>1
    <2>. QED BY <1>2, <2>1 DEF OfAlpha, Keep
  <1>3. OfAlpha(a, Len(f), Kept!Fold(a, <<>>, f))
    BY <1>1, <1>2, Kept!Keeps
  <1>4. entries_for(f, a) = Kept!Fold(a, <<>>, f)
    BY CleanIsRead, KeptIs
  <1>. QED BY <1>3, <1>4 DEF OfAlpha

\* A new line is the last entry of its alpha and no entry of another.
LEMMA NewLine ==
    ASSUME NEW f \in Seq(PromotionLedgerEntry), NEW rec \in PromotionLedgerEntry, NEW a,
           Clean(Append(f, rec))
    PROVE  /\ Clean(f)
           /\ entries_for(Append(f, rec), a) =
                 IF rec.alpha = a THEN Append(entries_for(f, a), rec) ELSE entries_for(f, a)
  <1>1. Clean(f)
    <2>1. \A i \in DOMAIN f : i \in DOMAIN Append(f, rec) /\ Append(f, rec)[i] = f[i]
      OBVIOUS
    <2>. QED BY <2>1 DEF Clean
  <1>2. entries_for(f, a) = Kept!Fold(a, <<>>, f)
    BY <1>1, CleanIsRead, KeptIs
  <1>3. entries_for(Append(f, rec), a) = Kept!Fold(a, <<>>, Append(f, rec))
    BY CleanIsRead, KeptIs
  <1>4. Kept!Fold(a, <<>>, Append(f, rec)) = Keep(a, Kept!Fold(a, <<>>, f), rec)
    BY Kept!OneMore
  <1>. QED BY <1>1, <1>2, <1>3, <1>4 DEF Keep

-----------------------------------------------------------------------------
\* Where the last escalation and the last entry into LIVE stand.
LastEscalation(h) == LastIn(h, Escalates)
LastEntry(h) == LastIn(h, EntersLive)

\* An empty history has neither.
LEMMA LastOfNone ==
    LastEscalation(<<>>) = 0 /\ LastEntry(<<>>) = 0
  BY DEF LastEscalation, LastEntry, LastIn

\* The largest member of a set of numbers.
LEMMA Latest ==
    ASSUME NEW n \in Nat, NEW S \in SUBSET (0 .. n), S # {}
    PROVE  \E i \in S : \A j \in S : j <= i
  <1>. DEFINE Bounds == {m \in Nat : \A y \in S : y <= m}
  <1>1. PICK m \in Bounds : \A k \in Bounds : m <= k
    <2>1. n \in Bounds
      OBVIOUS
    <2>. HIDE DEF Bounds
    <2>2. Bounds \in SUBSET Nat
      BY DEF Bounds
    <2>. QED BY <2>1, <2>2, Kept!Least
  <1>2. m \in S
    <2>1. SUFFICES ASSUME m \notin S PROVE FALSE
      OBVIOUS
    <2>2. PICK y \in S : TRUE
      OBVIOUS
    <2>3. m - 1 \in Nat
      BY <2>1, <2>2, <1>1
    <2>4. m - 1 \in Bounds
      BY <2>1, <2>3, <1>1
    <2>. QED BY <2>3, <2>4, <1>1
  <1>. QED BY <1>1, <1>2

\* One more place that counts is the last one.
At(S) == IF S = {} THEN 0 ELSE CHOOSE i \in S : \A j \in S : j <= i

\* The place found is in the set, and one added behind all others is found.
LEMMA LastPlace ==
    ASSUME NEW n \in Nat, NEW S \in SUBSET (1 .. n)
    PROVE  At(S) \in 0 .. n /\ At(S \cup {n + 1}) = n + 1
  <1>1. At(S) \in 0 .. n
    <2>1. CASE S = {}
      BY <2>1 DEF At
    <2>2. CASE S # {}
      <3>1. \E i \in S : \A j \in S : j <= i
        <4>1. S \in SUBSET (0 .. n)
          OBVIOUS
        <4>. QED BY <2>2, <4>1, Latest
      <3>2. At(S) \in S
        BY <2>2, <3>1, Zenon DEF At
      <3>3. \A i \in S : i \in 0 .. n
        OBVIOUS
      <3>. QED BY <3>2, <3>3
    <2>. QED BY <2>1, <2>2
  <1>2. At(S \cup {n + 1}) = n + 1
    <2>. DEFINE T == S \cup {n + 1}
    <2>1. T # {} /\ n + 1 \in T /\ \A j \in T : j <= n + 1 /\ j \in Int
      OBVIOUS
    <2>. HIDE DEF T
    <2>2. \E i \in T : \A j \in T : j <= i
      BY <2>1
    <2>3. At(T) \in T /\ \A j \in T : j <= At(T)
      BY <2>1, <2>2, Zenon DEF At
    <2>4. \A x \in T : (\A j \in T : j <= x) => x = n + 1
      BY <2>1
    <2>5. At(T) = n + 1
      BY <2>3, <2>4
    <2>. QED BY <2>5 DEF T
  <1>. QED BY <1>1, <1>2

\* A record moves the last escalation exactly when it is one ...
LEMMA LastEscalationGrows ==
    ASSUME NEW h \in Seq(PromotionLedgerEntry), NEW r \in PromotionLedgerEntry
    PROVE  /\ LastEscalation(h) \in 0 .. Len(h)
           /\ LastEscalation(Append(h, r)) =
                 IF Escalates(r) THEN Len(h) + 1 ELSE LastEscalation(h)
  <1>. DEFINE S(g) == {i \in DOMAIN g : Escalates(g[i])}
              more == Append(h, r)
  <1>1. \A g : LastEscalation(g) = At(S(g))
    BY DEF LastEscalation, LastIn, At
  <1>2. /\ DOMAIN h = 1 .. Len(h) /\ DOMAIN more = 1 .. (Len(h) + 1) /\ Len(h) \in Nat
        /\ more[Len(h) + 1] = r /\ \A i \in DOMAIN h : more[i] = h[i]
    OBVIOUS
  <1>. HIDE DEF more
  <1>3. S(more) = IF Escalates(r) THEN S(h) \cup {Len(h) + 1} ELSE S(h)
    BY <1>2
  <1>4. S(h) \in SUBSET (1 .. Len(h))
    BY <1>2
  <1>. HIDE DEF S
  <1>. QED BY <1>1, <1>2, <1>3, <1>4, LastPlace DEF more

\* ... and the last entry into LIVE likewise.
LEMMA LastEntryGrows ==
    ASSUME NEW h \in Seq(PromotionLedgerEntry), NEW r \in PromotionLedgerEntry
    PROVE  /\ LastEntry(h) \in 0 .. Len(h)
           /\ LastEntry(Append(h, r)) =
                 IF EntersLive(r) THEN Len(h) + 1 ELSE LastEntry(h)
  <1>. DEFINE S(g) == {i \in DOMAIN g : EntersLive(g[i])}
              more == Append(h, r)
  <1>1. \A g : LastEntry(g) = At(S(g))
    BY DEF LastEntry, LastIn, At
  <1>2. /\ DOMAIN h = 1 .. Len(h) /\ DOMAIN more = 1 .. (Len(h) + 1) /\ Len(h) \in Nat
        /\ more[Len(h) + 1] = r /\ \A i \in DOMAIN h : more[i] = h[i]
    OBVIOUS
  <1>. HIDE DEF more
  <1>3. S(more) = IF EntersLive(r) THEN S(h) \cup {Len(h) + 1} ELSE S(h)
    BY <1>2
  <1>4. S(h) \in SUBSET (1 .. Len(h))
    BY <1>2
  <1>. HIDE DEF S
  <1>. QED BY <1>1, <1>2, <1>3, <1>4, LastPlace DEF more

-----------------------------------------------------------------------------
(***************************************************************************)
(* The capital tier: the history of a lifecycle and the ledger's entries   *)
(* give the same one.                                                      *)
(***************************************************************************)
Tiers == {"SMALL_CAPITAL", "SCALED"}

\* The fields a lifecycle has.
Lifecycle(lc) ==
    /\ lc = [cap |-> lc.cap, thr |-> lc.thr, state |-> lc.state, hist |-> lc.hist,
             persisted |-> lc.persisted]
    /\ lc.state \in State /\ lc.hist \in Seq(PromotionLedgerEntry) /\ lc.persisted \in Tiers \cup {None}
    /\ lc.thr \in Thresholds

\* What the ledger says of a lifecycle is what the lifecycle says.
Agrees(es, lc) ==
    /\ StateOfRows(es) = lc.state
    /\ TierOfRows(es) = current_capital_tier(lc)

Moved(lc, r) == [lc EXCEPT !.state = r.to, !.hist = Append(@, r)]

\* A lifecycle has a tier exactly while it is LIVE.
LEMMA TierOf ==
    ASSUME NEW lc, Lifecycle(lc)
    PROVE  /\ current_capital_tier(lc) \in Tiers \cup {None}
           /\ lc.state = "LIVE" => current_capital_tier(lc) \in Tiers
           /\ lc.state # "LIVE" => current_capital_tier(lc) = None
  BY DEF Lifecycle, current_capital_tier, Tiers

\* What a commit changes of a lifecycle, and what it keeps.
LEMMA MovedIs ==
    ASSUME NEW lc, Lifecycle(lc), NEW r \in PromotionLedgerEntry
    PROVE  /\ Lifecycle(Moved(lc, r))
           /\ Moved(lc, r).state = r.to /\ Moved(lc, r).hist = Append(lc.hist, r)
           /\ Moved(lc, r).persisted = lc.persisted /\ Moved(lc, r).cap = lc.cap
           /\ Moved(lc, r).thr = lc.thr
  <1>. DEFINE one == [lc EXCEPT !.state = r.to]
              two == [one EXCEPT !.hist = Append(one.hist, r)]
  <1>1. one = [cap |-> lc.cap, thr |-> lc.thr, state |-> r.to, hist |-> lc.hist,
               persisted |-> lc.persisted]
    BY DEF Lifecycle
  <1>2. two = [cap |-> lc.cap, thr |-> lc.thr, state |-> r.to, hist |-> Append(lc.hist, r),
               persisted |-> lc.persisted]
    <2>. HIDE DEF one
    <2>. QED BY <1>1
  <1>3. Moved(lc, r) = two
    BY Zenon DEF Moved
  <1>4. r.to \in State /\ Append(lc.hist, r) \in Seq(PromotionLedgerEntry)
    BY DEF Lifecycle, PromotionLedgerEntry
  <1>. HIDE DEF two, one
  <1>. QED BY <1>2, <1>3, <1>4 DEF Lifecycle

\* A transition moves both alike.
LEMMA AgreesAfter ==
    ASSUME NEW es \in Seq(PromotionLedgerEntry), NEW lc, Lifecycle(lc),
           NEW r \in PromotionLedgerEntry, Agrees(es, lc),
           r.from = lc.state, r.to = "LIVE" /\ r.from # "LIVE" => ~Escalates(r)
    PROVE  Agrees(Append(es, r), Moved(lc, r))
  <1>. DEFINE more == Append(es, r)
              next == Moved(lc, r)
  <1>1. /\ more \in Seq(PromotionLedgerEntry) /\ Len(more) = Len(es) + 1 /\ more[Len(more)] = r /\ more # <<>>
        /\ Len(es) \in Nat
    OBVIOUS
  <1>2. next.state = r.to /\ next.hist = Append(lc.hist, r) /\ next.persisted = lc.persisted
    BY MovedIs
  <1>3. lc.hist \in Seq(PromotionLedgerEntry) /\ Len(lc.hist) \in Nat
    BY DEF Lifecycle
  <1>4. /\ LastEscalation(es) \in 0 .. Len(es) /\ LastEntry(es) \in 0 .. Len(es)
        /\ LastEscalation(more) = IF Escalates(r) THEN Len(es) + 1 ELSE LastEscalation(es)
        /\ LastEntry(more) = IF EntersLive(r) THEN Len(es) + 1 ELSE LastEntry(es)
        /\ LastEscalation(lc.hist) \in 0 .. Len(lc.hist) /\ LastEntry(lc.hist) \in 0 .. Len(lc.hist)
        /\ LastEscalation(next.hist) = IF Escalates(r) THEN Len(lc.hist) + 1 ELSE LastEscalation(lc.hist)
        /\ LastEntry(next.hist) = IF EntersLive(r) THEN Len(lc.hist) + 1 ELSE LastEntry(lc.hist)
    BY <1>2, <1>3, LastEscalationGrows, LastEntryGrows
  <1>5. /\ TierOfRows(more) =
              IF r.to # "LIVE" THEN None
              ELSE IF LastEscalation(more) > LastEntry(more) THEN "SCALED" ELSE "SMALL_CAPITAL"
        /\ current_capital_tier(next) =
              IF r.to # "LIVE" THEN None
              ELSE IF LastEscalation(next.hist) > LastEntry(next.hist) THEN "SCALED"
              ELSE IF LastEntry(next.hist) > 0 THEN "SMALL_CAPITAL"
              ELSE IF next.persisted # None THEN next.persisted ELSE "SMALL_CAPITAL"
    BY <1>1, <1>2 DEF TierOfRows, current_capital_tier, LastEscalation, LastEntry
  <1>6. /\ TierOfRows(es) =
              IF es = <<>> \/ es[Len(es)].to # "LIVE" THEN None
              ELSE IF LastEscalation(es) > LastEntry(es) THEN "SCALED" ELSE "SMALL_CAPITAL"
        /\ current_capital_tier(lc) =
              IF lc.state # "LIVE" THEN None
              ELSE IF LastEscalation(lc.hist) > LastEntry(lc.hist) THEN "SCALED"
              ELSE IF LastEntry(lc.hist) > 0 THEN "SMALL_CAPITAL"
              ELSE IF lc.persisted # None THEN lc.persisted ELSE "SMALL_CAPITAL"
    BY DEF TierOfRows, current_capital_tier, LastEscalation, LastEntry
  <1>7. StateOfRows(more) = r.to
    BY <1>1 DEF StateOfRows
  <1>8. lc.state = "LIVE" => es # <<>> /\ es[Len(es)].to = "LIVE"
    BY DEF Agrees, StateOfRows
  <1>. HIDE DEF more, next
  <1>9. TierOfRows(more) = current_capital_tier(next)
    <2>1. CASE r.to # "LIVE"
      BY <2>1, <1>5
    <2>2. CASE r.to = "LIVE" /\ r.from # "LIVE"
      <3>1. EntersLive(r) /\ ~Escalates(r)
        BY <2>2 DEF EntersLive
      <3>. QED BY <2>2, <3>1, <1>1, <1>3, <1>4, <1>5
    <2>3. CASE r.to = "LIVE" /\ r.from = "LIVE"
      <3>1. ~EntersLive(r)
        BY <2>3 DEF EntersLive
      <3>2. CASE Escalates(r)
        BY <2>3, <3>1, <3>2, <1>1, <1>3, <1>4, <1>5
      <3>3. CASE ~Escalates(r)
        <4>1. TierOfRows(es) = current_capital_tier(lc)
          BY DEF Agrees
        <4>. QED BY <2>3, <3>1, <3>3, <4>1, <1>2, <1>4, <1>5, <1>6, <1>8
      <3>. QED BY <3>2, <3>3
    <2>. QED BY <2>1, <2>2, <2>3
  <1>. QED BY <1>2, <1>7, <1>9 DEF Agrees, more, next

-----------------------------------------------------------------------------
(***************************************************************************)
(* The gates.  Evidence that passes thresholds passes looser ones: every   *)
(* validator is monotone in the direction the tables of strictness say.    *)
(***************************************************************************)
Relaxes(u, t) ==
    /\ t \in Thresholds /\ u \in Thresholds
    /\ \A f \in MinFields \cup MaxFields : Stricter(f, t[f], u[f])

\* Looser thresholds, field by field.
LEMMA Relaxed ==
    ASSUME NEW t, NEW u, Relaxes(u, t)
    PROVE  /\ \A f \in MinFields : t[f] >= u[f] /\ t[f] \in Int /\ u[f] \in Int
           /\ \A f \in MaxFields : t[f] <= u[f] /\ t[f] \in Int /\ u[f] \in Int
  BY DEF Relaxes, Stricter, Thresholds, ThresholdFields

\* Comparisons with a not-a-number are false, whatever the limit.
LEMMA Comparisons ==
    ASSUME NEW v \in Num, NEW l \in Int, NEW k \in Int
    PROVE  /\ l >= k /\ ~Below(v, l) => ~Below(v, k)
           /\ l <= k /\ ~Above(v, l) => ~Above(v, k)
           /\ l <= k /\ ~AbsAbove(v, l) => ~AbsAbove(v, k)
  BY NaNAssumption DEF Num, Below, Above, AbsAbove

\* The validators, one by one: evidence they let pass under thresholds t they
\* let pass under looser ones u.
LEMMA ResearchAcceptanceRelaxes ==
    ASSUME NEW t, NEW u, Relaxes(u, t), NEW e \in ResearchAcceptanceEvidence,
           validate_research_acceptance(e, t)
    PROVE  validate_research_acceptance(e, u)
  <1>1. /\ t.research_min_branch_coverage_pct >= u.research_min_branch_coverage_pct
        /\ t.research_min_line_coverage_pct >= u.research_min_line_coverage_pct
        /\ t.research_min_fault_injection_pass_pct >= u.research_min_fault_injection_pass_pct
    BY Relaxed DEF MinFields, MaxFields
  <1>2. /\ t.research_min_branch_coverage_pct \in Int /\ u.research_min_branch_coverage_pct \in Int
        /\ t.research_min_line_coverage_pct \in Int /\ u.research_min_line_coverage_pct \in Int
        /\ t.research_min_fault_injection_pass_pct \in Int /\ u.research_min_fault_injection_pass_pct \in Int
    BY Relaxed DEF MinFields, MaxFields
  <1>. QED BY <1>1, <1>2, Comparisons DEF ResearchAcceptanceEvidence, validate_research_acceptance

\* Folds, mean Sharpe, embargo and p-value of a cross-validation study.
LEMMA CpcvRelaxes ==
    ASSUME NEW t, NEW u, Relaxes(u, t), NEW e \in CPCVEvidence,
           validate_cpcv(e, t)
    PROVE  validate_cpcv(e, u)
  <1>1. /\ t.cpcv_min_folds >= u.cpcv_min_folds
        /\ t.cpcv_min_mean_sharpe >= u.cpcv_min_mean_sharpe
        /\ t.cpcv_min_embargo_bars >= u.cpcv_min_embargo_bars
        /\ t.cpcv_max_p_value <= u.cpcv_max_p_value
    BY Relaxed DEF MinFields, MaxFields
  <1>2. /\ t.cpcv_min_folds \in Int /\ u.cpcv_min_folds \in Int
        /\ t.cpcv_min_mean_sharpe \in Int /\ u.cpcv_min_mean_sharpe \in Int
        /\ t.cpcv_min_embargo_bars \in Int /\ u.cpcv_min_embargo_bars \in Int
        /\ t.cpcv_max_p_value \in Int /\ u.cpcv_max_p_value \in Int
    BY Relaxed DEF MinFields, MaxFields
  <1>3. e.p_value \in Int /\ e.p_value <= u.cpcv_max_p_value
    BY <1>1, <1>2 DEF CPCVEvidence, validate_cpcv, Num
  <1>. QED BY <1>1, <1>2, <1>3, Comparisons DEF CPCVEvidence, validate_cpcv

\* The deflated Sharpe ratio and its p-value.
LEMMA DsrRelaxes ==
    ASSUME NEW t, NEW u, Relaxes(u, t), NEW e \in DSREvidence,
           validate_dsr(e, t)
    PROVE  validate_dsr(e, u)
  <1>1. /\ t.dsr_min >= u.dsr_min
        /\ t.dsr_max_p_value <= u.dsr_max_p_value
    BY Relaxed DEF MinFields, MaxFields
  <1>2. /\ t.dsr_min \in Int /\ u.dsr_min \in Int
        /\ t.dsr_max_p_value \in Int /\ u.dsr_max_p_value \in Int
    BY Relaxed DEF MinFields, MaxFields
  <1>. QED BY <1>1, <1>2, Comparisons DEF DSREvidence, validate_dsr

\* The paper window, whose compression ratio has a limit on each side.
LEMMA PaperWindowRelaxes ==
    ASSUME NEW t, NEW u, Relaxes(u, t), NEW e \in PaperWindowEvidence,
           validate_paper_window(e, t)
    PROVE  validate_paper_window(e, u)
  <1>1. /\ t.paper_min_trading_days >= u.paper_min_trading_days
        /\ t.paper_min_sample_size >= u.paper_min_sample_size
        /\ t.paper_min_latency_ks_p >= u.paper_min_latency_ks_p
        /\ t.paper_min_pnl_compression_ratio >= u.paper_min_pnl_compression_ratio
        /\ t.paper_max_slippage_residual_bps <= u.paper_max_slippage_residual_bps
        /\ t.paper_max_fill_rate_drift_pct <= u.paper_max_fill_rate_drift_pct
        /\ t.paper_max_pnl_compression_ratio <= u.paper_max_pnl_compression_ratio
        /\ t.paper_max_anomalous_events <= u.paper_max_anomalous_events
    BY Relaxed DEF MinFields, MaxFields
  <1>2. /\ t.paper_min_trading_days \in Int /\ u.paper_min_trading_days \in Int
        /\ t.paper_min_sample_size \in Int /\ u.paper_min_sample_size \in Int
        /\ t.paper_min_latency_ks_p \in Int /\ u.paper_min_latency_ks_p \in Int
        /\ t.paper_min_pnl_compression_ratio \in Int /\ u.paper_min_pnl_compression_ratio \in Int
        /\ t.paper_max_slippage_residual_bps \in Int /\ u.paper_max_slippage_residual_bps \in Int
        /\ t.paper_max_fill_rate_drift_pct \in Int /\ u.paper_max_fill_rate_drift_pct \in Int
        /\ t.paper_max_pnl_compression_ratio \in Int /\ u.paper_max_pnl_compression_ratio \in Int
        /\ t.paper_max_anomalous_events \in Int /\ u.paper_max_anomalous_events \in Int
    BY Relaxed DEF MinFields, MaxFields
  <1>. QED BY <1>1, <1>2, Comparisons DEF PaperWindowEvidence, validate_paper_window

\* The small-capital stage; its residual hit rate is a minimum by another name.
LEMMA CapitalStageRelaxes ==
    ASSUME NEW t, NEW u, Relaxes(u, t), NEW e \in CapitalStageEvidence,
           validate_capital_stage(e, t)
    PROVE  validate_capital_stage(e, u)
  <1>1. /\ t.small_min_deployment_days >= u.small_min_deployment_days
        /\ t.small_min_pnl_compression_ratio >= u.small_min_pnl_compression_ratio
        /\ t.small_max_hit_rate_residual_pp >= u.small_max_hit_rate_residual_pp
        /\ t.small_max_pnl_compression_ratio <= u.small_max_pnl_compression_ratio
        /\ t.small_max_slippage_residual_bps <= u.small_max_slippage_residual_bps
        /\ t.small_max_fill_rate_drift_pct <= u.small_max_fill_rate_drift_pct
    BY Relaxed DEF MinFields, MaxFields
  <1>2. /\ t.small_min_deployment_days \in Int /\ u.small_min_deployment_days \in Int
        /\ t.small_min_pnl_compression_ratio \in Int /\ u.small_min_pnl_compression_ratio \in Int
        /\ t.small_max_hit_rate_residual_pp \in Int /\ u.small_max_hit_rate_residual_pp \in Int
        /\ t.small_max_pnl_compression_ratio \in Int /\ u.small_max_pnl_compression_ratio \in Int
        /\ t.small_max_slippage_residual_bps \in Int /\ u.small_max_slippage_residual_bps \in Int
        /\ t.small_max_fill_rate_drift_pct \in Int /\ u.small_max_fill_rate_drift_pct \in Int
    BY Relaxed DEF MinFields, MaxFields
  <1>. QED BY <1>1, <1>2, Comparisons DEF CapitalStageEvidence, validate_capital_stage

\* The revalidation after a quarantine.
LEMMA RevalidationRelaxes ==
    ASSUME NEW t, NEW u, Relaxes(u, t), NEW e \in RevalidationEvidence,
           validate_revalidation(e, t)
    PROVE  validate_revalidation(e, u)
  <1>1. /\ t.revalidation_min_oos_sharpe >= u.revalidation_min_oos_sharpe
    BY Relaxed DEF MinFields, MaxFields
  <1>2. /\ t.revalidation_min_oos_sharpe \in Int /\ u.revalidation_min_oos_sharpe \in Int
    BY Relaxed DEF MinFields, MaxFields
  <1>. QED BY <1>1, <1>2, Comparisons DEF RevalidationEvidence, validate_revalidation

\* The conditional tail loss of holding on.
LEMMA ConditionalCvarRelaxes ==
    ASSUME NEW t, NEW u, Relaxes(u, t), NEW e \in ConditionalCVaREvidence,
           validate_conditional_cvar(e, t)
    PROVE  validate_conditional_cvar(e, u)
  <1>1. /\ t.decouple_cvar_min_tail_sample >= u.decouple_cvar_min_tail_sample
        /\ t.decouple_cvar_min_folds >= u.decouple_cvar_min_folds
        /\ t.decouple_cvar_min_embargo_bars >= u.decouple_cvar_min_embargo_bars
        /\ t.decouple_cvar_max_level <= u.decouple_cvar_max_level
        /\ t.decouple_cvar_tolerance <= u.decouple_cvar_tolerance
    BY Relaxed DEF MinFields, MaxFields
  <1>2. /\ t.decouple_cvar_min_tail_sample \in Int /\ u.decouple_cvar_min_tail_sample \in Int
        /\ t.decouple_cvar_min_folds \in Int /\ u.decouple_cvar_min_folds \in Int
        /\ t.decouple_cvar_min_embargo_bars \in Int /\ u.decouple_cvar_min_embargo_bars \in Int
        /\ t.decouple_cvar_max_level \in Int /\ u.decouple_cvar_max_level \in Int
        /\ t.decouple_cvar_tolerance \in Int /\ u.decouple_cvar_tolerance \in Int
    BY Relaxed DEF MinFields, MaxFields
  <1>3. e.cvar_level \in Int /\ e.cvar_level <= u.decouple_cvar_max_level
    BY <1>1, <1>2 DEF ConditionalCVaREvidence, validate_conditional_cvar, Num
  <1>4. e.cvar_delta \in Int /\ e.cvar_delta >= -u.decouple_cvar_tolerance
    BY <1>1, <1>2 DEF ConditionalCVaREvidence, validate_conditional_cvar, Num
  <1>5. /\ e.effective_tail_sample >= u.decouple_cvar_min_tail_sample
        /\ e.cpcv_fold_count >= u.decouple_cvar_min_folds
        /\ e.cpcv_embargo_bars >= u.decouple_cvar_min_embargo_bars
    BY <1>1, <1>2 DEF ConditionalCVaREvidence, validate_conditional_cvar
  <1>. QED BY <1>3, <1>4, <1>5 DEF validate_conditional_cvar

\* The turnover of a deferral.
LEMMA TurnoverBoundRelaxes ==
    ASSUME NEW t, NEW u, Relaxes(u, t), NEW e \in TurnoverBoundEvidence,
           validate_turnover_bound(e, t)
    PROVE  validate_turnover_bound(e, u)
  <1>1. /\ t.decouple_turnover_min_sample >= u.decouple_turnover_min_sample
        /\ t.decouple_turnover_ceiling_ratio <= u.decouple_turnover_ceiling_ratio
    BY Relaxed DEF MinFields, MaxFields
  <1>2. /\ t.decouple_turnover_min_sample \in Int /\ u.decouple_turnover_min_sample \in Int
        /\ t.decouple_turnover_ceiling_ratio \in Int /\ u.decouple_turnover_ceiling_ratio \in Int
    BY Relaxed DEF MinFields, MaxFields
  <1>. QED BY <1>1, <1>2, Comparisons DEF TurnoverBoundEvidence, validate_turnover_bound

\* The episodes a frozen quote was held through.
LEMMA QuoteFreezeBackstopRelaxes ==
    ASSUME NEW t, NEW u, Relaxes(u, t), NEW e \in QuoteFreezeBackstopEvidence,
           validate_quote_freeze_backstop(e, t)
    PROVE  validate_quote_freeze_backstop(e, u)
  <1>1. /\ t.decouple_quote_freeze_min_episodes >= u.decouple_quote_freeze_min_episodes
    BY Relaxed DEF MinFields, MaxFields
  <1>2. /\ t.decouple_quote_freeze_min_episodes \in Int /\ u.decouple_quote_freeze_min_episodes \in Int
    BY Relaxed DEF MinFields, MaxFields
  <1>. QED BY <1>1, <1>2, Comparisons DEF QuoteFreezeBackstopEvidence, validate_quote_freeze_backstop
\* The package a kind names.
LEMMA KindsAre ==
    ASSUME NEW e \in Evidence
    PROVE  /\ e.kind \in KIND_TO_TYPE
           /\ e.kind = "research_acceptance" => e \in ResearchAcceptanceEvidence
           /\ e.kind = "cpcv" => e \in CPCVEvidence
           /\ e.kind = "dsr" => e \in DSREvidence
           /\ e.kind = "paper_window" => e \in PaperWindowEvidence
           /\ e.kind = "capital_stage" => e \in CapitalStageEvidence
           /\ e.kind = "revalidation" => e \in RevalidationEvidence
           /\ e.kind = "conditional_cvar" => e \in ConditionalCVaREvidence
           /\ e.kind = "turnover_bound" => e \in TurnoverBoundEvidence
           /\ e.kind = "quote_freeze_backstop" => e \in QuoteFreezeBackstopEvidence
  BY DEF Evidence, KIND_TO_TYPE, ResearchAcceptanceEvidence, CPCVEvidence, DSREvidence,
         PaperWindowEvidence, CapitalStageEvidence, RevalidationEvidence, ConditionalCVaREvidence,
         TurnoverBoundEvidence, QuoteFreezeBackstopEvidence, QuarantineTriggerEvidence

\* Whatever the kind: only a quarantine trigger, whose limits work the other
\* way, is not let pass by looser thresholds.
LEMMA EvidenceRelaxes ==
    ASSUME NEW t, NEW u, Relaxes(u, t), NEW e \in Evidence, e.kind # "quarantine_trigger",
           Validates(e, t)
    PROVE  Validates(e, u)
  <1>1. CASE e.kind = "research_acceptance"
    <2>1. \A w : Validates(e, w) <=> validate_research_acceptance(e, w)
      BY <1>1 DEF Validates
    <2>. QED BY <1>1, <2>1, KindsAre, ResearchAcceptanceRelaxes
  <1>2. CASE e.kind = "cpcv"
    <2>1. \A w : Validates(e, w) <=> validate_cpcv(e, w)
      BY <1>2 DEF Validates
    <2>. QED BY <1>2, <2>1, KindsAre, CpcvRelaxes
  <1>3. CASE e.kind = "dsr"
    <2>1. \A w : Validates(e, w) <=> validate_dsr(e, w)
      BY <1>3 DEF Validates
    <2>. QED BY <1>3, <2>1, KindsAre, DsrRelaxes
  <1>4. CASE e.kind = "paper_window"
    <2>1. \A w : Validates(e, w) <=> validate_paper_window(e, w)
      BY <1>4 DEF Validates
    <2>. QED BY <1>4, <2>1, KindsAre, PaperWindowRelaxes
  <1>5. CASE e.kind = "capital_stage"
    <2>1. \A w : Validates(e, w) <=> validate_capital_stage(e, w)
      BY <1>5 DEF Validates
    <2>. QED BY <1>5, <2>1, KindsAre, CapitalStageRelaxes
  <1>6. CASE e.kind = "revalidation"
    <2>1. \A w : Validates(e, w) <=> validate_revalidation(e, w)
      BY <1>6 DEF Validates
    <2>. QED BY <1>6, <2>1, KindsAre, RevalidationRelaxes
  <1>7. CASE e.kind = "conditional_cvar"
    <2>1. \A w : Validates(e, w) <=> validate_conditional_cvar(e, w)
      BY <1>7 DEF Validates
    <2>. QED BY <1>7, <2>1, KindsAre, ConditionalCvarRelaxes
  <1>8. CASE e.kind = "turnover_bound"
    <2>1. \A w : Validates(e, w) <=> validate_turnover_bound(e, w)
      BY <1>8 DEF Validates
    <2>. QED BY <1>8, <2>1, KindsAre, TurnoverBoundRelaxes
  <1>9. CASE e.kind = "quote_freeze_backstop"
    <2>1. \A w : Validates(e, w) <=> validate_quote_freeze_backstop(e, w)
      BY <1>9 DEF Validates
    <2>. QED BY <1>9, <2>1, KindsAre, QuoteFreezeBackstopRelaxes
  <1>. QED BY <1>1, <1>2, <1>3, <1>4, <1>5, <1>6, <1>7, <1>8, <1>9, KindsAre DEF KIND_TO_TYPE

\* A finite set in some order: every member, once.
LEMMA ListedOnce ==
    ASSUME NEW S, IsFiniteSet(S)
    PROVE  LET q == SetToSeq(S)
           IN  /\ \A i \in DOMAIN q : q[i] \in S
               /\ \A x \in S : \E i \in DOMAIN q : q[i] = x
               /\ \A i, j \in DOMAIN q : q[i] = q[j] => i = j
  <1>. DEFINE n == Cardinality(S)
              q == SetToSeq(S)
  <1>1. n \in Nat /\ IsFiniteSet(1 .. n) /\ Cardinality(1 .. n) = n
    <2>1. n \in Nat
      BY FS_CardinalityType
    <2>. HIDE DEF n
    <2>. QED BY <2>1, FS_Interval
  <1>2. ExistsBijection(1 .. n, S)
    <2>. HIDE DEF n
    <2>1. Cardinality(1 .. n) = Cardinality(S)
      BY <1>1 DEF n
    <2>. QED BY <1>1, <2>1, FS_SameCardinalityBij
  <1>3. \E f \in [1 .. n -> S] : IsInjective(f)
    <2>. HIDE DEF n
    <2>. QED BY <1>2 DEF ExistsBijection, Bijection, Injection
  <1>4. q \in [1 .. n -> S] /\ IsInjective(q)
    BY <1>3, Zenon DEF SetToSeq
  <1>. HIDE DEF q, n
  <1>5. q \in Injection(1 .. n, S)
    BY <1>4 DEF Injection
  <1>6. q \in Surjection(1 .. n, S)
    <2>1. Cardinality(1 .. n) = Cardinality(S)
      BY <1>1 DEF n
    <2>. QED BY <1>5, <2>1, FS_Injection
  <1>. QED BY <1>4, <1>6 DEF IsInjective, Surjection, q

\* What an operator hands in is finitely many packages.
LEMMA Submitted ==
    ASSUME NEW evs \in Submissions
    PROVE  /\ evs \in Seq(Evidence)
           /\ \A i \in DOMAIN evs : evs[i] \in Evidence
           /\ IsFiniteSet({evs[i] : i \in DOMAIN evs})
  <1>1. evs \in Seq(Evidence)
    BY PromotionAssumption
  <1>2. \A i \in DOMAIN evs : evs[i] \in Evidence
    BY <1>1
  <1>3. IsFiniteSet({evs[i] : i \in DOMAIN evs})
    <2>. DEFINE S == {evs[i] : i \in DOMAIN evs}
    <2>1. DOMAIN evs = 1 .. Len(evs) /\ Len(evs) \in Nat
      BY <1>1
    <2>2. IsFiniteSet(DOMAIN evs)
      BY <2>1, FS_Interval
    <2>3. evs \in Surjection(DOMAIN evs, S)
      <3>1. evs = [i \in DOMAIN evs |-> evs[i]]
        BY <1>1
      <3>. QED BY <3>1 DEF Surjection
    <2>. HIDE DEF S
    <2>4. IsFiniteSet(S)
      BY <2>2, <2>3, FS_Surjection
    <2>. QED BY <2>4 DEF S
  <1>. QED BY <1>1, <1>2, <1>3

\* The gates a promotion may have to pass ask for no quarantine trigger.
LEMMA Asked ==
    ASSUME NEW gate \in GateId, gate # "live_to_quarantined"
    PROVE  "quarantine_trigger" \notin GATE_EVIDENCE_REQUIREMENTS[gate]
  BY DEF GateId, GATE_EVIDENCE_REQUIREMENTS

\* Read back from the ledger, in whatever order, the evidence passes its gate
\* again, under thresholds no stricter than those it was granted under.
LEMMA GateReplays ==
    ASSUME NEW gate \in GateId, gate # "live_to_quarantined", NEW evs \in Submissions,
           NEW t, NEW u, Relaxes(u, t), validate_gate(gate, evs, t)
    PROVE  validate_gate(gate, SetToSeq({evs[i] : i \in DOMAIN evs}), u)
  <1>. DEFINE S == {evs[i] : i \in DOMAIN evs}
              q == SetToSeq(S)
  <1>1. /\ \A i \in DOMAIN q : q[i] \in S
        /\ \A x \in S : \E i \in DOMAIN q : q[i] = x
        /\ \A i, j \in DOMAIN q : q[i] = q[j] => i = j
    <2>1. IsFiniteSet(S)
      BY Submitted
    <2>. HIDE DEF S
    <2>. QED BY <2>1, ListedOnce
  <1>. HIDE DEF q
  <1>2. Kinds(q) = Kinds(evs)
    BY <1>1 DEF Kinds
  <1>3. Unambiguous(q)
    <2>1. ASSUME NEW i \in DOMAIN q, NEW j \in DOMAIN q, q[i].kind = q[j].kind PROVE i = j
      <3>1. PICK k \in DOMAIN evs : q[i] = evs[k]
        BY <1>1
      <3>2. PICK l \in DOMAIN evs : q[j] = evs[l]
        BY <1>1
      <3>3. k = l
        BY <2>1, <3>1, <3>2 DEF validate_gate, Unambiguous
      <3>. QED BY <1>1, <3>1, <3>2, <3>3
    <2>. QED BY <1>2, <2>1 DEF validate_gate, Unambiguous
  <1>4. ASSUME NEW i \in DOMAIN q, q[i].kind \in GATE_EVIDENCE_REQUIREMENTS[gate]
        PROVE  Validates(q[i], u)
    <2>1. PICK k \in DOMAIN evs : q[i] = evs[k]
      BY <1>1
    <2>2. evs[k] \in Evidence /\ Validates(evs[k], t)
      BY <1>4, <2>1, Submitted DEF validate_gate
    <2>3. evs[k].kind # "quarantine_trigger"
      BY <1>4, <2>1, Asked
    <2>. QED BY <2>1, <2>2, <2>3, EvidenceRelaxes
  <1>. QED BY <1>2, <1>3, <1>4 DEF validate_gate, q, S

-----------------------------------------------------------------------------
\* The defaults, and what overrides make of thresholds.
LEMMA Defaults == GateThresholds \in Thresholds
  <1>1. DOMAIN GateThresholds = ThresholdFields
    BY DEF GateThresholds, ThresholdFields, MinFields, MaxFields, FreeFields
  <1>2. \A f \in ThresholdFields : GateThresholds[f] \in Int
    BY DEF GateThresholds, ThresholdFields, MinFields, MaxFields, FreeFields
  <1>3. GateThresholds = [f \in DOMAIN GateThresholds |-> GateThresholds[f]]
    BY DEF GateThresholds
  <1>. QED BY <1>1, <1>2, <1>3 DEF Thresholds

\* A block of overrides replaces the fields it names.
LEMMA Overridden ==
    ASSUME NEW base \in Thresholds, NEW ov, OverridesOK(ov)
    PROVE  /\ apply_gate_thresholds_overrides(base, ov) \in Thresholds
           /\ \A f \in ThresholdFields : apply_gate_thresholds_overrides(base, ov)[f] =
                  IF f \in DOMAIN ov THEN ov[f] ELSE base[f]
  BY DEF OverridesOK, apply_gate_thresholds_overrides, Thresholds

\* Thresholds no looser than those the operator pinned.
Respects(t, pinned) ==
    /\ t \in Thresholds
    /\ \A f \in DOMAIN pinned : Stricter(f, t[f], pinned[f])

\* A registration that passes the floor check leaves thresholds no looser than
\* the pinned ones.
LEMMA RegisteredRespects ==
    ASSUME OverridesOK(pins), NEW ov, OverridesOK(ov),
           assert_per_alpha_overrides_respect_floor(PlatformThresholds, DOMAIN pins, ov)
    PROVE  Respects(apply_gate_thresholds_overrides(PlatformThresholds, ov), pins)
  <1>. DEFINE t == apply_gate_thresholds_overrides(PlatformThresholds, ov)
  <1>1. /\ PlatformThresholds \in Thresholds
        /\ \A f \in ThresholdFields : PlatformThresholds[f] =
              IF f \in DOMAIN pins THEN pins[f] ELSE GateThresholds[f]
    BY Defaults, Overridden DEF PlatformThresholds
  <1>. HIDE DEF PlatformThresholds
  <1>2. /\ t \in Thresholds
        /\ \A f \in ThresholdFields : t[f] = IF f \in DOMAIN ov THEN ov[f] ELSE PlatformThresholds[f]
    BY <1>1, Overridden
  <1>. HIDE DEF t
  <1>3. ASSUME NEW f \in DOMAIN pins PROVE Stricter(f, t[f], pins[f])
    <2>1. f \in ThresholdFields /\ pins[f] \in Int /\ PlatformThresholds[f] = pins[f]
      BY <1>1, <1>3 DEF OverridesOK
    <2>2. CASE f \in DOMAIN ov
      <3>1. Stricter(f, ov[f], PlatformThresholds[f]) /\ t[f] = ov[f]
        BY <1>2, <1>3, <2>1, <2>2 DEF assert_per_alpha_overrides_respect_floor
      <3>. QED BY <2>1, <3>1
    <2>3. CASE f \notin DOMAIN ov
      <3>1. t[f] = pins[f]
        BY <1>2, <2>1, <2>3
      <3>. QED BY <2>1, <3>1 DEF Stricter
    <2>. QED BY <2>2, <2>3
  <1>. QED BY <1>2, <1>3 DEF Respects, t

\* Put back to the pinned values, such thresholds are looser.
LEMMA PinnedRelaxes ==
    ASSUME NEW t, OverridesOK(pins), Respects(t, pins)
    PROVE  Relaxes([f \in ThresholdFields |-> IF f \in DOMAIN pins THEN pins[f] ELSE t[f]], t)
  <1>. DEFINE u == [f \in ThresholdFields |-> IF f \in DOMAIN pins THEN pins[f] ELSE t[f]]
  <1>1. t \in Thresholds /\ u \in Thresholds
    BY DEF Respects, Thresholds, OverridesOK
  <1>2. ASSUME NEW f \in MinFields \cup MaxFields PROVE Stricter(f, t[f], u[f])
    <2>1. f \in ThresholdFields /\ t[f] \in Int
      BY <1>1 DEF Thresholds, ThresholdFields
    <2>2. CASE f \in DOMAIN pins
      BY <2>1, <2>2 DEF Respects
    <2>3. CASE f \notin DOMAIN pins
      BY <2>1, <2>3 DEF Stricter
    <2>. QED BY <2>2, <2>3
  <1>. HIDE DEF u
  <1>3. Relaxes(u, t)
    BY <1>1, <1>2 DEF Relaxes
  <1>. QED BY <1>3 DEF u
-----------------------------------------------------------------------------
(***************************************************************************)
(* The inductive invariant.                                                *)
(***************************************************************************)
Gate(rec) == _gate_for_entry(rec)

\* Why the transition in flight was let through.
Granted(p) ==
    p.rec.to # "QUARANTINED" =>
        /\ Gate(p.rec) \in GateId \ {"live_to_quarantined"}
        /\ \/ ~p.md.version /\ p.md.sections = {}
           \/ /\ p.md.version /\ p.md.cokeys \subseteq RESERVED_METADATA_KEYS
              /\ \E evs \in Submissions :
                    /\ p.md.sections = {evs[i] : i \in DOMAIN evs}
                    /\ validate_gate(Gate(p.rec), evs, p.thr)

Checkpointed(c) ==
    /\ c = [state |-> c.state, tier |-> c.tier, at |-> c.at]
    /\ c.state \in State
    /\ c.state = "LIVE" => c.tier \in Tiers
    /\ c.state # "LIVE" => c.tier = None

\* The transition in flight has its line in the ledger.
Recorded(a) == flight # None /\ flight.rec.alpha = a /\ flight.step # "ledger"

\* Entries es hold, after the first m, the history h, and rec when open.
Tells(es, m, h, open, rec) ==
    /\ m \in Nat
    /\ Len(es) = m + Len(h) + IF open THEN 1 ELSE 0
    /\ \A i \in 1 .. Len(h) : es[m + i] = h[i]
    /\ open => es[Len(es)] = rec

Known(es, c) ==
    /\ c.at \in Int /\ c.at <= Len(es)
    /\ c.at = Len(es) => StateOfRows(es) = c.state /\ TierOfRows(es) = c.tier

LedgerOf(a) ==
    LET es == entries_for(file, a)
    IN  /\ reg[a] # None => Tells(es, mark[a], reg[a].hist, Recorded(a), flight.rec)
        /\ reg[a] # None /\ insync[a] /\ ~Recorded(a) => Agrees(es, reg[a])
        /\ reg[a] # None /\ insync[a] /\ Recorded(a) =>
              \E told \in Seq(PromotionLedgerEntry) :
                  es = Append(told, flight.rec) /\ Agrees(told, reg[a])
        /\ ckpt[a] # None => Known(es, ckpt[a])

Whole == Clean(file) /\ ~torn

RegistryInv ==
    /\ reg = [a \in Alphas |-> reg[a]] /\ ckpt = [a \in Alphas |-> ckpt[a]]
    /\ mark = [a \in Alphas |-> mark[a]] /\ insync = [a \in Alphas |-> insync[a]]
    /\ OverridesOK(pins)
    /\ ~up => flight = None /\ \A a \in Alphas : reg[a] = None
    /\ \A a \in Alphas : reg[a] # None => Lifecycle(reg[a]) /\ Respects(reg[a].thr, pins)
    /\ \A a \in Alphas : ckpt[a] # None => Checkpointed(ckpt[a])

FlightInv ==
    /\ flight # None =>
          /\ flight \in InFlight /\ reg[flight.rec.alpha] # None
          /\ flight.rec.from = reg[flight.rec.alpha].state
          /\ flight.thr = reg[flight.rec.alpha].thr
          /\ CapAllows(reg[flight.rec.alpha], flight.rec.to)
          /\ Escalates(flight.rec) => flight.rec.from = "LIVE"
          /\ Granted(flight)

FileInv ==
    /\ file \in Seq(PromotionLedgerEntry \cup {Garbled}) /\ torn \in BOOLEAN
    /\ torn => file # <<>>
    /\ Whole => \A a \in Alphas : LedgerOf(a)

PromotionInv == RegistryInv /\ FlightInv /\ FileInv /\ ResearchCapHolds

-----------------------------------------------------------------------------
\* An empty registry and an empty ledger fit together.
LEMMA PromotionStarts == PromotionInit => PromotionInv
  <1>. SUFFICES ASSUME PromotionInit PROVE PromotionInv
    OBVIOUS
  <1>1. OverridesOK(<<>>)
    BY DEF OverridesOK
  <1>2. RegistryInv
    BY <1>1 DEF PromotionInit, RegistryInv
  <1>3. FlightInv
    BY DEF PromotionInit, FlightInv
  <1>4. FileInv
    <2>1. ASSUME NEW a \in Alphas PROVE LedgerOf(a)
      <3>1. reg[a] = None /\ ckpt[a] = None
        BY DEF PromotionInit
      <3>. QED BY <3>1 DEF LedgerOf
    <2>2. file = <<>> /\ torn = FALSE
      BY DEF PromotionInit
    <2>3. <<>> \in Seq(PromotionLedgerEntry \cup {Garbled})
      OBVIOUS
    <2>. QED BY <2>1, <2>2, <2>3 DEF FileInv
  <1>. QED BY <1>2, <1>3, <1>4 DEF PromotionInit, PromotionInv, ResearchCapHolds

\* What is whole has only records.
LEMMA WholeFile ==
    ASSUME FileInv, Whole
    PROVE  /\ file \in Seq(PromotionLedgerEntry)
           /\ \A a : /\ entries_for(file, a) \in Seq(PromotionLedgerEntry)
                     /\ Len(entries_for(file, a)) \in Nat
  <1>1. file \in Seq(PromotionLedgerEntry)
    <2>1. \A i \in DOMAIN file : file[i] \in PromotionLedgerEntry
      BY DEF FileInv, Whole, Clean
    <2>2. file \in Seq(PromotionLedgerEntry \cup {Garbled})
      BY DEF FileInv
    <2>3. file = [i \in 1 .. Len(file) |-> file[i]] /\ Len(file) \in Nat /\ DOMAIN file = 1 .. Len(file)
      BY <2>2
    <2>4. file \in [1 .. Len(file) -> PromotionLedgerEntry]
      BY <2>1, <2>3
    <2>. QED BY <2>3, <2>4
  <1>2. ASSUME NEW a PROVE entries_for(file, a) \in Seq(PromotionLedgerEntry)
    <2>1. entries_for(file, a) \in Seq({r \in PromotionLedgerEntry : r.alpha = a})
      BY <1>1, EntriesOf DEF Whole
    <2>. QED BY <2>1
  <1>3. \A a : Len(entries_for(file, a)) \in Nat
    BY <1>2
  <1>. QED BY <1>1, <1>2, <1>3

-----------------------------------------------------------------------------
\* A transition that begins leaves the registry and the ledger alone.  Why it
\* is granted has nothing to do with the time that is stamped on it.
LEMMA BeginInv ==
    ASSUME PromotionInv, NEW a \in Alphas, Registered(a), NEW target, NEW trigger \in Triggers, NEW md,
           Begin(a, target, trigger, md),
           CapAllows(reg[a], target),
           trigger = "promote_capital_tier" => reg[a].state = "LIVE",
           md.version \in BOOLEAN, md.sections \in SUBSET Evidence,
           md.cokeys \in SUBSET {"reason", "config_version", "authorized_by", "evidence"},
           md = [version |-> md.version, sections |-> md.sections, cokeys |-> md.cokeys],
           Granted([step |-> "ledger",
                    rec |-> [alpha |-> a, from |-> reg[a].state, to |-> target, trigger |-> trigger],
                    md |-> md, thr |-> reg[a].thr])
    PROVE  PromotionInv'
  <1>0. PICK now \in ClockReadings[Len(file) + 1] :
           flight' = [step |-> "ledger",
                      rec |-> [alpha |-> a, from |-> reg[a].state, to |-> target,
                               trigger |-> trigger, timestamp_ns |-> now],
                      md |-> md, thr |-> reg[a].thr]
    BY DEF Begin
  <1>. DEFINE rec == [alpha |-> a, from |-> reg[a].state, to |-> target, trigger |-> trigger,
                      timestamp_ns |-> now]
              p == [step |-> "ledger", rec |-> rec, md |-> md, thr |-> reg[a].thr]
              asked == [alpha |-> a, from |-> reg[a].state, to |-> target, trigger |-> trigger]
              q == [step |-> "ledger", rec |-> asked, md |-> md, thr |-> reg[a].thr]
  <1>1. flight' = p /\ UNCHANGED <<up, pins, reg, file, torn, ckpt, faults, mark, insync>>
    BY <1>0 DEF Begin
  <1>a. now \in Nat
    <2>1. Len(file) < MaxLines
      BY DEF Begin
    <2>2. Len(file) \in Nat /\ MaxLines \in Nat
      BY PromotionAssumption DEF PromotionInv, FileInv
    <2>3. Len(file) + 1 \in 1 .. MaxLines
      BY <2>1, <2>2
    <2>. QED BY <2>3, PromotionAssumption
  <1>b. Granted(p)
    <2>1. Granted(q)
      OBVIOUS
    <2>2. rec.from = asked.from /\ rec.to = asked.to /\ rec.trigger = asked.trigger
      OBVIOUS
    <2>3. p.rec = rec /\ q.rec = asked /\ p.md = q.md /\ p.thr = q.thr
      OBVIOUS
    <2>. HIDE DEF p, q, rec, asked
    <2>4. Gate(rec) = Gate(asked)
      BY <2>2 DEF Gate, _gate_for_entry
    <2>. QED BY <2>1, <2>2, <2>3, <2>4, Zenon DEF Granted
  <1>. HIDE DEF q, asked
  <1>2. flight = None /\ reg[a] # None /\ up
    BY DEF Registered
  <1>3. Lifecycle(reg[a])
    BY <1>2 DEF PromotionInv, RegistryInv
  <1>4. target \in State
    <2>1. reg[a].state \in State /\ target \in _LIFECYCLE_TRANSITIONS[reg[a].state]
      BY <1>3 DEF Begin, Lifecycle
    <2>. QED BY <2>1 DEF State, _LIFECYCLE_TRANSITIONS
  <1>5. rec \in PromotionLedgerEntry /\ p \in InFlight
    <2>1. rec \in PromotionLedgerEntry
      BY <1>3, <1>4, <1>a DEF PromotionLedgerEntry, Lifecycle
    <2>. HIDE DEF rec
    <2>. QED BY <1>3, <2>1 DEF InFlight, Lifecycle
  <1>6. RegistryInv' /\ ResearchCapHolds'
    BY <1>1, <1>2 DEF PromotionInv, RegistryInv, ResearchCapHolds, Checkpointed, Lifecycle, Respects
  <1>7. FlightInv'
    <2>. HIDE DEF p
    <2>1. /\ p.rec = rec /\ p.thr = reg[a].thr
      BY DEF p
    <2>2. rec.alpha = a /\ rec.to = target /\ rec.from = reg[a].state /\ rec.trigger = trigger
      OBVIOUS
    <2>3. Granted(p)
      BY <1>b DEF p
    <2>. HIDE DEF rec
    <2>4. flight' = p /\ reg' = reg
      BY <1>1
    <2>5. Escalates(rec) => rec.from = "LIVE"
      BY <2>2 DEF Escalates
    <2>6. Granted(flight')
      BY <2>3, <2>4
    <2>. QED BY <1>2, <1>5, <2>1, <2>2, <2>4, <2>5, <2>6 DEF FlightInv, CapAllows, Escalates
  <1>8. FileInv'
    <2>1. \A b : Recorded(b) = FALSE /\ Recorded(b)' = FALSE
      BY <1>1, <1>2 DEF Recorded
    <2>2. \A b \in Alphas : LedgerOf(b) => LedgerOf(b)'
      BY <1>1, <2>1 DEF LedgerOf, Tells, Agrees, Known
    <2>. QED BY <1>1, <2>2 DEF PromotionInv, FileInv, Whole, Clean
  <1>. QED BY <1>6, <1>7, <1>8 DEF PromotionInv
\* Each promotion is granted by the gate the ledger entry will be read back as.
LEMMA PromoteInv ==
    ASSUME PromotionInv, NEW a \in Alphas, NEW evs \in Submissions, promote(a, evs) PROVE PromotionInv'
  <1>. DEFINE g == NextGate(reg[a].state)
              md == evidence_to_metadata(evs, {})
              rec == [alpha |-> a, from |-> reg[a].state, to |-> g[2], trigger |-> g[3]]
              p == [step |-> "ledger", rec |-> rec, md |-> md, thr |-> reg[a].thr]
  <1>1. /\ Registered(a) /\ g[1] # "none" /\ CapAllows(reg[a], g[2])
        /\ validate_gate(g[1], evs, reg[a].thr) /\ Begin(a, g[2], g[3], md)
    BY DEF promote
  <1>2. /\ g[3] \in Triggers /\ g[3] # "promote_capital_tier"
        /\ Gate(rec) = g[1] /\ g[1] \in GateId \ {"live_to_quarantined"}
    BY <1>1 DEF NextGate, Triggers, Gate, _gate_for_entry, GateId, GATE_EVIDENCE_REQUIREMENTS
  <1>3. /\ md = [version |-> TRUE, sections |-> {evs[i] : i \in DOMAIN evs}, cokeys |-> {}]
        /\ md.sections \in SUBSET Evidence
    BY Submitted DEF evidence_to_metadata
  <1>. HIDE DEF g, md, rec
  <1>4. Granted(p)
    <2>1. p.rec = rec /\ p.md = md /\ p.thr = reg[a].thr
      OBVIOUS
    <2>2. md.version /\ md.cokeys \subseteq RESERVED_METADATA_KEYS
          /\ md.sections = {evs[i] : i \in DOMAIN evs}
      BY <1>3
    <2>. HIDE DEF p
    <2>. QED BY <1>1, <1>2, <2>1, <2>2 DEF Granted
  <1>. QED BY <1>1, <1>2, <1>3, <1>4, BeginInv DEF rec

\* Only a LIVE alpha, which is not capped, escalates its capital tier.
LEMMA CapitalTierInv ==
    ASSUME PromotionInv, NEW a \in Alphas, NEW evs \in Submissions, promote_capital_tier(a, evs) PROVE PromotionInv'
  <1>. DEFINE md == evidence_to_metadata(evs, {})
              rec == [alpha |-> a, from |-> reg[a].state, to |-> "LIVE", trigger |-> "promote_capital_tier"]
              p == [step |-> "ledger", rec |-> rec, md |-> md, thr |-> reg[a].thr]
  <1>1. /\ Registered(a) /\ reg[a].state = "LIVE"
        /\ validate_gate("live_promote_capital_tier", evs, reg[a].thr)
        /\ Begin(a, "LIVE", "promote_capital_tier", md)
    BY DEF promote_capital_tier
  <1>2. Gate(rec) = "live_promote_capital_tier" /\ Gate(rec) \in GateId \ {"live_to_quarantined"}
        /\ "promote_capital_tier" \in Triggers
    BY <1>1 DEF Triggers, Gate, _gate_for_entry, GateId, GATE_EVIDENCE_REQUIREMENTS
  <1>3. /\ md = [version |-> TRUE, sections |-> {evs[i] : i \in DOMAIN evs}, cokeys |-> {}]
        /\ md.sections \in SUBSET Evidence
    BY Submitted DEF evidence_to_metadata
  <1>4. CapAllows(reg[a], "LIVE")
    BY <1>1 DEF PromotionInv, ResearchCapHolds, CapAllows, Registered
  <1>. HIDE DEF md, rec
  <1>5. Granted(p)
    <2>1. p.rec = rec /\ p.md = md /\ p.thr = reg[a].thr
      OBVIOUS
    <2>2. md.version /\ md.cokeys \subseteq RESERVED_METADATA_KEYS
          /\ md.sections = {evs[i] : i \in DOMAIN evs}
      BY <1>3
    <2>. HIDE DEF p
    <2>. QED BY <1>1, <1>2, <2>1, <2>2 DEF Granted
  <1>. QED BY <1>1, <1>2, <1>3, <1>4, <1>5, BeginInv DEF rec

\* The co-keys of a decoupling authorization are reserved ones.
LEMMA DecoupleInv ==
    ASSUME PromotionInv, NEW a \in Alphas, NEW evs \in Submissions, authorize_decouple(a, evs) PROVE PromotionInv'
  <1>. DEFINE md == evidence_to_metadata(evs, {"config_version", "authorized_by"})
              rec == [alpha |-> a, from |-> reg[a].state, to |-> "LIVE",
                      trigger |-> "authorize_decouple_caps_only"]
              p == [step |-> "ledger", rec |-> rec, md |-> md, thr |-> reg[a].thr]
  <1>1. /\ Registered(a) /\ reg[a].state = "LIVE"
        /\ validate_gate("decouple_caps_only", evs, reg[a].thr)
        /\ Begin(a, "LIVE", "authorize_decouple_caps_only", md)
    BY DEF authorize_decouple
  <1>2. Gate(rec) = "decouple_caps_only" /\ Gate(rec) \in GateId \ {"live_to_quarantined"}
        /\ "authorize_decouple_caps_only" \in Triggers
    BY <1>1 DEF Triggers, Gate, _gate_for_entry, GateId, GATE_EVIDENCE_REQUIREMENTS
  <1>3. /\ md = [version |-> TRUE, sections |-> {evs[i] : i \in DOMAIN evs},
                 cokeys |-> {"config_version", "authorized_by"}]
        /\ md.sections \in SUBSET Evidence
    BY Submitted DEF evidence_to_metadata
  <1>4. CapAllows(reg[a], "LIVE")
    BY <1>1 DEF PromotionInv, ResearchCapHolds, CapAllows, Registered
  <1>. HIDE DEF md, rec
  <1>5. Granted(p)
    <2>1. p.rec = rec /\ p.md = md /\ p.thr = reg[a].thr
      OBVIOUS
    <2>2. md.version /\ md.cokeys \subseteq RESERVED_METADATA_KEYS
          /\ md.sections = {evs[i] : i \in DOMAIN evs}
      BY <1>3 DEF RESERVED_METADATA_KEYS
    <2>. HIDE DEF p
    <2>. QED BY <1>1, <1>2, <2>1, <2>2 DEF Granted
  <1>. QED BY <1>1, <1>2, <1>3, <1>4, <1>5, BeginInv DEF rec

\* An unstructured package carries no schema version, so it is not replayed.
LEMMA LegacyInv ==
    ASSUME PromotionInv, NEW a \in Alphas, NEW e \in LegacyForms, promote_legacy(a, e) PROVE PromotionInv'
  <1>. DEFINE g == NextGate(reg[a].state)
              md == [version |-> FALSE, sections |-> {}, cokeys |-> {"evidence"}]
              rec == [alpha |-> a, from |-> reg[a].state, to |-> g[2], trigger |-> g[3]]
              p == [step |-> "ledger", rec |-> rec, md |-> md, thr |-> reg[a].thr]
  <1>1. Registered(a) /\ g[1] # "none" /\ CapAllows(reg[a], g[2]) /\ Begin(a, g[2], g[3], md)
    BY DEF promote_legacy
  <1>2. /\ g[3] \in Triggers /\ g[3] # "promote_capital_tier"
        /\ Gate(rec) = g[1] /\ g[1] \in GateId \ {"live_to_quarantined"}
    BY <1>1 DEF NextGate, Triggers, Gate, _gate_for_entry, GateId, GATE_EVIDENCE_REQUIREMENTS
  <1>3. ~md.version /\ md.sections = {} /\ md.cokeys = {"evidence"}
    OBVIOUS
  <1>. HIDE DEF g, rec
  <1>4. Granted(p)
    <2>1. p.rec = rec /\ p.md = md
      OBVIOUS
    <2>. HIDE DEF p, md
    <2>. QED BY <1>2, <1>3, <2>1 DEF Granted
  <1>5. /\ md.version \in BOOLEAN /\ md.sections \in SUBSET Evidence
        /\ md.cokeys \in SUBSET {"reason", "config_version", "authorized_by", "evidence"}
        /\ md = [version |-> md.version, sections |-> md.sections, cokeys |-> md.cokeys]
    OBVIOUS
  <1>. HIDE DEF md
  <1>. QED BY <1>1, <1>2, <1>4, <1>5, BeginInv DEF rec

\* A demotion needs no gate.
LEMMA QuarantineInv ==
    ASSUME PromotionInv, NEW a \in Alphas, NEW evs, quarantine(a, evs),
           {evs[i] : i \in DOMAIN evs} \in SUBSET Evidence
    PROVE  PromotionInv'
  <1>. DEFINE md == evidence_to_metadata(evs, {"reason"})
              rec == [alpha |-> a, from |-> reg[a].state, to |-> "QUARANTINED",
                      trigger |-> "edge_decay_detected"]
              p == [step |-> "ledger", rec |-> rec, md |-> md, thr |-> reg[a].thr]
  <1>1. Registered(a) /\ Begin(a, "QUARANTINED", "edge_decay_detected", md)
    BY DEF quarantine
  <1>2. CapAllows(reg[a], "QUARANTINED") /\ "edge_decay_detected" \in Triggers
    BY DEF CapAllows, Triggers
  <1>3. md = [version |-> TRUE, sections |-> {evs[i] : i \in DOMAIN evs}, cokeys |-> {"reason"}]
    BY DEF evidence_to_metadata
  <1>4. Granted(p)
    BY DEF Granted
  <1>. HIDE DEF md
  <1>5. /\ md.version \in BOOLEAN /\ md.sections \in SUBSET Evidence
        /\ md.cokeys \in SUBSET {"reason", "config_version", "authorized_by", "evidence"}
        /\ md = [version |-> md.version, sections |-> md.sections, cokeys |-> md.cokeys]
    BY <1>3
  <1>6. Granted([step |-> "ledger",
                 rec |-> [alpha |-> a, from |-> reg[a].state, to |-> "QUARANTINED",
                          trigger |-> "edge_decay_detected"],
                 md |-> md, thr |-> reg[a].thr])
    BY <1>4
  <1>. HIDE DEF p
  <1>. QED BY <1>1, <1>2, <1>5, <1>6, BeginInv

\* The evidence the breaker makes up is a quarantine trigger.
LEMMA RecommendationInv ==
    ASSUME PromotionInv, NEW a \in Alphas, NEW row \in BreakerRows, apply_recommendation(a, row) PROVE PromotionInv'
  <1>. DEFINE e == _recommendation_to_quarantine_evidence(row)
  <1>1. quarantine(a, <<e>>)
    BY DEF apply_recommendation
  <1>2. e \in Evidence
    <2>1. row.mean_edge_bps \in Int /\ row.mean_cost_bps \in Int
      BY PromotionAssumption
    <2>. DEFINE S == {x \in {"net", "edge", "decay"} :
                       \/ x = "net" /\ row.net <= 0
                       \/ x = "edge" /\ row.mean_cost_bps > 0 /\ row.mean_edge_bps < row.mean_cost_bps
                       \/ x = "decay" /\ row.decay}
                ratio == IF ~(row.mean_cost_bps > 0) THEN 100
                         ELSE IF row.mean_edge_bps <= 0 THEN 0
                         ELSE (100 * row.mean_edge_bps) \div row.mean_cost_bps
    <2>2. Cardinality(S) \in Nat
      <3>1. IsFiniteSet({"net", "edge", "decay"})
        <4>1. IsFiniteSet({}) /\ IsFiniteSet({"net"}) /\ IsFiniteSet({"net", "edge"})
          <5>1. IsFiniteSet({})
            BY FS_EmptySet
          <5>2. {} \cup {"net"} = {"net"} /\ {"net"} \cup {"edge"} = {"net", "edge"}
            OBVIOUS
          <5>3. IsFiniteSet({} \cup {"net"})
            BY <5>1, FS_AddElement
          <5>4. IsFiniteSet({"net"} \cup {"edge"})
            BY <5>2, <5>3, FS_AddElement
          <5>. QED BY <5>1, <5>2, <5>3, <5>4
        <4>2. {"net", "edge"} \cup {"decay"} = {"net", "edge", "decay"}
          OBVIOUS
        <4>3. IsFiniteSet({"net", "edge"} \cup {"decay"})
          BY <4>1, FS_AddElement
        <4>. QED BY <4>2, <4>3
      <3>2. S \in SUBSET {"net", "edge", "decay"}
        OBVIOUS
      <3>. HIDE DEF S
      <3>3. IsFiniteSet(S)
        BY <3>1, <3>2, FS_Subset
      <3>. QED BY <3>3, FS_CardinalityType
    <2>3. ratio \in Num
      BY <2>1 DEF Num
    <2>4. e = [kind |-> "quarantine_trigger", net_alpha_negative_days |-> 0,
               hit_rate_residual_pp |-> 0, microstructure_metrics_breached |-> 0,
               crowding_symptoms |-> Cardinality(S), pnl_compression_ratio_5d |-> ratio]
      BY Zenon DEF _recommendation_to_quarantine_evidence
    <2>. HIDE DEF S, ratio, e
    <2>5. e \in QuarantineTriggerEvidence
      BY <2>2, <2>3, <2>4 DEF QuarantineTriggerEvidence, Num
    <2>. QED BY <2>5 DEF Evidence
  <1>. HIDE DEF e
  <1>3. {<<e>>[i] : i \in DOMAIN <<e>>} \in SUBSET Evidence
    BY <1>2
  <1>. QED BY <1>1, <1>3, QuarantineInv

\* Only a quarantined alpha is decommissioned, by a gate that asks nothing.
LEMMA DecommissionInv ==
    ASSUME PromotionInv, NEW a \in Alphas, decommission(a) PROVE PromotionInv'
  <1>. DEFINE md == [version |-> FALSE, sections |-> {}, cokeys |-> {"reason"}]
              rec == [alpha |-> a, from |-> reg[a].state, to |-> "DECOMMISSIONED",
                      trigger |-> "decommissioned"]
              p == [step |-> "ledger", rec |-> rec, md |-> md, thr |-> reg[a].thr]
  <1>1. Registered(a) /\ Begin(a, "DECOMMISSIONED", "decommissioned", md)
    BY DEF decommission
  <1>2. CapAllows(reg[a], "DECOMMISSIONED") /\ "decommissioned" \in Triggers
    BY DEF CapAllows, Triggers
  <1>3. ~md.version /\ md.sections = {} /\ md.cokeys = {"reason"}
    OBVIOUS
  <1>4. reg[a].state = "QUARANTINED"
    <2>1. reg[a].state \in State
      BY <1>1 DEF PromotionInv, RegistryInv, Registered, Lifecycle
    <2>. QED BY <1>1, <2>1 DEF Begin, State, _LIFECYCLE_TRANSITIONS
  <1>5. Gate(rec) = "quarantined_to_decommissioned" /\ Gate(rec) \in GateId
    BY <1>4 DEF Gate, _gate_for_entry, GateId, GATE_EVIDENCE_REQUIREMENTS
  <1>. HIDE DEF rec
  <1>6. Granted(p)
    <2>1. p.rec = rec /\ p.md = md
      OBVIOUS
    <2>. HIDE DEF p, md
    <2>. QED BY <1>3, <1>5, <2>1 DEF Granted
  <1>. QED BY <1>1, <1>2, <1>3, <1>6, BeginInv DEF rec
-----------------------------------------------------------------------------
\* Where neither the ledger nor the flight moves, what is said of an alpha
\* that stays as it is stays true.
LEMMA LedgerStays ==
    ASSUME UNCHANGED <<file, torn, flight>>, NEW b \in Alphas, reg'[b] = reg[b], ckpt'[b] = ckpt[b],
           mark'[b] = mark[b], insync'[b] = insync[b], LedgerOf(b)
    PROVE  LedgerOf(b)'
  <1>1. Recorded(b)' = Recorded(b)
    BY DEF Recorded
  <1>. QED BY <1>1 DEF LedgerOf, Tells, Agrees, Known

\* A platform is built before there is anything registered.
LEMMA BuildInv ==
    ASSUME PromotionInv, NEW p \in Platforms, Build(p) PROVE PromotionInv'
  <1>1. /\ ~up /\ OverridesOK(p) /\ pins' = p
        /\ UNCHANGED <<reg, flight, file, torn, ckpt, faults, mark, insync>>
    BY DEF Build
  <1>2. flight = None /\ \A a \in Alphas : reg[a] = None
    BY <1>1 DEF PromotionInv, RegistryInv
  <1>3. RegistryInv' /\ FlightInv' /\ ResearchCapHolds'
    BY <1>1, <1>2 DEF PromotionInv, RegistryInv, FlightInv, ResearchCapHolds, Build, Checkpointed
  <1>4. FileInv'
    <2>1. \A b \in Alphas : LedgerOf(b) => LedgerOf(b)'
      BY <1>1, LedgerStays
    <2>. QED BY <1>1, <2>1 DEF PromotionInv, FileInv, Whole, Clean
  <1>. QED BY <1>3, <1>4 DEF PromotionInv

\* A new lifecycle has a history of its own, and agrees with an empty ledger.
LEMMA RegisterInv ==
    ASSUME PromotionInv, NEW a \in Alphas, NEW m \in Manifests, register(a, m) PROVE PromotionInv'
  <1>. DEFINE lc == [cap |-> m.cap, thr |-> apply_gate_thresholds_overrides(PlatformThresholds, m.ov),
                     state |-> "RESEARCH", hist |-> <<>>, persisted |-> None]
              es == entries_for(file, a)
  <1>1. /\ up /\ flight = None /\ reg[a] = None /\ OverridesOK(m.ov)
        /\ assert_per_alpha_overrides_respect_floor(PlatformThresholds, DOMAIN pins, m.ov)
        /\ reg' = [reg EXCEPT ![a] = lc]
        /\ mark' = [mark EXCEPT ![a] = Len(es)] /\ insync' = [insync EXCEPT ![a] = Len(es) = 0]
        /\ UNCHANGED <<up, pins, flight, file, torn, ckpt, faults>>
    BY DEF register
  <1>2. Respects(lc.thr, pins) /\ Lifecycle(lc) /\ lc.state = "RESEARCH" /\ lc.hist = <<>>
    <2>1. Respects(lc.thr, pins)
      BY <1>1, RegisteredRespects DEF PromotionInv, RegistryInv
    <2>2. lc.thr \in Thresholds
      BY <2>1 DEF Respects
    <2>. DEFINE thr == lc.thr
    <2>3. lc = [cap |-> m.cap, thr |-> thr, state |-> "RESEARCH", hist |-> <<>>, persisted |-> None]
          /\ thr \in Thresholds
      BY <2>2
    <2>. HIDE DEF thr, lc
    <2>. QED BY <2>1, <2>3 DEF Lifecycle, State
  <1>3. reg'[a] = lc /\ mark'[a] = Len(es) /\ insync'[a] = (Len(es) = 0)
        /\ \A b \in Alphas : b # a => reg'[b] = reg[b] /\ mark'[b] = mark[b] /\ insync'[b] = insync[b]
    <2>. HIDE DEF lc
    <2>. QED BY <1>1 DEF PromotionInv, RegistryInv
  <1>. HIDE DEF lc
  <1>4. RegistryInv' /\ FlightInv' /\ ResearchCapHolds'
    <2>1. \A b \in Alphas : reg'[b] # None => Lifecycle(reg'[b]) /\ Respects(reg'[b].thr, pins)
      BY <1>2, <1>3 DEF PromotionInv, RegistryInv
    <2>2. RegistryInv'
      BY <1>1, <2>1 DEF PromotionInv, RegistryInv, Checkpointed, Lifecycle, Respects
    <2>3. ResearchCapHolds'
      BY <1>1, <1>2, <1>3 DEF PromotionInv, ResearchCapHolds
    <2>. QED BY <1>1, <2>2, <2>3 DEF FlightInv
  <1>5. FileInv'
    <2>1. ASSUME Whole, NEW b \in Alphas PROVE LedgerOf(b)'
      <3>1. LedgerOf(b) /\ es \in Seq(PromotionLedgerEntry) /\ Len(es) \in Nat
        BY <2>1, WholeFile DEF PromotionInv, FileInv
      <3>2. CASE b # a
        BY <1>1, <1>3, <3>1, <3>2, LedgerStays
      <3>3. CASE b = a
        <4>1. ~Recorded(b)' /\ ckpt' = ckpt /\ entries_for(file, b)' = es
          BY <1>1, <3>3 DEF Recorded
        <4>2. Tells(es, Len(es), <<>>, FALSE, flight'.rec)
          BY <3>1 DEF Tells
        <4>3. Len(es) = 0 => Agrees(es, lc)
          <5>1. Len(es) = 0 => es = <<>>
            BY <3>1
          <5>. QED BY <5>1, <1>2 DEF Agrees, StateOfRows, TierOfRows, current_capital_tier
        <4>4. ckpt[b] # None => Known(es, ckpt[b])
          BY <3>1, <3>3 DEF LedgerOf
        <4>5. (Recorded(b)') = FALSE
          BY <4>1
        <4>6. Tells(es, mark'[b], reg'[b].hist, Recorded(b)', flight'.rec)
          BY <4>2, <4>5, <1>2, <1>3, <3>3
        <4>. HIDE DEF es
        <4>7. /\ reg'[b] # None => Tells(es, mark'[b], reg'[b].hist, Recorded(b)', flight'.rec)
              /\ reg'[b] # None /\ insync'[b] /\ ~Recorded(b)' => Agrees(es, reg'[b])
              /\ ckpt'[b] # None => Known(es, ckpt'[b])
          BY <1>3, <3>3, <4>1, <4>3, <4>4, <4>6
        <4>. QED BY <4>1, <4>7 DEF LedgerOf, Tells, Agrees, Known
      <3>. QED BY <3>2, <3>3
    <2>. QED BY <1>1, <2>1 DEF PromotionInv, FileInv, Whole, Clean
  <1>. QED BY <1>4, <1>5 DEF PromotionInv

\* Of an alpha that is gone nothing is told but its checkpoint.
LEMMA UnregisterInv ==
    ASSUME PromotionInv, NEW a \in Alphas, unregister(a) PROVE PromotionInv'
  <1>1. /\ up /\ flight = None /\ reg' = [reg EXCEPT ![a] = None]
        /\ UNCHANGED <<up, pins, flight, file, torn, ckpt, faults, mark, insync>>
    BY DEF unregister
  <1>2. reg'[a] = None /\ \A b \in Alphas : b # a => reg'[b] = reg[b]
    BY <1>1 DEF PromotionInv, RegistryInv
  <1>3. RegistryInv' /\ FlightInv' /\ ResearchCapHolds'
    <2>1. \A b \in Alphas : reg'[b] # None => reg'[b] = reg[b]
      BY <1>2
    <2>. QED BY <1>1, <2>1 DEF PromotionInv, RegistryInv, FlightInv, ResearchCapHolds, Checkpointed, Lifecycle, Respects
  <1>4. FileInv'
    <2>1. ASSUME NEW b \in Alphas, LedgerOf(b) PROVE LedgerOf(b)'
      <3>1. CASE b # a
        BY <1>1, <1>2, <2>1, <3>1, LedgerStays
      <3>2. CASE b = a
        BY <1>1, <1>2, <2>1, <3>2 DEF LedgerOf, Known
      <3>. QED BY <3>1, <3>2
    <2>. QED BY <1>1, <2>1 DEF PromotionInv, FileInv, Whole, Clean
  <1>. QED BY <1>3, <1>4 DEF PromotionInv
\* A checkpoint marks the ledger it was taken at, unless the lifecycle did not
\* begin where the ledger ends.
LEMMA CheckpointInv ==
    ASSUME PromotionInv, NEW a \in Alphas, checkpoint(a) PROVE PromotionInv'
  <1>. DEFINE es == entries_for(file, a)
              c == [state |-> reg[a].state, tier |-> current_capital_tier(reg[a]),
                    at |-> IF insync[a] THEN Len(es) ELSE -1]
  <1>1. /\ up /\ flight = None /\ reg[a] # None /\ ckpt' = [ckpt EXCEPT ![a] = c]
        /\ UNCHANGED <<up, pins, reg, flight, file, torn, faults, mark, insync>>
    BY DEF checkpoint, Registered
  <1>2. ckpt'[a] = c /\ \A b \in Alphas : b # a => ckpt'[b] = ckpt[b]
    <2>. HIDE DEF c
    <2>. QED BY <1>1 DEF PromotionInv, RegistryInv
  <1>3. /\ c.state = reg[a].state /\ c.tier = current_capital_tier(reg[a])
        /\ c.at = IF insync[a] THEN Len(es) ELSE -1
        /\ c = [state |-> c.state, tier |-> c.tier, at |-> c.at]
    OBVIOUS
  <1>4. Lifecycle(reg[a])
    BY <1>1 DEF PromotionInv, RegistryInv
  <1>. HIDE DEF c
  <1>5. Checkpointed(c)
    <2>1. reg[a].state \in State
      BY <1>4 DEF Lifecycle
    <2>. QED BY <1>3, <1>4, <2>1, TierOf DEF Checkpointed
  <1>6. RegistryInv' /\ FlightInv' /\ ResearchCapHolds'
    <2>1. \A b \in Alphas : ckpt'[b] # None => Checkpointed(ckpt'[b])
      BY <1>2, <1>5 DEF PromotionInv, RegistryInv
    <2>. QED BY <1>1, <2>1 DEF PromotionInv, RegistryInv, FlightInv, ResearchCapHolds, Checkpointed, Lifecycle, Respects
  <1>7. FileInv'
    <2>1. ASSUME Whole, NEW b \in Alphas PROVE LedgerOf(b)'
      <3>1. LedgerOf(b) /\ Len(es) \in Nat
        BY <2>1, WholeFile DEF PromotionInv, FileInv
      <3>2. CASE b # a
        BY <1>1, <1>2, <3>1, <3>2, LedgerStays
      <3>3. CASE b = a
        <4>1. ~Recorded(b) /\ ~Recorded(b)'
          BY <1>1 DEF Recorded
        <4>2. insync[a] => Agrees(es, reg[a])
          BY <1>1, <3>1, <3>3, <4>1 DEF LedgerOf
        <4>3. Known(es, c)
          BY <1>3, <3>1, <4>2 DEF Known, Agrees
        <4>4. Tells(es, mark[a], reg[a].hist, FALSE, flight.rec)
          <5>1. Recorded(b) = FALSE
            BY <4>1
          <5>. QED BY <1>1, <3>1, <3>3, <5>1 DEF LedgerOf
        <4>5. (Recorded(b)') = FALSE
          BY <4>1
        <4>. HIDE DEF es
        <4>6. /\ Tells(es, mark'[b], reg'[b].hist, Recorded(b)', flight'.rec)
              /\ insync'[b] => Agrees(es, reg'[b])
              /\ Known(es, ckpt'[b])
          BY <1>1, <1>2, <3>3, <4>2, <4>3, <4>4, <4>5
        <4>7. entries_for(file, b)' = es
          BY <1>1, <3>3 DEF es
        <4>. QED BY <4>1, <4>6, <4>7 DEF LedgerOf, Tells, Agrees, Known
      <3>. QED BY <3>2, <3>3
    <2>. QED BY <1>1, <2>1 DEF PromotionInv, FileInv, Whole, Clean
  <1>. QED BY <1>6, <1>7 DEF PromotionInv

\* A restored lifecycle agrees with the ledger its checkpoint was taken at.
LEMMA RestoreInv ==
    ASSUME PromotionInv, NEW a \in Alphas, restore(a) PROVE PromotionInv'
  <1>. DEFINE es == entries_for(file, a)
              lc == [reg[a] EXCEPT !.state = ckpt[a].state, !.persisted = ckpt[a].tier]
  <1>1. /\ up /\ flight = None /\ reg[a] # None /\ reg[a].hist = <<>> /\ ckpt[a] # None
        /\ CapAllows(reg[a], ckpt[a].state)
        /\ insync' = [insync EXCEPT ![a] = ckpt[a].at = Len(es)]
        /\ UNCHANGED <<up, pins, flight, file, torn, ckpt, faults, mark>>
    BY DEF restore, Registered
  <1>2. Lifecycle(reg[a]) /\ Respects(reg[a].thr, pins) /\ Checkpointed(ckpt[a])
    BY <1>1 DEF PromotionInv, RegistryInv
  <1>3. lc = [cap |-> reg[a].cap, thr |-> reg[a].thr, state |-> ckpt[a].state,
              hist |-> reg[a].hist, persisted |-> ckpt[a].tier]
    <2>. DEFINE one == [reg[a] EXCEPT !.state = ckpt[a].state]
                two == [one EXCEPT !.persisted = ckpt[a].tier]
    <2>1. one = [cap |-> reg[a].cap, thr |-> reg[a].thr, state |-> ckpt[a].state,
                 hist |-> reg[a].hist, persisted |-> reg[a].persisted]
      BY <1>2 DEF Lifecycle
    <2>2. lc = two
      BY Zenon
    <2>. HIDE DEF one, lc
    <2>. QED BY <2>1, <2>2
  <1>4. reg' = [reg EXCEPT ![a] = lc]
    BY DEF restore
  <1>. HIDE DEF lc
  <1>5. reg'[a] = lc /\ insync'[a] = (ckpt[a].at = Len(es))
        /\ \A b \in Alphas : b # a => reg'[b] = reg[b] /\ insync'[b] = insync[b]
    BY <1>1, <1>4 DEF PromotionInv, RegistryInv
  <1>6. /\ lc.state = ckpt[a].state /\ lc.persisted = ckpt[a].tier /\ lc.hist = <<>>
        /\ lc.cap = reg[a].cap /\ lc.thr = reg[a].thr
    BY <1>1, <1>3
  <1>7. Lifecycle(lc)
    BY <1>2, <1>3 DEF Lifecycle, Checkpointed
  <1>8. current_capital_tier(lc) = ckpt[a].tier
    <2>1. LastIn(<<>>, Escalates) = 0 /\ LastIn(<<>>, EntersLive) = 0
      BY LastOfNone DEF LastEscalation, LastEntry
    <2>2. \A x \in Tiers : x # None
      BY PromotionAssumption DEF Tiers
    <2>. QED BY <1>2, <1>6, <2>1, <2>2 DEF current_capital_tier, Checkpointed
  <1>9. RegistryInv' /\ FlightInv' /\ ResearchCapHolds'
    <2>1. \A b \in Alphas : reg'[b] # None => Lifecycle(reg'[b]) /\ Respects(reg'[b].thr, pins)
      BY <1>2, <1>5, <1>6, <1>7 DEF PromotionInv, RegistryInv
    <2>2. RegistryInv'
      BY <1>1, <1>4, <2>1 DEF PromotionInv, RegistryInv, Checkpointed, Lifecycle, Respects
    <2>3. ResearchCapHolds'
      BY <1>1, <1>5, <1>6 DEF PromotionInv, ResearchCapHolds, CapAllows
    <2>. QED BY <1>1, <2>2, <2>3 DEF FlightInv
  <1>10. FileInv'
    <2>1. ASSUME Whole, NEW b \in Alphas PROVE LedgerOf(b)'
      <3>1. LedgerOf(b)
        BY <2>1 DEF PromotionInv, FileInv
      <3>2. CASE b # a
        BY <1>1, <1>5, <3>1, <3>2, LedgerStays
      <3>3. CASE b = a
        <4>1. (Recorded(b) = FALSE) /\ (Recorded(b)') = FALSE
          BY <1>1 DEF Recorded
        <4>2. Known(es, ckpt[a])
          BY <1>1, <3>1, <3>3 DEF LedgerOf
        <4>3. Tells(es, mark[a], <<>>, FALSE, flight.rec)
          BY <1>1, <3>1, <3>3, <4>1 DEF LedgerOf
        <4>4. ckpt[a].at = Len(es) => Agrees(es, lc)
          BY <1>6, <1>8, <4>2 DEF Known, Agrees
        <4>. HIDE DEF es
        <4>5. /\ Tells(es, mark'[b], reg'[b].hist, Recorded(b)', flight'.rec)
              /\ insync'[b] => Agrees(es, reg'[b])
              /\ Known(es, ckpt'[b])
          BY <1>1, <1>5, <1>6, <3>3, <4>1, <4>2, <4>3, <4>4
        <4>6. entries_for(file, b)' = es
          BY <1>1, <3>3 DEF es
        <4>. QED BY <4>1, <4>5, <4>6 DEF LedgerOf, Tells, Agrees, Known
      <3>. QED BY <3>2, <3>3
    <2>. QED BY <1>1, <2>1 DEF PromotionInv, FileInv, Whole, Clean
  <1>. QED BY <1>9, <1>10 DEF PromotionInv

-----------------------------------------------------------------------------
\* A write that leaves a whole file has added the record, if it went through,
\* and nothing, if it failed.
LEMMA WroteWhole ==
    ASSUME FileInv, NEW rec \in PromotionLedgerEntry,
           file' = append(file, torn, rec), torn' = FALSE, Whole'
    PROVE  Whole /\ file' = Append(file, rec)
  <1>1. CASE torn
    <2>1. file # <<>> /\ file \in Seq(PromotionLedgerEntry \cup {Garbled})
      BY <1>1 DEF FileInv
    <2>2. Len(file) \in DOMAIN file
      BY <2>1
    <2>3. file' = [file EXCEPT ![Len(file)] = Garbled]
      BY <1>1 DEF append
    <2>4. Len(file) \in DOMAIN file' /\ file'[Len(file)] = Garbled
      BY <2>2, <2>3
    <2>. QED BY <2>4 DEF Whole, Clean
  <1>2. CASE ~torn
    <2>1. file' = Append(file, rec)
      BY <1>2 DEF append
    <2>2. file \in Seq(PromotionLedgerEntry \cup {Garbled})
      BY DEF FileInv
    <2>3. \A i \in DOMAIN file : i \in DOMAIN file' /\ file'[i] = file[i]
      BY <2>1, <2>2
    <2>. QED BY <1>2, <2>1, <2>3 DEF Whole, Clean
  <1>. QED BY <1>1, <1>2

\* A write that fails or is cut off leaves a whole file only if it left none of
\* its record.
LEMMA FailedWhole ==
    ASSUME FileInv, NEW rec \in PromotionLedgerEntry,
           NEW ft \in PartialAppends(file, torn, rec), file' = ft[1], torn' = ft[2]
    PROVE  /\ Whole' => Whole /\ file' = file
           /\ file' \in Seq(PromotionLedgerEntry \cup {Garbled}) /\ torn' \in BOOLEAN
           /\ torn' => file' # <<>>
  <1>. DEFINE Lines == PromotionLedgerEntry \cup {Garbled}
  <1>1. file \in Seq(Lines) /\ torn \in BOOLEAN /\ (torn => file # <<>>)
    BY DEF FileInv
  <1>2. CASE ft = <<file, torn>>
    BY <1>1, <1>2 DEF Whole, Clean
  <1>3. CASE torn /\ ft = <<[file EXCEPT ![Len(file)] = Garbled], TRUE>>
    <2>1. [file EXCEPT ![Len(file)] = Garbled] \in Seq(Lines) /\ [file EXCEPT ![Len(file)] = Garbled] # <<>>
      <3>1. file # <<>> /\ Len(file) \in 1 .. Len(file) /\ Garbled \in Lines
        BY <1>1, <1>3
      <3>. QED BY <1>1, <3>1
    <2>. QED BY <1>3, <2>1 DEF Whole
  <1>4. CASE ~torn /\ ft \in {<<Append(file, Garbled), TRUE>>, <<Append(file, rec), TRUE>>}
    <2>1. \A x \in Lines : Append(file, x) \in Seq(Lines) /\ Append(file, x) # <<>>
      BY <1>1
    <2>2. Garbled \in Lines /\ rec \in Lines
      OBVIOUS
    <2>. HIDE DEF Lines
    <2>3. torn' = TRUE /\ file' \in Seq(Lines) /\ file' # <<>>
      <3>1. PICK x \in Lines : ft = <<Append(file, x), TRUE>>
        BY <1>4, <2>2
      <3>. QED BY <2>1, <3>1
    <2>. QED BY <2>3 DEF Whole, Lines
  <1>. QED BY <1>1, <1>2, <1>3, <1>4 DEF PartialAppends

\* What is told of an alpha whose record has just been written, and of others.
LEMMA RecordInv ==
    ASSUME PromotionInv, RecordToLedger PROVE PromotionInv'
  <1>. DEFINE rec == flight.rec
              p == [flight EXCEPT !.step = "hook"]
  <1>1. /\ flight # None /\ flight.step = "ledger"
        /\ file' = append(file, torn, rec) /\ torn' = FALSE /\ flight' = p
        /\ UNCHANGED <<up, pins, reg, ckpt, faults, mark, insync>>
    BY DEF RecordToLedger
  <1>2. /\ flight \in InFlight /\ reg[rec.alpha] # None /\ up
    BY <1>1 DEF PromotionInv, FlightInv, RegistryInv
  <1>3. p \in InFlight /\ p.rec = rec /\ p.md = flight.md /\ p.thr = flight.thr /\ p.step = "hook"
    BY <1>2 DEF InFlight
  <1>4. rec \in PromotionLedgerEntry /\ rec.alpha \in Alphas
    BY <1>2 DEF InFlight, PromotionLedgerEntry
  <1>5. p # None
    BY <1>3, PromotionAssumption
  <1>. HIDE DEF p
  <1>6. RegistryInv' /\ ResearchCapHolds'
    BY <1>1, <1>2 DEF PromotionInv, RegistryInv, ResearchCapHolds, Checkpointed, Lifecycle, Respects
  <1>7. FlightInv'
    <2>1. Granted(p)
      BY <1>1, <1>3 DEF PromotionInv, FlightInv, Granted
    <2>2. /\ p.rec.from = reg[p.rec.alpha].state /\ p.thr = reg[p.rec.alpha].thr
          /\ CapAllows(reg[p.rec.alpha], p.rec.to) /\ (Escalates(p.rec) => p.rec.from = "LIVE")
      BY <1>1, <1>3 DEF PromotionInv, FlightInv
    <2>3. flight' = p /\ reg' = reg
      BY <1>1
    <2>. HIDE DEF rec
    <2>. QED BY <1>2, <1>3, <2>1, <2>2, <2>3 DEF FlightInv, CapAllows, Granted, Escalates, rec
  <1>8. FileInv'
    <2>1. file' \in Seq(PromotionLedgerEntry \cup {Garbled})
      <3>. DEFINE Lines == PromotionLedgerEntry \cup {Garbled}
      <3>1. file \in Seq(Lines) /\ (torn => file # <<>>) /\ rec \in Lines /\ Garbled \in Lines
        BY <1>4 DEF PromotionInv, FileInv
      <3>. HIDE DEF Lines, rec
      <3>2. Append(file, rec) \in Seq(Lines)
        BY <3>1
      <3>3. torn => [file EXCEPT ![Len(file)] = Garbled] \in Seq(Lines)
        <4>1. torn => Len(file) \in 1 .. Len(file)
          BY <3>1
        <4>. QED BY <3>1, <4>1
      <3>. QED BY <1>1, <3>2, <3>3 DEF append, Lines
    <2>2. ASSUME Whole', NEW b \in Alphas PROVE LedgerOf(b)'
      <3>. DEFINE es == entries_for(file, b)
      <3>1. Whole /\ file' = Append(file, rec)
        BY <1>1, <1>4, <2>2, WroteWhole DEF PromotionInv
      <3>2. LedgerOf(b) /\ file \in Seq(PromotionLedgerEntry) /\ es \in Seq(PromotionLedgerEntry)
        BY <3>1, WholeFile DEF PromotionInv, FileInv
      <3>3. entries_for(file', b) = IF rec.alpha = b THEN Append(es, rec) ELSE es
        <4>1. Clean(Append(file, rec))
          BY <2>2, <3>1 DEF Whole, Clean
        <4>. QED BY <1>4, <3>1, <3>2, <4>1, NewLine
      <3>4. (Recorded(b) = FALSE) /\ (Recorded(b)') = (rec.alpha = b)
        BY <1>1, <1>3, <1>5 DEF Recorded
      <3>5. flight'.rec = rec
        BY <1>1, <1>3
      <3>. HIDE DEF rec
      <3>6. CASE rec.alpha # b
        <4>1. entries_for(file, b)' = es /\ (Recorded(b)') = FALSE
          BY <3>3, <3>4, <3>6
        <4>2. /\ reg[b] # None => Tells(es, mark[b], reg[b].hist, FALSE, flight'.rec)
              /\ reg[b] # None /\ insync[b] => Agrees(es, reg[b])
              /\ ckpt[b] # None => Known(es, ckpt[b])
          BY <3>2, <3>4 DEF LedgerOf, Tells
        <4>. HIDE DEF es
        <4>. QED BY <1>1, <4>1, <4>2 DEF LedgerOf, Tells, Agrees, Known
      <3>7. CASE rec.alpha = b
        <4>. DEFINE more == Append(es, rec)
        <4>1. entries_for(file, b)' = more /\ (Recorded(b)') = TRUE
          BY <3>3, <3>4, <3>7
        <4>2. /\ Len(more) = Len(es) + 1 /\ Len(es) \in Nat /\ more[Len(more)] = rec
              /\ \A i \in 1 .. Len(es) : more[i] = es[i]
          BY <3>2
        <4>3. /\ reg[b] # None => Tells(es, mark[b], reg[b].hist, FALSE, flight.rec)
              /\ reg[b] # None /\ insync[b] => Agrees(es, reg[b])
              /\ ckpt[b] # None => Known(es, ckpt[b])
          BY <3>2, <3>4 DEF LedgerOf
        <4>4. ASSUME reg[b] # None PROVE Tells(more, mark[b], reg[b].hist, TRUE, rec)
          <5>1. reg[b].hist \in Seq(PromotionLedgerEntry)
            BY <4>4 DEF PromotionInv, RegistryInv, Lifecycle
          <5>2. Len(reg[b].hist) \in Nat
            BY <5>1
          <5>3. mark[b] \in Nat /\ Len(es) = mark[b] + Len(reg[b].hist)
                /\ \A i \in 1 .. Len(reg[b].hist) : es[mark[b] + i] = reg[b].hist[i]
            BY <4>3, <4>4, <5>2 DEF Tells
          <5>4. \A i \in 1 .. Len(reg[b].hist) : mark[b] + i \in 1 .. Len(es)
            BY <5>2, <5>3
          <5>. HIDE DEF more, es
          <5>. QED BY <4>2, <5>2, <5>3, <5>4 DEF Tells
        <4>5. ckpt[b] # None => Known(more, ckpt[b])
          BY <4>2, <4>3 DEF Known
        <4>6. reg[b] # None /\ insync[b] =>
                 \E told \in Seq(PromotionLedgerEntry) : more = Append(told, rec) /\ Agrees(told, reg[b])
          BY <3>2, <4>3
        <4>. HIDE DEF more, es
        <4>. QED BY <1>1, <3>5, <4>1, <4>4, <4>5, <4>6 DEF LedgerOf, Tells, Agrees, Known
      <3>. QED BY <3>6, <3>7
    <2>. QED BY <1>1, <2>1, <2>2 DEF FileInv
  <1>. QED BY <1>6, <1>7, <1>8 DEF PromotionInv
\* A transition that is dropped with its write: the registry is as it was.
LEMMA WriteFailsInv ==
    ASSUME PromotionInv, LedgerWriteFails PROVE PromotionInv'
  <1>1. /\ flight # None /\ flight.step = "ledger" /\ flight' = None
        /\ UNCHANGED <<up, pins, reg, ckpt, mark, insync>>
    BY DEF LedgerWriteFails
  <1>2. PICK ft \in PartialAppends(file, torn, flight.rec) : file' = ft[1] /\ torn' = ft[2]
    BY DEF LedgerWriteFails
  <1>3. flight.rec \in PromotionLedgerEntry
    BY <1>1 DEF PromotionInv, FlightInv, InFlight
  <1>4. /\ Whole' => Whole /\ file' = file
        /\ file' \in Seq(PromotionLedgerEntry \cup {Garbled}) /\ torn' \in BOOLEAN
        /\ torn' => file' # <<>>
    BY <1>2, <1>3, FailedWhole DEF PromotionInv
  <1>5. RegistryInv' /\ FlightInv' /\ ResearchCapHolds'
    BY <1>1 DEF PromotionInv, RegistryInv, FlightInv, ResearchCapHolds, Checkpointed, Lifecycle, Respects
  <1>6. ASSUME Whole', NEW b \in Alphas PROVE LedgerOf(b)'
    <2>1. Whole /\ file' = file /\ LedgerOf(b)
      BY <1>4, <1>6 DEF PromotionInv, FileInv
    <2>2. (Recorded(b) = FALSE) /\ (Recorded(b)') = FALSE
      BY <1>1 DEF Recorded
    <2>. QED BY <1>1, <2>1, <2>2 DEF LedgerOf, Tells, Agrees, Known
  <1>7. FileInv'
    BY <1>4, <1>6 DEF FileInv
  <1>. QED BY <1>5, <1>7 DEF PromotionInv

\* A crash forgets the registry and the flight, never a checkpoint.
LEMMA CrashInv ==
    ASSUME PromotionInv, Crash PROVE PromotionInv'
  <1>1. /\ up' = FALSE /\ pins' = <<>> /\ flight' = None /\ reg' = [a \in Alphas |-> None]
        /\ UNCHANGED <<ckpt, mark, insync>>
    BY DEF Crash
  <1>2. /\ Whole' => Whole /\ file' = file
        /\ file' \in Seq(PromotionLedgerEntry \cup {Garbled}) /\ torn' \in BOOLEAN
        /\ torn' => file' # <<>>
    <2>1. CASE UNCHANGED <<file, torn>>
      BY <2>1 DEF PromotionInv, FileInv, Whole, Clean
    <2>2. CASE /\ flight # None
               /\ \E ft \in PartialAppends(file, torn, flight.rec) : file' = ft[1] /\ torn' = ft[2]
      <3>1. flight.rec \in PromotionLedgerEntry
        BY <2>2 DEF PromotionInv, FlightInv, InFlight
      <3>. QED BY <2>2, <3>1, FailedWhole DEF PromotionInv
    <2>. QED BY <2>1, <2>2 DEF Crash
  <1>3. \A a \in Alphas : reg'[a] = None
    BY <1>1
  <1>4. RegistryInv' /\ FlightInv' /\ ResearchCapHolds'
    <2>1. OverridesOK(pins')
      BY <1>1 DEF OverridesOK
    <2>. QED BY <1>1, <1>3, <2>1 DEF PromotionInv, RegistryInv, FlightInv, ResearchCapHolds, Checkpointed
  <1>5. ASSUME Whole', NEW b \in Alphas PROVE LedgerOf(b)'
    <2>1. Whole /\ file' = file /\ LedgerOf(b)
      BY <1>2, <1>5 DEF PromotionInv, FileInv
    <2>. QED BY <1>1, <1>3, <2>1 DEF LedgerOf, Known
  <1>6. FileInv'
    BY <1>2, <1>5 DEF FileInv
  <1>. QED BY <1>4, <1>6 DEF PromotionInv

\* The hook leaves the record and what was granted.
LEMMA HookInv ==
    ASSUME PromotionInv, FireRevocationHook PROVE PromotionInv'
  <1>. DEFINE rec == flight.rec
              p == [flight EXCEPT !.step = "commit"]
  <1>1. /\ flight # None /\ flight.step = "hook" /\ flight' = p
        /\ UNCHANGED <<up, pins, reg, file, torn, ckpt, faults, mark, insync>>
    BY DEF FireRevocationHook
  <1>2. /\ flight \in InFlight /\ reg[rec.alpha] # None /\ up
    BY <1>1 DEF PromotionInv, FlightInv, RegistryInv
  <1>3. p \in InFlight /\ p.rec = rec /\ p.md = flight.md /\ p.thr = flight.thr /\ p.step = "commit"
    BY <1>2 DEF InFlight
  <1>4. p # None
    BY <1>3, PromotionAssumption
  <1>. HIDE DEF p
  <1>5. RegistryInv' /\ ResearchCapHolds'
    BY <1>1, <1>2 DEF PromotionInv, RegistryInv, ResearchCapHolds, Checkpointed, Lifecycle, Respects
  <1>6. FlightInv'
    <2>1. Granted(p)
      BY <1>1, <1>3 DEF PromotionInv, FlightInv, Granted
    <2>2. /\ p.rec.from = reg[p.rec.alpha].state /\ p.thr = reg[p.rec.alpha].thr
          /\ CapAllows(reg[p.rec.alpha], p.rec.to) /\ (Escalates(p.rec) => p.rec.from = "LIVE")
      BY <1>1, <1>3 DEF PromotionInv, FlightInv
    <2>3. flight' = p /\ reg' = reg
      BY <1>1
    <2>. HIDE DEF rec
    <2>. QED BY <1>2, <1>3, <2>1, <2>2, <2>3 DEF FlightInv, CapAllows, Granted, Escalates, rec
  <1>7. FileInv'
    <2>1. ASSUME NEW b \in Alphas, LedgerOf(b) PROVE LedgerOf(b)'
      <3>1. (Recorded(b) = (rec.alpha = b)) /\ (Recorded(b)') = (rec.alpha = b)
        BY <1>1, <1>3, <1>4 DEF Recorded
      <3>2. flight'.rec = flight.rec
        BY <1>1, <1>3
      <3>. HIDE DEF rec
      <3>. QED BY <1>1, <2>1, <3>1, <3>2 DEF LedgerOf, Tells, Agrees, Known
    <2>. QED BY <1>1, <2>1 DEF PromotionInv, FileInv, Whole, Clean
  <1>. QED BY <1>5, <1>6, <1>7 DEF PromotionInv

\* A commit makes the recorded transition the last of the history.
LEMMA CommitInv ==
    ASSUME PromotionInv, Commit PROVE PromotionInv'
  <1>. DEFINE rec == flight.rec
              a == rec.alpha
              lc == Moved(reg[a], rec)
  <1>1. /\ flight # None /\ flight.step = "commit" /\ flight' = None
        /\ UNCHANGED <<up, pins, file, torn, ckpt, faults, mark, insync>>
    BY DEF Commit
  <1>2. /\ flight \in InFlight /\ reg[a] # None /\ up
        /\ rec.from = reg[a].state /\ CapAllows(reg[a], rec.to)
        /\ Escalates(rec) => rec.from = "LIVE"
    BY <1>1 DEF PromotionInv, FlightInv, RegistryInv
  <1>3. rec \in PromotionLedgerEntry /\ a \in Alphas
    BY <1>2 DEF InFlight, PromotionLedgerEntry
  <1>4. Lifecycle(reg[a]) /\ Respects(reg[a].thr, pins)
    BY <1>2, <1>3 DEF PromotionInv, RegistryInv
  <1>5. /\ Lifecycle(lc) /\ lc.state = rec.to /\ lc.hist = Append(reg[a].hist, rec)
        /\ lc.cap = reg[a].cap /\ lc.thr = reg[a].thr
    BY <1>3, <1>4, MovedIs
  <1>6. reg' = [reg EXCEPT ![a] = lc]
    BY DEF Commit, Moved
  <1>. HIDE DEF lc
  <1>7. reg'[a] = lc /\ \A b \in Alphas : b # a => reg'[b] = reg[b]
    BY <1>3, <1>6 DEF PromotionInv, RegistryInv
  <1>. HIDE DEF rec
  <1>8. RegistryInv' /\ FlightInv' /\ ResearchCapHolds'
    <2>1. \A b \in Alphas : reg'[b] # None => Lifecycle(reg'[b]) /\ Respects(reg'[b].thr, pins)
      BY <1>4, <1>5, <1>7 DEF PromotionInv, RegistryInv
    <2>2. RegistryInv'
      BY <1>1, <1>2, <1>6, <2>1 DEF PromotionInv, RegistryInv, Checkpointed, Lifecycle, Respects
    <2>3. ResearchCapHolds'
      BY <1>2, <1>5, <1>7 DEF PromotionInv, ResearchCapHolds, CapAllows
    <2>. QED BY <1>1, <2>2, <2>3 DEF FlightInv
  <1>9. FileInv'
    <2>1. ASSUME Whole, NEW b \in Alphas PROVE LedgerOf(b)'
      <3>. DEFINE es == entries_for(file, b)
      <3>1. LedgerOf(b) /\ Len(es) \in Nat
        BY <2>1, WholeFile DEF PromotionInv, FileInv
      <3>2. (Recorded(b) = (a = b)) /\ (Recorded(b)') = FALSE
        BY <1>1 DEF Recorded, rec
      <3>3. entries_for(file, b)' = es
        BY <1>1
      <3>4. CASE a # b
        <4>1. /\ reg[b] # None => Tells(es, mark[b], reg[b].hist, FALSE, flight'.rec)
              /\ reg[b] # None /\ insync[b] => Agrees(es, reg[b])
              /\ ckpt[b] # None => Known(es, ckpt[b])
          BY <3>1, <3>2, <3>4 DEF LedgerOf, Tells
        <4>2. reg'[b] = reg[b]
          BY <1>7, <3>4
        <4>. HIDE DEF es, a
        <4>. QED BY <1>1, <3>2, <3>3, <4>1, <4>2 DEF LedgerOf, Tells, Agrees, Known
      <3>5. CASE a = b
        <4>1. /\ Tells(es, mark[a], reg[a].hist, TRUE, rec)
              /\ insync[a] => \E told \in Seq(PromotionLedgerEntry) :
                                  es = Append(told, rec) /\ Agrees(told, reg[a])
              /\ ckpt[a] # None => Known(es, ckpt[a])
          BY <1>2, <3>1, <3>2, <3>5 DEF LedgerOf, rec
        <4>. HIDE DEF es, a
        <4>2. Tells(es, mark[a], lc.hist, FALSE, flight'.rec)
          <5>1. reg[a].hist \in Seq(PromotionLedgerEntry)
            BY <1>4 DEF Lifecycle
          <5>. DEFINE h == reg[a].hist
                      n == Len(h)
          <5>2. n \in Nat /\ Len(lc.hist) = n + 1 /\ lc.hist[n + 1] = rec
                /\ \A i \in 1 .. n : lc.hist[i] = h[i]
            BY <5>1, <1>5
          <5>3. mark[a] \in Nat /\ Len(es) = mark[a] + n + 1 /\ es[Len(es)] = rec
                /\ \A i \in 1 .. n : es[mark[a] + i] = h[i]
            BY <4>1 DEF Tells
          <5>. HIDE DEF n, h
          <5>4. \A i \in 1 .. (n + 1) : es[mark[a] + i] = lc.hist[i]
            <6>. TAKE i \in 1 .. (n + 1)
            <6>1. CASE i = n + 1
              <7>1. mark[a] + i = Len(es)
                <8>1. n \in Nat /\ mark[a] \in Nat
                  BY <5>2, <5>3
                <8>2. mark[a] + (n + 1) = mark[a] + n + 1
                  BY <8>1
                <8>. QED BY <6>1, <8>2, <5>3
              <7>. QED BY <6>1, <7>1, <5>2, <5>3
            <6>2. CASE i # n + 1
              <7>1. i \in 1 .. n
                BY <6>2, <5>2
              <7>. QED BY <7>1, <5>2, <5>3
            <6>. QED BY <6>1, <6>2
          <5>5. Len(es) = mark[a] + Len(lc.hist) + 0
            <6>. DEFINE m == mark[a]
                        k == Len(es)
            <6>1. n \in Nat /\ m \in Nat /\ k = m + n + 1
              BY <5>2, <5>3
            <6>2. Len(lc.hist) = n + 1
              BY <5>2
            <6>. HIDE DEF m, k
            <6>3. k = m + (n + 1) + 0
              BY <6>1
            <6>4. k = m + Len(lc.hist) + 0
              BY <6>2, <6>3
            <6>. QED BY <6>4 DEF m, k
          <5>6. \A i \in 1 .. Len(lc.hist) : es[mark[a] + i] = lc.hist[i]
            BY <5>2, <5>4
          <5>. QED BY <5>3, <5>5, <5>6, Zenon DEF Tells
        <4>3. insync[a] => Agrees(es, lc)
          BY <1>2, <1>3, <1>4, <4>1, AgreesAfter DEF lc
        <4>4. /\ Tells(es, mark'[b], reg'[b].hist, FALSE, flight'.rec)
              /\ insync'[b] => Agrees(es, reg'[b])
              /\ ckpt'[b] # None => Known(es, ckpt'[b])
          BY <1>1, <1>7, <3>5, <4>1, <4>2, <4>3
        <4>. QED BY <3>2, <3>3, <4>4 DEF LedgerOf, Tells, Agrees, Known
      <3>. QED BY <3>4, <3>5
    <2>. QED BY <1>1, <2>1 DEF PromotionInv, FileInv, Whole, Clean
  <1>. QED BY <1>8, <1>9 DEF PromotionInv

-----------------------------------------------------------------------------
\* Nothing changes.
LEMMA StutterInv ==
    ASSUME PromotionInv, UNCHANGED promotionVars PROVE PromotionInv'
  <1>1. UNCHANGED <<up, pins, reg, flight, file, torn, ckpt, faults, mark, insync>>
    BY DEF promotionVars
  <1>2. RegistryInv' /\ FlightInv' /\ ResearchCapHolds'
    BY <1>1 DEF PromotionInv, RegistryInv, FlightInv, ResearchCapHolds, Checkpointed, Lifecycle, Respects
  <1>3. \A b \in Alphas : LedgerOf(b) => LedgerOf(b)'
    BY <1>1, LedgerStays
  <1>4. FileInv'
    BY <1>1, <1>3 DEF PromotionInv, FileInv, Whole, Clean
  <1>. QED BY <1>2, <1>4 DEF PromotionInv

\* Every step keeps the invariant: one case per action.
LEMMA PromotionStep ==
    ASSUME PromotionInv, [PromotionNext]_promotionVars PROVE PromotionInv'
  <1>1. ASSUME NEW p \in Platforms, Build(p) PROVE PromotionInv'
    BY <1>1, BuildInv
  <1>2. ASSUME NEW a \in Alphas, NEW m \in Manifests, register(a, m) PROVE PromotionInv'
    BY <1>2, RegisterInv
  <1>3. ASSUME NEW a \in Alphas, unregister(a) PROVE PromotionInv'
    BY <1>3, UnregisterInv
  <1>4. ASSUME NEW a \in Alphas, NEW evs \in Submissions, promote(a, evs) PROVE PromotionInv'
    BY <1>4, PromoteInv
  <1>5. ASSUME NEW a \in Alphas, NEW evs \in Submissions, promote_capital_tier(a, evs) PROVE PromotionInv'
    BY <1>5, CapitalTierInv
  <1>6. ASSUME NEW a \in Alphas, NEW evs \in Submissions, authorize_decouple(a, evs) PROVE PromotionInv'
    BY <1>6, DecoupleInv
  <1>7. ASSUME NEW a \in Alphas, NEW evs \in Submissions, quarantine(a, evs) PROVE PromotionInv'
    <2>1. {evs[i] : i \in DOMAIN evs} \in SUBSET Evidence
      BY Submitted
    <2>. QED BY <1>7, <2>1, QuarantineInv
  <1>8. ASSUME NEW a \in Alphas, NEW e \in LegacyForms, promote_legacy(a, e) PROVE PromotionInv'
    BY <1>8, LegacyInv
  <1>9. ASSUME NEW a \in Alphas, decommission(a) PROVE PromotionInv'
    BY <1>9, DecommissionInv
  <1>10. ASSUME NEW a \in Alphas, NEW row \in BreakerRows, apply_recommendation(a, row) PROVE PromotionInv'
    BY <1>10, RecommendationInv
  <1>11. ASSUME NEW a \in Alphas, checkpoint(a) PROVE PromotionInv'
    BY <1>11, CheckpointInv
  <1>12. ASSUME NEW a \in Alphas, restore(a) PROVE PromotionInv'
    BY <1>12, RestoreInv
  <1>13. CASE RecordToLedger
    BY <1>13, RecordInv
  <1>14. CASE LedgerWriteFails
    BY <1>14, WriteFailsInv
  <1>15. CASE FireRevocationHook
    BY <1>15, HookInv
  <1>16. CASE Commit
    BY <1>16, CommitInv
  <1>17. CASE Crash
    BY <1>17, CrashInv
  <1>18. CASE UNCHANGED promotionVars
    BY <1>18, StutterInv
  <1>. QED BY <1>1, <1>2, <1>3, <1>4, <1>5, <1>6, <1>7, <1>8, <1>9, <1>10, <1>11, <1>12,
              <1>13, <1>14, <1>15, <1>16, <1>17, <1>18, Zenon DEF PromotionNext

\* The registry, the transition in flight and the whole lines of the ledger
\* fit together after every step of the lifecycle (lifecycle.py, ledger.py).
THEOREM PromotionInductive == PromotionSpec => []PromotionInv
  BY PromotionStarts, PromotionStep, PTL DEF PromotionSpec

-----------------------------------------------------------------------------
\* What the invariant says of the ledger, of the gates and of the replay.
LEMMA HistoryIsTold ==
    ASSUME PromotionInv PROVE LedgerTellsHistory
  <1>. SUFFICES ASSUME Whole, NEW a \in Alphas, reg[a] # None
                PROVE  LET es == entries_for(file, a)
                           open == IF flight # None /\ flight.rec.alpha = a /\ flight.step # "ledger"
                                   THEN <<flight.rec>> ELSE <<>>
                       IN  SubSeq(es, mark[a] + 1, Len(es)) = reg[a].hist \o open
    BY DEF LedgerTellsHistory, Whole
  <1>. DEFINE es == entries_for(file, a)
              h == reg[a].hist
              open == IF Recorded(a) THEN <<flight.rec>> ELSE <<>>
              m == mark[a]
              left == SubSeq(es, m + 1, Len(es))
              right == h \o open
  <1>1. es \in Seq(PromotionLedgerEntry) /\ Len(es) \in Nat
    BY WholeFile DEF PromotionInv
  <1>2. h \in Seq(PromotionLedgerEntry) /\ Len(h) \in Nat
    BY DEF PromotionInv, RegistryInv, Lifecycle
  <1>3. Tells(es, m, h, Recorded(a), flight.rec)
    BY DEF PromotionInv, FileInv, LedgerOf
  <1>4. /\ m \in Nat /\ Len(es) = m + Len(h) + (IF Recorded(a) THEN 1 ELSE 0)
        /\ \A i \in 1 .. Len(h) : es[m + i] = h[i]
        /\ Recorded(a) => es[Len(es)] = flight.rec
    BY <1>3 DEF Tells
  <1>5. Recorded(a) => flight.rec \in PromotionLedgerEntry
    BY DEF PromotionInv, FlightInv, InFlight, Recorded
  <1>6. left = right
    <2>. HIDE DEF es, h, m
    <2>1. CASE Recorded(a)
      <3>1. Len(es) = m + Len(h) + 1 /\ open = <<flight.rec>>
        BY <2>1, <1>4
      <3>2. /\ right \in Seq(PromotionLedgerEntry) /\ Len(right) = Len(h) + 1
            /\ \A i \in 1 .. Len(h) : right[i] = h[i]
            /\ right[Len(h) + 1] = flight.rec
        BY <2>1, <1>2, <1>5, <3>1
      <3>3. /\ left \in Seq(PromotionLedgerEntry) /\ Len(left) = Len(h) + 1
            /\ \A i \in 1 .. (Len(h) + 1) : left[i] = es[m + i]
        BY <1>1, <1>2, <1>4, <3>1
      <3>. HIDE DEF left, right
      <3>4. \A i \in 1 .. (Len(h) + 1) : left[i] = right[i]
        <4>. TAKE i \in 1 .. (Len(h) + 1)
        <4>1. CASE i \in 1 .. Len(h)
          BY <4>1, <1>4, <3>2, <3>3
        <4>2. CASE i = Len(h) + 1
          <5>1. m + i = Len(es)
            BY <4>2, <3>1, <1>2, <1>4
          <5>. QED BY <4>2, <5>1, <2>1, <1>4, <3>2, <3>3
        <4>. QED BY <4>1, <4>2, <1>2
      <3>. QED BY <3>2, <3>3, <3>4, SeqEqual
    <2>2. CASE ~Recorded(a)
      <3>1. Len(es) = m + Len(h) /\ right = h
        BY <2>2, <1>2, <1>4
      <3>2. /\ left \in Seq(PromotionLedgerEntry) /\ Len(left) = Len(h)
            /\ \A i \in 1 .. Len(h) : left[i] = es[m + i]
        BY <1>1, <1>2, <1>4, <3>1
      <3>. HIDE DEF left, right
      <3>. QED BY <1>2, <1>4, <3>1, <3>2, SeqEqual
    <2>. QED BY <2>1, <2>2
  <1>. QED BY <1>6 DEF Recorded

\* Rows that are in order are sorted as they stand: as many come before a row
\* as have a smaller index.
LEMMA InOrderIsSorted ==
    ASSUME NEW es \in Seq(PromotionLedgerEntry), InOrder(es)
    PROVE  ByTime(es) = es
  <1>. DEFINE n == Len(es)
              Rank(i) == Cardinality({j \in DOMAIN es : Before(es, j, i)})
  <1>1. n \in Nat /\ DOMAIN es = 1 .. n /\ es = [k \in 1 .. n |-> es[k]]
    OBVIOUS
  <1>2. \A i \in 1 .. n : es[i].timestamp_ns \in Nat
    <2>1. \A i \in 1 .. n : es[i] \in PromotionLedgerEntry
      OBVIOUS
    <2>2. \A r \in PromotionLedgerEntry : r.timestamp_ns \in Nat
      BY DEF PromotionLedgerEntry
    <2>. QED BY <2>1, <2>2
  <1>. HIDE DEF n
  <1>3. ASSUME NEW i \in 1 .. n PROVE Rank(i) = i - 1
    <2>1. \A j \in 1 .. n : Before(es, j, i) <=> j < i
      BY <1>1, <1>2 DEF Before, InOrder
    <2>2. {j \in DOMAIN es : Before(es, j, i)} = 1 .. (i - 1)
      <3>1. {j \in DOMAIN es : Before(es, j, i)} = {j \in 1 .. n : j < i}
        BY <1>1, <2>1
      <3>2. {j \in 1 .. n : j < i} = 1 .. (i - 1)
        BY <1>1
      <3>. QED BY <3>1, <3>2
    <2>3. Cardinality(1 .. (i - 1)) = i - 1
      <3>1. i - 1 \in Int /\ 1 \in Int
        BY <1>1
      <3>2. Cardinality(1 .. (i - 1)) = IF 1 > i - 1 THEN 0 ELSE (i - 1) - 1 + 1
        BY <3>1, FS_Interval
      <3>. QED BY <1>1, <3>2
    <2>. QED BY <2>2, <2>3
  <1>4. ASSUME NEW k \in 1 .. n PROVE (CHOOSE i \in 1 .. n : Rank(i) = k - 1) = k
    <2>. HIDE DEF Rank
    <2>1. \A i \in 1 .. n : Rank(i) = k - 1 <=> i = k
      BY <1>1, <1>3
    <2>. QED BY <2>1
  <1>. DEFINE sorted(k) == es[CHOOSE i \in DOMAIN es : Rank(i) = k - 1]
  <1>5. ASSUME NEW k \in 1 .. n PROVE sorted(k) = es[k]
    <2>1. (CHOOSE i \in DOMAIN es : Rank(i) = k - 1) = CHOOSE i \in 1 .. n : Rank(i) = k - 1
      BY <1>1, Zenon
    <2>. HIDE DEF Rank
    <2>. QED BY <2>1, <1>4, Zenon
  <1>6. ByTime(es) = [k \in DOMAIN es |-> sorted(k)]
    BY Zenon DEF ByTime
  <1>. HIDE DEF sorted, Rank
  <1>7. [k \in DOMAIN es |-> sorted(k)] = [k \in 1 .. n |-> es[k]]
    BY <1>1, <1>5
  <1>. QED BY <1>1, <1>6, <1>7, Zenon

\* State and tier, as the command line shows them.
LEMMA TierIsTold ==
    ASSUME PromotionInv PROVE LedgerAgreesOnTier
  <1>. SUFFICES ASSUME Whole, flight = None, NEW a \in Alphas, reg[a] # None, insync[a],
                       InOrder(entries_for(file, a))
                PROVE  /\ SummaryState(entries_for(file, a)) = reg[a].state
                       /\ _capital_tier_from_entries(entries_for(file, a)) = current_capital_tier(reg[a])
    BY DEF LedgerAgreesOnTier, Whole
  <1>1. ~Recorded(a)
    BY DEF Recorded
  <1>2. Agrees(entries_for(file, a), reg[a])
    BY <1>1 DEF PromotionInv, FileInv, LedgerOf
  <1>3. ByTime(entries_for(file, a)) = entries_for(file, a)
    BY WholeFile, InOrderIsSorted DEF PromotionInv
  <1>. QED BY <1>2, <1>3 DEF Agrees, SummaryState, _capital_tier_from_entries

\* The floors the operator pinned.
LEMMA FloorsAreHeld ==
    ASSUME PromotionInv PROVE FloorsHold
  <1>. DEFINE u == [f \in ThresholdFields |-> IF f \in DOMAIN pins THEN pins[f] ELSE flight.thr[f]]
  <1>. SUFFICES ASSUME flight # None, flight.rec.to # "QUARANTINED", NEW e \in flight.md.sections,
                       e.kind \in GATE_EVIDENCE_REQUIREMENTS[_gate_for_entry(flight.rec)]
                PROVE  Validates(e, u)
    BY DEF FloorsHold
  <1>1. /\ flight \in InFlight /\ reg[flight.rec.alpha] # None
        /\ flight.thr = reg[flight.rec.alpha].thr /\ Granted(flight)
    BY DEF PromotionInv, FlightInv
  <1>2. flight.rec.alpha \in Alphas
    BY <1>1 DEF InFlight, PromotionLedgerEntry
  <1>3. Respects(flight.thr, pins) /\ OverridesOK(pins)
    BY <1>1, <1>2 DEF PromotionInv, RegistryInv
  <1>4. Relaxes(u, flight.thr)
    BY <1>3, PinnedRelaxes
  <1>. HIDE DEF u
  <1>5. PICK evs \in Submissions : /\ flight.md.sections = {evs[i] : i \in DOMAIN evs}
                                   /\ validate_gate(Gate(flight.rec), evs, flight.thr)
    BY <1>1 DEF Granted
  <1>6. Gate(flight.rec) \in GateId /\ Gate(flight.rec) # "live_to_quarantined"
    BY <1>1 DEF Granted
  <1>7. PICK i \in DOMAIN evs : e = evs[i]
    BY <1>5
  <1>8. e \in Evidence /\ Validates(e, flight.thr)
    BY <1>5, <1>7, Submitted DEF validate_gate, Gate
  <1>9. e.kind # "quarantine_trigger"
    BY <1>6, Asked DEF Gate
  <1>. QED BY <1>4, <1>8, <1>9, EvidenceRelaxes

\* The replay of a gate under the defaults.
LEMMA ReplayIsHeld ==
    ASSUME PromotionInv PROVE ReplayAgrees
  <1>. SUFFICES ASSUME flight # None, flight.rec.to # "QUARANTINED",
                       \A f \in ThresholdFields : Stricter(f, flight.thr[f], GateThresholds[f])
                PROVE  _replay_one(flight.rec, flight.md) # "fail"
    BY DEF ReplayAgrees
  <1>1. flight \in InFlight /\ Granted(flight)
    BY DEF PromotionInv, FlightInv
  <1>2. flight.thr \in Thresholds
    BY <1>1 DEF InFlight
  <1>3. Relaxes(GateThresholds, flight.thr)
    <2>. HIDE DEF GateThresholds
    <2>. QED BY <1>2, Defaults DEF Relaxes, ThresholdFields
  <1>4. CASE ~flight.md.version
    BY <1>4 DEF _replay_one
  <1>5. CASE flight.md.version
    <2>1. PICK evs \in Submissions : /\ flight.md.sections = {evs[i] : i \in DOMAIN evs}
                                     /\ validate_gate(Gate(flight.rec), evs, flight.thr)
      BY <1>1, <1>5 DEF Granted
    <2>2. Gate(flight.rec) \in GateId /\ Gate(flight.rec) # "live_to_quarantined"
          /\ flight.md.cokeys \subseteq RESERVED_METADATA_KEYS
      BY <1>1, <1>5 DEF Granted
    <2>3. MetadataReadable(flight.md) /\ metadata_to_evidence(flight.md) = {evs[i] : i \in DOMAIN evs}
      BY <1>5, <2>1, <2>2 DEF MetadataReadable, metadata_to_evidence
    <2>4. validate_gate(Gate(flight.rec), SetToSeq({evs[i] : i \in DOMAIN evs}), GateThresholds)
      BY <1>3, <2>1, <2>2, GateReplays
    <2>5. validate_gate(Gate(flight.rec), SetToSeq(metadata_to_evidence(flight.md)), GateThresholds)
      BY <2>3, <2>4, Zenon
    <2>. QED BY <1>5, <2>3, <2>5, Zenon DEF _replay_one, Gate
  <1>. QED BY <1>4, <1>5

\* All of it.
LEMMA PromotionHolds == PromotionInv => PromotionSound
  BY HistoryIsTold, TierIsTold, FloorsAreHeld, ReplayIsHeld DEF PromotionSound, PromotionInv

\* Whatever was written, torn or lost, the ledger says of an alpha what its
\* lifecycle says (in the order of its timestamps, if no clock stepped back), a gate replayed from it decides as it did, and no alpha is
\* promoted below the platform's thresholds or out of its research cap
\* (ledger.py, lifecycle.py, cli/promote.py, evidence.py, registry.py).
THEOREM PromotionIsSound == PromotionSpec => []PromotionSound
  BY PromotionInductive, PromotionHolds, PTL

-----------------------------------------------------------------------------
(***************************************************************************)
(* The walk-forward study.                                                 *)
(***************************************************************************)
\* The step of splits_by_group.
Collect(c, x, e) == IF e \in c THEN Append(x, e) ELSE x

\* x lists, once each, the members of d that are at most k.
Lists(d, k, x) ==
    /\ x \in Seq(Nat)
    /\ \A p \in DOMAIN x : x[p] \in d /\ x[p] <= k
    /\ \A p, q \in DOMAIN x : x[p] = x[q] => p = q
    /\ \A i \in d : i <= k => \E p \in DOMAIN x : x[p] = i

Chosen == INSTANCE FoldTheorems WITH Step <- Collect, Good <- Lists

-----------------------------------------------------------------------------
\* The least of a set of natural numbers.
LEMMA LeastMember ==
    ASSUME NEW S \in SUBSET Nat, S # {} PROVE Min(S) \in S /\ \A y \in S : Min(S) <= y
  <1>1. \E m \in S : \A k \in S : m <= k
    BY Chosen!Least
  <1>. QED BY <1>1, Zenon DEF Min

\* Selecting, one by one, the members of K from 1, 2, ..., n lists K.
LEMMA SelectionLists ==
    ASSUME NEW n \in Nat, NEW K \in SUBSET (1 .. n)
    PROVE  LET x == FoldLeft(LAMBDA listed, i : IF i \in K THEN Append(listed, i) ELSE listed,
                             <<>>, [i \in 1 .. n |-> i])
           IN  Lists(K, n, x) /\ IsFiniteSet(K) /\ Len(x) = Cardinality(K)
  <1>. DEFINE x == FoldLeft(LAMBDA listed, i : IF i \in K THEN Append(listed, i) ELSE listed,
                            <<>>, [i \in 1 .. n |-> i])
              seq == [i \in 1 .. n |-> i]
  <1>1. seq \in Seq(Nat) /\ Len(seq) = n /\ \A i \in 1 .. n : seq[i] = i
    OBVIOUS
  <1>2. x = Chosen!Fold(K, <<>>, seq)
    BY DEF FoldLeft, MapThenFoldSet, Collect, Chosen!Fold, Chosen!FoldLeft,
           Chosen!MapThenFoldSet, Max, Chosen!Max
  <1>3. Lists(K, 0, <<>>)
    BY DEF Lists
  <1>4. ASSUME NEW k \in 0 .. (n - 1), NEW y, Lists(K, k, y)
        PROVE  Lists(K, k + 1, Collect(K, y, seq[k + 1]))
    <2>1. seq[k + 1] = k + 1 /\ k + 1 \in Nat /\ k \in Nat
      BY <1>1
    <2>2. CASE k + 1 \in K
      <3>1. Collect(K, y, seq[k + 1]) = Append(y, k + 1)
        BY <2>1, <2>2 DEF Collect
      <3>. DEFINE z == Append(y, k + 1)
      <3>2. y \in Seq(Nat)
        BY <1>4 DEF Lists
      <3>3. z \in Seq(Nat) /\ DOMAIN z = 1 .. (Len(y) + 1) /\ DOMAIN y = 1 .. Len(y)
            /\ Len(y) \in Nat /\ z[Len(y) + 1] = k + 1 /\ \A p \in DOMAIN y : z[p] = y[p]
        BY <3>2, <2>1
      <3>4. \A p \in DOMAIN y : y[p] \in K /\ y[p] <= k /\ y[p] \in Nat
        BY <1>4, <3>2, <3>3 DEF Lists
      <3>. HIDE DEF z
      <3>5. \A p \in DOMAIN z : z[p] \in K /\ z[p] <= k + 1
        <4>. TAKE p \in DOMAIN z
        <4>1. CASE p = Len(y) + 1
          BY <4>1, <3>3, <2>2
        <4>2. CASE p # Len(y) + 1
          <5>1. p \in DOMAIN y
            BY <4>2, <3>3
          <5>. QED BY <5>1, <3>3, <3>4, <2>1
        <4>. QED BY <4>1, <4>2
      <3>6. \A p, q \in DOMAIN z : z[p] = z[q] => p = q
        <4>1. \A p, q \in DOMAIN y : y[p] = y[q] => p = q
          BY <1>4 DEF Lists
        <4>2. \A p \in DOMAIN z : p = Len(y) + 1 \/ p \in DOMAIN y
          BY <3>3
        <4>3. \A p \in DOMAIN y : z[p] # k + 1
          BY <3>3, <3>4, <2>1
        <4>. QED BY <4>1, <4>2, <4>3, <3>3
      <3>7. \A i \in K : i <= k + 1 => \E p \in DOMAIN z : z[p] = i
        <4>. TAKE i \in K
        <4>. HAVE i <= k + 1
        <4>1. CASE i = k + 1
          <5>1. Len(y) + 1 \in DOMAIN z
            BY <3>3
          <5>. QED BY <5>1, <4>1, <3>3
        <4>2. CASE i # k + 1
          <5>1. i <= k
            BY <4>2
          <5>2. PICK p \in DOMAIN y : y[p] = i
            BY <5>1, <1>4 DEF Lists
          <5>3. p \in DOMAIN z
            BY <3>3
          <5>. QED BY <5>2, <5>3, <3>3
        <4>. QED BY <4>1, <4>2
      <3>8. Lists(K, k + 1, z)
        BY <3>3, <3>5, <3>6, <3>7 DEF Lists
      <3>. QED BY <3>1, <3>8 DEF z
    <2>3. CASE k + 1 \notin K
      <3>1. Collect(K, y, seq[k + 1]) = y
        BY <2>1, <2>3 DEF Collect
      <3>2. \A i \in K : i <= k + 1 => i <= k
        BY <2>3
      <3>3. \A p \in DOMAIN y : y[p] \in K /\ y[p] <= k + 1
        BY <1>4 DEF Lists
      <3>. QED BY <3>1, <3>2, <3>3, <1>4 DEF Lists
    <2>. QED BY <2>2, <2>3
  <1>5. Lists(K, n, x)
    <2>. HIDE DEF x, seq
    <2>1. \A s \in Seq(Nat) :
             /\ Lists(K, 0, <<>>)
             /\ \A k \in 0 .. (Len(s) - 1) : \A y :
                   Lists(K, k, y) => Lists(K, k + 1, Collect(K, y, s[k + 1]))
             => Lists(K, Len(s), Chosen!Fold(K, <<>>, s))
      BY Chosen!Keeps
    <2>. QED BY <2>1, <1>1, <1>2, <1>3, <1>4
  <1>. HIDE DEF x
  <1>6. IsFiniteSet(K)
    <2>1. IsFiniteSet(1 .. n)
      BY FS_Interval
    <2>. QED BY <2>1, FS_Subset
  <1>7. Len(x) = Cardinality(K)
    <2>1. x \in [1 .. Len(x) -> K] /\ Len(x) \in Nat
      BY <1>5 DEF Lists
    <2>2. x \in Bijection(1 .. Len(x), K)
      <3>1. \A i \in K : i <= n
        OBVIOUS
      <3>2. \A p, q \in 1 .. Len(x) : x[p] = x[q] => p = q
        BY <2>1, <1>5 DEF Lists
      <3>3. \A i \in K : \E p \in 1 .. Len(x) : x[p] = i
        BY <2>1, <3>1, <1>5 DEF Lists
      <3>. QED BY <2>1, <3>2, <3>3 DEF Bijection, Injection, Surjection, IsInjective
    <2>. QED BY <2>1, <2>2, FS_CountingElements DEF ExistsBijection
  <1>. QED BY <1>5, <1>6, <1>7, Zenon DEF x

-----------------------------------------------------------------------------
\* Around every member of a set of bars lies a maximal run of the set.
LEMMA RegionAround ==
    ASSUME NEW n \in Nat, NEW T \in SUBSET (0 .. (n - 1)), NEW t \in T
    PROVE  \E r \in Regions(T) : r[1] <= t /\ t <= r[2]
  <1>. DEFINE Down == {a \in Nat : a <= t /\ a .. t \subseteq T}
              Up == {e \in Nat : t <= e /\ e + 1 \notin T}
  <1>0. t \in Nat /\ t <= n - 1 /\ \A y \in T : y \in Nat /\ y <= n - 1
    OBVIOUS
  <1>1. PICK a \in Down : \A y \in Down : a <= y
    <2>1. t \in Down
      BY <1>0
    <2>. HIDE DEF Down
    <2>2. Down \in SUBSET Nat
      BY DEF Down
    <2>. QED BY <2>1, <2>2, Chosen!Least
  <1>2. PICK e \in Up : \A y \in Up : e <= y
    <2>1. n \in Up
      BY <1>0
    <2>. HIDE DEF Up
    <2>2. Up \in SUBSET Nat
      BY DEF Up
    <2>. QED BY <2>1, <2>2, Chosen!Least
  <1>3. a \in T /\ a - 1 \notin T /\ a .. t \subseteq T /\ a <= t /\ a \in Nat
    <2>1. a \in a .. t
      BY <1>0, <1>1
    <2>2. ASSUME a - 1 \in T PROVE FALSE
      <3>1. a - 1 \in Nat /\ a - 1 <= t
        BY <1>0, <1>1, <2>2
      <3>2. \A y \in (a - 1) .. t : y \in T
        <4>. TAKE y \in (a - 1) .. t
        <4>1. y = a - 1 \/ y \in a .. t
          BY <1>0, <1>1
        <4>. QED BY <4>1, <2>2, <1>1
      <3>3. a - 1 \in Down
        BY <3>1, <3>2
      <3>. QED BY <3>3, <1>1
    <2>. QED BY <2>1, <2>2, <1>1
  <1>4. e \in Nat /\ t <= e /\ e + 1 \notin T /\ t .. e \subseteq T
    <2>1. ASSUME NEW y \in t .. e, y \notin T PROVE FALSE
      <3>1. y # t
        BY <2>1
      <3>2. y - 1 \in Nat /\ t <= y - 1 /\ (y - 1) + 1 = y /\ ~(e <= y - 1)
        BY <3>1, <1>0, <1>2
      <3>3. y - 1 \in Up
        BY <3>2, <2>1
      <3>. QED BY <3>2, <3>3, <1>2
    <2>. QED BY <2>1, <1>2
  <1>5. e \in T /\ a <= e /\ a .. e \subseteq T
    <2>1. e \in t .. e
      BY <1>0, <1>4
    <2>2. \A y \in a .. e : y \in a .. t \/ y \in t .. e
      BY <1>0, <1>3, <1>4
    <2>. QED BY <2>1, <2>2, <1>3, <1>4, <1>0
  <1>. DEFINE r == <<a, e>>
  <1>6. r \in Regions(T)
    BY <1>3, <1>4, <1>5 DEF Regions
  <1>. QED BY <1>6, <1>3, <1>4

\* What a region is.
LEMMA RegionIs ==
    ASSUME NEW T \in SUBSET Nat, NEW r \in Regions(T)
    PROVE  r[1] \in T /\ r[2] \in T /\ r[1] <= r[2] /\ r[1] .. r[2] \subseteq T
  <1>1. r \in T \X T /\ r[1] <= r[2] /\ r[1] .. r[2] \subseteq T
    BY DEF Regions
  <1>. QED BY <1>1

\* Purging region by region leaves the bars that no tested bar leaks into.
LEMMA PurgeIsBarwise ==
    ASSUME NEW n \in Nat, NEW T \in SUBSET (0 .. (n - 1)), NEW s,
           s.n_bars = n, s.horizon \in Nat, s.embargo \in Nat
    PROVE  _purged_train_indices(T, s) = {b \in 0 .. (n - 1) : \A t \in T : ~Leaks(b, t, s)}
  <1>. DEFINE h == s.horizon
              e == s.embargo
              Reach(r) == (r[1] - h) .. (r[2] + h + e)
  <1>0. T \in SUBSET Nat
    OBVIOUS
  <1>1. ASSUME NEW b \in 0 .. (n - 1)
        PROVE  (b \in T \/ \E r \in Regions(T) : b \in Reach(r)) <=> \E t \in T : Leaks(b, t, s)
    <2>1. ASSUME b \in T PROVE Leaks(b, b, s)
      BY DEF Leaks
    <2>2. ASSUME NEW r \in Regions(T), b \in Reach(r) PROVE \E t \in T : Leaks(b, t, s)
      <3>1. r[1] \in T /\ r[2] \in T /\ r[1] <= r[2] /\ r[1] .. r[2] \subseteq T
            /\ r[1] \in Nat /\ r[2] \in Nat
        BY <1>0, RegionIs
      <3>2. CASE b < r[1]
        <4>1. Leaks(b, r[1], s)
          BY <2>2, <3>1, <3>2 DEF Leaks
        <4>. QED BY <4>1, <3>1
      <3>3. CASE b > r[2]
        <4>1. Leaks(b, r[2], s)
          BY <2>2, <3>1, <3>3 DEF Leaks
        <4>. QED BY <4>1, <3>1
      <3>4. CASE b \in r[1] .. r[2]
        BY <3>1, <3>4, <2>1
      <3>. QED BY <3>1, <3>2, <3>3, <3>4
    <2>3. ASSUME NEW t \in T, Leaks(b, t, s) PROVE \E r \in Regions(T) : b \in Reach(r)
      <3>1. PICK r \in Regions(T) : r[1] <= t /\ t <= r[2]
        BY RegionAround
      <3>2. r[1] \in Nat /\ r[2] \in Nat /\ t \in Nat
        BY <1>0, RegionIs
      <3>3. b \in Reach(r)
        BY <2>3, <3>1, <3>2 DEF Leaks
      <3>. QED BY <3>3
    <2>. QED BY <2>1, <2>2, <2>3
  <1>. QED BY <1>1 DEF _purged_train_indices

-----------------------------------------------------------------------------
\* Of two different sets the one that holds their least difference is listed
\* first: the order is strict, total and transitive.
LEMMA Decides ==
    ASSUME NEW A \in SUBSET Nat, NEW B \in SUBSET Nat, A # B
    PROVE  /\ Min((A \ B) \union (B \ A)) \in (A \ B) \union (B \ A)
           /\ \A y \in (A \ B) \union (B \ A) : Min((A \ B) \union (B \ A)) <= y
  <1>1. (A \ B) \union (B \ A) \in SUBSET Nat /\ (A \ B) \union (B \ A) # {}
    OBVIOUS
  <1>. QED BY <1>1, LeastMember

\* The order of the combinations is a strict total order.
LEMMA Listing ==
    ASSUME NEW A \in SUBSET Nat, NEW B \in SUBSET Nat, NEW C \in SUBSET Nat
    PROVE  /\ ~ListedBefore(A, A)
           /\ A # B => ListedBefore(A, B) \/ ListedBefore(B, A)
           /\ ListedBefore(A, B) /\ ListedBefore(B, C) => ListedBefore(A, C)
  <1>1. ~ListedBefore(A, A)
    BY DEF ListedBefore
  <1>2. ASSUME A # B PROVE ListedBefore(A, B) \/ ListedBefore(B, A)
    <2>1. (A \ B) \union (B \ A) = (B \ A) \union (A \ B)
      OBVIOUS
    <2>. QED BY <1>2, <2>1, Decides DEF ListedBefore
  <1>3. ASSUME ListedBefore(A, B), ListedBefore(B, C) PROVE ListedBefore(A, C)
    <2>. DEFINE x == Min((A \ B) \union (B \ A))
                y == Min((B \ C) \union (C \ B))
                z == Min((A \ C) \union (C \ A))
    <2>1. x \in A /\ x \notin B /\ x \in Nat /\ \A u \in Nat : u < x => (u \in A <=> u \in B)
      <3>1. A # B /\ x \in A
        BY <1>3 DEF ListedBefore
      <3>2. x \in (A \ B) \union (B \ A) /\ \A u \in (A \ B) \union (B \ A) : x <= u
        BY <3>1, Decides
      <3>. HIDE DEF x
      <3>. QED BY <3>1, <3>2
    <2>2. y \in B /\ y \notin C /\ y \in Nat /\ \A u \in Nat : u < y => (u \in B <=> u \in C)
      <3>1. B # C /\ y \in B
        BY <1>3 DEF ListedBefore
      <3>2. y \in (B \ C) \union (C \ B) /\ \A u \in (B \ C) \union (C \ B) : y <= u
        BY <3>1, Decides
      <3>. HIDE DEF y
      <3>. QED BY <3>1, <3>2
    <2>. HIDE DEF x, y
    <2>3. PICK m \in A : m \notin C /\ \A u \in Nat : u < m => (u \in A <=> u \in C)
      <3>1. CASE x < y
        BY <3>1, <2>1, <2>2
      <3>2. CASE y < x
        BY <3>2, <2>1, <2>2
      <3>. QED BY <3>1, <3>2, <2>1, <2>2
    <2>4. z \in (A \ C) \union (C \ A) /\ \A u \in (A \ C) \union (C \ A) : z <= u
      BY <2>3, Decides
    <2>. HIDE DEF z
    <2>5. z = m
      BY <2>3, <2>4
    <2>. QED BY <2>3, <2>5 DEF ListedBefore, z
  <1>. QED BY <1>1, <1>2, <1>3

\* The k-subsets are finitely many, and Combinations lists each of them once.
LEMMA Enumerates ==
    ASSUME NEW G \in Nat, NEW k \in Nat
    PROVE  LET all == kSubset(k, 0 .. (G - 1))
           IN  /\ IsFiniteSet(all) /\ Cardinality(all) \in Nat
               /\ Combinations(G, k) \in Bijection(1 .. Cardinality(all), all)
  <1>. DEFINE all == kSubset(k, 0 .. (G - 1))
              N == Cardinality(all)
              Ahead(c) == {d \in all : ListedBefore(d, c)}
              rank == [c \in all |-> Cardinality(Ahead(c))]
              C == Combinations(G, k)
  <1>1. IsFiniteSet(all) /\ N \in Nat
    <2>1. IsFiniteSet(SUBSET (0 .. (G - 1)))
      <3>1. IsFiniteSet(0 .. (G - 1))
        BY FS_Interval
      <3>. QED BY <3>1, FS_SUBSET
    <2>2. all \in SUBSET SUBSET (0 .. (G - 1))
      BY DEF kSubset
    <2>3. IsFiniteSet(all)
      BY <2>1, <2>2, FS_Subset
    <2>. QED BY <2>3, FS_CardinalityType
  <1>2. \A c \in all : c \in SUBSET Nat
    BY DEF kSubset
  <1>3. C = [i \in 1 .. N |-> CHOOSE c \in all : Cardinality(Ahead(c)) = i - 1]
    BY DEF Combinations
  <1>. HIDE DEF all, C
  <1>4. ASSUME NEW c \in all, NEW d \in all, ListedBefore(c, d)
        PROVE  rank[c] < rank[d]
    <2>1. IsFiniteSet(Ahead(d)) /\ Ahead(d) \in SUBSET all
      BY <1>1, FS_Subset
    <2>2. Ahead(c) \in SUBSET Ahead(d) /\ c \in Ahead(d) /\ c \notin Ahead(c)
      BY <1>2, <1>4, Listing
    <2>3. IsFiniteSet(Ahead(c)) /\ Cardinality(Ahead(c)) <= Cardinality(Ahead(d))
          /\ Cardinality(Ahead(c)) # Cardinality(Ahead(d))
      <3>. HIDE DEF Before
      <3>. QED BY <2>1, <2>2, FS_Subset
    <2>4. Cardinality(Ahead(c)) \in Nat /\ Cardinality(Ahead(d)) \in Nat
      <3>. HIDE DEF Before
      <3>. QED BY <2>1, <2>3, FS_CardinalityType
    <2>. QED BY <2>3, <2>4
  <1>5. ASSUME NEW c \in all PROVE rank[c] \in 0 .. (N - 1)
    <2>1. Ahead(c) \in SUBSET all /\ c \notin Ahead(c)
      BY <1>2, Listing
    <2>2. IsFiniteSet(Ahead(c)) /\ Cardinality(Ahead(c)) <= N /\ Cardinality(Ahead(c)) # N
      <3>. HIDE DEF Before
      <3>. QED BY <2>1, <1>1, FS_Subset
    <2>3. Cardinality(Ahead(c)) \in Nat
      <3>. HIDE DEF Before
      <3>. QED BY <2>2, FS_CardinalityType
    <2>. HIDE DEF Before
    <2>. QED BY <2>2, <2>3, <1>1
  <1>6. \A c, d \in all : rank[c] = rank[d] => c = d
    <2>. SUFFICES ASSUME NEW c \in all, NEW d \in all, rank[c] = rank[d], c # d PROVE FALSE
      OBVIOUS
    <2>1. ListedBefore(c, d) \/ ListedBefore(d, c)
      BY <1>2, Listing
    <2>2. rank[c] \in Nat /\ rank[d] \in Nat
      BY <1>5
    <2>. HIDE DEF rank
    <2>. QED BY <2>1, <2>2, <1>4
  <1>7. rank \in Surjection(all, 0 .. (N - 1))
    <2>. HIDE DEF rank
    <2>1. rank \in [all -> 0 .. (N - 1)]
      <3>1. rank = [c \in all |-> rank[c]]
        BY DEF rank
      <3>. QED BY <3>1, <1>5
    <2>2. rank \in Injection(all, 0 .. (N - 1))
      BY <2>1, <1>6 DEF Injection, IsInjective
    <2>3. IsFiniteSet(0 .. (N - 1)) /\ Cardinality(0 .. (N - 1)) = N
      BY <1>1, FS_Interval
    <2>. QED BY <2>2, <2>3, FS_Injection
  <1>8. ASSUME NEW i \in 1 .. N PROVE C[i] \in all /\ rank[C[i]] = i - 1
    <2>1. \E c \in all : Cardinality(Ahead(c)) = i - 1
      <3>1. i - 1 \in 0 .. (N - 1)
        BY <1>1
      <3>2. PICK c \in all : rank[c] = i - 1
        <4>. HIDE DEF rank
        <4>. QED BY <3>1, <1>7 DEF Surjection
      <3>. QED BY <3>2
    <2>2. C[i] = CHOOSE c \in all : Cardinality(Ahead(c)) = i - 1
      BY <1>3
    <2>3. C[i] \in all /\ Cardinality(Ahead(C[i])) = i - 1
      <3>. HIDE DEF Before
      <3>. QED BY <2>1, <2>2, Zenon
    <2>. QED BY <2>3
  <1>9. C \in Bijection(1 .. N, all)
    <2>1. C \in [1 .. N -> all]
      <3>. DEFINE D(i) == CHOOSE c \in all : Cardinality(Ahead(c)) = i - 1
      <3>1. C = [i \in 1 .. N |-> C[i]]
        <4>1. C = [i \in 1 .. N |-> D(i)]
          BY <1>3
        <4>. HIDE DEF D
        <4>. QED BY <4>1
      <3>2. \A i \in 1 .. N : C[i] \in all
        BY <1>8
      <3>. HIDE DEF rank, N
      <3>. QED BY <3>1, <3>2
    <2>2. \A i, j \in 1 .. N : C[i] = C[j] => i = j
      <3>. HIDE DEF rank
      <3>. QED BY <1>1, <1>8
    <2>3. \A c \in all : \E i \in 1 .. N : C[i] = c
      <3>. TAKE c \in all
      <3>1. rank[c] + 1 \in 1 .. N /\ (rank[c] + 1) - 1 = rank[c]
        BY <1>1, <1>5
      <3>2. C[rank[c] + 1] \in all /\ rank[C[rank[c] + 1]] = rank[c]
        BY <3>1, <1>8
      <3>3. C[rank[c] + 1] = c
        <4>. HIDE DEF rank
        <4>. QED BY <3>2, <1>6
      <3>. QED BY <3>1, <3>3
    <2>. QED BY <2>1, <2>2, <2>3 DEF Bijection, Injection, Surjection, IsInjective
  <1>. QED BY <1>1, <1>9 DEF all, C

\* As many k-subsets hold one group as hold another: swapping the two groups
\* turns the ones into the others.
LEMMA EveryGroupEquallyOften ==
    ASSUME NEW G \in Nat, NEW k \in Nat, NEW g \in 0 .. (G - 1), NEW h \in 0 .. (G - 1)
    PROVE  LET all == kSubset(k, 0 .. (G - 1))
           IN  Cardinality({c \in all : g \in c}) = Cardinality({c \in all : h \in c})
  <1>. DEFINE all == kSubset(k, 0 .. (G - 1))
              sw == [x \in 0 .. (G - 1) |-> IF x = g THEN h ELSE IF x = h THEN g ELSE x]
              Sw(c) == {sw[x] : x \in c}
              A == {c \in all : g \in c}
              B == {c \in all : h \in c}
              f == [c \in A |-> Sw(c)]
  <1>1. \A x \in 0 .. (G - 1) : sw[x] \in 0 .. (G - 1) /\ sw[sw[x]] = x
    OBVIOUS
  <1>2. sw[g] = h /\ sw[h] = g
    OBVIOUS
  <1>. HIDE DEF sw
  <1>3. ASSUME NEW c \in SUBSET (0 .. (G - 1)) PROVE Sw(c) \in SUBSET (0 .. (G - 1)) /\ Sw(Sw(c)) = c
    BY <1>1
  <1>4. ASSUME NEW c \in all PROVE Sw(c) \in all
    <2>1. c \in SUBSET (0 .. (G - 1)) /\ Cardinality(c) = k
      BY DEF kSubset
    <2>2. IsFiniteSet(c)
      <3>1. IsFiniteSet(0 .. (G - 1))
        BY FS_Interval
      <3>. QED BY <2>1, <3>1, FS_Subset
    <2>. DEFINE m == [x \in c |-> sw[x]]
    <2>3. m \in Bijection(c, Sw(c))
      <3>1. m \in [c -> Sw(c)]
        OBVIOUS
      <3>2. \A x, y \in c : m[x] = m[y] => x = y
        BY <2>1, <1>1
      <3>3. \A z \in Sw(c) : \E x \in c : m[x] = z
        OBVIOUS
      <3>. HIDE DEF m, Sw
      <3>. QED BY <3>1, <3>2, <3>3 DEF Bijection, Injection, Surjection, IsInjective
    <2>4. Cardinality(Sw(c)) = k
      <3>. HIDE DEF m, Sw
      <3>. QED BY <2>1, <2>2, <2>3, FS_Bijection DEF ExistsBijection
    <2>. QED BY <2>1, <2>4, <1>3 DEF kSubset
  <1>5. \A c \in all : c \in SUBSET (0 .. (G - 1))
    BY DEF kSubset
  <1>6. f \in Bijection(A, B)
    <2>1. \A c \in A : Sw(c) \in B /\ Sw(Sw(c)) = c
      BY <1>2, <1>3, <1>4, <1>5
    <2>2. \A c \in B : Sw(c) \in A /\ Sw(Sw(c)) = c
      BY <1>2, <1>3, <1>4, <1>5
    <2>. HIDE DEF A, B, Sw
    <2>3. f \in [A -> B]
      BY <2>1
    <2>4. \A c, d \in A : f[c] = f[d] => c = d
      BY <2>1
    <2>5. \A d \in B : \E c \in A : f[c] = d
      BY <2>2
    <2>. HIDE DEF f
    <2>. QED BY <2>3, <2>4, <2>5 DEF Bijection, Injection, Surjection, IsInjective
  <1>7. IsFiniteSet(A)
    <2>1. IsFiniteSet(all) /\ A \in SUBSET all
      BY Enumerates
    <2>. HIDE DEF A, all
    <2>. QED BY <2>1, FS_Subset
  <1>. HIDE DEF A, B, f
  <1>8. Cardinality(A) = Cardinality(B)
    BY <1>6, <1>7, FS_Bijection DEF ExistsBijection
  <1>. QED BY <1>8 DEF A, B

-----------------------------------------------------------------------------
\* The lesser of two numbers.
LEMMA LesserOfTwo ==
    ASSUME NEW a \in Nat, NEW b \in Nat PROVE Min({a, b}) = IF a <= b THEN a ELSE b
  <1>1. {a, b} \in SUBSET Nat /\ {a, b} # {}
    OBVIOUS
  <1>2. Min({a, b}) \in {a, b} /\ \A y \in {a, b} : Min({a, b}) <= y
    BY <1>1, LeastMember
  <1>. QED BY <1>2

\* Quotient and remainder.
LEMMA Division ==
    ASSUME NEW n \in Nat, NEW G \in Nat, G > 0
    PROVE  n \div G \in Nat /\ n % G \in 0 .. (G - 1) /\ n = G * (n \div G) + (n % G)
  OBVIOUS

\* Multiplication is monotone.
LEMMA TimesGrows ==
    ASSUME NEW a \in Nat, NEW b \in Nat, NEW z \in Nat, a <= b
    PROVE  a * z <= b * z /\ a * z \in Nat /\ (a + 1) * z = a * z + z
  <1>1. b - a \in Nat /\ (b - a) * z \in Nat
    OBVIOUS
  <1>2. b * z = a * z + (b - a) * z
    OBVIOUS
  <1>. QED BY <1>1, <1>2

\* The groups cut the tape: every bar is in exactly one, and none is empty.
LEMMA GroupsCutTheTape ==
    ASSUME NEW n \in Nat, NEW G \in Nat, G > 0, n >= G
    PROVE  LET groups == assign_groups(n, G)
           IN  /\ DOMAIN groups = 0 .. (G - 1)
               /\ \A g \in 0 .. (G - 1) : groups[g] \in SUBSET (0 .. (n - 1)) /\ groups[g] # {}
               /\ \A b \in 0 .. (n - 1) : \E g \in 0 .. (G - 1) : b \in groups[g]
               /\ \A g, h \in 0 .. (G - 1) : \A b : b \in groups[g] /\ b \in groups[h] => g = h
  <1>. DEFINE groups == assign_groups(n, G)
              z == n \div G
              x == n % G
              F(g) == g * z + (IF g <= x THEN g ELSE x)
  <1>1. z \in Nat /\ x \in 0 .. (G - 1) /\ n = G * z + x
    BY Division
  <1>2. \A g \in 0 .. (G - 1) : groups[g] = F(g) .. (F(g) + z - (IF g < x THEN 0 ELSE 1))
    <2>1. \A g \in 0 .. (G - 1) : Min({g, x}) = IF g <= x THEN g ELSE x
      BY <1>1, LesserOfTwo
    <2>. HIDE DEF x, z
    <2>. QED BY <2>1 DEF assign_groups, x, z
  <1>3. DOMAIN groups = 0 .. (G - 1)
    BY DEF assign_groups
  <1>. HIDE DEF groups, x, z
  <1>4. z >= 1
    <2>1. SUFFICES ASSUME z = 0 PROVE FALSE
      BY <1>1
    <2>2. G * z = 0
      BY <2>1
    <2>. QED BY <1>1, <2>2
  <1>5. \A g \in Nat : F(g) \in Nat /\ F(g + 1) = F(g) + z + (IF g < x THEN 1 ELSE 0)
    <2>. TAKE g \in Nat
    <2>1. g * z \in Nat /\ (g + 1) * z = g * z + z
      BY <1>1, TimesGrows
    <2>. QED BY <2>1, <1>1
  <1>6. F(0) = 0 /\ F(G) = n
    BY <1>1
  <1>7. \A g, h \in Nat : g <= h => F(g) <= F(h)
    <2>. TAKE g, h \in Nat
    <2>. HAVE g <= h
    <2>1. g * z <= h * z /\ g * z \in Nat /\ h * z \in Nat
      BY <1>1, TimesGrows
    <2>. QED BY <2>1, <1>1
  <1>8. \A g \in 0 .. (G - 1) : groups[g] = F(g) .. (F(g + 1) - 1)
    <2>. TAKE g \in 0 .. (G - 1)
    <2>1. F(g + 1) = F(g) + z + (IF g < x THEN 1 ELSE 0) /\ F(g) \in Nat
      BY <1>5
    <2>2. groups[g] = F(g) .. (F(g) + z - (IF g < x THEN 0 ELSE 1))
      BY <1>2
    <2>3. F(g + 1) - 1 = F(g) + z - (IF g < x THEN 0 ELSE 1)
      <3>. HIDE DEF F
      <3>. QED BY <2>1, <1>1
    <2>. HIDE DEF F
    <2>. QED BY <2>2, <2>3
  <1>. HIDE DEF F
  <1>9. \A g \in 0 .. (G - 1) : groups[g] \in SUBSET (0 .. (n - 1)) /\ groups[g] # {}
    <2>. TAKE g \in 0 .. (G - 1)
    <2>1. F(g) \in Nat /\ F(g + 1) \in Nat /\ F(g + 1) <= n /\ F(g) < F(g + 1)
      <3>1. g \in Nat /\ g + 1 \in Nat /\ g + 1 <= G
        OBVIOUS
      <3>2. F(g) \in Nat /\ F(g + 1) \in Nat /\ F(g + 1) = F(g) + z + (IF g < x THEN 1 ELSE 0)
        BY <3>1, <1>5
      <3>3. F(g + 1) <= n
        BY <3>1, <1>6, <1>7
      <3>. QED BY <3>2, <3>3, <1>1, <1>4
    <2>2. groups[g] = F(g) .. (F(g + 1) - 1)
      BY <1>8
    <2>3. F(g) \in groups[g] /\ \A y \in groups[g] : y \in 0 .. (n - 1)
      BY <2>1, <2>2
    <2>. QED BY <2>3
  <1>10. ASSUME NEW b \in 0 .. (n - 1) PROVE \E g \in 0 .. (G - 1) : b \in groups[g]
    <2>. DEFINE Past == {g \in Nat : b < F(g + 1)}
    <2>1. G - 1 \in Past
      <3>1. G - 1 \in Nat /\ (G - 1) + 1 = G
        OBVIOUS
      <3>. QED BY <3>1, <1>6
    <2>2. PICK g \in Past : \A h \in Past : g <= h
      <3>. HIDE DEF Past
      <3>1. Past \in SUBSET Nat
        BY DEF Past
      <3>. QED BY <2>1, <3>1, Chosen!Least
    <2>3. g \in 0 .. (G - 1) /\ b < F(g + 1)
      BY <2>1, <2>2
    <2>4. F(g) <= b
      <3>1. CASE g = 0
        BY <3>1, <1>6
      <3>2. CASE g # 0
        <4>1. g - 1 \in Nat /\ (g - 1) + 1 = g /\ ~(g <= g - 1)
          BY <2>3, <3>2
        <4>2. g - 1 \notin Past
          BY <4>1, <2>2
        <4>3. F(g) \in Nat
          BY <2>3, <1>5
        <4>. QED BY <4>1, <4>2, <4>3
      <3>. QED BY <3>1, <3>2
    <2>5. F(g) \in Nat /\ F(g + 1) \in Nat
      BY <2>3, <1>5
    <2>6. groups[g] = F(g) .. (F(g + 1) - 1)
      BY <2>3, <1>8
    <2>7. b \in groups[g]
      BY <2>3, <2>4, <2>5, <2>6
    <2>. QED BY <2>3, <2>7
  <1>11. ASSUME NEW g \in 0 .. (G - 1), NEW h \in 0 .. (G - 1), NEW b, b \in groups[g], b \in groups[h], g < h
         PROVE  FALSE
    <2>1. F(g + 1) <= F(h) /\ F(g + 1) \in Nat /\ F(h) \in Nat /\ F(g) \in Nat /\ F(h + 1) \in Nat
      BY <1>11, <1>5, <1>7
    <2>. QED BY <2>1, <1>8, <1>11
  <1>12. \A g, h \in 0 .. (G - 1) : \A b : b \in groups[g] /\ b \in groups[h] => g = h
    BY <1>11
  <1>. QED BY <1>3, <1>9, <1>10, <1>12 DEF groups

\* So the group of a bar is the only one that holds it.
LEMMA GroupOfBar ==
    ASSUME NEW n \in Nat, NEW G \in Nat, G > 0, n >= G, NEW b \in 0 .. (n - 1)
    PROVE  LET groups == assign_groups(n, G)
           IN  /\ GroupOf(groups, b) \in 0 .. (G - 1) /\ b \in groups[GroupOf(groups, b)]
               /\ \A g \in 0 .. (G - 1) : b \in groups[g] => g = GroupOf(groups, b)
  <1>. DEFINE groups == assign_groups(n, G)
  <1>1. /\ DOMAIN groups = 0 .. (G - 1)
        /\ \A c \in 0 .. (n - 1) : \E g \in 0 .. (G - 1) : c \in groups[g]
        /\ \A g, h \in 0 .. (G - 1) : \A c : c \in groups[g] /\ c \in groups[h] => g = h
    BY GroupsCutTheTape
  <1>. HIDE DEF groups
  <1>2. \E g \in DOMAIN groups : b \in groups[g]
    BY <1>1
  <1>3. GroupOf(groups, b) \in DOMAIN groups /\ b \in groups[GroupOf(groups, b)]
    BY <1>2, Zenon DEF GroupOf
  <1>. QED BY <1>1, <1>3 DEF groups

-----------------------------------------------------------------------------
\* What CPCVConfig lets through.
Accepted(s) ==
    /\ s.n_bars \in Nat /\ s.n_groups \in Nat /\ s.k \in Nat
    /\ s.horizon \in Nat /\ s.embargo \in Nat
    /\ s.n_groups >= 2 /\ s.k >= 1

Generated(s) ==
    LET combinations == Combinations(s.n_groups, s.k)
    IN  [i \in DOMAIN combinations |-> SplitOf(s, combinations[i])]

\* The groups a bar's tests are found by.
HomeOf(s, b) == GroupOf(assign_groups(s.n_bars, s.n_groups), b)

\* The splits that test a group.
Testing(all, g) == {i \in DOMAIN all : g \in all[i].test_groups}

\* The fields of a split.
LEMMA SplitIs ==
    ASSUME NEW s, NEW c
    PROVE  /\ SplitOf(s, c).test_groups = c
           /\ SplitOf(s, c).test = UNION {assign_groups(s.n_bars, s.n_groups)[g] : g \in c}
           /\ SplitOf(s, c).train = _purged_train_indices(SplitOf(s, c).test, s)
  BY DEF SplitOf

\* The splits of a study test the bars of their groups, and train on what is
\* left after the purge.
LEMMA SplitsAreOfTheTape ==
    ASSUME NEW s, Accepted(s), s.n_bars >= s.n_groups
    PROVE  LET all == Generated(s)
               N == Cardinality(kSubset(s.k, 0 .. (s.n_groups - 1)))
           IN  /\ N \in Nat /\ DOMAIN all = 1 .. N
               /\ \A i \in 1 .. N :
                     /\ all[i].test_groups = Combinations(s.n_groups, s.k)[i]
                     /\ all[i].test \in SUBSET (0 .. (s.n_bars - 1)) /\ all[i].test # {}
                     /\ all[i].train = _purged_train_indices(all[i].test, s)
                     /\ \A b \in 0 .. (s.n_bars - 1) :
                           b \in all[i].test <=> HomeOf(s, b) \in all[i].test_groups
  <1>. DEFINE all == Generated(s)
              n == s.n_bars
              G == s.n_groups
              C == Combinations(G, s.k)
              subsets == kSubset(s.k, 0 .. (G - 1))
              N == Cardinality(subsets)
              groups == assign_groups(n, G)
  <1>0. n \in Nat /\ G \in Nat /\ G > 0 /\ s.k \in Nat /\ s.k >= 1 /\ n >= G
    BY DEF Accepted
  <1>1. N \in Nat /\ C \in Bijection(1 .. N, subsets)
    BY <1>0, Enumerates
  <1>2. C \in [1 .. N -> subsets] /\ DOMAIN C = 1 .. N
    <2>. HIDE DEF C, subsets
    <2>. QED BY <1>1 DEF Bijection, Injection
  <1>3. DOMAIN all = 1 .. N /\ \A i \in 1 .. N : all[i] = SplitOf(s, C[i])
    <2>. HIDE DEF C
    <2>1. all = [i \in DOMAIN C |-> SplitOf(s, C[i])]
      BY DEF Generated, C
    <2>. QED BY <2>1, <1>2
  <1>4. /\ DOMAIN groups = 0 .. (G - 1)
        /\ \A g \in 0 .. (G - 1) : groups[g] \in SUBSET (0 .. (n - 1)) /\ groups[g] # {}
    BY <1>0, GroupsCutTheTape
  <1>5. \A b \in 0 .. (n - 1) :
           /\ HomeOf(s, b) \in 0 .. (G - 1) /\ b \in groups[HomeOf(s, b)]
           /\ \A g \in 0 .. (G - 1) : b \in groups[g] => g = HomeOf(s, b)
    BY <1>0, GroupOfBar DEF HomeOf
  <1>. HIDE DEF all, C, groups
  <1>6. ASSUME NEW i \in 1 .. N
        PROVE  /\ all[i].test_groups = C[i]
               /\ all[i].test \in SUBSET (0 .. (n - 1)) /\ all[i].test # {}
               /\ all[i].train = _purged_train_indices(all[i].test, s)
               /\ \A b \in 0 .. (n - 1) : b \in all[i].test <=> HomeOf(s, b) \in all[i].test_groups
    <2>1. /\ all[i].test_groups = C[i]
          /\ all[i].test = UNION {groups[g] : g \in C[i]}
          /\ all[i].train = _purged_train_indices(all[i].test, s)
      <3>1. all[i] = SplitOf(s, C[i])
        BY <1>3
      <3>. QED BY <3>1, SplitIs DEF groups
    <2>2. C[i] \in SUBSET (0 .. (G - 1)) /\ Cardinality(C[i]) = s.k
      BY <1>2 DEF kSubset
    <2>3. PICK g \in C[i] : TRUE
      <3>1. C[i] # {}
        <4>1. Cardinality({}) = 0
          BY FS_EmptySet
        <4>. HIDE DEF N
        <4>. QED BY <4>1, <2>2, <1>0
      <3>. QED BY <3>1
    <2>4. all[i].test \in SUBSET (0 .. (n - 1))
      BY <2>1, <2>2, <1>4
    <2>5. all[i].test # {}
      BY <2>1, <2>2, <2>3, <1>4
    <2>6. \A b \in 0 .. (n - 1) : b \in all[i].test <=> HomeOf(s, b) \in all[i].test_groups
      BY <2>1, <2>2, <1>5
    <2>. QED BY <2>1, <2>4, <2>5, <2>6
  <1>. QED BY <1>1, <1>3, <1>6 DEF all, C

\* Every group is tested by as many splits, and splits_by_group lists them.
LEMMA EveryGroupListed ==
    ASSUME NEW s, Accepted(s), s.n_bars >= s.n_groups, NEW g \in 0 .. (s.n_groups - 1)
    PROVE  LET all == Generated(s)
               x == splits_by_group(all, g)
           IN  /\ x \in Seq(Nat) /\ Len(x) = Len(splits_by_group(all, 0))
               /\ \A p \in 1 .. Len(x) : x[p] \in Testing(all, g)
               /\ \A p, q \in 1 .. Len(x) : x[p] = x[q] => p = q
               /\ \A i \in Testing(all, g) : \E p \in 1 .. Len(x) : x[p] = i
  <1>. DEFINE all == Generated(s)
              G == s.n_groups
              C == Combinations(G, s.k)
              subsets == kSubset(s.k, 0 .. (G - 1))
              N == Cardinality(subsets)
              K(h) == Testing(all, h)
              x(h) == splits_by_group(all, h)
  <1>0. G \in Nat /\ s.k \in Nat /\ 0 \in 0 .. (G - 1) /\ g \in 0 .. (G - 1)
    BY DEF Accepted
  <1>1. N \in Nat /\ C \in Bijection(1 .. N, subsets) /\ IsFiniteSet(subsets)
    BY <1>0, Enumerates
  <1>2. DOMAIN all = 1 .. N /\ \A i \in 1 .. N : all[i].test_groups = C[i]
    BY SplitsAreOfTheTape
  <1>. HIDE DEF all, C, subsets
  <1>3. ASSUME NEW h \in 0 .. (G - 1)
        PROVE  Lists(K(h), N, x(h)) /\ Len(x(h)) = Cardinality(K(h)) /\ IsFiniteSet(K(h))
    <2>1. K(h) \in SUBSET (1 .. N)
      BY <1>2 DEF Testing
    <2>2. x(h) = FoldLeft(LAMBDA listed, i : IF i \in K(h) THEN Append(listed, i) ELSE listed,
                          <<>>, [i \in 1 .. N |-> i])
      BY <1>2, Zenon DEF splits_by_group, Testing
    <2>. HIDE DEF K, x, N
    <2>. QED BY <2>1, <2>2, <1>1, SelectionLists
  <1>4. ASSUME NEW h \in 0 .. (G - 1)
        PROVE  Cardinality(K(h)) = Cardinality({c \in subsets : h \in c})
    <2>. DEFINE f == [i \in K(h) |-> C[i]]
                B == {c \in subsets : h \in c}
    <2>1. /\ C \in [1 .. N -> subsets]
          /\ \A i, j \in 1 .. N : C[i] = C[j] => i = j
          /\ \A c \in subsets : \E i \in 1 .. N : C[i] = c
      <3>. HIDE DEF N
      <3>. QED BY <1>1 DEF Bijection, Injection, Surjection, IsInjective
    <2>2. \A i : i \in K(h) <=> i \in 1 .. N /\ h \in C[i]
      BY <1>2 DEF Testing
    <2>. HIDE DEF N
    <2>3. f \in Bijection(K(h), B)
      <3>. HIDE DEF K
      <3>1. f \in [K(h) -> B]
        BY <2>1, <2>2
      <3>2. \A i, j \in K(h) : f[i] = f[j] => i = j
        BY <2>1, <2>2
      <3>3. \A c \in B : \E i \in K(h) : f[i] = c
        BY <2>1, <2>2
      <3>. HIDE DEF f, B
      <3>. QED BY <3>1, <3>2, <3>3 DEF Bijection, Injection, Surjection, IsInjective
    <2>4. IsFiniteSet(K(h))
      BY <1>3
    <2>. HIDE DEF f, K, B
    <2>5. Cardinality(B) = Cardinality(K(h))
      BY <2>3, <2>4, FS_Bijection DEF ExistsBijection
    <2>. QED BY <2>5 DEF B
  <1>5. Cardinality({c \in subsets : g \in c}) = Cardinality({c \in subsets : 0 \in c})
    BY <1>0, EveryGroupEquallyOften DEF subsets
  <1>6. Len(x(g)) = Len(x(0))
    <2>. HIDE DEF x, K
    <2>. QED BY <1>0, <1>3, <1>4, <1>5
  <1>7. Lists(K(g), N, x(g))
    BY <1>0, <1>3
  <1>8. x(g) \in Seq(Nat) /\ DOMAIN x(g) = 1 .. Len(x(g))
    <2>. HIDE DEF x, K, N
    <2>. QED BY <1>7 DEF Lists
  <1>9. \A i \in K(g) : i <= N
    BY <1>1, <1>2 DEF Testing
  <1>. HIDE DEF x, K, N
  <1>. QED BY <1>6, <1>7, <1>8, <1>9 DEF Lists, x, K, all

-----------------------------------------------------------------------------
\* The returns of splits that were measured in full.
InFull(all) == [i \in DOMAIN all |-> {[split |-> i, bar |-> b] : b \in all[i].test}]

\* A curve holds, at every bar, the return of the split its path names for the
\* group of the bar.
LEMMA CurveIs ==
    ASSUME NEW s, Accepted(s), s.n_bars >= s.n_groups,
           NEW p \in 1 .. Len(splits_by_group(Generated(s), 0))
    PROVE  LET all == Generated(s)
               path == [g \in 0 .. (s.n_groups - 1) |-> splits_by_group(all, g)[p]]
               curve == assemble_path_returns(s, path, InFull(all))
           IN  /\ DOMAIN curve = 0 .. (s.n_bars - 1)
               /\ \A b \in 0 .. (s.n_bars - 1) :
                     /\ splits_by_group(all, HomeOf(s, b))[p] \in DOMAIN all
                     /\ b \in all[splits_by_group(all, HomeOf(s, b))[p]].test
                     /\ curve[b] = [split |-> splits_by_group(all, HomeOf(s, b))[p], bar |-> b]
  <1>. DEFINE all == Generated(s)
              n == s.n_bars
              G == s.n_groups
              path == [g \in 0 .. (G - 1) |-> splits_by_group(all, g)[p]]
              returns == InFull(all)
              curve == assemble_path_returns(s, path, returns)
  <1>0. n \in Nat /\ G \in Nat /\ G > 0 /\ n >= G
    BY DEF Accepted
  <1>1. DOMAIN curve = 0 .. (n - 1)
    BY DEF assemble_path_returns
  <1>2. ASSUME NEW b \in 0 .. (n - 1)
        PROVE  LET j == splits_by_group(all, HomeOf(s, b))[p]
               IN  j \in DOMAIN all /\ b \in all[j].test /\ curve[b] = [split |-> j, bar |-> b]
    <2>. DEFINE h == HomeOf(s, b)
                j == splits_by_group(all, h)[p]
    <2>1. h \in 0 .. (G - 1)
      BY <1>0, GroupOfBar DEF HomeOf
    <2>2. j \in Testing(all, h)
      <3>1. /\ Len(splits_by_group(all, h)) = Len(splits_by_group(all, 0))
            /\ \A q \in 1 .. Len(splits_by_group(all, h)) : splits_by_group(all, h)[q] \in Testing(all, h)
        BY <2>1, EveryGroupListed
      <3>. HIDE DEF all, h
      <3>. QED BY <3>1 DEF all
    <2>3. j \in DOMAIN all /\ b \in all[j].test
      <3>1. \A i \in DOMAIN all : b \in all[i].test <=> h \in all[i].test_groups
        BY SplitsAreOfTheTape
      <3>. HIDE DEF all, h, j
      <3>. QED BY <2>2, <3>1 DEF Testing
    <2>4. path[h] = j
      <3>. HIDE DEF h, all
      <3>. QED BY <2>1 DEF h, all
    <2>5. curve[b] = CHOOSE r \in returns[path[h]] : r.bar = b
      BY DEF assemble_path_returns, HomeOf
    <2>6. returns[j] = {[split |-> j, bar |-> c] : c \in all[j].test}
      BY <2>3 DEF InFull
    <2>. HIDE DEF returns, j, curve, path, all
    <2>7. [split |-> j, bar |-> b] \in returns[j]
      BY <2>3, <2>6
    <2>8. \A r \in returns[j] : r.bar = b => r = [split |-> j, bar |-> b]
      BY <2>6
    <2>9. (CHOOSE r \in returns[j] : r.bar = b) = [split |-> j, bar |-> b]
      BY <2>7, <2>8
    <2>. QED BY <2>3, <2>4, <2>5, <2>9 DEF j
  <1>. HIDE DEF curve, all
  <1>. QED BY <1>1, <1>2 DEF curve, all

\* The curves of a study measured in full hold every return exactly once.
LEMMA CurvesPartition ==
    ASSUME NEW s, Accepted(s), s.n_bars >= s.n_groups
    PROVE  LET all == Generated(s)
               drawn == {assemble_path_returns(s, q, InFull(all)) : q \in reconstruct_paths(s, all)}
           IN  /\ \A c \in drawn : DOMAIN c = 0 .. (s.n_bars - 1)
               /\ \A c \in drawn : \A b \in DOMAIN c :
                     c[b].bar = b /\ b \in all[c[b].split].test
               /\ \A i \in DOMAIN all : \A r \in InFull(all)[i] :
                     Cardinality({c \in drawn : c[r.bar] = r}) = 1
  <1>. DEFINE all == Generated(s)
              n == s.n_bars
              G == s.n_groups
              P == Len(splits_by_group(all, 0))
              path(p) == [g \in 0 .. (G - 1) |-> splits_by_group(all, g)[p]]
              curve(p) == assemble_path_returns(s, path(p), InFull(all))
              drawn == {assemble_path_returns(s, q, InFull(all)) : q \in reconstruct_paths(s, all)}
              at(p, b) == splits_by_group(all, HomeOf(s, b))[p]
  <1>0. n \in Nat /\ G \in Nat /\ G > 0 /\ n >= G
    BY DEF Accepted
  <1>1. ASSUME NEW p \in 1 .. P
        PROVE  /\ DOMAIN curve(p) = 0 .. (n - 1)
               /\ \A b \in 0 .. (n - 1) :
                     /\ at(p, b) \in DOMAIN all /\ b \in all[at(p, b)].test
                     /\ curve(p)[b] = [split |-> at(p, b), bar |-> b]
    BY CurveIs
  <1>2. drawn = {curve(p) : p \in 1 .. P}
    <2>1. reconstruct_paths(s, all) = {path(p) : p \in 1 .. P}
      BY DEF reconstruct_paths
    <2>. HIDE DEF all, path
    <2>. QED BY <2>1
  <1>3. ASSUME NEW i \in DOMAIN all, NEW r \in InFull(all)[i]
        PROVE  \E p \in 1 .. P : \A q \in 1 .. P : curve(q)[r.bar] = r <=> q = p
    <2>1. PICK b \in all[i].test : r = [split |-> i, bar |-> b]
      BY DEF InFull
    <2>2. b \in 0 .. (n - 1) /\ (\A j \in DOMAIN all : b \in all[j].test <=> HomeOf(s, b) \in all[j].test_groups)
      BY SplitsAreOfTheTape
    <2>. DEFINE h == HomeOf(s, b)
                x == splits_by_group(all, h)
    <2>3. h \in 0 .. (G - 1)
      BY <1>0, <2>2, GroupOfBar DEF HomeOf
    <2>4. /\ Len(x) = P
          /\ \A p, q \in 1 .. Len(x) : x[p] = x[q] => p = q
          /\ \A j \in Testing(all, h) : \E p \in 1 .. Len(x) : x[p] = j
      BY <2>3, EveryGroupListed, ZenonT(20)
    <2>5. i \in Testing(all, h)
      BY <2>1, <2>2 DEF Testing
    <2>. HIDE DEF all, x, P, h
    <2>6. PICK p \in 1 .. P : x[p] = i
      BY <2>4, <2>5
    <2>7. \A q \in 1 .. P : x[q] = i => q = p
      BY <2>4, <2>6
    <2>8. \A q \in 1 .. P : curve(q)[b] = [split |-> x[q], bar |-> b]
      <3>. HIDE DEF curve
      <3>. QED BY <1>1, <2>2 DEF x, h
    <2>9. r.bar = b
      BY <2>1
    <2>. HIDE DEF curve
    <2>10. \A q \in 1 .. P : curve(q)[r.bar] = r <=> x[q] = i
      <3>. TAKE q \in 1 .. P
      <3>1. curve(q)[r.bar] = [split |-> x[q], bar |-> b] /\ r = [split |-> i, bar |-> b]
        BY <2>1, <2>8, <2>9
      <3>. QED BY <3>1
    <2>11. \A q \in 1 .. P : curve(q)[r.bar] = r <=> q = p
      BY <2>6, <2>7, <2>10
    <2>. QED BY <2>11
  <1>. HIDE DEF curve, at, drawn, P, all
  <1>4. \A c \in drawn : DOMAIN c = 0 .. (n - 1)
    BY <1>1, <1>2
  <1>5. \A c \in drawn : \A b \in DOMAIN c : c[b].bar = b /\ b \in all[c[b].split].test
    <2>. SUFFICES ASSUME NEW c \in drawn, NEW b \in DOMAIN c
                  PROVE  c[b].bar = b /\ b \in all[c[b].split].test
      OBVIOUS
    <2>1. PICK p \in 1 .. P : c = curve(p)
      BY <1>2
    <2>2. b \in 0 .. (n - 1)
      BY <2>1, <1>1
    <2>3. c[b] = [split |-> at(p, b), bar |-> b] /\ b \in all[at(p, b)].test
      BY <2>1, <2>2, <1>1
    <2>. QED BY <2>3
  <1>6. ASSUME NEW i \in DOMAIN all, NEW r \in InFull(all)[i]
        PROVE  Cardinality({c \in drawn : c[r.bar] = r}) = 1
    <2>1. PICK p \in 1 .. P : \A q \in 1 .. P : curve(q)[r.bar] = r <=> q = p
      BY <1>3
    <2>2. {c \in drawn : c[r.bar] = r} = {curve(p)}
      BY <1>2, <2>1
    <2>. QED BY <2>2, FS_Singleton
  <1>. QED BY <1>4, <1>5, <1>6 DEF drawn, all

-----------------------------------------------------------------------------
\* What the caller comes back with: some splits one return short.
MeasuredBut(all, lost) ==
    [i \in DOMAIN all |->
        {[split |-> i, bar |-> b] :
            b \in IF i \in lost THEN all[i].test \ {Max(all[i].test)} ELSE all[i].test}]

\* The bar that is lost is one that was tested.
LEMMA LastTested ==
    ASSUME NEW n \in Nat, NEW T \in SUBSET (0 .. (n - 1)), T # {} PROVE Max(T) \in T
  <1>1. T \in SUBSET (0 .. n)
    OBVIOUS
  <1>2. \E x \in T : \A y \in T : y <= x
    BY <1>1, Latest
  <1>3. \E x \in T : \A y \in T : x >= y
    BY <1>1, <1>2
  <1>. QED BY <1>3, Zenon DEF Max

\* As many returns as bars.
LEMMA ReturnPerBar ==
    ASSUME NEW T, IsFiniteSet(T), NEW i
    PROVE  Cardinality({[split |-> i, bar |-> b] : b \in T}) = Cardinality(T)
  <1>. DEFINE R == {[split |-> i, bar |-> b] : b \in T}
              f == [b \in T |-> [split |-> i, bar |-> b]]
  <1>1. f \in [T -> R]
    OBVIOUS
  <1>2. \A b, c \in T : f[b] = f[c] => b = c
    <2>. SUFFICES ASSUME NEW b \in T, NEW c \in T, f[b] = f[c] PROVE b = c
      OBVIOUS
    <2>1. f[b].bar = b /\ f[c].bar = c
      OBVIOUS
    <2>. QED BY <2>1
  <1>3. \A r \in R : \E b \in T : f[b] = r
    OBVIOUS
  <1>. HIDE DEF R, f
  <1>4. f \in Bijection(T, R)
    BY <1>1, <1>2, <1>3 DEF Bijection, Injection, Surjection, IsInjective
  <1>. QED BY <1>4, FS_Bijection DEF ExistsBijection, R

\* Counting a split's returns tells whether one is missing.
LEMMA CountTells ==
    ASSUME NEW s, Accepted(s), s.n_bars >= s.n_groups, NEW lost,
           \A i \in DOMAIN Generated(s) :
               Cardinality(MeasuredBut(Generated(s), lost)[i]) = Cardinality(Generated(s)[i].test)
    PROVE  MeasuredBut(Generated(s), lost) = InFull(Generated(s))
  <1>. DEFINE all == Generated(s)
  <1>0. s.n_bars \in Nat
    BY DEF Accepted
  <1>1. \A i \in DOMAIN all : all[i].test \in SUBSET (0 .. (s.n_bars - 1)) /\ all[i].test # {}
    BY SplitsAreOfTheTape
  <1>2. ASSUME NEW i \in DOMAIN all, i \in lost PROVE FALSE
    <2>. DEFINE T == all[i].test
                U == T \ {Max(T)}
    <2>1. IsFiniteSet(0 .. (s.n_bars - 1))
      <3>1. 0 \in Int /\ s.n_bars - 1 \in Int
        BY <1>0
      <3>. QED BY <3>1, FS_Interval
    <2>2. T \in SUBSET (0 .. (s.n_bars - 1)) /\ T # {}
      BY <1>1
    <2>. HIDE DEF T
    <2>3. IsFiniteSet(T) /\ Max(T) \in T
      BY <1>0, <2>1, <2>2, FS_Subset, LastTested
    <2>4. IsFiniteSet(U) /\ Cardinality(U) = Cardinality(T) - 1 /\ Cardinality(T) \in Nat
      BY <2>3, FS_RemoveElement, FS_CardinalityType
    <2>5. MeasuredBut(all, lost)[i] = {[split |-> i, bar |-> b] : b \in U}
      BY <1>2 DEF MeasuredBut, T
    <2>. HIDE DEF U
    <2>6. Cardinality(MeasuredBut(all, lost)[i]) = Cardinality(U)
      BY <2>4, <2>5, ReturnPerBar, ZenonT(20)
    <2>7. Cardinality(MeasuredBut(all, lost)[i]) = Cardinality(T)
      BY <1>2 DEF T
    <2>. QED BY <2>4, <2>6, <2>7
  <1>. HIDE DEF all
  <1>3. MeasuredBut(all, lost) = InFull(all)
    BY <1>2 DEF MeasuredBut, InFull
  <1>. QED BY <1>3 DEF all

(***************************************************************************)
(* The inductive invariant: what has been generated is what the study      *)
(* configures, and what was built was built from splits measured in full.  *)
(***************************************************************************)
StudyInv ==
    /\ Accepted(study)
    /\ phase \in {"split", "measure", "build", "built", "raised"}
    /\ splits = <<>> \/ (study.n_bars >= study.n_groups /\ splits = Generated(study))
    /\ phase = "split" => splits = <<>>
    /\ phase \in {"measure", "build", "built"} =>
          study.n_bars >= study.n_groups /\ splits = Generated(study)
    /\ phase = "build" => \E lost : measured = MeasuredBut(splits, lost)
    /\ phase = "built" =>
          /\ measured = InFull(splits)
          /\ curves = {assemble_path_returns(study, p, measured) : p \in reconstruct_paths(study, splits)}

\* A study that is accepted has generated nothing yet.
LEMMA StudyInitInv == StudyInit => StudyInv
  <1>. SUFFICES ASSUME StudyInit PROVE StudyInv
    OBVIOUS
  <1>1. Accepted(study)
    BY DEF StudyInit, Studies, CPCVConfig, Accepted
  <1>. QED BY <1>1 DEF StudyInit, StudyInv

\* Splitting, measuring and building keep to the study.
LEMMA StudyNextInv == StudyInv /\ [StudyNext]_studyVars => StudyInv'
  <1>. SUFFICES ASSUME StudyInv, [StudyNext]_studyVars PROVE StudyInv'
    OBVIOUS
  <1>1. CASE RefuseShortTape
    BY <1>1 DEF StudyInv, RefuseShortTape
  <1>2. CASE generate_cpcv_splits
    <2>1. splits' = Generated(study)
      BY <1>2 DEF generate_cpcv_splits, Generated
    <2>. QED BY <1>2, <2>1 DEF generate_cpcv_splits, StudyInv
  <1>3. CASE Measure
    <2>1. \E lost : measured' = MeasuredBut(splits, lost)
      BY <1>3 DEF Measure, MeasuredBut
    <2>. QED BY <1>3, <2>1 DEF Measure, StudyInv
  <1>4. CASE build_cpcv_evidence
    <2>1. /\ study.n_bars >= study.n_groups /\ splits = Generated(study) /\ Accepted(study)
          /\ UNCHANGED <<study, splits, measured>>
      BY <1>4 DEF build_cpcv_evidence, StudyInv
    <2>2. PICK lost : measured = MeasuredBut(splits, lost)
      BY <1>4 DEF build_cpcv_evidence, StudyInv
    <2>3. CASE \A i \in DOMAIN splits : Cardinality(measured[i]) = Cardinality(splits[i].test)
      <3>1. measured = InFull(splits)
        BY <2>1, <2>2, <2>3, CountTells
      <3>2. /\ phase' = "built"
            /\ curves' = {assemble_path_returns(study, p, measured) : p \in reconstruct_paths(study, splits)}
        BY <1>4, <2>3 DEF build_cpcv_evidence
      <3>. QED BY <2>1, <3>1, <3>2 DEF StudyInv
    <2>4. CASE ~\A i \in DOMAIN splits : Cardinality(measured[i]) = Cardinality(splits[i].test)
      <3>1. phase' = "raised"
        BY <1>4, <2>4 DEF build_cpcv_evidence
      <3>. QED BY <2>1, <3>1 DEF StudyInv
    <2>. QED BY <2>3, <2>4
  <1>5. CASE UNCHANGED studyVars
    BY <1>5 DEF studyVars, StudyInv
  <1>. QED BY <1>1, <1>2, <1>3, <1>4, <1>5 DEF StudyNext

\* What the invariant says of trainings and of paths.
LEMMA StudyInvSound == StudyInv => StudySound
  <1>. SUFFICES ASSUME StudyInv PROVE StudySound
    OBVIOUS
  <1>1. TrainsWithoutLeak
    <2>1. CASE splits = <<>>
      BY <2>1 DEF TrainsWithoutLeak
    <2>2. CASE splits # <<>>
      <3>1. Accepted(study) /\ study.n_bars >= study.n_groups /\ splits = Generated(study)
        BY <2>2 DEF StudyInv
      <3>2. ASSUME NEW i \in DOMAIN splits
            PROVE  splits[i].train = {b \in 0 .. (study.n_bars - 1) :
                                         \A t \in splits[i].test : ~Leaks(b, t, study)}
        <4>1. /\ splits[i].test \in SUBSET (0 .. (study.n_bars - 1))
              /\ splits[i].train = _purged_train_indices(splits[i].test, study)
          BY <3>1, SplitsAreOfTheTape
        <4>2. study.n_bars \in Nat /\ study.horizon \in Nat /\ study.embargo \in Nat
          BY <3>1 DEF Accepted
        <4>3. \A n \in Nat : \A T \in SUBSET (0 .. (n - 1)) : \A s :
                 s.n_bars = n /\ s.horizon \in Nat /\ s.embargo \in Nat =>
                 _purged_train_indices(T, s) = {b \in 0 .. (n - 1) : \A t \in T : ~Leaks(b, t, s)}
          BY PurgeIsBarwise
        <4>4. _purged_train_indices(splits[i].test, study)
                  = {b \in 0 .. (study.n_bars - 1) : \A t \in splits[i].test : ~Leaks(b, t, study)}
          BY <4>1, <4>2, <4>3
        <4>. QED BY <4>1, <4>4
      <3>. QED BY <3>2 DEF TrainsWithoutLeak
    <2>. QED BY <2>1, <2>2
  <1>2. PathsPartitionTests
    <2>1. SUFFICES ASSUME phase = "built" PROVE PathsPartitionTests
      BY DEF PathsPartitionTests
    <2>2. /\ Accepted(study) /\ study.n_bars >= study.n_groups /\ splits = Generated(study)
          /\ measured = InFull(splits)
          /\ curves = {assemble_path_returns(study, p, measured) : p \in reconstruct_paths(study, splits)}
      BY <2>1 DEF StudyInv
    <2>. QED BY <2>2, CurvesPartition DEF PathsPartitionTests
  <1>. QED BY <1>1, <1>2 DEF StudySound

\* Whatever the tape, the groups, the horizon and the embargo: a study trains
\* on exactly the bars no tested label reaches, and the curves it builds cover
\* the tape and hold every measured return once (research/cpcv.py).
THEOREM StudiesAreSound == StudySpec => []StudySound
  <1>. QED BY StudyInitInv, StudyNextInv, StudyInvSound, PTL DEF StudySpec

-----------------------------------------------------------------------------
(***************************************************************************)
(* The regime engine and its detector.                                     *)
(***************************************************************************)
\* A posterior: tenths of each state.
Posts == [States -> 0 .. 10]

\* The share of a state is a part of ten, and ten only of the whole.
LEMMA ShareBounds ==
    ASSUME NEW whole \in Nat \ {0}, NEW w \in 0 .. whole
    PROVE  /\ (10 * w) \div whole \in 0 .. 10
           /\ (10 * w) \div whole = 10 => w = whole
  <1> PICK d : d = (10 * w) \div whole
    OBVIOUS
  <1>1. d \in Int /\ d * whole <= 10 * w /\ 10 * w < d * whole + whole
    BY Z3
  <1>2. d >= 0
    BY <1>1, Z3
  <1>3. d <= 10
    <2>1. d * whole <= 10 * whole
      BY <1>1, Z3
    <2>2. ASSUME d >= 11  PROVE  FALSE
      <3>1. d * whole >= 11 * whole
        BY <1>1, <2>2, Z3
      <3> QED  BY <2>1, <3>1
    <2> QED  BY <1>1, <2>2
  <1>4. d = 10 => w = whole
    BY <1>1, Z3
  <1> QED  BY <1>1, <1>2, <1>3, <1>4

\* What normalisation returns is a posterior.
LEMMA NormalisedPost ==
    ASSUME NEW w \in [States -> Nat]
    PROVE  Normalised(w) \in Posts
  <1> DEFINE whole == w[1] + w[2] + w[3]
             Down(i) == (10 * w[i]) \div whole
             Rest(i) == (10 * w[i]) % whole
             left == 10 - (Down(1) + Down(2) + Down(3))
             Ahead(i) == {j \in States : Rest(j) > Rest(i) \/ (Rest(j) = Rest(i) /\ j < i)}
             Extra(i) == IF Cardinality(Ahead(i)) < left THEN 1 ELSE 0
  <1>1. CASE whole = 0
    BY <1>1 DEF Normalised, Posts, Uniform, States
  <1>2. CASE whole # 0
    <2>1. w[1] \in Nat /\ w[2] \in Nat /\ w[3] \in Nat /\ whole \in Nat \ {0}
      BY <1>2 DEF States
    <2>2. \A i \in States : w[i] \in 0 .. whole
      BY <2>1 DEF States
    <2>3. \A i \in States : Down(i) \in 0 .. 10 /\ (Down(i) = 10 => w[i] = whole)
      BY <2>1, <2>2, ShareBounds
    <2>4. \A i \in States : Cardinality(Ahead(i)) \in Nat
      <3> SUFFICES ASSUME NEW i \in States  PROVE  Cardinality(Ahead(i)) \in Nat
        OBVIOUS
      <3>1. IsFiniteSet(States)
        <4>1. 1 \in Int /\ 3 \in Int
          OBVIOUS
        <4> QED  BY <4>1, FS_Interval, Zenon DEF States
      <3>2. Ahead(i) \subseteq States
        OBVIOUS
      <3> QED  BY <3>1, <3>2, FS_Subset, FS_CardinalityType
    <2>5. \A i \in States : Down(i) = 10 => left <= 0
      <3>0. Down(1) \in 0 .. 10 /\ Down(2) \in 0 .. 10 /\ Down(3) \in 0 .. 10
        BY <2>3 DEF States
      <3>1. \A i \in States : i = 1 \/ i = 2 \/ i = 3
        BY DEF States
      <3>2. Down(1) = 10 \/ Down(2) = 10 \/ Down(3) = 10 => left <= 0
        <4> HIDE DEF Down
        <4> QED  BY <3>0
      <3> HIDE DEF Down, left
      <3> QED  BY <3>1, <3>2
    <2>6. \A i \in States : Down(i) + Extra(i) \in 0 .. 10
      <3> SUFFICES ASSUME NEW i \in States  PROVE  Down(i) + Extra(i) \in 0 .. 10
        OBVIOUS
      <3>0. Down(1) \in 0 .. 10 /\ Down(2) \in 0 .. 10 /\ Down(3) \in 0 .. 10
        BY <2>3 DEF States
      <3>1. left \in Int
        <4> HIDE DEF Down
        <4> QED  BY <3>0
      <3>2. Down(i) = 10 => Extra(i) = 0
        <4>1. Cardinality(Ahead(i)) \in Nat /\ (Down(i) = 10 => left <= 0)
          BY <2>4, <2>5
        <4> HIDE DEF Down, Ahead, left
        <4> QED  BY <3>1, <4>1
      <3>3. Extra(i) \in 0 .. 1
        <4> HIDE DEF Down, Ahead, left
        <4> QED  OBVIOUS
      <3>4. Down(i) \in 0 .. 10
        BY <2>3
      <3> HIDE DEF Down, Extra
      <3> QED  BY <3>2, <3>3, <3>4
    <2>7. Normalised(w) = [i \in States |-> Down(i) + Extra(i)]
      BY <1>2 DEF Normalised
    <2> HIDE DEF Down, Extra
    <2> QED  BY <2>6, <2>7 DEF Posts
  <1> QED  BY <1>1, <1>2

(***************************************************************************)
(* The filter keeps to posteriors: whatever was believed of the symbol, a  *)
(* quote of any class leaves three tenths of ten.                          *)
(***************************************************************************)
LEMMA PosteriorPost ==
    ASSUME NEW prior \in Posts, NEW stay \in 0 .. 100, NEW emission, NEW spread
    PROVE  /\ Normalised(PredictWithMatrix(prior, stay)) \in Posts
           /\ BayesUpdate(PredictWithMatrix(prior, stay), EmissionLikelihood(emission, spread))
                \in Posts
  <1> DEFINE predicted == PredictWithMatrix(prior, stay)
             likelihoods == EmissionLikelihood(emission, spread)
  <1>1. predicted \in [States -> Nat]
    <2>1. ASSUME NEW j \in States
          PROVE  prior[j] * stay + ((10 - prior[j]) * (100 - stay)) \div 2 \in Nat
      <3>1. PICK a : a = prior[j]
        OBVIOUS
      <3>2. a \in 0 .. 10
        BY <3>1 DEF Posts
      <3>3. a * stay \in Nat /\ (10 - a) * (100 - stay) \in Nat
        <4>1. (10 - a) \in Nat /\ (100 - stay) \in Nat /\ a \in Nat /\ stay \in Nat
          BY <3>2
        <4> QED  BY <4>1, Z3
      <3>4. PICK w : w = (10 - a) * (100 - stay)
        OBVIOUS
      <3>5. w \div 2 \in Nat
        BY <3>3, <3>4
      <3> QED  BY <3>1, <3>3, <3>4, <3>5
    <2> QED  BY <2>1 DEF PredictWithMatrix
  <1>2. likelihoods \in [States -> Nat]
    BY DEF EmissionLikelihood, States
  <1>3. [j \in States |-> predicted[j] * likelihoods[j]] \in [States -> Nat]
    <2>1. ASSUME NEW j \in States  PROVE  predicted[j] * likelihoods[j] \in Nat
      <3>1. predicted[j] \in Nat /\ likelihoods[j] \in Nat
        BY <1>1, <1>2
      <3> HIDE DEF predicted, likelihoods
      <3> QED  BY <3>1, Z3
    <2> QED  BY <2>1
  <1> QED  BY <1>1, <1>3, NormalisedPost DEF BayesUpdate

\* The dominant state of a posterior is one of its states.
LEMMA DominantState ==
    ASSUME NEW post \in Posts
    PROVE  Dominant(post) \in States
  <1> DEFINE First(i) == /\ \A j \in States : post[j] <= post[i]
                         /\ \A j \in 1 .. (i - 1) : post[j] < post[i]
  <1>1. post[1] \in Int /\ post[2] \in Int /\ post[3] \in Int
    BY DEF Posts, States
  <1>2. \E i \in States : First(i)
    <2>1. CASE post[2] <= post[1] /\ post[3] <= post[1]
      <3>1. First(1)
        BY <2>1, <1>1 DEF States
      <3> QED  BY <3>1 DEF States
    <2>2. CASE post[1] < post[2] /\ post[3] <= post[2]
      <3>1. First(2)
        BY <2>2, <1>1 DEF States
      <3> QED  BY <3>1 DEF States
    <2>3. CASE post[1] < post[3] /\ post[2] < post[3]
      <3>1. First(3)
        BY <2>3, <1>1 DEF States
      <3> QED  BY <3>1 DEF States
    <2> QED  BY <2>1, <2>2, <2>3, <1>1
  <1> HIDE DEF First
  <1>3. (CHOOSE i \in States : First(i)) \in States
    BY <1>2
  <1> QED  BY <1>3 DEF Dominant, First

(***************************************************************************)
(* The announcements of one run, of a tape t and a trace tr: the last of a *)
(* symbol within the first p, what was called and not taken back since.    *)
(***************************************************************************)
Announced == [post : Posts, spike : SUBSET [departing : States, incoming : SUBSET States]]

IsLast(t, p, s, i) ==
    /\ i \in 0 .. p /\ (i # 0 => t[i].sym = s)
    /\ \A m \in (i + 1) .. p : t[m].sym # s
PostAt(tr, i) == IF i = 0 THEN Unknown ELSE tr[i].post

FollowsIn(t, i, j) ==
    i < j /\ t[i].sym = t[j].sym /\ \A m \in (i + 1) .. (j - 1) : t[m].sym # t[j].sym
CalledIn(tr, k, x) == \E spike \in tr[k].spike : spike.departing = x
ReturnsIn(t, tr, m, x) ==
    \/ tr[m].post[x] >= FloorTenths
    \/ /\ Dominant(tr[m].post) = x
       /\ \E i \in 1 .. m : FollowsIn(t, i, m) /\ Dominant(tr[i].post) # x
BackIn(t, tr, k, j, s, x) ==
    \E m \in (k + 1) .. j : t[m].sym = s /\ ReturnsIn(t, tr, m, x)
InForce(t, tr, p) ==
    {c \in Names(t) \X States : \E k \in 1 .. p :
        t[k].sym = c[1] /\ CalledIn(tr, k, c[2]) /\ ~BackIn(t, tr, k, p, c[1], c[2])}

DepartsIn(t, tr, i, j, x) ==
    /\ Dominant(tr[i].post) = x /\ tr[j].post[x] < tr[i].post[x]
    /\ Dominant(tr[j].post) # x \/ tr[j].post[x] < FloorTenths
CalledOnce(t, tr, j, x) ==
    /\ (\E i \in 1 .. j : FollowsIn(t, i, j) /\ DepartsIn(t, tr, i, j, x))
       => \E k \in 1 .. j : t[k].sym = t[j].sym /\ CalledIn(tr, k, x)
                           /\ ~BackIn(t, tr, k, j, t[j].sym, x)
    /\ \A k \in 1 .. (j - 1) :
          (t[k].sym = t[j].sym /\ CalledIn(tr, k, x) /\ CalledIn(tr, j, x))
             => BackIn(t, tr, k, j, t[j].sym, x)

Agree(one, two, p) == \A m \in 1 .. p : one[m] = two[m]

\* All of these look at the announcements up to the one they are about.
LEMMA AgreeEnough ==
    ASSUME NEW t, NEW one, NEW two, NEW p \in Nat, Agree(one, two, p), NEW j \in 0 .. p
    PROVE  /\ \A k \in 1 .. j : \A x : CalledIn(one, k, x) <=> CalledIn(two, k, x)
           /\ \A k \in 1 .. j : \A x : ReturnsIn(t, one, k, x) <=> ReturnsIn(t, two, k, x)
           /\ \A k \in 1 .. j : \A s, x : BackIn(t, one, k, j, s, x) <=> BackIn(t, two, k, j, s, x)
           /\ InForce(t, one, j) = InForce(t, two, j)
           /\ j > 0 => \A x : CalledOnce(t, one, j, x) <=> CalledOnce(t, two, j, x)
  <1>1. \A k \in 1 .. j : one[k] = two[k]
    BY DEF Agree
  <1>2. \A k \in 1 .. j : \A x : CalledIn(one, k, x) <=> CalledIn(two, k, x)
    BY <1>1 DEF CalledIn
  <1>3. \A k \in 1 .. j : \A x : ReturnsIn(t, one, k, x) <=> ReturnsIn(t, two, k, x)
    <2>1. ASSUME NEW k \in 1 .. j, NEW i \in 1 .. k  PROVE  i \in 1 .. j
      OBVIOUS
    <2> QED  BY <1>1, <2>1 DEF ReturnsIn
  <1>4. \A k \in 1 .. j : \A s, x : BackIn(t, one, k, j, s, x) <=> BackIn(t, two, k, j, s, x)
    <2>1. ASSUME NEW k \in 1 .. j, NEW m \in (k + 1) .. j  PROVE  m \in 1 .. j
      OBVIOUS
    <2> QED  BY <1>3, <2>1 DEF BackIn
  <1>5. InForce(t, one, j) = InForce(t, two, j)
    BY <1>2, <1>4 DEF InForce
  <1>6. ASSUME j > 0, NEW x  PROVE  CalledOnce(t, one, j, x) <=> CalledOnce(t, two, j, x)
    <2>1. \A i \in 1 .. j : DepartsIn(t, one, i, j, x) <=> DepartsIn(t, two, i, j, x)
      <3>1. one[j] = two[j]
        BY <1>1, <1>6
      <3> QED  BY <1>1, <3>1 DEF DepartsIn
    <2>2. \A k \in 1 .. (j - 1) : k \in 1 .. j
      OBVIOUS
    <2>3. CalledIn(one, j, x) <=> CalledIn(two, j, x)
      BY <1>2, <1>6
    <2> QED  BY <1>2, <1>4, <2>1, <2>2, <2>3 DEF CalledOnce
  <1> QED  BY <1>2, <1>3, <1>4, <1>5, <1>6

\* The next quote of a symbol s follows the last one before it, if any.
LEMMA LastFollows ==
    ASSUME NEW t, NEW p \in Nat, NEW i, IsLast(t, p, t[p + 1].sym, i)
    PROVE  /\ i # 0 => FollowsIn(t, i, p + 1)
           /\ \A k \in 1 .. p + 1 : FollowsIn(t, k, p + 1) => k = i
  <1>1. i \in 0 .. p /\ (i # 0 => t[i].sym = t[p + 1].sym)
        /\ \A m \in (i + 1) .. p : t[m].sym # t[p + 1].sym
    BY DEF IsLast
  <1>2. ASSUME i # 0  PROVE  FollowsIn(t, i, p + 1)
    BY <1>1, <1>2 DEF FollowsIn
  <1>3. ASSUME NEW k \in 1 .. p + 1, FollowsIn(t, k, p + 1)  PROVE  k = i
    <2>1. k < p + 1 /\ t[k].sym = t[p + 1].sym
          /\ \A m \in (k + 1) .. p : t[m].sym # t[p + 1].sym
      BY <1>3 DEF FollowsIn
    <2>2. ~(k > i)
      BY <2>1, <1>1
    <2>3. ~(k < i)
      <3>1. ASSUME k < i  PROVE  i \in (k + 1) .. p /\ i # 0
        BY <3>1, <1>1
      <3> QED  BY <3>1, <2>1, <1>1
    <2> QED  BY <2>2, <2>3, <1>1
  <1> QED  BY <1>2, <1>3

\* A symbol that was announced nothing of has nothing in force.
LEMMA NothingInForce ==
    ASSUME NEW t, NEW tr, NEW p \in Nat, NEW s, IsLast(t, p, s, 0)
    PROVE  \A x : <<s, x>> \notin InForce(t, tr, p) /\ \A k \in 1 .. p : t[k].sym # s
  <1>1. \A k \in 1 .. p : t[k].sym # s
    BY DEF IsLast
  <1> QED  BY <1>1 DEF InForce

(***************************************************************************)
(* What the detector makes of one more announcement: the departures in     *)
(* force afterwards are those of the longer run, and nothing was missed    *)
(* or called twice.                                                        *)
(***************************************************************************)
LEMMA DetectStep ==
    ASSUME NEW t, NEW p \in Nat, NEW one, NEW two, NEW s, NEW i, NEW curr \in Posts,
           NEW found, s = t[p + 1].sym, s \in Names(t), IsLast(t, p, s, i),
           Agree(one, two, p), \A m \in 1 .. p : one[m].post \in Posts,
           two[p + 1] = [post |-> curr, spike |-> found.spike],
           found = Detect(PostAt(one, i), curr, InForce(t, one, p), s)
    PROVE  /\ two[p + 1] \in Announced
           /\ found.suppressed = InForce(t, two, p + 1)
           /\ \A x \in States : CalledOnce(t, two, p + 1, x)
  <1> DEFINE j == p + 1
             sup == InForce(t, one, p)
             prev == PostAt(one, i)
             d == Dominant(prev)
             kept == RearmSuppression(prev, curr, sup, s)
             calls == i # 0 /\ curr[d] < prev[d] /\ (Dominant(curr) # d \/ curr[d] < FloorTenths)
                      /\ <<s, d>> \notin kept
  <1>1. i \in 0 .. p /\ j \in Nat \ {0} /\ p = j - 1 /\ p < j /\ p \in 0 .. j /\ p \in 0 .. p
    BY DEF IsLast
  <1>2. sup = InForce(t, two, p)
    BY <1>1, AgreeEnough
  <1>3. two[j].post = curr /\ two[j].spike = found.spike
    OBVIOUS
  <1>4. /\ \A k \in 1 .. j : FollowsIn(t, k, j) => k = i
        /\ i # 0 => FollowsIn(t, i, j)
    BY LastFollows
  <1>5. ASSUME i # 0
        PROVE  prev \in Posts /\ two[i].post = prev /\ prev # Unknown /\ d \in States
    <2>1. i \in 1 .. p /\ prev = one[i].post
      BY <1>1, <1>5 DEF PostAt
    <2>2. prev \in Posts /\ two[i].post = prev
      BY <2>1 DEF Agree
    <2>3. prev # Unknown
      <3>1. DOMAIN prev = 1 .. 3
        BY <2>2 DEF Posts, States
      <3>2. Len(Unknown) = 0 /\ DOMAIN Unknown = 1 .. 0
        BY DEF Unknown
      <3> QED  BY <3>1, <3>2
    <2> QED  BY <2>2, <2>3, DominantState
  <1>6. i = 0 => prev = Unknown
    BY DEF PostAt
  \* What comes back with this announcement, in the detector's words.
  <1>7. ASSUME i # 0, NEW x \in States
        PROVE  ReturnsIn(t, two, j, x)
               <=> curr[x] >= FloorTenths \/ (Dominant(curr) = x /\ d # x)
    <2>1. (\E k \in 1 .. j : FollowsIn(t, k, j) /\ Dominant(two[k].post) # x) <=> d # x
      BY <1>1, <1>4, <1>5, <1>7
    <2> QED  BY <2>1, <1>3 DEF ReturnsIn
  <1>8. ASSUME i # 0
        PROVE  kept = {c \in sup : c[1] = s => ~ReturnsIn(t, two, j, c[2])}
    <2>1. \A c \in sup : c[2] \in States
      BY DEF InForce
    <2>2. kept = {c \in sup : c[1] = s => /\ ~(d # c[2] /\ Dominant(curr) = c[2])
                                            /\ ~(curr[c[2]] >= FloorTenths)}
      BY DEF RearmSuppression
    <2> HIDE DEF kept, d, sup, j, prev
    <2> QED  BY <2>1, <2>2, <1>7, <1>8
  <1>9. /\ calls => found = [spike |-> {[departing |-> d, incoming |-> ResolveIncoming(curr, d)]},
                               suppressed |-> kept \cup {<<s, d>>}]
        /\ ~calls /\ i # 0 => found = [spike |-> {}, suppressed |-> kept]
        /\ i = 0 => found = [spike |-> {}, suppressed |-> sup]
    <2>1. ASSUME i # 0
          PROVE  curr[d] \in Int /\ prev[d] \in Int /\ prev # Unknown
      BY <1>5, <2>1 DEF Posts
    <2>2. i # 0 => (curr[d] >= prev[d] <=> ~(curr[d] < prev[d]))
      BY <2>1
    <2>3. found = IF prev = Unknown THEN [spike |-> {}, suppressed |-> sup]
                  ELSE IF curr[d] >= prev[d]
                          \/ ~(Dominant(curr) # d \/ curr[d] < FloorTenths)
                          \/ <<s, d>> \in kept
                       THEN [spike |-> {}, suppressed |-> kept]
                       ELSE [spike |-> {[departing |-> d,
                                           incoming |-> ResolveIncoming(curr, d)]},
                             suppressed |-> kept \cup {<<s, d>>}]
      BY DEF Detect
    <2> HIDE DEF kept, d, sup, prev
    <2> QED  BY <2>1, <2>2, <2>3, <1>6
  <1> calls \in BOOLEAN
    OBVIOUS
  <1>10. \A x : CalledIn(two, j, x) <=> calls /\ x = d
    <2>0. [departing |-> d, incoming |-> ResolveIncoming(curr, d)].departing = d
      OBVIOUS
    <2>1. calls => \A sp : sp \in found.spike
                     <=> sp = [departing |-> d, incoming |-> ResolveIncoming(curr, d)]
      BY <1>9
    <2>2. ~calls => found.spike = {}
      BY <1>9
    <2> HIDE DEF calls, d
    <2>3. ASSUME calls  PROVE  \A x : CalledIn(two, j, x) <=> x = d
      BY <2>0, <2>1, <2>3, <1>3 DEF CalledIn
    <2>4. ASSUME ~calls  PROVE  \A x : ~CalledIn(two, j, x)
      BY <2>2, <2>4, <1>3 DEF CalledIn
    <2> QED  BY <2>3, <2>4
  <1>11. two[j] \in Announced
    <2>1. ResolveIncoming(curr, d) \subseteq States
      BY DEF ResolveIncoming
    <2>2. calls => d \in States
      BY <1>5
    <2>3. found.spike \in SUBSET [departing : States, incoming : SUBSET States]
      <3>1. calls => found.spike = {[departing |-> d, incoming |-> ResolveIncoming(curr, d)]}
        BY <1>9
      <3>2. ~calls => found.spike = {}
        BY <1>9
      <3> HIDE DEF calls, d
      <3> QED  BY <2>1, <2>2, <3>1, <3>2
    <2> QED  BY <2>3, <1>3 DEF Announced
  \* Back, one announcement later.
  <1>12. \A k \in 1 .. p : \A r, x : BackIn(t, two, k, j, r, x)
            <=> BackIn(t, two, k, p, r, x) \/ (r = s /\ ReturnsIn(t, two, j, x))
    <2>1. \A k \in 1 .. p : \A m : m \in (k + 1) .. j <=> m \in (k + 1) .. p \/ m = j
      BY <1>1
    <2>2. t[j].sym = s
      OBVIOUS
    <2> HIDE DEF j
    <2> QED  BY <2>1, <2>2 DEF BackIn
  <1>13. \A r, x : ~BackIn(t, two, j, j, r, x)
    <2>1. \A m : m \notin (j + 1) .. j
      BY <1>1
    <2> QED  BY <2>1 DEF BackIn
  <1>14. \A k : k \in 1 .. j <=> k \in 1 .. p \/ k = j
    BY <1>1
  <1>15. \A r \in Names(t), x \in States :
            <<r, x>> \in InForce(t, two, j)
            <=> \/ <<r, x>> \in sup /\ (r = s => ~ReturnsIn(t, two, j, x))
                \/ r = s /\ CalledIn(two, j, x)
    <2> SUFFICES ASSUME NEW r \in Names(t), NEW x \in States
                 PROVE  <<r, x>> \in InForce(t, two, j)
                        <=> \/ <<r, x>> \in sup /\ (r = s => ~ReturnsIn(t, two, j, x))
                            \/ r = s /\ CalledIn(two, j, x)
      OBVIOUS
    <2>1. <<r, x>> \in InForce(t, two, j)
          <=> \E k \in 1 .. j : t[k].sym = r /\ CalledIn(two, k, x) /\ ~BackIn(t, two, k, j, r, x)
      BY DEF InForce
    <2>2. <<r, x>> \in sup
          <=> \E k \in 1 .. p : t[k].sym = r /\ CalledIn(two, k, x) /\ ~BackIn(t, two, k, p, r, x)
      BY <1>2 DEF InForce
    <2>3. t[j].sym = s
      OBVIOUS
    <2> HIDE DEF j, sup
    <2> QED  BY <2>1, <2>2, <2>3, <1>12, <1>13, <1>14
  <1>16. found.suppressed = InForce(t, two, j)
    <2>1. \A c : c \in InForce(t, two, j) => c \in Names(t) \X States
      BY DEF InForce
    <2>2. \A c : c \in sup => c \in Names(t) \X States
      BY DEF InForce
    <2>3. CASE i = 0
      <3>1. \A x : <<s, x>> \notin sup
        BY <2>3, NothingInForce
      <3>2. found.suppressed = sup
        BY <2>3, <1>9
      <3>3. \A r \in Names(t), x \in States : <<r, x>> \in InForce(t, two, j) <=> <<r, x>> \in sup
        BY <2>3, <3>1, <1>10, <1>15
      <3> HIDE DEF j, sup
      <3> QED  BY <2>1, <2>2, <3>2, <3>3
    <2>4. CASE i # 0
      <3>1. found.suppressed = IF calls THEN kept \cup {<<s, d>>} ELSE kept
        <4>1. calls => found.suppressed = kept \cup {<<s, d>>}
          BY <1>9
        <4>2. ~calls => found.suppressed = kept
          BY <2>4, <1>9
        <4> HIDE DEF calls, d, kept
        <4> QED  BY <4>1, <4>2
      <3>2. \A c : c \in kept <=> c \in sup /\ (c[1] = s => ~ReturnsIn(t, two, j, c[2]))
        BY <2>4, <1>8
      <3>3. d \in States
        BY <2>4, <1>5
      <3>4. \A r \in Names(t), x \in States :
               <<r, x>> \in found.suppressed <=> <<r, x>> \in InForce(t, two, j)
        <4>1. \A r, x : <<r, x>> \in kept
                 <=> <<r, x>> \in sup /\ (r = s => ~ReturnsIn(t, two, j, x))
          BY <3>2
        <4>2. \A r, x : <<r, x>> = <<s, d>> <=> r = s /\ x = d
          OBVIOUS
        <4>3. \A c : c \in found.suppressed <=> c \in kept \/ (calls /\ c = <<s, d>>)
          <5> HIDE DEF kept, d, calls
          <5> QED  BY <3>1
        <4> SUFFICES ASSUME NEW r \in Names(t), NEW x \in States
                     PROVE  <<r, x>> \in found.suppressed <=> <<r, x>> \in InForce(t, two, j)
          OBVIOUS
        <4>4. <<r, x>> \in found.suppressed
              <=> \/ <<r, x>> \in sup /\ (r = s => ~ReturnsIn(t, two, j, x))
                  \/ calls /\ r = s /\ x = d
          <5> HIDE DEF j, sup, kept, d, calls
          <5> QED  BY <4>1, <4>2, <4>3
        <4> HIDE DEF j, sup, kept, d, calls
        <4> QED  BY <4>4, <1>10, <1>15
      <3>5. \A c : c \in found.suppressed => c \in Names(t) \X States
        <4>1. <<s, d>> \in Names(t) \X States
          BY <3>3
        <4>2. \A c \in kept : c \in sup
          BY <3>2
        <4> HIDE DEF kept, d, sup, calls
        <4> QED  BY <4>1, <4>2, <3>1, <2>2
      <3>6. ASSUME NEW c \in Names(t) \X States
            PROVE  c \in found.suppressed <=> c \in InForce(t, two, j)
        <4>1. PICK r \in Names(t), x \in States : c = <<r, x>>
          OBVIOUS
        <4> HIDE DEF j
        <4> QED  BY <4>1, <3>4
      <3> HIDE DEF j, sup, kept, d, calls
      <3> QED  BY <3>5, <3>6, <2>1
    <2> QED  BY <2>3, <2>4
  <1>17. ASSUME NEW x \in States  PROVE  CalledOnce(t, two, j, x)
    <2>1. ASSUME NEW k \in 1 .. j, FollowsIn(t, k, j), DepartsIn(t, two, k, j, x)
          PROVE  \E m \in 1 .. j : t[m].sym = s /\ CalledIn(two, m, x)
                                  /\ ~BackIn(t, two, m, j, s, x)
      <3>1. k = i /\ i # 0
        BY <2>1, <1>1, <1>4
      <3>2. x = d /\ curr[d] < prev[d] /\ (Dominant(curr) # d \/ curr[d] < FloorTenths)
        BY <2>1, <3>1, <1>3, <1>5 DEF DepartsIn
      <3>3. CASE calls
        BY <3>2, <3>3, <1>10, <1>13, <1>14
      <3>4. CASE ~calls
        <4>1. <<s, x>> \in kept
          BY <3>1, <3>2, <3>4
        <4>2. <<s, x>> \in sup /\ ~ReturnsIn(t, two, j, x)
          BY <4>1, <3>1, <1>8
        <4>3. <<s, x>> \in InForce(t, two, j)
          BY <4>2, <1>15
        <4> QED  BY <4>3 DEF InForce
      <3> QED  BY <3>3, <3>4
    <2>2. ASSUME NEW k \in 1 .. (j - 1), t[k].sym = s, CalledIn(two, k, x), CalledIn(two, j, x)
          PROVE  BackIn(t, two, k, j, s, x)
      <3>1. calls /\ x = d /\ k \in 1 .. p
        BY <2>2, <1>1, <1>10
      <3>2. <<s, x>> \notin kept /\ i # 0
        BY <3>1
      <3>3. CASE <<s, x>> \in sup
        <4>1. ReturnsIn(t, two, j, x)
          BY <3>2, <3>3, <1>8
        <4> QED  BY <4>1, <3>1, <1>12
      <3>4. CASE <<s, x>> \notin sup
        <4>1. BackIn(t, two, k, p, s, x)
          <5>1. <<s, x>> \in Names(t) \X States
            OBVIOUS
          <5>2. <<s, x>>[1] = s /\ <<s, x>>[2] = x
            OBVIOUS
          <5> QED  BY <5>1, <5>2, <2>2, <3>1, <3>4, <1>2 DEF InForce
        <4> QED  BY <4>1, <3>1, <1>12
      <3> QED  BY <3>3, <3>4
    <2>3. t[j].sym = s
      OBVIOUS
    <2> HIDE DEF j
    <2> QED  BY <2>1, <2>2, <2>3 DEF CalledOnce
  <1> QED  BY <1>11, <1>16, <1>17

(***************************************************************************)
(* The filter on one quote, field by field.                                *)
(***************************************************************************)
StayFrom(last, at) ==
    IF last = 0 \/ at - last = 1 THEN 80 ELSE IF at - last < 1 THEN 95 ELSE 64
NewPost(believed, stay, emission, spread) ==
    LET predicted == PredictWithMatrix(IF believed = Unknown THEN Uniform ELSE believed, stay)
    IN  IF spread = "locked" THEN Normalised(predicted)
        ELSE BayesUpdate(predicted, EmissionLikelihood(emission, spread))

Beliefs == Posts \cup {Unknown}
EngineOn(e, syms) ==
    /\ e = [post |-> e.post, seq |-> e.seq, last |-> e.last, emission |-> e.emission,
            calibrated |-> e.calibrated]
    /\ e.post \in [syms -> Beliefs] /\ e.seq \in [syms -> Nat]
    /\ e.last = [s \in syms |-> e.last[s]]
    /\ \A s \in syms : e.seq[s] # 0 => e.post[s] \in Posts

\* What the filter makes of a quote is a posterior, whatever was believed.
LEMMA NewPostPost ==
    ASSUME NEW believed \in Beliefs, NEW stay \in 0 .. 100, NEW emission, NEW spread
    PROVE  NewPost(believed, stay, emission, spread) \in Posts
  <1> DEFINE prior == IF believed = Unknown THEN Uniform ELSE believed
  <1>1. Uniform \in Posts
    BY DEF Uniform, Posts, States
  <1>2. prior \in Posts
    BY <1>1 DEF Beliefs
  <1> HIDE DEF prior
  <1>3. /\ Normalised(PredictWithMatrix(prior, stay)) \in Posts
        /\ BayesUpdate(PredictWithMatrix(prior, stay), EmissionLikelihood(emission, spread))
             \in Posts
    BY <1>2, PosteriorPost
  <1> QED  BY <1>3 DEF NewPost, prior

\* A quote changes the beliefs about its symbol and nothing else, and only when
\* the engine has not taken it already.
LEMMA PosteriorStep ==
    ASSUME NEW syms, NEW e, EngineOn(e, syms), NEW q, q.sym \in syms, q.seq \in Nat \ {0}
    PROVE  LET f == Posterior(e, q)
               post == NewPost(e.post[q.sym], StayFrom(e.last[q.sym], q.at), e.emission, q.spread)
           IN  /\ EngineOn(f, syms)
               /\ f.post[q.sym] \in Posts
               /\ f.emission = e.emission /\ f.calibrated = e.calibrated
               /\ \A r \in syms \ {q.sym} : f.post[r] = e.post[r] /\ f.seq[r] = e.seq[r]
                                             /\ f.last[r] = e.last[r]
               /\ e.seq[q.sym] # q.seq =>
                     f.post[q.sym] = post /\ f.seq[q.sym] = q.seq /\ f.last[q.sym] = q.at
  <1> DEFINE s == q.sym
             post == NewPost(e.post[s], StayFrom(e.last[s], q.at), e.emission, q.spread)
             f == Posterior(e, q)
  <1>1. post \in Posts
    <2>1. StayFrom(e.last[s], q.at) \in 0 .. 100
      BY DEF StayFrom
    <2>2. e.post[s] \in Beliefs
      BY DEF EngineOn
    <2> QED  BY <2>1, <2>2, NewPostPost
  <1>2. CASE e.seq[s] = q.seq
    <2>1. f = e
      BY <1>2 DEF Posterior
    <2>2. e.post[s] \in Posts
      BY <1>2 DEF EngineOn
    <2> QED  BY <1>2, <2>1, <2>2
  <1>3. CASE e.seq[s] # q.seq
    <2>1. StayFor(e, q) = StayFrom(e.last[s], q.at)
      BY DEF StayFor, StayFrom
    <2>2. f = [e EXCEPT !.post[s] = post, !.seq[s] = q.seq, !.last[s] = q.at]
      BY <1>3, <2>1 DEF Posterior, NewPost
    <2>3. PICK a, b, c, m, z : /\ e = [post |-> a, seq |-> b, last |-> c, emission |-> m,
                                        calibrated |-> z]
                               /\ a = e.post /\ b = e.seq /\ c = e.last
                               /\ m = e.emission /\ z = e.calibrated
      BY DEF EngineOn
    <2>4. PICK w : w = post
      OBVIOUS
    <2>5. PICK n : n = q.seq
      OBVIOUS
    <2>6. PICK h : h = q.at
      OBVIOUS
    <2>7. PICK x : x = s
      OBVIOUS
    <2>8. f = [post |-> [a EXCEPT ![x] = w], seq |-> [b EXCEPT ![x] = n],
               last |-> [c EXCEPT ![x] = h], emission |-> m, calibrated |-> z]
      <3>1. f = [e EXCEPT !.post[x] = w, !.seq[x] = n, !.last[x] = h]
        BY <2>2, <2>4, <2>5, <2>6, <2>7
      <3> HIDE DEF f, post, s
      <3> QED  BY <3>1, <2>3
    <2>9. /\ f.post = [a EXCEPT ![x] = w] /\ f.seq = [b EXCEPT ![x] = n]
          /\ f.last = [c EXCEPT ![x] = h] /\ f.emission = m /\ f.calibrated = z
      <3> HIDE DEF f, post, s
      <3> QED  BY <2>8
    <2>10. /\ a \in [syms -> Beliefs] /\ b \in [syms -> Nat] /\ c = [r \in syms |-> c[r]]
           /\ \A r \in syms : b[r] # 0 => a[r] \in Posts
      <3> HIDE DEF f, post, s
      <3> QED  BY <2>3 DEF EngineOn
    <2>11. w \in Posts /\ w \in Beliefs /\ n \in Nat \ {0} /\ x \in syms
      <3>1. w \in Posts /\ n \in Nat \ {0} /\ x \in syms
        BY <1>1, <2>4, <2>5, <2>7
      <3> QED  BY <3>1 DEF Beliefs
    <2>12. /\ f.post[x] = w /\ f.seq[x] = n /\ f.last[x] = h
           /\ \A r \in syms \ {x} : f.post[r] = a[r] /\ f.seq[r] = b[r] /\ f.last[r] = c[r]
      <3> HIDE DEF f, post, s
      <3> QED  BY <2>9, <2>10, <2>11
    <2>13. EngineOn(f, syms)
      <3>1. f = [post |-> f.post, seq |-> f.seq, last |-> f.last, emission |-> f.emission,
                 calibrated |-> f.calibrated]
        <4> HIDE DEF f, post, s
        <4> QED  BY <2>8, <2>9
      <3>2. f.post \in [syms -> Beliefs] /\ f.seq \in [syms -> Nat]
        <4> HIDE DEF f, post, s
        <4> QED  BY <2>9, <2>10, <2>11
      <3>3. f.last = [r \in syms |-> f.last[r]]
        <4>1. c = [r \in syms |-> c[r]]
          BY <2>10
        <4>2. f.last = [c EXCEPT ![x] = h]
          BY <2>9
        <4>3. DOMAIN c = syms
          BY <4>1
        <4> HIDE DEF f, post, s
        <4> QED  BY <4>2, <4>3
      <3>4. \A r \in syms : f.seq[r] # 0 => f.post[r] \in Posts
        <4> HIDE DEF f, post, s
        <4> QED  BY <2>10, <2>11, <2>12
      <3> HIDE DEF f
      <3> QED  BY <3>1, <3>2, <3>3, <3>4 DEF EngineOn
    <2> QED  BY <1>1, <1>3, <2>3, <2>4, <2>5, <2>6, <2>7, <2>9, <2>12, <2>13
  <1> QED  BY <1>2, <1>3

(***************************************************************************)
(* Every way the process builds an engine keeps its symbols.               *)
(***************************************************************************)
CheckpointOn(c, syms) ==
    /\ c.post \in [syms -> Beliefs] /\ c.seq \in [syms -> Nat]
    /\ c.last = [s \in syms |-> c.last[s]]
    /\ \A s \in syms : c.seq[s] # 0 => c.post[s] \in Posts

\* A new engine is one.
LEMMA NewEngineOn ==
    ASSUME NEW syms
    PROVE  EngineOn(NewEngine(syms), syms)
  <1>1. NewEngine(syms) = [post |-> [s \in syms |-> Unknown], seq |-> [s \in syms |-> 0],
                           last |-> [s \in syms |-> 0], emission |-> "placeholder",
                           calibrated |-> FALSE]
    BY DEF NewEngine
  <1>2. Unknown \in Beliefs
    BY DEF Beliefs
  <1> DEFINE a == [s \in syms |-> Unknown]
             b == [s \in syms |-> 0]
             e == NewEngine(syms)
  <1>3. a \in [syms -> Beliefs] /\ b \in [syms -> Nat] /\ \A s \in syms : b[s] = 0
    BY <1>2
  <1>4. e.post = a /\ e.seq = b /\ e.last = b /\ e.emission = "placeholder" /\ e.calibrated = FALSE
    BY <1>1
  <1>5. e = [post |-> e.post, seq |-> e.seq, last |-> e.last, emission |-> e.emission,
             calibrated |-> e.calibrated]
    BY <1>1, <1>4
  <1>6. b = [s \in syms |-> b[s]]
    OBVIOUS
  <1> HIDE DEF a, b, e
  <1>7. EngineOn(e, syms)
    BY <1>3, <1>4, <1>5, <1>6 DEF EngineOn
  <1> QED  BY <1>7 DEF e

\* New emissions leave the beliefs alone.
LEMMA RefitOn ==
    ASSUME NEW syms, NEW e, EngineOn(e, syms), NEW m, NEW z,
           NEW f, f = [post |-> e.post, seq |-> e.seq, last |-> e.last, emission |-> m,
                       calibrated |-> z]
    PROVE  /\ EngineOn(f, syms) /\ f.emission = m /\ f.calibrated = z
           /\ f.post = e.post /\ f.seq = e.seq /\ f.last = e.last
  <1>1. /\ f.post = e.post /\ f.seq = e.seq /\ f.last = e.last
        /\ f.emission = m /\ f.calibrated = z
    OBVIOUS
  <1>2. f = [post |-> f.post, seq |-> f.seq, last |-> f.last, emission |-> f.emission,
             calibrated |-> f.calibrated]
    BY <1>1
  <1> QED  BY <1>1, <1>2 DEF EngineOn

\* The same for the record written as a change of e.
LEMMA RefitForm ==
    ASSUME NEW syms, NEW e, EngineOn(e, syms), NEW m, NEW z
    PROVE  [e EXCEPT !.emission = m, !.calibrated = z]
           = [post |-> e.post, seq |-> e.seq, last |-> e.last, emission |-> m, calibrated |-> z]
  <1>1. PICK a, b, c, m0, z0 : /\ e = [post |-> a, seq |-> b, last |-> c, emission |-> m0,
                                       calibrated |-> z0]
                               /\ a = e.post /\ b = e.seq /\ c = e.last
    BY DEF EngineOn
  <1>2. PICK f : f = [e EXCEPT !.emission = m, !.calibrated = z]
    OBVIOUS
  <1>3. f = [post |-> a, seq |-> b, last |-> c, emission |-> m, calibrated |-> z]
    BY <1>1, <1>2
  <1> QED  BY <1>1, <1>2, <1>3

\* A checkpoint of the same symbols restores to an engine of them.
LEMMA RestoreOn ==
    ASSUME NEW syms, NEW e, EngineOn(e, syms), NEW blob, CheckpointOn(blob, syms)
    PROVE  EngineOn(Restore(e, blob), syms)
  <1> DEFINE f == [e EXCEPT !.post = blob.post, !.seq = blob.seq, !.last = blob.last]
  <1>1. PICK a, b, c, m, z : /\ e = [post |-> a, seq |-> b, last |-> c, emission |-> m,
                                     calibrated |-> z]
    BY DEF EngineOn
  <1>2. PICK u, v, w : u = blob.post /\ v = blob.seq /\ w = blob.last
    OBVIOUS
  <1>3. f = [post |-> u, seq |-> v, last |-> w, emission |-> m, calibrated |-> z]
    <2>1. f = [e EXCEPT !.post = u, !.seq = v, !.last = w]
      BY <1>2
    <2> HIDE DEF f
    <2> QED  BY <2>1, <1>1
  <1>4. f.post = u /\ f.seq = v /\ f.last = w /\ f.emission = m /\ f.calibrated = z
    BY <1>3
  <1>5. f = [post |-> f.post, seq |-> f.seq, last |-> f.last, emission |-> f.emission,
             calibrated |-> f.calibrated]
    BY <1>3, <1>4
  <1> HIDE DEF f
  <1>6. EngineOn(f, syms)
    BY <1>2, <1>4, <1>5 DEF EngineOn, CheckpointOn
  <1>7. ASSUME NEW m1, NEW z1
        PROVE  EngineOn([f EXCEPT !.emission = m1, !.calibrated = z1], syms)
    <2>1. PICK g : g = [post |-> f.post, seq |-> f.seq, last |-> f.last, emission |-> m1,
                        calibrated |-> z1]
      OBVIOUS
    <2>2. EngineOn(g, syms)
      BY <2>1, <1>6, RefitOn
    <2> QED  BY <2>1, <2>2, <1>6, RefitForm
  <1> QED  BY <1>6, <1>7 DEF Restore, f

\* A fit is made once, of a tape that is long enough.
Enough(t) == ~(t = <<>> \/ Cardinality({i \in DOMAIN t : t[i].spread # "locked"}) < MinSamples)
Fit(t) == IF Enough(t) THEN "fitted" ELSE "placeholder"

\* Calibration starts from blank beliefs when it fits, and does nothing else.
LEMMA CalibrateOn ==
    ASSUME NEW syms, NEW e, EngineOn(e, syms), NEW t
    PROVE  LET f == Calibrate(e, t)
           IN  /\ EngineOn(f, syms)
               /\ e.calibrated \/ ~Enough(t) => f = e
               /\ ~e.calibrated /\ Enough(t) =>
                     /\ f.post = NewEngine(syms).post /\ f.seq = NewEngine(syms).seq
                     /\ f.last = NewEngine(syms).last
                     /\ f.emission = "fitted" /\ f.calibrated = TRUE
  <1> DEFINE f == Calibrate(e, t)
             g == [NewEngine(syms) EXCEPT !.emission = "fitted", !.calibrated = TRUE]
  <1>1. DOMAIN e.post = syms
    BY DEF EngineOn
  <1>2. f = IF e.calibrated \/ ~Enough(t) THEN e ELSE g
    BY <1>1 DEF Calibrate, Enough
  <1>3. /\ EngineOn(g, syms) /\ g.emission = "fitted" /\ g.calibrated = TRUE
        /\ g.post = NewEngine(syms).post /\ g.seq = NewEngine(syms).seq
        /\ g.last = NewEngine(syms).last
    <2>1. PICK n, m, z : n = NewEngine(syms) /\ m = "fitted" /\ z = TRUE
      OBVIOUS
    <2>2. EngineOn(n, syms) /\ g = [post |-> n.post, seq |-> n.seq, last |-> n.last,
                                    emission |-> m, calibrated |-> z]
      <3>1. EngineOn(n, syms) /\ g = [n EXCEPT !.emission = m, !.calibrated = z]
        BY <2>1, NewEngineOn
      <3> HIDE DEF g
      <3> QED  BY <3>1, RefitForm
    <2> HIDE DEF g
    <2> QED  BY <2>1, <2>2, RefitOn
  <1> HIDE DEF f, g
  <1>4. /\ EngineOn(f, syms)
        /\ e.calibrated \/ ~Enough(t) => f = e
        /\ ~e.calibrated /\ Enough(t) => f = g
    BY <1>2, <1>3
  <1>5. ~e.calibrated /\ Enough(t) =>
           /\ f.post = NewEngine(syms).post /\ f.seq = NewEngine(syms).seq
           /\ f.last = NewEngine(syms).last
           /\ f.emission = "fitted" /\ f.calibrated = TRUE
    BY <1>3, <1>4
  <1> QED  BY <1>4, <1>5 DEF f

\* A reset blanks the beliefs and keeps the fit.
LEMMA ResetOn ==
    ASSUME NEW syms, NEW e, EngineOn(e, syms)
    PROVE  LET f == ResetEngine(e)
           IN  /\ EngineOn(f, syms)
               /\ f.post = NewEngine(syms).post /\ f.seq = NewEngine(syms).seq
               /\ f.last = NewEngine(syms).last
               /\ f.emission = e.emission /\ f.calibrated = e.calibrated
  <1>1. DOMAIN e.post = syms
    BY DEF EngineOn
  <1>2. ResetEngine(e)
        = [NewEngine(syms) EXCEPT !.emission = e.emission, !.calibrated = e.calibrated]
    BY <1>1 DEF ResetEngine
  <1>3. PICK n, m, z : n = NewEngine(syms) /\ m = e.emission /\ z = e.calibrated
    OBVIOUS
  <1> DEFINE f == ResetEngine(e)
  <1>4. EngineOn(n, syms) /\ f = [post |-> n.post, seq |-> n.seq, last |-> n.last,
                                  emission |-> m, calibrated |-> z]
    <2>1. f = [n EXCEPT !.emission = m, !.calibrated = z] /\ EngineOn(n, syms)
      BY <1>2, <1>3, NewEngineOn
    <2> HIDE DEF f
    <2> QED  BY <2>1, RefitForm
  <1> HIDE DEF f
  <1>5. EngineOn(f, syms) /\ f.post = n.post /\ f.seq = n.seq /\ f.last = n.last
        /\ f.emission = m /\ f.calibrated = z
    BY <1>4, RefitOn
  <1> QED  BY <1>3, <1>5 DEF f

\* What a shutdown stores can be restored.
LEMMA CheckpointOfEngine ==
    ASSUME NEW syms, NEW e, EngineOn(e, syms)
    PROVE  CheckpointOn(Checkpoint(e), syms)
  <1> DEFINE c == Checkpoint(e)
  <1>1. c.post = e.post /\ c.seq = e.seq /\ c.last = e.last
    BY DEF Checkpoint
  <1> HIDE DEF c
  <1>2. CheckpointOn(c, syms)
    BY <1>1 DEF CheckpointOn, EngineOn
  <1> QED  BY <1>2 DEF c

(***************************************************************************)
(* One more quote of the tape, and the last announcement of each symbol.   *)
(***************************************************************************)
LEMMA LastStep ==
    ASSUME NEW t, NEW p \in Nat, NEW s, NEW i, IsLast(t, p, s, i)
    PROVE  /\ t[p + 1].sym # s => IsLast(t, p + 1, s, i)
           /\ t[p + 1].sym = s => IsLast(t, p + 1, s, p + 1)
           /\ \A k : IsLast(t, p, s, k) => k = i
  <1>1. \A m : m \in (i + 1) .. (p + 1) => m \in (i + 1) .. p \/ m = p + 1
    BY DEF IsLast
  <1>2. \A m : m \notin (p + 1 + 1) .. (p + 1)
    OBVIOUS
  <1>3. ASSUME NEW k, IsLast(t, p, s, k)  PROVE  k = i
    BY <1>3 DEF IsLast
  <1> QED  BY <1>1, <1>2, <1>3 DEF IsLast

(***************************************************************************)
(* The inductive invariant.  Shape says what the state is made of, Heard   *)
(* what the kernel holds of the run at hand, and the rest is the claim.    *)
(***************************************************************************)
TracesOK == runs \in Nat /\ traces \in Seq(Seq(Announced)) /\ Len(traces) = runs

StoreOK ==
    /\ \E S : store \in Seq(S)
    /\ \A n \in 1 .. Len(store) : CheckpointOn(store[n], Names(tape))

Shape ==
    /\ tape \in RegimeTapes
    /\ stage \in {"off", "running", "shutdown"}
    /\ TracesOK /\ StoreOK
    /\ EngineOn(engine, Names(tape))
    /\ kernel = [last |-> kernel.last, suppressed |-> kernel.suppressed, spike |-> kernel.spike]
    /\ stage # "off" => runs > 0 /\ pos = Len(traces[runs]) /\ pos <= Len(tape)

Heard ==
    stage # "off" =>
    /\ kernel.suppressed = InForce(tape, traces[runs], pos)
    /\ kernel.last = [s \in Names(tape) |-> kernel.last[s]]
    /\ \A s \in Names(tape) : \E i :
          IsLast(tape, pos, s, i) /\ kernel.last[s] = PostAt(traces[runs], i)

CalledOnceSoFar ==
    runs > 0 => \A j \in 1 .. Len(traces[runs]), x \in States :
                   CalledOnce(tape, traces[runs], j, x)

RegimeInv == Shape /\ Heard /\ CalledOnceSoFar

\* A boot starts the run with nothing said.
LEMMA NothingSaid ==
    ASSUME NEW t, NEW tr
    PROVE  InForce(t, tr, 0) = {} /\ \A s : IsLast(t, 0, s, 0)
  <1>1. \A m : m \notin 1 .. 0
    OBVIOUS
  <1> QED  BY <1>1 DEF InForce, IsLast

\* A sequence grows by one.
LEMMA Grown ==
    ASSUME NEW S, NEW seq \in Seq(S), NEW x
    PROVE  /\ \E T : Append(seq, x) \in Seq(T)
           /\ Len(Append(seq, x)) = Len(seq) + 1 /\ Len(seq) \in Nat
           /\ \A n \in 1 .. Len(seq) : Append(seq, x)[n] = seq[n]
           /\ Append(seq, x)[Len(seq) + 1] = x
  <1>1. seq \in Seq(S \cup {x})
    BY SeqDef
  <1>2. x \in S \cup {x}
    OBVIOUS
  <1>3. PICK T : T = S \cup {x}
    OBVIOUS
  <1>4. seq \in Seq(T) /\ x \in T
    BY <1>1, <1>2, <1>3
  <1>5. Append(seq, x) \in Seq(T)
    BY <1>4
  <1> QED  BY <1>4, <1>5

\* The first state.
LEMMA RegimeStarts == RegimeInit => RegimeInv
  <1> SUFFICES ASSUME RegimeInit  PROVE  RegimeInv
    OBVIOUS
  <1>1. /\ tape \in RegimeTapes /\ engine = NewEngine(Names(tape))
        /\ kernel = NewKernel(Names(tape))
        /\ store = <<>> /\ stage = "off" /\ runs = 0 /\ traces = <<>>
    BY DEF RegimeInit
  <1>2. EngineOn(engine, Names(tape))
    BY <1>1, NewEngineOn
  <1>3. kernel = [last |-> kernel.last, suppressed |-> kernel.suppressed, spike |-> kernel.spike]
    <2>1. PICK a : a = [s \in Names(tape) |-> Unknown]
      OBVIOUS
    <2>2. kernel = [last |-> a, suppressed |-> {}, spike |-> {}]
      BY <1>1, <2>1 DEF NewKernel
    <2> QED  BY <2>2
  <1>4. StoreOK
    <2>1. store \in Seq({}) /\ Len(store) = 0
      BY <1>1
    <2> QED  BY <2>1 DEF StoreOK
  <1>5. TracesOK
    <2>1. traces \in Seq(Seq(Announced)) /\ Len(traces) = 0
      BY <1>1
    <2> QED  BY <2>1, <1>1 DEF TracesOK
  <1>6. Shape
    BY <1>1, <1>2, <1>3, <1>4, <1>5 DEF Shape
  <1> QED  BY <1>1, <1>6 DEF RegimeInv, Heard, CalledOnceSoFar

\* A boot: a new, empty run; the kernel forgets what it told.
LEMMA RegimeBoots == ASSUME RegimeInv, BootRegime  PROVE  RegimeInv'
  <1>1. /\ stage = "off" /\ stage' = "running" /\ pos' = 0 /\ runs' = runs + 1
        /\ traces' = Append(traces, <<>>) /\ store' = store /\ tape' = tape
        /\ engine' = Calibrate(IF store = <<>> THEN engine ELSE Restore(engine, store[Len(store)]),
                               tape)
        /\ kernel' = [kernel EXCEPT !.last = NewKernel(Names(tape)).last, !.suppressed = {},
                                    !.spike = {}]
    BY DEF BootRegime
  <1>2. Shape /\ TracesOK /\ StoreOK
    BY DEF RegimeInv, Shape
  <1>3. /\ traces' \in Seq(Seq(Announced)) /\ Len(traces') = runs' /\ runs' \in Nat
        /\ traces'[runs'] = <<>> /\ runs' > 0
    <2>1. runs \in Nat /\ traces \in Seq(Seq(Announced)) /\ Len(traces) = runs
      BY <1>2 DEF TracesOK
    <2>2. <<>> \in Seq(Announced)
      OBVIOUS
    <2>3. PICK empty : empty = <<>>
      OBVIOUS
    <2>4. traces' = Append(traces, empty) /\ empty \in Seq(Announced)
      BY <2>2, <2>3, <1>1
    <2>5. traces' \in Seq(Seq(Announced)) /\ Len(traces') = runs + 1 /\ traces'[runs + 1] = empty
      BY <2>1, <2>4
    <2> QED  BY <2>1, <2>3, <2>5, <1>1
  <1>4. Len(traces'[runs']) = 0
    BY <1>3
  <1>5. EngineOn(engine', Names(tape))
    <2>1. EngineOn(engine, Names(tape))
      BY <1>2 DEF Shape
    <2>2. store # <<>> => EngineOn(Restore(engine, store[Len(store)]), Names(tape))
      <3>1. ASSUME store # <<>>  PROVE  Len(store) \in 1 .. Len(store)
        <4>1. PICK S : store \in Seq(S)
          BY <1>2 DEF StoreOK
        <4> QED  BY <4>1, <3>1, EmptySeq
      <3>2. ASSUME store # <<>>  PROVE  CheckpointOn(store[Len(store)], Names(tape))
        BY <3>1, <3>2, <1>2 DEF StoreOK
      <3> QED  BY <2>1, <3>2, RestoreOn
    <2>3. PICK e : e = IF store = <<>> THEN engine ELSE Restore(engine, store[Len(store)])
      OBVIOUS
    <2>4. EngineOn(e, Names(tape))
      BY <2>1, <2>2, <2>3
    <2>5. engine' = Calibrate(e, tape)
      BY <1>1, <2>3
    <2> QED  BY <2>4, <2>5, CalibrateOn
  <1>6. /\ kernel' = [last |-> [s \in Names(tape) |-> Unknown], suppressed |-> {}, spike |-> {}]
    <2>1. PICK a, b, c : kernel = [last |-> a, suppressed |-> b, spike |-> c]
      BY <1>2 DEF Shape
    <2>2. PICK d : d = [s \in Names(tape) |-> Unknown]
      OBVIOUS
    <2>3. NewKernel(Names(tape)).last = d
      BY <2>2 DEF NewKernel
    <2>4. kernel' = [kernel EXCEPT !.last = d, !.suppressed = {}, !.spike = {}]
      BY <1>1, <2>3
    <2> QED  BY <2>1, <2>2, <2>4
  <1>7. /\ kernel'.last = [s \in Names(tape) |-> Unknown] /\ kernel'.suppressed = {}
        /\ kernel'.spike = {}
    <2>1. PICK d : d = [s \in Names(tape) |-> Unknown]
      OBVIOUS
    <2>2. kernel' = [last |-> d, suppressed |-> {}, spike |-> {}]
      BY <2>1, <1>6
    <2> QED  BY <2>1, <2>2
  <1>8. Shape'
    <2>1. tape' \in RegimeTapes /\ Len(tape) \in Nat
      BY <1>1, <1>2, RegimeAssumption DEF Shape
    <2>2. StoreOK'
      BY <1>1, <1>2 DEF StoreOK
    <2>3. TracesOK'
      BY <1>3 DEF TracesOK
    <2>4. kernel' = [last |-> kernel'.last, suppressed |-> kernel'.suppressed,
                     spike |-> kernel'.spike]
      BY <1>6, <1>7
    <2> QED  BY <1>1, <1>3, <1>4, <1>5, <2>1, <2>2, <2>3, <2>4 DEF Shape
  <1>9. Heard'
    <2>1. kernel'.suppressed = InForce(tape', traces'[runs'], pos')
      BY <1>1, <1>7, NothingSaid
    <2>2. kernel'.last = [s \in Names(tape') |-> kernel'.last[s]]
      BY <1>1, <1>7
    <2>3. \A s \in Names(tape') :
             IsLast(tape', pos', s, 0) /\ kernel'.last[s] = PostAt(traces'[runs'], 0)
      BY <1>1, <1>7, NothingSaid DEF PostAt
    <2> QED  BY <2>1, <2>2, <2>3 DEF Heard
  <1>10. CalledOnceSoFar'
    <2>1. \A j : j \notin 1 .. Len(traces'[runs'])
      BY <1>4
    <2> QED  BY <2>1 DEF CalledOnceSoFar
  <1> QED  BY <1>8, <1>9, <1>10 DEF RegimeInv

\* A quote: filter, detector and trace move together.
LEMMA RegimeUpdates == ASSUME RegimeInv, UpdateRegime  PROVE  RegimeInv'
  <1> DEFINE q == TapeQuote(tape, pos + 1)
             e == Posterior(engine, q)
             found == Detect(kernel.last[q.sym], e.post[q.sym], kernel.suppressed, q.sym)
             one == traces[runs]
             two == traces'[runs]
  <1>1. /\ stage = "running" /\ pos < Len(tape) /\ engine' = e
        /\ kernel' = [last |-> [kernel.last EXCEPT ![q.sym] = e.post[q.sym]],
                      suppressed |-> found.suppressed, spike |-> found.spike]
        /\ traces' = [traces EXCEPT ![runs] =
                          Append(@, [post |-> e.post[q.sym], spike |-> found.spike])]
        /\ pos' = pos + 1
        /\ store' = store /\ tape' = tape /\ stage' = stage /\ runs' = runs
    BY DEF UpdateRegime
  <1>2. Shape /\ TracesOK /\ StoreOK /\ Heard /\ CalledOnceSoFar
    BY DEF RegimeInv, Shape
  <1>3. /\ runs \in Nat /\ runs > 0 /\ runs \in 1 .. Len(traces) /\ Len(traces) = runs
        /\ traces \in Seq(Seq(Announced)) /\ one \in Seq(Announced) /\ pos = Len(one)
        /\ pos \in Nat
    <2>1. /\ runs \in Nat /\ runs > 0 /\ Len(traces) = runs /\ traces \in Seq(Seq(Announced))
          /\ pos = Len(one)
      BY <1>1, <1>2 DEF Shape, TracesOK
    <2>2. one \in Seq(Announced)
      BY <2>1
    <2> QED  BY <2>1, <2>2
  <1>4. pos + 1 \in DOMAIN tape
    <2>1. Len(tape) \in Nat /\ DOMAIN tape = 1 .. Len(tape)
      BY <1>2, RegimeAssumption DEF Shape
    <2> QED  BY <2>1, <1>1, <1>3
  <1>5. q.sym = tape[pos + 1].sym /\ q.sym \in Names(tape) /\ q.seq = pos + 1
    BY <1>4 DEF TapeQuote, Names
  <1>6. EngineOn(e, Names(tape)) /\ e.post[q.sym] \in Posts
    <2>1. EngineOn(engine, Names(tape))
      BY <1>2 DEF Shape
    <2>2. q.seq \in Nat \ {0}
      BY <1>3, <1>5
    <2> HIDE DEF q
    <2> QED  BY <2>1, <2>2, <1>5, PosteriorStep
  <1>7. PICK i : IsLast(tape, pos, q.sym, i) /\ kernel.last[q.sym] = PostAt(one, i)
    BY <1>1, <1>2, <1>5 DEF Heard
  <1>8. PICK entry : entry = [post |-> e.post[q.sym], spike |-> found.spike]
    OBVIOUS
  <1>9. /\ two = Append(one, entry) /\ \A n \in 1 .. (runs - 1) : traces'[n] = traces[n]
        /\ Len(traces') = runs /\ DOMAIN traces' = DOMAIN traces
    <2>1. traces' = [traces EXCEPT ![runs] = Append(one, entry)]
      BY <1>1, <1>8
    <2> HIDE DEF two, one
    <2>2. two = Append(one, entry)
      BY <2>1, <1>3 DEF two
    <2> QED  BY <2>1, <2>2, <1>3
  <1>10. /\ \A m \in 1 .. pos : two[m] = one[m]
         /\ two[pos + 1] = entry /\ Len(two) = pos + 1
    <2> HIDE DEF two, one
    <2> QED  BY <1>3, <1>9
  <1>11. Agree(one, two, pos)
    BY <1>10 DEF Agree
  <1>12. \A m \in 1 .. pos : one[m].post \in Posts
    <2>1. \A m \in 1 .. pos : one[m] \in Announced
      <3> HIDE DEF one
      <3> QED  BY <1>3
    <2> QED  BY <2>1 DEF Announced
  <1>13. kernel.suppressed = InForce(tape, one, pos)
    BY <1>1, <1>2 DEF Heard
  <1>14. /\ two[pos + 1] \in Announced
         /\ found.suppressed = InForce(tape, two, pos + 1)
         /\ \A x \in States : CalledOnce(tape, two, pos + 1, x)
    <2>1. found = Detect(PostAt(one, i), e.post[q.sym], InForce(tape, one, pos), q.sym)
      BY <1>7, <1>13
    <2>2. two[pos + 1] = [post |-> e.post[q.sym], spike |-> found.spike]
      BY <1>8, <1>10
    <2>3. PICK curr, s, fnd, ww : curr = e.post[q.sym] /\ s = q.sym /\ fnd = found /\ ww = two
      OBVIOUS
    <2>4. PICK t, p, oo : t = tape /\ p = pos /\ oo = one
      OBVIOUS
    <2>5. /\ p \in Nat /\ curr \in Posts /\ s = t[p + 1].sym /\ s \in Names(t)
          /\ IsLast(t, p, s, i) /\ Agree(oo, ww, p) /\ \A m \in 1 .. p : oo[m].post \in Posts
      BY <1>3, <1>5, <1>6, <1>7, <1>11, <1>12, <2>3, <2>4
    <2>6. /\ ww[p + 1] = [post |-> curr, spike |-> fnd.spike]
          /\ fnd = Detect(PostAt(oo, i), curr, InForce(t, oo, p), s)
      BY <2>1, <2>2, <2>3, <2>4
    <2> HIDE DEF e, q, found, one, two
    <2>7. /\ ww[p + 1] \in Announced
          /\ fnd.suppressed = InForce(t, ww, p + 1)
          /\ \A x \in States : CalledOnce(t, ww, p + 1, x)
      BY <2>5, <2>6, DetectStep
    <2> QED  BY <2>3, <2>4, <2>7
  <1>15. TracesOK'
    <2>1. entry \in Announced
      BY <1>10, <1>14
    <2>2. Append(one, entry) \in Seq(Announced)
      <3> HIDE DEF one
      <3> QED  BY <2>1, <1>3
    <2>3. traces' = [traces EXCEPT ![runs] = Append(one, entry)]
      BY <1>1, <1>8
    <2>4. traces' \in Seq(Seq(Announced))
      <3> HIDE DEF one
      <3>1. PICK w : w = Append(one, entry)
        OBVIOUS
      <3> QED  BY <3>1, <2>2, <2>3, <1>3
    <2> QED  BY <2>4, <1>1, <1>3, <1>9 DEF TracesOK
  <1>16. /\ kernel'.last = [kernel.last EXCEPT ![q.sym] = e.post[q.sym]]
         /\ kernel'.suppressed = found.suppressed /\ kernel'.spike = found.spike
    <2>1. PICK a, b, c : /\ a = [kernel.last EXCEPT ![q.sym] = e.post[q.sym]]
                         /\ b = found.suppressed /\ c = found.spike
      OBVIOUS
    <2>2. kernel' = [last |-> a, suppressed |-> b, spike |-> c]
      BY <2>1, <1>1
    <2> HIDE DEF e, q, found
    <2> QED  BY <2>1, <2>2
  <1>17. Shape'
    <2>1. StoreOK'
      BY <1>1, <1>2 DEF StoreOK
    <2>2. kernel' = [last |-> kernel'.last, suppressed |-> kernel'.suppressed,
                     spike |-> kernel'.spike]
      BY <1>1, <1>16
    <2>3. EngineOn(engine', Names(tape'))
      BY <1>1, <1>6
    <2>4. pos' = Len(traces'[runs']) /\ pos' <= Len(tape')
      <3>1. Len(tape) \in Nat
        BY <1>2, RegimeAssumption DEF Shape
      <3> QED  BY <3>1, <1>1, <1>3, <1>10
    <2>5. tape' \in RegimeTapes /\ stage' \in {"off", "running", "shutdown"} /\ runs' > 0
      BY <1>1, <1>2, <1>3 DEF Shape
    <2> QED  BY <2>1, <2>2, <2>3, <2>4, <2>5, <1>15 DEF Shape
  <1>18. Heard'
    <2>1. kernel'.suppressed = InForce(tape', traces'[runs'], pos')
      BY <1>1, <1>14, <1>16
    <2>2. PICK s, curr : s = q.sym /\ curr = e.post[q.sym]
      OBVIOUS
    <2>3. kernel'.last = [kernel.last EXCEPT ![s] = curr]
          /\ kernel.last = [r \in Names(tape) |-> kernel.last[r]] /\ s \in Names(tape)
      BY <1>1, <1>2, <1>5, <1>16, <2>2 DEF Heard
    <2>4. /\ kernel'.last = [r \in Names(tape) |-> kernel'.last[r]]
          /\ kernel'.last[s] = curr
          /\ \A r \in Names(tape) \ {s} : kernel'.last[r] = kernel.last[r]
      <3>1. PICK a, b : a = kernel.last /\ b = kernel'.last
        OBVIOUS
      <3>2. b = [a EXCEPT ![s] = curr] /\ a = [r \in Names(tape) |-> a[r]]
        BY <2>3, <3>1
      <3>3. DOMAIN a = Names(tape)
        BY <3>2
      <3>4. b = [r \in Names(tape) |-> b[r]] /\ b[s] = curr
            /\ \A r \in Names(tape) \ {s} : b[r] = a[r]
        BY <3>2, <3>3, <2>3
      <3> QED  BY <3>1, <3>4
    <2>5. ASSUME NEW r \in Names(tape)
          PROVE  \E k : IsLast(tape, pos + 1, r, k) /\ kernel'.last[r] = PostAt(two, k)
      <3>1. CASE r = s
        <4>1. IsLast(tape, pos + 1, r, pos + 1)
          BY <3>1, <2>2, <1>3, <1>5, <1>7, LastStep
        <4>2. PostAt(two, pos + 1) = curr
          BY <1>3, <1>8, <1>10, <2>2 DEF PostAt
        <4> QED  BY <4>1, <4>2, <3>1, <2>4
      <3>2. CASE r # s
        <4>1. PICK k : IsLast(tape, pos, r, k) /\ kernel.last[r] = PostAt(one, k)
          BY <1>1, <1>2 DEF Heard
        <4>2. IsLast(tape, pos + 1, r, k)
          BY <3>2, <4>1, <2>2, <1>3, <1>5, LastStep
        <4>3. PostAt(two, k) = PostAt(one, k)
          <5>1. k \in 0 .. pos
            BY <4>1 DEF IsLast
          <5>2. k # 0 => two[k] = one[k]
            BY <5>1, <1>3, <1>10
          <5> QED  BY <5>2 DEF PostAt
        <4> QED  BY <4>1, <4>2, <4>3, <3>2, <2>4
      <3> QED  BY <3>1, <3>2
    <2> QED  BY <2>1, <2>4, <2>5, <1>1 DEF Heard
  <1>19. CalledOnceSoFar'
    <2> SUFFICES ASSUME NEW j \in 1 .. (pos + 1), NEW x \in States
                 PROVE  CalledOnce(tape, two, j, x)
      BY <1>1, <1>10 DEF CalledOnceSoFar
    <2>1. CASE j = pos + 1
      BY <2>1, <1>14
    <2>2. CASE j # pos + 1
      <3>1. j \in 0 .. pos /\ j > 0 /\ j \in 1 .. Len(one)
        BY <2>2, <1>3
      <3>2. CalledOnce(tape, one, j, x)
        BY <3>1, <1>2, <1>3 DEF CalledOnceSoFar
      <3>3. CalledOnce(tape, one, j, x) <=> CalledOnce(tape, two, j, x)
        <4> HIDE DEF one, two
        <4> QED  BY <3>1, <1>3, <1>11, AgreeEnough
      <3> QED  BY <3>2, <3>3
    <2> QED  BY <2>1, <2>2
  <1> QED  BY <1>17, <1>18, <1>19 DEF RegimeInv

\* A shutdown adds a checkpoint; a reset leaves the runs as they are.
LEMMA RegimeEnds == ASSUME RegimeInv, ShutdownRegime \/ ResetRun  PROVE  RegimeInv'
  <1>1. Shape /\ TracesOK /\ StoreOK /\ Heard /\ CalledOnceSoFar /\ EngineOn(engine, Names(tape))
    BY DEF RegimeInv, Shape
  <1>2. CASE ShutdownRegime
    <2>1. /\ stage = "running" /\ stage' = "shutdown" /\ store' = Append(store, Checkpoint(engine))
          /\ engine' = engine /\ kernel' = kernel /\ tape' = tape /\ pos' = pos /\ runs' = runs
          /\ traces' = traces
      BY <1>2 DEF ShutdownRegime
    <2>2. StoreOK'
      <3>1. PICK S : store \in Seq(S)
        BY <1>1 DEF StoreOK
      <3>2. PICK c : c = Checkpoint(engine)
        OBVIOUS
      <3>3. CheckpointOn(c, Names(tape))
        BY <3>2, <1>1, CheckpointOfEngine
      <3>4. /\ \E T : store' \in Seq(T)
            /\ Len(store') = Len(store) + 1 /\ Len(store) \in Nat
            /\ \A n \in 1 .. Len(store) : store'[n] = store[n]
            /\ store'[Len(store) + 1] = c
        BY <2>1, <3>1, <3>2, Grown
      <3>5. ASSUME NEW n \in 1 .. Len(store')  PROVE  CheckpointOn(store'[n], Names(tape'))
        <4>1. n \in 1 .. Len(store) \/ n = Len(store) + 1
          BY <3>4
        <4>2. \A m \in 1 .. Len(store) : CheckpointOn(store[m], Names(tape))
          BY <1>1 DEF StoreOK
        <4> QED  BY <4>1, <4>2, <3>3, <3>4, <2>1
      <3> QED  BY <3>4, <3>5 DEF StoreOK
    <2>3. Shape'
      BY <2>1, <2>2, <1>1 DEF Shape, TracesOK
    <2>4. Heard'
      BY <2>1, <1>1 DEF Heard
    <2>5. CalledOnceSoFar'
      BY <2>1, <1>1 DEF CalledOnceSoFar
    <2> QED  BY <2>3, <2>4, <2>5 DEF RegimeInv
  <1>3. CASE ResetRun
    <2>1. /\ stage' = "off" /\ engine' = ResetEngine(engine) /\ kernel' = NewKernel(Names(tape))
          /\ store' = store /\ tape' = tape /\ runs' = runs /\ traces' = traces
      BY <1>3 DEF ResetRun
    <2>2. EngineOn(engine', Names(tape))
      BY <2>1, <1>1, ResetOn
    <2>3. kernel' = [last |-> kernel'.last, suppressed |-> kernel'.suppressed,
                     spike |-> kernel'.spike]
      <3>1. PICK a : a = [s \in Names(tape) |-> Unknown]
        OBVIOUS
      <3>2. kernel' = [last |-> a, suppressed |-> {}, spike |-> {}]
        BY <2>1, <3>1 DEF NewKernel
      <3> QED  BY <3>2
    <2>4. StoreOK' /\ TracesOK'
      BY <2>1, <1>1 DEF StoreOK, TracesOK
    <2>5. Shape'
      BY <2>1, <2>2, <2>3, <2>4, <1>1 DEF Shape
    <2>6. Heard'
      BY <2>1 DEF Heard
    <2>7. CalledOnceSoFar'
      BY <2>1, <1>1 DEF CalledOnceSoFar
    <2> QED  BY <2>5, <2>6, <2>7 DEF RegimeInv
  <1> QED  BY <1>2, <1>3

(***************************************************************************)
(* RegimeInv holds throughout.                                             *)
(***************************************************************************)
THEOREM RegimeInductive == RegimeSpec => []RegimeInv
  <1>1. RegimeInv /\ UNCHANGED regimeVars => RegimeInv'
    BY DEF RegimeInv, Shape, TracesOK, StoreOK, Heard, CalledOnceSoFar, regimeVars
  <1>2. RegimeInv /\ [RegimeNext]_regimeVars => RegimeInv'
    BY <1>1, RegimeBoots, RegimeUpdates, RegimeEnds DEF RegimeNext
  <1> QED  BY <1>2, RegimeStarts, PTL DEF RegimeSpec

(***************************************************************************)
(* Every departure of the dominant regime is called, and called once until *)
(* the regime has come back: what the detector keeps is what the run's own *)
(* announcements say is in force, on any tape and in any run, with or      *)
(* without a checkpoint behind it.                                         *)
(***************************************************************************)
THEOREM DepartureTheorem == RegimeSpec => []DeparturesCalledOnce
  <1>1. RegimeInv => DeparturesCalledOnce
    <2> SUFFICES ASSUME RegimeInv, runs > 0,
                        NEW j \in 1 .. Len(traces[runs]), NEW x \in States
                 PROVE  /\ (\E i \in 1 .. j : Follows(i, j) /\ Departs(i, j, x))
                           => \E k \in 1 .. j : tape[k].sym = tape[j].sym /\ Called(k, x)
                                               /\ ~BackBetween(k, j, x)
                        /\ \A k \in 1 .. (j - 1) :
                              (tape[k].sym = tape[j].sym /\ Called(k, x) /\ Called(j, x))
                              => BackBetween(k, j, x)
      BY DEF DeparturesCalledOnce
    <2>1. CalledOnce(tape, traces[runs], j, x)
      BY DEF RegimeInv, CalledOnceSoFar
    <2>2. \A i, k : Follows(i, k) <=> FollowsIn(tape, i, k)
      BY DEF Follows, FollowsIn
    <2>3. \A i : Departs(i, j, x) <=> DepartsIn(tape, traces[runs], i, j, x)
      BY DEF Departs, DepartsIn, Told
    <2>4. \A k : Called(k, x) <=> CalledIn(traces[runs], k, x)
      BY DEF Called, CalledIn
    <2>5. \A m : Returns(m, x) <=> ReturnsIn(tape, traces[runs], m, x)
      BY <2>2 DEF Returns, ReturnsIn, Told
    <2>6. \A k : BackBetween(k, j, x) <=> BackIn(tape, traces[runs], k, j, tape[j].sym, x)
      BY <2>5 DEF BackBetween, BackIn
    <2> QED  BY <2>1, <2>2, <2>3, <2>4, <2>6 DEF CalledOnce
  <1> QED  BY <1>1, RegimeInductive, PTL

(***************************************************************************)
(* Without a checkpoint a run is a function of its tape: each announcement *)
(* follows from those before it, with the fit of the tape and the last     *)
(* announcement of the symbol.                                             *)
(***************************************************************************)
LastAt(t, i) == IF i = 0 THEN 0 ELSE TapeQuote(t, i).at
EntryPost(t, tr, j, i) ==
    NewPost(PostAt(tr, i), StayFrom(LastAt(t, i), TapeQuote(t, j).at), Fit(t),
            TapeQuote(t, j).spread)
Entry(t, tr, j, i) ==
    [post |-> EntryPost(t, tr, j, i),
     spike |-> Detect(PostAt(tr, i), EntryPost(t, tr, j, i), InForce(t, tr, j - 1),
                      t[j].sym).spike]
Entered(t, tr, j) == \E i : IsLast(t, j - 1, t[j].sym, i) /\ tr[j] = Entry(t, tr, j, i)

\* Equal beginnings make equal announcements.
LEMMA EntryAgrees ==
    ASSUME NEW t, NEW one, NEW two, NEW p \in Nat, Agree(one, two, p), NEW s,
           NEW i, IsLast(t, p, s, i)
    PROVE  Entry(t, one, p + 1, i) = Entry(t, two, p + 1, i)
  <1>1. PostAt(one, i) = PostAt(two, i)
    <2>1. i \in 0 .. p
      BY DEF IsLast
    <2>2. i # 0 => one[i] = two[i]
      BY <2>1 DEF Agree
    <2> QED  BY <2>2 DEF PostAt
  <1>2. InForce(t, one, p) = InForce(t, two, p)
    <2>1. p \in 0 .. p
      OBVIOUS
    <2> QED  BY <2>1, AgreeEnough
  <1>3. EntryPost(t, one, p + 1, i) = EntryPost(t, two, p + 1, i)
    BY <1>1 DEF EntryPost
  <1>4. p + 1 - 1 = p
    OBVIOUS
  <1> QED  BY <1>1, <1>2, <1>3, <1>4 DEF Entry

\* Nothing is believed, and what was fitted is the fit of the tape.
Blank(e, syms) == \A s \in syms : e.post[s] = Unknown /\ e.seq[s] = 0 /\ e.last[s] = 0
Consistent(e, t) ==
    \/ e.calibrated = TRUE /\ Enough(t) /\ e.emission = "fitted"
    \/ e.calibrated = FALSE /\ e.emission = "placeholder"
EngineTold ==
    \A s \in Names(tape) :
        /\ IsLast(tape, pos, s, engine.seq[s])
        /\ engine.post[s] = PostAt(traces[runs], engine.seq[s])
        /\ engine.last[s] = LastAt(tape, engine.seq[s])
AllEntered == \A n \in 1 .. runs : \A j \in 1 .. Len(traces[n]) : Entered(tape, traces[n], j)
AllSame == \A n \in 1 .. runs : SameRun(traces[1], traces[n])

Cold ==
    store = <<>> =>
    /\ stage # "shutdown" /\ Consistent(engine, tape)
    /\ stage = "off" => Blank(engine, Names(tape))
    /\ stage = "running" => engine.emission = Fit(tape) /\ EngineTold
    /\ AllEntered /\ AllSame

\* An engine with the fields of a new one believes nothing.
LEMMA NewEngineBlank ==
    ASSUME NEW syms, NEW e, e.post = NewEngine(syms).post, e.seq = NewEngine(syms).seq,
           e.last = NewEngine(syms).last
    PROVE  Blank(e, syms)
  <1>1. PICK a, b : a = [s \in syms |-> Unknown] /\ b = [s \in syms |-> 0]
    OBVIOUS
  <1>2. NewEngine(syms) = [post |-> a, seq |-> b, last |-> b, emission |-> "placeholder",
                           calibrated |-> FALSE]
    BY <1>1 DEF NewEngine
  <1>3. e.post = a /\ e.seq = b /\ e.last = b
    BY <1>2
  <1> QED  BY <1>1, <1>3 DEF Blank

\* The first state.
LEMMA ColdStarts == RegimeInit => Cold
  <1> SUFFICES ASSUME RegimeInit  PROVE  Cold
    OBVIOUS
  <1>1. engine = NewEngine(Names(tape)) /\ stage = "off" /\ runs = 0
    BY DEF RegimeInit
  <1>2. Blank(engine, Names(tape))
    BY <1>1, NewEngineBlank
  <1>3. engine.calibrated = FALSE /\ engine.emission = "placeholder"
    BY <1>1 DEF NewEngine
  <1>4. AllEntered /\ AllSame
    BY <1>1 DEF AllEntered, AllSame
  <1> QED  BY <1>1, <1>2, <1>3, <1>4 DEF Cold, Consistent

\* A boot without a checkpoint: the fit is that of the tape.
LEMMA ColdBoots == ASSUME RegimeInv, Cold, BootRegime  PROVE  Cold'
  <1> SUFFICES ASSUME store' = <<>>
               PROVE  /\ stage' # "shutdown" /\ Consistent(engine', tape')
                      /\ stage' = "running"
                      /\ engine'.emission = Fit(tape') /\ EngineTold'
                      /\ AllEntered' /\ AllSame'
    BY DEF Cold
  <1>1. /\ stage = "off" /\ stage' = "running" /\ pos' = 0 /\ runs' = runs + 1
        /\ traces' = Append(traces, <<>>) /\ store' = store /\ tape' = tape
        /\ engine' = Calibrate(IF store = <<>> THEN engine ELSE Restore(engine, store[Len(store)]),
                               tape)
    BY DEF BootRegime
  <1>2. engine' = Calibrate(engine, tape)
    BY <1>1
  <1>3. Consistent(engine, tape) /\ Blank(engine, Names(tape)) /\ AllEntered /\ AllSame
        /\ EngineOn(engine, Names(tape)) /\ TracesOK
    BY <1>1 DEF Cold, RegimeInv, Shape
  <1>4. Consistent(engine', tape) /\ engine'.emission = Fit(tape) /\ Blank(engine', Names(tape))
    <2>1. PICK f : f = Calibrate(engine, tape)
      OBVIOUS
    <2>2. /\ engine.calibrated \/ ~Enough(tape) => f = engine
          /\ ~engine.calibrated /\ Enough(tape) =>
                /\ f.post = NewEngine(Names(tape)).post /\ f.seq = NewEngine(Names(tape)).seq
                /\ f.last = NewEngine(Names(tape)).last
                /\ f.emission = "fitted" /\ f.calibrated = TRUE
      BY <2>1, <1>3, CalibrateOn
    <2>3. CASE engine.calibrated \/ ~Enough(tape)
      BY <2>1, <2>2, <2>3, <1>2, <1>3 DEF Consistent, Fit
    <2>4. CASE ~engine.calibrated /\ Enough(tape)
      <3>1. Blank(f, Names(tape))
        BY <2>2, <2>4, NewEngineBlank
      <3> QED  BY <3>1, <2>1, <2>2, <2>4, <1>2 DEF Consistent, Fit
    <2> QED  BY <2>3, <2>4
  <1>5. /\ runs \in Nat /\ \A n \in 1 .. runs : traces'[n] = traces[n]
        /\ traces'[runs + 1] = <<>> /\ Len(traces'[runs + 1]) = 0
    <2>1. runs \in Nat /\ traces \in Seq(Seq(Announced)) /\ Len(traces) = runs
      BY <1>3 DEF TracesOK
    <2>2. PICK empty : empty = <<>>
      OBVIOUS
    <2>3. traces' = Append(traces, empty) /\ empty \in Seq(Announced)
      BY <2>2, <1>1
    <2>4. traces'[runs + 1] = empty /\ \A n \in 1 .. runs : traces'[n] = traces[n]
      BY <2>1, <2>3
    <2> QED  BY <2>1, <2>2, <2>4
  <1>6. EngineTold'
    <2>1. \A s \in Names(tape) : engine'.seq[s] = 0 /\ engine'.post[s] = Unknown
                                 /\ engine'.last[s] = 0
      BY <1>4 DEF Blank
    <2>2. \A s : IsLast(tape, 0, s, 0)
      BY NothingSaid
    <2> QED  BY <2>1, <2>2, <1>1 DEF EngineTold, PostAt, LastAt
  <1>7. AllEntered'
    <2>1. ASSUME NEW n \in 1 .. runs + 1, NEW j \in 1 .. Len(traces'[n])
          PROVE  Entered(tape, traces'[n], j)
      <3>1. n \in 1 .. runs
        BY <2>1, <1>5
      <3> QED  BY <3>1, <2>1, <1>3, <1>5 DEF AllEntered
    <2> QED  BY <2>1, <1>1 DEF AllEntered
  <1>8. AllSame'
    <2>1. ASSUME NEW n \in 1 .. runs + 1  PROVE  SameRun(traces'[1], traces'[n])
      <3>1. CASE n \in 1 .. runs
        <4>1. traces'[n] = traces[n] /\ traces'[1] = traces[1]
          BY <3>1, <1>5
        <4> QED  BY <4>1, <3>1, <1>3 DEF AllSame
      <3>2. CASE n = runs + 1
        BY <3>2, <1>5 DEF SameRun
      <3> QED  BY <3>1, <3>2, <1>5
    <2> QED  BY <2>1, <1>1 DEF AllSame
  <1> QED  BY <1>1, <1>4, <1>6, <1>7, <1>8

\* A quote: the engine holds what the run announced of the symbol last, so the
\* new announcement is the one the first run made at this place.
LEMMA ColdUpdates == ASSUME RegimeInv, Cold, UpdateRegime  PROVE  Cold'
  <1> SUFFICES ASSUME store' = <<>>
               PROVE  /\ stage' = "running" /\ Consistent(engine', tape')
                      /\ engine'.emission = Fit(tape') /\ EngineTold'
                      /\ AllEntered' /\ AllSame'
    BY DEF Cold
  <1> DEFINE q == TapeQuote(tape, pos + 1)
             e == Posterior(engine, q)
             found == Detect(kernel.last[q.sym], e.post[q.sym], kernel.suppressed, q.sym)
             one == traces[runs]
             two == traces'[runs]
  <1>1. /\ stage = "running" /\ pos < Len(tape) /\ engine' = e
        /\ traces' = [traces EXCEPT ![runs] =
                          Append(@, [post |-> e.post[q.sym], spike |-> found.spike])]
        /\ pos' = pos + 1
        /\ store' = store /\ tape' = tape /\ stage' = stage /\ runs' = runs
    BY DEF UpdateRegime
  <1>2. /\ Shape /\ TracesOK /\ Heard /\ EngineOn(engine, Names(tape))
        /\ Consistent(engine, tape) /\ engine.emission = Fit(tape) /\ EngineTold
        /\ AllEntered /\ AllSame
    BY <1>1 DEF RegimeInv, Shape, Cold
  <1>3. /\ runs \in Nat /\ runs > 0 /\ runs \in 1 .. Len(traces) /\ Len(traces) = runs
        /\ traces \in Seq(Seq(Announced)) /\ one \in Seq(Announced) /\ pos = Len(one)
        /\ pos \in Nat
    <2>1. /\ runs \in Nat /\ runs > 0 /\ Len(traces) = runs /\ traces \in Seq(Seq(Announced))
          /\ pos = Len(one)
      BY <1>1, <1>2 DEF Shape, TracesOK
    <2>2. one \in Seq(Announced)
      BY <2>1
    <2> QED  BY <2>1, <2>2
  <1>4. q.sym = tape[pos + 1].sym /\ q.sym \in Names(tape) /\ q.seq = pos + 1
    <2>1. Len(tape) \in Nat /\ DOMAIN tape = 1 .. Len(tape)
      BY <1>2, RegimeAssumption DEF Shape
    <2>2. pos + 1 \in DOMAIN tape
      BY <2>1, <1>1, <1>3
    <2> QED  BY <2>2 DEF TapeQuote, Names
  <1>5. PICK i : i = engine.seq[q.sym]
    OBVIOUS
  <1>6. /\ IsLast(tape, pos, q.sym, i) /\ engine.post[q.sym] = PostAt(one, i)
        /\ engine.last[q.sym] = LastAt(tape, i) /\ i \in 0 .. pos
    <2>1. /\ IsLast(tape, pos, q.sym, i) /\ engine.post[q.sym] = PostAt(one, i)
          /\ engine.last[q.sym] = LastAt(tape, i)
      BY <1>2, <1>4, <1>5 DEF EngineTold
    <2> QED  BY <2>1 DEF IsLast
  <1>7. kernel.last[q.sym] = PostAt(one, i) /\ kernel.suppressed = InForce(tape, one, pos)
    <2>1. PICK k : IsLast(tape, pos, q.sym, k) /\ kernel.last[q.sym] = PostAt(one, k)
      BY <1>1, <1>2, <1>4 DEF Heard
    <2>2. k = i
      <3>1. PICK t, p, s : t = tape /\ p = pos /\ s = q.sym
        OBVIOUS
      <3>2. p \in Nat /\ IsLast(t, p, s, k) /\ IsLast(t, p, s, i)
        BY <2>1, <3>1, <1>3, <1>6
      <3> HIDE DEF q, one
      <3> QED  BY <3>2, LastStep
    <2> QED  BY <2>1, <2>2, <1>1, <1>2 DEF Heard
  <1>8. /\ e.post[q.sym] = EntryPost(tape, one, pos + 1, i)
        /\ e.seq[q.sym] = pos + 1 /\ e.last[q.sym] = q.at
        /\ e.emission = engine.emission /\ e.calibrated = engine.calibrated
        /\ \A r \in Names(tape) \ {q.sym} :
              e.post[r] = engine.post[r] /\ e.seq[r] = engine.seq[r] /\ e.last[r] = engine.last[r]
    <2>1. q.seq \in Nat \ {0} /\ engine.seq[q.sym] # q.seq
      BY <1>3, <1>4, <1>5, <1>6
    <2>2. /\ e.emission = engine.emission /\ e.calibrated = engine.calibrated
          /\ \A r \in Names(tape) \ {q.sym} :
                e.post[r] = engine.post[r] /\ e.seq[r] = engine.seq[r]
                /\ e.last[r] = engine.last[r]
          /\ e.post[q.sym] = NewPost(engine.post[q.sym], StayFrom(engine.last[q.sym], q.at),
                                     engine.emission, q.spread)
          /\ e.seq[q.sym] = q.seq /\ e.last[q.sym] = q.at
      <3>1. PICK qq : qq = q
        OBVIOUS
      <3>2. PICK syms, en : syms = Names(tape) /\ en = engine
        OBVIOUS
      <3>3. EngineOn(en, syms) /\ qq.sym \in syms /\ qq.seq \in Nat \ {0}
            /\ en.seq[qq.sym] # qq.seq
        BY <1>2, <1>4, <2>1, <3>1, <3>2
      <3>4. PICK f : f = Posterior(en, qq)
        OBVIOUS
      <3>5. /\ f.emission = en.emission /\ f.calibrated = en.calibrated
            /\ \A r \in syms \ {qq.sym} :
                  f.post[r] = en.post[r] /\ f.seq[r] = en.seq[r] /\ f.last[r] = en.last[r]
            /\ f.post[qq.sym] = NewPost(en.post[qq.sym], StayFrom(en.last[qq.sym], qq.at),
                                        en.emission, qq.spread)
            /\ f.seq[qq.sym] = qq.seq /\ f.last[qq.sym] = qq.at
        BY <3>3, <3>4, PosteriorStep
      <3> QED  BY <3>1, <3>2, <3>4, <3>5
    <2>3. NewPost(engine.post[q.sym], StayFrom(engine.last[q.sym], q.at), engine.emission, q.spread)
          = EntryPost(tape, one, pos + 1, i)
      BY <1>2, <1>6 DEF EntryPost
    <2> HIDE DEF q, e
    <2> QED  BY <2>2, <2>3, <1>4
  <1>9. PICK entry : entry = [post |-> e.post[q.sym], spike |-> found.spike]
    OBVIOUS
  <1>10. entry = Entry(tape, one, pos + 1, i)
    <2>1. found = Detect(PostAt(one, i), EntryPost(tape, one, pos + 1, i),
                         InForce(tape, one, pos), tape[pos + 1].sym)
      BY <1>4, <1>7, <1>8
    <2>2. PICK j : j = pos + 1
      OBVIOUS
    <2>3. PICK p : p = j - 1
      OBVIOUS
    <2>4. p = pos
      BY <2>2, <2>3, <1>3
    <2>5. PICK post, inForce : post = EntryPost(tape, one, j, i) /\ inForce = InForce(tape, one, p)
      OBVIOUS
    <2> HIDE DEF q, e, found, one
    <2>6. inForce = InForce(tape, one, j - 1)
      BY <2>3, <2>5
    <2>7. Entry(tape, one, j, i)
          = [post |-> post, spike |-> Detect(PostAt(one, i), post, inForce, tape[j].sym).spike]
      BY <2>5, <2>6 DEF Entry
    <2>8. found = Detect(PostAt(one, i), post, inForce, tape[j].sym)
      BY <2>1, <2>2, <2>4, <2>5
    <2>9. entry = Entry(tape, one, j, i)
      BY <2>2, <2>5, <2>7, <2>8, <1>8, <1>9
    <2> QED  BY <2>2, <2>9
  <1>11. /\ two = Append(one, entry)
         /\ \A n \in 1 .. runs : n # runs => traces'[n] = traces[n]
    <2>1. traces' = [traces EXCEPT ![runs] = Append(one, entry)]
      BY <1>1, <1>9
    <2> HIDE DEF two, one
    <2>2. two = Append(one, entry)
      BY <2>1, <1>3 DEF two
    <2> QED  BY <2>1, <2>2, <1>3
  <1>12. /\ \A m \in 1 .. pos : two[m] = one[m]
         /\ two[pos + 1] = entry /\ Len(two) = pos + 1
    <2> HIDE DEF two, one
    <2> QED  BY <1>3, <1>11
  <1>13. Agree(one, two, pos) /\ Agree(two, one, pos)
    BY <1>12 DEF Agree
  <1>14. EngineTold'
    <2> SUFFICES ASSUME NEW r \in Names(tape)
                 PROVE  /\ IsLast(tape, pos + 1, r, e.seq[r])
                        /\ e.post[r] = PostAt(two, e.seq[r])
                        /\ e.last[r] = LastAt(tape, e.seq[r])
      BY <1>1 DEF EngineTold
    <2>1. CASE r = q.sym
      <3>1. IsLast(tape, pos + 1, r, pos + 1)
        BY <2>1, <1>3, <1>4, <1>6, LastStep
      <3>2. PostAt(two, pos + 1) = e.post[r]
        BY <2>1, <1>3, <1>9, <1>12 DEF PostAt
      <3>3. LastAt(tape, pos + 1) = q.at
        BY <1>3 DEF LastAt
      <3>4. e.seq[r] = pos + 1 /\ e.last[r] = q.at
        BY <2>1, <1>8
      <3> HIDE DEF e, q, two
      <3> QED  BY <3>1, <3>2, <3>3, <3>4
    <2>2. CASE r # q.sym
      <3>1. PICK k : k = engine.seq[r]
        OBVIOUS
      <3>2. /\ IsLast(tape, pos, r, k) /\ engine.post[r] = PostAt(one, k)
            /\ engine.last[r] = LastAt(tape, k)
        BY <3>1, <1>2 DEF EngineTold
      <3>3. IsLast(tape, pos + 1, r, k)
        BY <2>2, <3>2, <1>3, <1>4, LastStep
      <3>4. PostAt(two, k) = PostAt(one, k)
        <4>1. k \in 0 .. pos
          BY <3>2 DEF IsLast
        <4>2. k # 0 => two[k] = one[k]
          BY <4>1, <1>3, <1>12
        <4> QED  BY <4>2 DEF PostAt
      <3>5. e.seq[r] = k /\ e.post[r] = engine.post[r] /\ e.last[r] = engine.last[r]
        BY <2>2, <3>1, <1>8
      <3> HIDE DEF e, q, two, one
      <3> QED  BY <3>2, <3>3, <3>4, <3>5
    <2> QED  BY <2>1, <2>2
  <1>15. \A j \in 1 .. pos + 1 : Entered(tape, two, j)
    <2> SUFFICES ASSUME NEW j \in 1 .. pos + 1  PROVE  Entered(tape, two, j)
      OBVIOUS
    <2>1. PICK p : p = j - 1
      OBVIOUS
    <2>2. p \in Nat /\ j = p + 1 /\ p \in 0 .. pos
      BY <2>1, <1>3
    <2>3. Agree(one, two, p)
      BY <2>2, <1>3, <1>12 DEF Agree
    <2>4. PICK k : IsLast(tape, p, tape[j].sym, k) /\ two[j] = Entry(tape, one, j, k)
      <3>1. CASE j = pos + 1
        BY <3>1, <2>2, <1>3, <1>4, <1>6, <1>10, <1>12
      <3>2. CASE j # pos + 1
        <4>1. j \in 1 .. pos /\ j \in 1 .. Len(one) /\ runs \in 1 .. runs
          BY <3>2, <1>3
        <4>2. Entered(tape, one, j)
          BY <4>1, <1>2 DEF AllEntered
        <4>3. two[j] = one[j]
          BY <4>1, <1>12
        <4> HIDE DEF one, two
        <4> QED  BY <4>2, <4>3, <2>1 DEF Entered
      <3> QED  BY <3>1, <3>2
    <2>5. Entry(tape, one, j, k) = Entry(tape, two, j, k)
      <3> HIDE DEF one, two
      <3> QED  BY <2>2, <2>3, <2>4, EntryAgrees
    <2> HIDE DEF one, two
    <2> QED  BY <2>1, <2>4, <2>5 DEF Entered
  <1>16. AllEntered'
    <2>1. ASSUME NEW n \in 1 .. runs, NEW j \in 1 .. Len(traces'[n])
          PROVE  Entered(tape, traces'[n], j)
      <3>1. CASE n = runs
        BY <2>1, <3>1, <1>12, <1>15
      <3>2. CASE n # runs
        BY <2>1, <3>2, <1>2, <1>11 DEF AllEntered
      <3> QED  BY <3>1, <3>2
    <2> QED  BY <2>1, <1>1 DEF AllEntered
  <1>17. AllSame'
    <2>1. ASSUME NEW n \in 1 .. runs  PROVE  SameRun(traces'[1], traces'[n])
      <3>1. CASE n # runs
        <4>1. 1 # runs /\ 1 \in 1 .. runs
          BY <3>1, <1>3
        <4>2. traces'[1] = traces[1] /\ traces'[n] = traces[n]
          BY <3>1, <4>1, <1>11
        <4> QED  BY <4>2, <1>2 DEF AllSame
      <3>2. CASE n = runs /\ runs = 1
        BY <3>2 DEF SameRun
      <3>3. CASE n = runs /\ runs # 1
        <4>1. 1 \in 1 .. runs /\ runs \in 1 .. runs
          BY <1>3
        <4>2. PICK first : first = traces[1]
          OBVIOUS
        <4>3. traces'[1] = first
          BY <4>1, <4>2, <3>3, <1>11
        <4>4. SameRun(first, one) /\ first \in Seq(Announced)
              /\ \A j \in 1 .. Len(first) : Entered(tape, first, j)
          BY <4>1, <4>2, <1>2, <1>3 DEF AllSame, AllEntered
        <4>5. ASSUME NEW j \in 1 .. Len(two), j <= Len(first)  PROVE  first[j] = two[j]
          <5>1. CASE j # pos + 1
            <6>1. j \in 1 .. Len(one) /\ two[j] = one[j]
              BY <4>5, <5>1, <1>3, <1>12
            <6> QED  BY <6>1, <4>4, <4>5 DEF SameRun
          <5>2. CASE j = pos + 1
            <6>1. Agree(first, one, pos)
              <7>1. \A m \in 1 .. pos : m \in 1 .. Len(one) /\ m <= Len(first)
                BY <4>4, <4>5, <5>2, <1>3
              <7> QED  BY <7>1, <4>4 DEF SameRun, Agree
            <6>2. j \in 1 .. Len(first)
              BY <4>4, <4>5, <5>2, <1>3
            <6>3. PICK k : IsLast(tape, j - 1, tape[j].sym, k)
                           /\ first[j] = Entry(tape, first, j, k)
              BY <4>4, <6>2 DEF Entered
            <6>4. k = i
              <7>1. j - 1 = pos
                BY <5>2, <1>3
              <7> QED  BY <6>3, <5>2, <7>1, <1>3, <1>4, <1>6, LastStep
            <6>5. Entry(tape, first, pos + 1, i) = Entry(tape, one, pos + 1, i)
              <7> HIDE DEF one, q
              <7> QED  BY <6>1, <1>3, <1>6, EntryAgrees
            <6> QED  BY <5>2, <6>3, <6>4, <6>5, <1>10, <1>12
          <5> QED  BY <5>1, <5>2
        <4>6. SameRun(first, two)
          <5> HIDE DEF two
          <5> QED  BY <4>5 DEF SameRun
        <4> QED  BY <4>3, <4>6, <3>3
      <3> QED  BY <3>1, <3>2, <3>3
    <2> QED  BY <2>1, <1>1 DEF AllSame
  <1>18. Consistent(engine', tape') /\ engine'.emission = Fit(tape')
    BY <1>1, <1>2, <1>8 DEF Consistent
  <1> QED  BY <1>1, <1>14, <1>16, <1>17, <1>18

\* A shutdown leaves a checkpoint; a reset blanks the beliefs.
LEMMA ColdEnds == ASSUME RegimeInv, Cold, ShutdownRegime \/ ResetRun  PROVE  Cold'
  <1>1. CASE ShutdownRegime
    <2>1. store' = Append(store, Checkpoint(engine))
      BY <1>1 DEF ShutdownRegime
    <2>2. PICK S : store \in Seq(S)
      BY DEF RegimeInv, Shape, StoreOK
    <2>3. Len(store') = Len(store) + 1 /\ Len(store) \in Nat
      BY <2>1, <2>2, Grown
    <2>4. store' # <<>>
      <3>1. Len(<<>>) = 0
        OBVIOUS
      <3> QED  BY <2>3, <3>1
    <2> QED  BY <2>4 DEF Cold
  <1>2. CASE ResetRun
    <2> SUFFICES ASSUME store' = <<>>
                 PROVE  /\ stage' = "off" /\ Consistent(engine', tape')
                        /\ Blank(engine', Names(tape')) /\ AllEntered' /\ AllSame'
      BY DEF Cold
    <2>1. /\ stage' = "off" /\ engine' = ResetEngine(engine)
          /\ store' = store /\ tape' = tape /\ runs' = runs /\ traces' = traces
      BY <1>2 DEF ResetRun
    <2>2. Consistent(engine, tape) /\ AllEntered /\ AllSame /\ EngineOn(engine, Names(tape))
      BY <2>1 DEF Cold, RegimeInv, Shape
    <2>3. PICK f : f = ResetEngine(engine)
      OBVIOUS
    <2>4. /\ f.post = NewEngine(Names(tape)).post /\ f.seq = NewEngine(Names(tape)).seq
          /\ f.last = NewEngine(Names(tape)).last
          /\ f.emission = engine.emission /\ f.calibrated = engine.calibrated
      BY <2>2, <2>3, ResetOn
    <2>5. Blank(f, Names(tape))
      BY <2>4, NewEngineBlank
    <2>6. AllEntered' /\ AllSame'
      BY <2>1, <2>2 DEF AllEntered, AllSame
    <2> QED  BY <2>1, <2>2, <2>3, <2>4, <2>5, <2>6 DEF Consistent
  <1> QED  BY <1>1, <1>2

(***************************************************************************)
(* A run after a reset announces what the first run did, as far as both    *)
(* have got, for as long as no run has left a checkpoint: the fit is the   *)
(* fit of the tape however often it is made, the beliefs start blank, and  *)
(* each announcement follows from those before it.                         *)
(***************************************************************************)
THEOREM ResetTheorem == RegimeSpec => []ResetReplaysRun
  <1>1. RegimeInv /\ Cold /\ [RegimeNext]_regimeVars => Cold'
    <2>1. ASSUME Cold, UNCHANGED regimeVars  PROVE  Cold'
      BY <2>1 DEF Cold, Consistent, Blank, EngineTold, AllEntered, AllSame, regimeVars
    <2> QED  BY <2>1, ColdBoots, ColdUpdates, ColdEnds DEF RegimeNext
  <1>2. RegimeSpec => []Cold
    BY <1>1, ColdStarts, RegimeInductive, PTL DEF RegimeSpec
  <1>3. Cold => ResetReplaysRun
    BY DEF Cold, AllSame, ResetReplaysRun
  <1> QED  BY <1>2, <1>3, PTL

-----------------------------------------------------------------------------
(***************************************************************************)
(* The states of the three machines, spelled out.                          *)
(***************************************************************************)
LEMMA MachineStates ==
    /\ MacroState = {"INIT", "DATA_SYNC", "READY", "BACKTEST_MODE",
                     "PAPER_TRADING_MODE", "DEGRADED", "RISK_LOCKDOWN", "SHUTDOWN"}
    /\ MicroState = {"WAITING_FOR_MARKET_EVENT", "MARKET_EVENT_RECEIVED",
                     "STATE_UPDATE", "SENSOR_UPDATE", "HORIZON_CHECK",
                     "HORIZON_AGGREGATE", "SIGNAL_GATE", "CROSS_SECTIONAL",
                     "FEATURE_COMPUTE", "SIGNAL_EVALUATE", "RISK_CHECK",
                     "ORDER_DECISION", "ORDER_SUBMIT", "ORDER_ACK",
                     "POSITION_UPDATE", "LOG_AND_METRICS"}
    /\ RiskLevel = {"NORMAL", "WARNING", "BREACH_DETECTED", "FORCED_FLATTEN", "LOCKED"}
BY DEF MacroState, MacroTransitions, MicroState, MicroTransitions, RiskLevel, RiskTransitions

(***************************************************************************)
(* An escalation step leads to a level.                                    *)
(***************************************************************************)
LEMMA RiskSteps == \A r \in RiskLevel : RiskTransitions[r] \subseteq RiskLevel
BY DEF RiskLevel, RiskTransitions

USE DEF SessionLabels, TickLabels, SharedLabels, OrderKinds, Outcomes

(***************************************************************************)
(* Every step of every thread preserves IInv: one step per action.         *)
(***************************************************************************)
LEMMA IInvPreserved == IInv /\ [Next]_vars => IInv'
<1> SUFFICES ASSUME IInv, [Next]_vars PROVE IInv'
  OBVIOUS
<1> USE MachineStates, ModeAssumption, MaxIntentsAssumption
<1> USE DEF IInv, TypeOK, LockdownMeansLocked, QuoteInFlight, Escalating, InPortfolio,
            TradingModes, Stopped, Continues
<1>1. CASE Boot
  BY <1>1 DEF Boot, machines, book, halting
<1>2. CASE BeginSession
  <2>1. (kill \in BOOLEAN /\ abort \in BOOLEAN /\ inTick \in BOOLEAN)'
    BY <1>2, Zenon DEF BeginSession, machines, book, halting
  <2>2. (breach \in BOOLEAN /\ held \in BOOLEAN /\ haltReq \in BOOLEAN)'
    BY <1>2, Zenon DEF BeginSession, machines, book, halting
  <2> QED
    BY <1>2, <2>1, <2>2 DEF BeginSession, machines, book, halting
<1>3. CASE EnterMode
  BY <1>3 DEF EnterMode, machines, book, halting
<1>4. CASE QuoteArrives
  BY <1>4 DEF QuoteArrives, machines, book, halting
<1>5. CASE TradeArrives
  BY <1>5 DEF TradeArrives, machines, book, halting
<1>6. CASE IdleTick
  BY <1>6 DEF IdleTick, Drain, machines, book, halting
<1>7. CASE EndSession
  BY <1>7 DEF EndSession, machines, book, halting
<1>8. CASE SessionFault
  BY <1>8 DEF SessionFault, machines, book, halting
<1>9. CASE GateCloses
  <2>1. (kill \in BOOLEAN /\ abort \in BOOLEAN /\ inTick \in BOOLEAN)'
    BY <1>9, Zenon DEF GateCloses, machines, book, halting
  <2>2. (breach \in BOOLEAN /\ held \in BOOLEAN /\ haltReq \in BOOLEAN)'
    BY <1>9, Zenon DEF GateCloses, machines, book, halting
  <2> QED
    BY <1>9, <2>1, <2>2 DEF GateCloses, machines, book, halting
<1>10. CASE GateOpens
  BY <1>10 DEF GateOpens, Move, Raise, machines, book, halting
<1>11. CASE Mark
  BY <1>11 DEF Mark, Drain, machines, book, halting
<1>12. CASE Walk
  BY <1>12 DEF Walk, Move, Steps, Step, Raise, machines, book, halting
<1>13. CASE Optional("sensors", "sensors", "SENSOR_UPDATE", "horizonCheck")
  BY <1>13 DEF Optional, Move, Raise, machines, book, halting
<1>14. CASE Optional("signalGate", "signals", "SIGNAL_GATE", "bookend")
  BY <1>14 DEF Optional, Move, Raise, machines, book, halting
<1>15. CASE Horizon
  BY <1>15 DEF Horizon, machines, book, halting
<1>16. CASE Bookend
  BY <1>16 DEF Bookend, machines, book, halting
<1>17. CASE FlushDone
  BY <1>17 DEF FlushDone, Move, Raise, machines, book, halting
<1>18. CASE NextIntent
  BY <1>18 DEF NextIntent, Move, Raise, machines, book, halting
<1>19. CASE NextRawIntent
  BY <1>19 DEF NextRawIntent, machines, book, halting
<1>20. CASE SizedIntent
  BY <1>20 DEF SizedIntent, Move, Escalate, Raise, machines, book, halting
<1>21. CASE LegSend
  <2>1. (kill \in BOOLEAN /\ abort \in BOOLEAN /\ inTick \in BOOLEAN)'
    BY <1>21, Zenon DEF LegSend, machines, book, halting
  <2>2. (breach \in BOOLEAN /\ held \in BOOLEAN /\ haltReq \in BOOLEAN)'
    BY <1>21, Zenon DEF LegSend, machines, book, halting
  <2>3. (live \subseteq OrderKinds)'
    BY <1>21 DEF LegSend, machines, book, halting
  <2> QED
    BY <1>21, <2>1, <2>2, <2>3 DEF LegSend, machines, book, halting
<1>22. CASE RawLeg
  <2>1. (kill \in BOOLEAN /\ abort \in BOOLEAN /\ inTick \in BOOLEAN)'
    BY <1>22, Zenon DEF RawLeg, Escalate, machines, book, halting
  <2>2. (breach \in BOOLEAN /\ held \in BOOLEAN /\ haltReq \in BOOLEAN)'
    BY <1>22, Zenon DEF RawLeg, Escalate, machines, book, halting
  <2>3. (live \subseteq OrderKinds)'
    BY <1>22 DEF RawLeg, Escalate, machines, book, halting
  <2> QED
    BY <1>22, <2>1, <2>2, <2>3 DEF RawLeg, Escalate, machines, book, halting
<1>23. CASE Signal
  BY <1>23 DEF Signal, Move, Raise, machines, book, halting
<1>24. CASE CheckSignal
  BY <1>24 DEF CheckSignal, Move, Escalate, Refused, Raise, machines, book, halting
<1>25. CASE Decide
  BY <1>25 DEF Decide, machines, book, halting
<1>26. CASE CheckOrder
  BY <1>26 DEF CheckOrder, Escalate, Refused, machines, book, halting
<1>27. CASE CheckReverse
  BY <1>27 DEF CheckReverse, Move, Escalate, Raise, machines, book, halting
<1>28. CASE Send
  <2>1. (kill \in BOOLEAN /\ abort \in BOOLEAN /\ inTick \in BOOLEAN)'
    BY <1>28, Zenon DEF Send, machines, book, halting
  <2>2. (breach \in BOOLEAN /\ held \in BOOLEAN /\ haltReq \in BOOLEAN)'
    BY <1>28, Zenon DEF Send, machines, book, halting
  <2>3. (live \subseteq OrderKinds)'
    BY <1>28 DEF Send, machines, book, halting
  <2> QED
    BY <1>28, <2>1, <2>2, <2>3 DEF Send, machines, book, halting
<1>29. CASE Ack("ack", "fin")
  BY <1>29 DEF Ack, Move, Raise, machines, book, halting
<1>30. CASE Ack("legAck", "legDone")
  BY <1>30 DEF Ack, Move, Raise, machines, book, halting
<1>31. CASE Metrics
  <2>1. (kill \in BOOLEAN /\ abort \in BOOLEAN /\ inTick \in BOOLEAN)'
    BY <1>31, Zenon DEF Metrics, Move, Raise, machines, book, halting
  <2>2. (breach \in BOOLEAN /\ held \in BOOLEAN /\ haltReq \in BOOLEAN)'
    BY <1>31, Zenon DEF Metrics, Move, Raise, machines, book, halting
  <2>3. CASE CanMove("WAITING_FOR_MARKET_EVENT")
    <3>1. pc' = "loop" /\ micro' = "WAITING_FOR_MARKET_EVENT"
      BY <1>31, <2>3 DEF Metrics, Move
    <3>2. ~inTick'
      BY <1>31, <3>1, Zenon DEF Metrics
    <3> QED
      BY <1>31, <2>1, <2>2, <3>1, <3>2 DEF Metrics, machines, book, halting
  <2>4. CASE ~CanMove("WAITING_FOR_MARKET_EVENT")
    <3>1. pc' = "fault" /\ micro' = micro
      BY <1>31, <2>4 DEF Metrics, Move, Raise
    <3>2. inTick'
      BY <1>31, <3>1, Zenon DEF Metrics
    <3> QED
      BY <1>31, <2>1, <2>2, <3>1, <3>2 DEF Metrics, machines, book, halting
  <2> QED
    BY <2>3, <2>4
<1>32. CASE ApplyAcks
  BY <1>32 DEF ApplyAcks, machines, book, halting
<1>33. CASE ReconcileFills
  <2>1. (kill \in BOOLEAN /\ abort \in BOOLEAN /\ inTick \in BOOLEAN)'
    BY <1>33, Zenon DEF ReconcileFills, HeldAfter, machines, book, halting
  <2>2. (breach \in BOOLEAN /\ held \in BOOLEAN /\ haltReq \in BOOLEAN)'
    BY <1>33, Zenon DEF ReconcileFills, HeldAfter, machines, book, halting
  <2> QED
    BY <1>33, <2>1, <2>2 DEF ReconcileFills, HeldAfter, machines, book, halting
<1>34. CASE Fallback
  BY <1>34 DEF Fallback, machines, book, halting
<1>35. CASE EscalateLevel
  BY <1>35, RiskSteps DEF EscalateLevel, machines, book, halting
<1>36. CASE EmergencyFlatten
  <2>1. (kill \in BOOLEAN /\ abort \in BOOLEAN /\ inTick \in BOOLEAN)'
    BY <1>36, Zenon DEF EmergencyFlatten, machines, book, halting
  <2>2. (breach \in BOOLEAN /\ held \in BOOLEAN /\ haltReq \in BOOLEAN)'
    BY <1>36, Zenon DEF EmergencyFlatten, machines, book, halting
  <2>3. (live \subseteq OrderKinds)'
    BY <1>36 DEF EmergencyFlatten, machines, book, halting
  <2> QED
    BY <1>36, <2>1, <2>2, <2>3 DEF EmergencyFlatten, machines, book, halting
<1>37. CASE Lock
  BY <1>37 DEF Lock, machines, book, halting
<1>38. CASE ActivateKillSwitch
  BY <1>38 DEF ActivateKillSwitch, machines, book, halting
<1>39. CASE EnterLockdown
  BY <1>39 DEF EnterLockdown, Raise, machines, book, halting
<1>40. CASE AbortTick
  <2>1. (kill \in BOOLEAN /\ abort \in BOOLEAN /\ inTick \in BOOLEAN)'
    BY <1>40, Zenon DEF AbortTick, machines, book, halting
  <2>2. (breach \in BOOLEAN /\ held \in BOOLEAN /\ haltReq \in BOOLEAN)'
    BY <1>40, Zenon DEF AbortTick, machines, book, halting
  <2> QED
    BY <1>40, <2>1, <2>2 DEF AbortTick, machines, book, halting
<1>41. CASE StepRaises
  <2>1. (kill \in BOOLEAN /\ abort \in BOOLEAN /\ inTick \in BOOLEAN)'
    BY <1>41, Zenon DEF StepRaises, Raise, machines, book, halting
  <2>2. (breach \in BOOLEAN /\ held \in BOOLEAN /\ haltReq \in BOOLEAN)'
    BY <1>41, Zenon DEF StepRaises, Raise, machines, book, halting
  <2>3. CASE pc \in {"apply", "book"} /\ after = "locked"
    BY <1>41, <2>1, <2>2, <2>3 DEF StepRaises, machines, book, halting
  <2>4. CASE ~(pc \in {"apply", "book"} /\ after = "locked")
    <3>1. pc' = (IF inTick THEN "fault" ELSE "sessionFault") /\ acked' = acked
      BY <1>41, <2>4 DEF StepRaises, Raise
    <3> QED
      BY <1>41, <2>1, <2>2, <3>1 DEF StepRaises, machines, book, halting
  <2> QED
    BY <2>3, <2>4
<1>42. CASE HandleTickFailure
  <2>1. (kill \in BOOLEAN /\ abort \in BOOLEAN /\ inTick \in BOOLEAN)'
    BY <1>42, Zenon DEF HandleTickFailure, RecoverMicro, machines, book, halting
  <2>2. (breach \in BOOLEAN /\ held \in BOOLEAN /\ haltReq \in BOOLEAN)'
    BY <1>42, Zenon DEF HandleTickFailure, RecoverMicro, machines, book, halting
  <2> QED
    BY <1>42, <2>1, <2>2 DEF HandleTickFailure, RecoverMicro, machines, book, halting
<1>43. CASE HaltRequest
  BY <1>43 DEF HaltRequest, machines, book, halting
<1>44. CASE HaltMacro
  BY <1>44 DEF HaltMacro, machines, book, halting
<1>45. CASE HaltMicro
  BY <1>45 DEF HaltMicro, machines, book, halting
<1>46. CASE HaltClear
  BY <1>46 DEF HaltClear, machines, book, halting
<1>47. CASE RecoverFromDegraded
  BY <1>47 DEF RecoverFromDegraded, operatorUnchanged, machines, book, halting
<1>48. CASE UnlockFromLockdown
  <2>1. (kill \in BOOLEAN /\ abort \in BOOLEAN /\ inTick \in BOOLEAN)'
    BY <1>48, Zenon DEF UnlockFromLockdown, operatorUnchanged, machines, book, halting
  <2>2. (breach \in BOOLEAN /\ held \in BOOLEAN /\ haltReq \in BOOLEAN)'
    BY <1>48, Zenon DEF UnlockFromLockdown, operatorUnchanged, machines, book, halting
  <2> QED
    BY <1>48, <2>1, <2>2 DEF UnlockFromLockdown, operatorUnchanged, machines, book, halting
<1>49. CASE ResetRiskEscalation
  BY <1>49 DEF ResetRiskEscalation, operatorUnchanged, machines, book, halting
<1>50. CASE OperatorKillSwitch
  BY <1>50 DEF OperatorKillSwitch, operatorUnchanged, machines, book, halting
<1>51. CASE Shutdown
  BY <1>51 DEF Shutdown, operatorUnchanged, machines, book, halting
<1>52. CASE Reset
  <2>1. (kill \in BOOLEAN /\ abort \in BOOLEAN /\ inTick \in BOOLEAN)'
    BY <1>52, Zenon DEF Reset, machines, book, halting
  <2>2. (breach \in BOOLEAN /\ held \in BOOLEAN /\ haltReq \in BOOLEAN)'
    BY <1>52, Zenon DEF Reset, machines, book, halting
  <2> QED
    BY <1>52, <2>1, <2>2 DEF Reset, machines, book, halting
<1>53. CASE UNCHANGED vars
  BY <1>53 DEF vars, machines, book, halting
<1>54. CASE HaltRaises
  BY <1>54 DEF HaltRaises, machines, book, halting
<1>55. CASE QuoteWalk
  BY <1>55, <1>9, <1>10, <1>11, <1>12, <1>13, <1>14, <1>15, <1>16, <1>23, <1>24, <1>25, <1>26,
     <1>27, <1>28, <1>29, <1>31, <1>40 DEF QuoteWalk
<1>56. CASE Portfolio
  BY <1>56, <1>17, <1>18, <1>19, <1>20, <1>21, <1>22, <1>30 DEF Portfolio
<1>57. CASE Settle
  BY <1>57, <1>32, <1>33, <1>34 DEF Settle
<1>58. CASE Escalation
  BY <1>58, <1>35, <1>36, <1>37, <1>38, <1>39 DEF Escalation
<1>59. CASE Session
  BY <1>59, <1>3, <1>4, <1>5, <1>6, <1>7 DEF Session
<1>60. CASE Failure
  BY <1>60, <1>8, <1>41, <1>42 DEF Failure
<1>61. CASE Halt
  BY <1>61, <1>44, <1>45, <1>46, <1>54 DEF Halt
<1>62. CASE Operator
  BY <1>62, <1>1, <1>2, <1>47, <1>48, <1>49, <1>50, <1>51, <1>52 DEF Operator
<1> QED
  BY <1>55, <1>56, <1>57, <1>58, <1>59, <1>60, <1>61, <1>62, <1>43, <1>53 DEF Next, Main

(***************************************************************************)
(* IInv holds in every reachable state of the kernel.                      *)
(***************************************************************************)
THEOREM InductiveInvariant == Spec => []IInv
<1>1. Init => IInv
  <2> SUFFICES ASSUME Init PROVE IInv
    OBVIOUS
  <2>1. TypeOK
    BY MachineStates DEF Init, TypeOK
  <2> QED
    BY <2>1 DEF Init, IInv, LockdownMeansLocked, QuoteInFlight, Escalating, InPortfolio, Stopped
<1> QED
  BY <1>1, IInvPreserved, PTL DEF Spec

(***************************************************************************)
(* The kernel's state has its type in every reachable state.               *)
(***************************************************************************)
THEOREM TypeCorrect == Spec => []TypeOK
<1>1. IInv => TypeOK
  BY DEF IInv
<1> QED
  BY <1>1, InductiveInvariant, PTL

(***************************************************************************)
(* An event is taken up with the micro machine waiting, no sized intent    *)
(* pending and no quote in flight, wherever an exception or halt() cut the *)
(* last tick short and whatever the recovery raised.                       *)
(***************************************************************************)
THEOREM TickLeavesNothingTheorem == Spec => []TickLeavesNothing
<1>1. IInv => TickLeavesNothing
  BY DEF IInv, TypeOK, TickLeavesNothing, Stopped
<1> QED
  BY <1>1, InductiveInvariant, PTL

(***************************************************************************)
(* RISK_LOCKDOWN is only ever entered with the risk level LOCKED, so an    *)
(* unlock always completes.                                                *)
(***************************************************************************)
THEOREM LockdownMeansLockedTheorem == Spec => []LockdownMeansLocked
<1>1. IInv => LockdownMeansLocked
  BY DEF IInv
<1> QED
  BY <1>1, InductiveInvariant, PTL
(***************************************************************************)
(* FORCED_FLATTEN and LOCKED are left for NORMAL only with a flat book:    *)
(* the operator's three calls are the only steps that lead to NORMAL.      *)
(***************************************************************************)
THEOREM ReleasedFlatTheorem == Spec => ReleasedFlat
<1>1. ASSUME IInv, Next, risk \in {"FORCED_FLATTEN", "LOCKED"}, risk' = "NORMAL"
      PROVE  ~held'
  <2>1. CASE UnlockFromLockdown
    BY <2>1 DEF UnlockFromLockdown, book
  <2>2. CASE ResetRiskEscalation
    BY <1>1, <2>2 DEF ResetRiskEscalation, book
  <2>3. CASE Reset
    BY <2>3 DEF Reset
  <2>4. CASE QuoteWalk
    <3>1. risk' = risk
      BY <2>4 DEF QuoteWalk, GateCloses, GateOpens, Mark, Walk, Optional, Horizon,
                  Bookend, Signal, CheckSignal, Decide, CheckOrder, CheckReverse,
                  Send, Ack, Metrics, AbortTick, machines
    <3> QED
      BY <1>1, <3>1
  <2>5. CASE Portfolio
    <3>1. risk' = risk
      BY <2>5 DEF Portfolio, FlushDone, NextIntent, NextRawIntent, SizedIntent,
                  LegSend, RawLeg, Ack, machines
    <3> QED
      BY <1>1, <3>1
  <2>6. CASE Settle \/ Session \/ Failure \/ Halt \/ HaltRequest
    <3>1. risk' = risk
      BY <2>6 DEF Settle, ApplyAcks, ReconcileFills, Fallback, Session, EnterMode,
                  QuoteArrives, TradeArrives, IdleTick, EndSession, Failure,
                  StepRaises, HandleTickFailure, SessionFault, Halt, HaltMacro,
                  HaltMicro, HaltClear, HaltRaises, HaltRequest, machines
    <3> QED
      BY <1>1, <3>1
  <2>7. CASE Escalation
    BY <1>1, <2>7 DEF Escalation, EscalateLevel, EmergencyFlatten, Lock,
                      ActivateKillSwitch, EnterLockdown, machines
  <2>8. CASE Boot \/ BeginSession \/ RecoverFromDegraded \/ OperatorKillSwitch \/ Shutdown
    BY <1>1, <2>8 DEF Boot, BeginSession, RecoverFromDegraded, OperatorKillSwitch, Shutdown
  <2> QED
    BY <1>1, <2>1, <2>2, <2>3, <2>4, <2>5, <2>6, <2>7, <2>8 DEF Next, Main, Operator
<1>2. IInv /\ [Next]_vars => [(risk \in {"FORCED_FLATTEN", "LOCKED"} /\ risk' = "NORMAL") => ~held']_vars
  BY <1>1
<1> QED
  BY <1>2, InductiveInvariant, PTL DEF Spec, ReleasedFlat

-----------------------------------------------------------------------------
(***************************************************************************)
(* A calm paper session: nothing raises, costs trip nothing, nobody calls  *)
(* halt(), and the edge gate prices every opening leg.                     *)
(***************************************************************************)
CalmSession == Situations \subseteq {"latency"} /\ EdgeGate /\ Mode = "PAPER_TRADING_MODE"

Walking == pc \notin {"cli", "enter", "loop"}

\* No order may open exposure any more.
Shut == kill \/ macro # Mode

(***************************************************************************)
(* An event is processed in the trading mode or in the lockdown it led to, *)
(* and a LOCKED level is on its way there.                                 *)
(***************************************************************************)
CalmMacro ==
    /\ halter = "idle"
    /\ macro \in TradingModes => macro = Mode
    /\ Walking => macro \in {Mode, "RISK_LOCKDOWN"}
    /\ pc = "enter" => ~kill /\ risk = "NORMAL" /\ macro = "READY"
    /\ pc = "gate" => macro = Mode
    /\ risk = "LOCKED" => \/ macro \in {"RISK_LOCKDOWN", "SHUTDOWN"}
                          \/ pc \in {"lock", "lockdown"}

\* Applied fills are on the way to the book, through a transition that is legal.
CalmFills ==
    /\ acked \cap {"openFill", "exitFill"} # {} => pc \in {"update", "book"}
    /\ (pc = "update" \/ (pc = "apply" /\ after \in {"fin", "legDone"})) => micro = "ORDER_ACK"
    /\ pc = "update" => after \in {"fin", "legDone"}

(***************************************************************************)
(* Whoever shuts the kernel in the middle of a quote has seen a breach,    *)
(* and the breach outlives the quote: the risk checks refuse what opens.   *)
(***************************************************************************)
CalmOpens ==
    /\ Escalating => breach
    /\ pc = "mark" => ~Shut
    /\ (inTick /\ Shut /\ pc \notin {"gate", "fault"}) => breach
    /\ Shut => pc \notin {"legSubmit", "legSend"}
    /\ (Shut /\ \/ pc \in {"decide", "order", "submit", "send", "reverseCheck"}
                \/ pc \in {"apply", "book"} /\ after = "reverseCheck") => intent = "exit"

Calm == CalmMacro /\ CalmFills /\ CalmOpens

(***************************************************************************)
(* The edges of the three machines an escalation takes.                    *)
(***************************************************************************)
LEMMA LockdownEdges ==
    /\ "RISK_LOCKDOWN" \in MacroTransitions["PAPER_TRADING_MODE"]
    /\ "RISK_LOCKDOWN" \notin MacroTransitions["RISK_LOCKDOWN"]
    /\ "SHUTDOWN" \in MacroTransitions["RISK_LOCKDOWN"]
    /\ "POSITION_UPDATE" \in MicroTransitions["ORDER_ACK"]
    /\ \A r \in RiskLevel : /\ r \notin {"FORCED_FLATTEN", "LOCKED"} => "LOCKED" \notin RiskTransitions[r]
                            /\ r = "LOCKED" => "NORMAL" \in RiskTransitions[r]
BY DEF MacroTransitions, MicroTransitions, RiskTransitions, RiskLevel

(***************************************************************************)
(* A straight-line transition goes on, or raises because it is illegal.    *)
(***************************************************************************)
LEMMA WalkFacts ==
    ASSUME Walk
    PROVE  /\ UNCHANGED <<macro, risk, kill, inTick, intent, breach, acked, after, ret, halter>>
           /\ pc \in TickLabels /\ pc # "gate"
           /\ \/ pc' \in {"fault", "sessionFault"} /\ ~(pc = "update" /\ micro = "ORDER_ACK")
              \/ /\ pc' \in {"sensors", "horizon", "signalGate", "signal", "legSend", "flushNext",
                             "send", "failUpdate", "book", "fin", "metrics"}
                 /\ pc' = "legSend" => pc = "legSubmit"
                 /\ pc' = "send" => pc = "submit"
                 /\ pc' = "book" <=> pc = "update"
<1>1. PICK s \in Steps : pc = s.at /\ Move(s.to, s.next)
  BY DEF Walk
<1>2. /\ s.at \in TickLabels /\ s.at # "gate"
      /\ s.next \in {"sensors", "horizon", "signalGate", "signal", "legSend", "flushNext",
                     "send", "failUpdate", "book", "fin", "metrics"}
      /\ s.next = "legSend" => s.at = "legSubmit"
      /\ s.next = "send" => s.at = "submit"
      /\ s.next = "book" <=> s.at = "update"
      /\ s.at = "update" => s.to = "POSITION_UPDATE"
  BY DEF Steps, Step
<1>3. CASE CanMove(s.to)
  BY <1>1, <1>2, <1>3 DEF Walk, Move, book, halting
<1>4. CASE ~CanMove(s.to)
  <2>1. ~(pc = "update" /\ micro = "ORDER_ACK")
    BY <1>1, <1>2, <1>4, LockdownEdges DEF CanMove
  <2> QED
    BY <1>1, <1>2, <1>4, <2>1 DEF Walk, Move, Raise, book, halting
<1> QED
  BY <1>3, <1>4

(***************************************************************************)
(* Every step of a calm session keeps it calm.                             *)
(***************************************************************************)
LEMMA CalmPreserved == ASSUME CalmSession, IInv, Calm, Next \/ UNCHANGED vars PROVE Calm'
<1> USE MachineStates, LockdownEdges
<1> USE DEF CalmSession, Calm, CalmMacro, CalmFills, CalmOpens, Walking, Shut, IInv, TypeOK,
            LockdownMeansLocked, QuoteInFlight, Escalating, TradingModes, CanBe, CanMove
<1>1. CASE Boot
  BY <1>1 DEF Boot, machines, book, halting
<1>2. CASE BeginSession
  BY <1>2 DEF BeginSession, machines, book, halting
<1>3. CASE EnterMode
  BY <1>3 DEF EnterMode, machines, book, halting
<1>4. CASE QuoteArrives
  BY <1>4 DEF QuoteArrives, Continues, machines, book, halting
<1>5. CASE TradeArrives
  BY <1>5 DEF TradeArrives, Continues, machines, book, halting
<1>6. CASE IdleTick
  BY <1>6 DEF IdleTick, Continues, Drain, machines, book, halting
<1>7. CASE EndSession
  BY <1>7 DEF EndSession, machines, book, halting
<1>8. CASE SessionFault
  BY <1>8 DEF SessionFault, machines, book, halting
<1>9. CASE GateCloses
  BY <1>9 DEF GateCloses, machines, book, halting
<1>10. CASE GateOpens
  BY <1>10 DEF GateOpens, Move, Raise, machines, book, halting
<1>11. CASE Mark
  BY <1>11 DEF Mark, Drain, machines, book, halting
<1>12. CASE Walk
  <2>1. /\ UNCHANGED <<macro, risk, kill, inTick, intent, breach, acked, after, ret, halter>>
        /\ pc \in TickLabels /\ pc # "gate"
        /\ \/ pc' \in {"fault", "sessionFault"} /\ ~(pc = "update" /\ micro = "ORDER_ACK")
           \/ /\ pc' \in {"sensors", "horizon", "signalGate", "signal", "legSend", "flushNext",
                          "send", "failUpdate", "book", "fin", "metrics"}
              /\ pc' = "legSend" => pc = "legSubmit"
              /\ pc' = "send" => pc = "submit"
              /\ pc' = "book" <=> pc = "update"
    BY <1>12, WalkFacts
  <2>2. CalmMacro' /\ CalmFills'
    BY <2>1
  <2>3. CalmOpens'
    BY <2>1
  <2> QED
    BY <2>2, <2>3
<1>13. CASE Optional("sensors", "sensors", "SENSOR_UPDATE", "horizonCheck")
  BY <1>13 DEF Optional, Move, Raise, machines, book, halting
<1>14. CASE Optional("signalGate", "signals", "SIGNAL_GATE", "bookend")
  BY <1>14 DEF Optional, Move, Raise, machines, book, halting
<1>15. CASE Horizon
  BY <1>15 DEF Horizon, machines, book, halting
<1>16. CASE Bookend
  BY <1>16 DEF Bookend, machines, book, halting
<1>17. CASE FlushDone
  BY <1>17 DEF FlushDone, Move, Raise, machines, book, halting
<1>18. CASE NextIntent
  BY <1>18 DEF NextIntent, Move, Raise, machines, book, halting
<1>19. CASE NextRawIntent
  BY <1>19 DEF NextRawIntent, machines, book, halting
<1>20. CASE SizedIntent
  BY <1>20 DEF SizedIntent, LegAllowed, Escalate, Move, Raise, machines, book, halting
<1>21. CASE LegSend
  BY <1>21 DEF LegSend, machines, book, halting
<1>22. CASE RawLeg
  BY <1>22 DEF RawLeg, LegAllowed, Escalate, machines, book, halting
<1>23. CASE Signal
  BY <1>23 DEF Signal, Move, Raise, machines, book, halting
<1>24. CASE CheckSignal
  BY <1>24 DEF CheckSignal, Verdicts, Refused, Escalate, Move, Raise, machines, book, halting
<1>25. CASE Decide
  BY <1>25 DEF Decide, machines, book, halting
<1>26. CASE CheckOrder
  BY <1>26 DEF CheckOrder, Verdicts, Refused, Escalate, machines, book, halting
<1>27. CASE CheckReverse
  BY <1>27 DEF CheckReverse, Escalate, Move, Raise, machines, book, halting
<1>28. CASE Send
  BY <1>28 DEF Send, machines, book, halting
<1>29. CASE Ack("ack", "fin")
  BY <1>29 DEF Ack, Move, Raise, machines, book, halting
<1>30. CASE Ack("legAck", "legDone")
  BY <1>30 DEF Ack, Move, Raise, machines, book, halting
<1>31. CASE Metrics
  BY <1>31 DEF Metrics, Move, Raise, machines, book, halting
<1>32. CASE AbortTick
  BY <1>32 DEF AbortTick, machines, book, halting
<1>33. CASE ApplyAcks
  BY <1>33 DEF ApplyAcks, machines, book, halting
<1>34. CASE ReconcileFills
  BY <1>34 DEF ReconcileFills, HeldAfter, machines, book, halting
<1>35. CASE Fallback
  BY <1>35 DEF Fallback, machines, book, halting
<1>36. CASE EscalateLevel
  BY <1>36 DEF EscalateLevel, machines, book, halting
<1>37. CASE EmergencyFlatten
  BY <1>37 DEF EmergencyFlatten, machines, book, halting
<1>38. CASE Lock
  BY <1>38 DEF Lock, machines, book, halting
<1>39. CASE ActivateKillSwitch
  BY <1>39 DEF ActivateKillSwitch, machines, book, halting
<1>40. CASE EnterLockdown
  <2>1. /\ pc = "lockdown" /\ risk = "LOCKED" /\ breach
        /\ UNCHANGED <<risk, kill, inTick, intent, breach, acked, after, halter>>
    BY <1>40 DEF EnterLockdown, book, halting
  <2>2. CASE macro = Mode
    <3>1. macro' = "RISK_LOCKDOWN" /\ pc' = ret
      BY <1>40, <2>2 DEF EnterLockdown, CanLockdown
    <3>2. CalmMacro' /\ CalmFills'
      BY <2>1, <3>1
    <3>3. CalmOpens'
      BY <2>1, <3>1
    <3> QED
      BY <3>2, <3>3
  <2>3. CASE macro = "RISK_LOCKDOWN"
    <3>1. macro' = macro /\ pc' \in {"fault", "sessionFault"}
      BY <1>40, <2>3 DEF EnterLockdown, CanLockdown, Raise
    <3>2. CalmMacro' /\ CalmFills'
      BY <2>1, <2>3, <3>1
    <3>3. CalmOpens'
      BY <2>1, <2>3, <3>1
    <3> QED
      BY <3>2, <3>3
  <2> QED
    BY <2>1, <2>2, <2>3
<1>41. CASE StepRaises
  BY <1>41 DEF StepRaises, machines, book, halting
<1>42. CASE HandleTickFailure
  BY <1>42 DEF HandleTickFailure, RecoverMicro, machines, book, halting
<1>43. CASE HaltRequest
  BY <1>43 DEF HaltRequest, machines, book, halting
<1>44. CASE HaltMacro \/ HaltMicro \/ HaltClear \/ HaltRaises
  BY <1>44 DEF HaltMacro, HaltMicro, HaltClear, HaltRaises, machines, book, halting
<1>45. CASE RecoverFromDegraded
  BY <1>45 DEF RecoverFromDegraded, operatorUnchanged, machines, book, halting
<1>46. CASE UnlockFromLockdown
  BY <1>46 DEF UnlockFromLockdown, operatorUnchanged, machines, book, halting
<1>47. CASE ResetRiskEscalation
  BY <1>47 DEF ResetRiskEscalation, operatorUnchanged, machines, book, halting
<1>48. CASE OperatorKillSwitch
  BY <1>48 DEF OperatorKillSwitch, operatorUnchanged, machines, book, halting
<1>49. CASE Shutdown
  BY <1>49 DEF Shutdown, operatorUnchanged, machines, book, halting
<1>50. CASE Reset
  BY <1>50 DEF Reset, machines, book, halting
<1>51. CASE UNCHANGED vars
  BY <1>51 DEF vars, machines, book, halting
<1>52. CASE QuoteWalk
  BY <1>52, <1>9, <1>10, <1>11, <1>12, <1>13, <1>14, <1>15, <1>16, <1>23, <1>24, <1>25, <1>26,
     <1>27, <1>28, <1>29, <1>31, <1>32 DEF QuoteWalk
<1>53. CASE Portfolio
  BY <1>53, <1>17, <1>18, <1>19, <1>20, <1>21, <1>22, <1>30 DEF Portfolio
<1>54. CASE Settle
  BY <1>54, <1>33, <1>34, <1>35 DEF Settle
<1>55. CASE Escalation
  BY <1>55, <1>36, <1>37, <1>38, <1>39, <1>40 DEF Escalation
<1>56. CASE Session
  BY <1>56, <1>3, <1>4, <1>5, <1>6, <1>7 DEF Session
<1>57. CASE Failure
  BY <1>57, <1>8, <1>41, <1>42 DEF Failure
<1>58. CASE Halt
  BY <1>58, <1>44 DEF Halt
<1>59. CASE Operator
  BY <1>59, <1>1, <1>2, <1>45, <1>46, <1>47, <1>48, <1>49, <1>50 DEF Operator
<1> QED
  BY <1>52, <1>53, <1>54, <1>55, <1>56, <1>57, <1>58, <1>59, <1>43, <1>51 DEF Next, Main

-----------------------------------------------------------------------------
(***************************************************************************)
(* What opens exposure in a calm session: a leg of an intent, or the order *)
(* of a signal, with the kill switch off and the session trading.          *)
(***************************************************************************)
LEMMA CalmOpening ==
    ASSUME CalmSession, IInv, Calm, Next, "open" \in live' \ live
    PROVE  ~kill /\ macro = Mode
<1> SUFFICES ~Shut
  BY DEF Shut
<1> USE MachineStates
<1> USE DEF CalmSession, Calm, CalmOpens, IInv, TypeOK, QuoteInFlight
<1>1. CASE LegSend
  BY <1>1 DEF LegSend
<1>2. CASE RawLeg
  BY <1>2 DEF RawLeg, LegAllowed
<1>3. CASE Send
  BY <1>3 DEF Send
<1>4. CASE ApplyAcks \/ Fallback \/ EmergencyFlatten \/ Shutdown \/ Reset
  BY <1>4 DEF ApplyAcks, Fallback, EmergencyFlatten, Shutdown, Reset
<1>5. CASE QuoteWalk /\ ~Send
  <2>1. live' = live
    BY <1>5 DEF QuoteWalk, GateCloses, GateOpens, Mark, Walk, Optional, Horizon, Bookend, Signal,
                CheckSignal, Decide, CheckOrder, CheckReverse, Ack, Metrics, AbortTick, book
  <2> QED
    BY <2>1
<1>6. CASE Portfolio /\ ~LegSend /\ ~RawLeg
  <2>1. live' = live
    BY <1>6 DEF Portfolio, FlushDone, NextIntent, NextRawIntent, SizedIntent, Ack, book
  <2> QED
    BY <2>1
<1>7. CASE ReconcileFills \/ Session \/ Failure \/ Halt \/ HaltRequest
  <2>1. live' = live
    BY <1>7 DEF ReconcileFills, Session, EnterMode, QuoteArrives, TradeArrives, IdleTick, EndSession,
                Failure, StepRaises, HandleTickFailure, SessionFault, Halt, HaltMacro, HaltMicro,
                HaltClear, HaltRaises, HaltRequest, book
  <2> QED
    BY <2>1
<1>8. CASE Escalation /\ ~EmergencyFlatten
  <2>1. live' = live
    BY <1>8 DEF Escalation, EscalateLevel, Lock, ActivateKillSwitch, EnterLockdown, book
  <2> QED
    BY <2>1
<1>9. CASE Boot \/ BeginSession \/ RecoverFromDegraded \/ UnlockFromLockdown \/ ResetRiskEscalation
           \/ OperatorKillSwitch
  <2>1. live' = live
    BY <1>9 DEF Boot, BeginSession, RecoverFromDegraded, UnlockFromLockdown, ResetRiskEscalation,
                OperatorKillSwitch, book
  <2> QED
    BY <2>1
<1> QED
  BY <1>1, <1>2, <1>3, <1>4, <1>5, <1>6, <1>7, <1>8, <1>9 DEF Next, Main, Operator, Settle

(***************************************************************************)
(* What a day that is calm keeps; the other days have their own kernels.   *)
(***************************************************************************)
CalmDay == day = "calm" => IInv /\ Calm

\* A calm day stays calm.
LEMMA CalmDayStep == CalmSession => (MCSpec => []CalmDay)
<1> SUFFICES ASSUME CalmSession PROVE MCSpec => []CalmDay
  OBVIOUS
<1>1. Init => IInv
  <2> SUFFICES ASSUME Init PROVE IInv
    OBVIOUS
  <2>1. TypeOK
    BY MachineStates DEF Init, TypeOK
  <2> QED
    BY <2>1 DEF Init, IInv, LockdownMeansLocked, QuoteInFlight, Escalating, InPortfolio, Stopped
<1>2. Init => Calm
  BY ModeAssumption DEF Init, Calm, CalmMacro, CalmFills, CalmOpens, Walking, Shut, Escalating, CalmSession,
         TradingModes
<1>3. MCInit => CalmDay
  BY <1>1, <1>2 DEF MCInit, CalmDay
<1>4. CalmDay /\ [MCNext]_<<day, vars>> => CalmDay'
  <2> SUFFICES ASSUME CalmDay, [MCNext]_<<day, vars>>, day' = "calm" PROVE IInv' /\ Calm'
    BY DEF CalmDay
  <2>1. day = "calm" /\ (Next \/ UNCHANGED vars)
    BY DEF MCNext
  <2> QED
    BY <2>1, IInvPreserved, CalmPreserved DEF CalmDay
<1> QED
  BY <1>3, <1>4, PTL DEF MCSpec

(***************************************************************************)
(* On a calm day of a paper session a locked kernel can be unlocked and no *)
(* applied fill is dropped, for every set of layers and any number of      *)
(* intents (Orchestrator._settle_router_acks, unlock_from_lockdown).       *)
(***************************************************************************)
THEOREM CalmDayTheorem == CalmSession => (MCSpec => []CalmDayKeepsItsBook)
<1>1. CalmDay => CalmDayKeepsItsBook
  BY DEF CalmDay, Calm, CalmMacro, CalmFills, CalmDayKeepsItsBook, LockedCanBeUnlocked, NoFillDropped
<1> QED
  BY <1>1, CalmDayStep, PTL

(***************************************************************************)
(* ... and nothing opens exposure once the kill switch is active or the    *)
(* session has left its trading mode (Orchestrator._process_tick_inner).   *)
(***************************************************************************)
THEOREM CalmOpensTheorem == CalmSession => (MCSpec => CalmDayOpensSafely)
<1> SUFFICES ASSUME CalmSession PROVE MCSpec => CalmDayOpensSafely
  OBVIOUS
<1>1. CalmDay /\ [MCNext]_<<day, vars>> =>
        [(day = "calm" /\ "open" \in live' \ live) => (~kill /\ macro = Mode)]_<<day, vars>>
  <2> SUFFICES ASSUME CalmDay, MCNext, day = "calm", "open" \in live' \ live
               PROVE  ~kill /\ macro = Mode
    OBVIOUS
  <2> QED
    BY CalmOpening DEF CalmDay, MCNext
<1> QED
  BY <1>1, CalmDayStep, PTL DEF MCSpec, CalmDayOpensSafely
=============================================================================
