---------------------------- MODULE CrossSection ----------------------------
(***************************************************************************)
(* How a portfolio alpha turns the signals of one boundary into dollar     *)
(* targets: the ranker's sleeves, the factor and sector neutralisers, the  *)
(* family caps, the optimiser, and the recheck of the caps in dollars      *)
(* (composition/cross_sectional.py, engine.py, factor_neutralizer.py,      *)
(* sector_matcher.py, turnover_optimizer.py).                              *)
(*                                                                         *)
(* A weight of 1.0 is Unit, a published amount a whole number of cents, a  *)
(* cap a percentage.  One factor stands for the factor model.  The convex  *)
(* solver is a library: it gives each name one of a few amounts, within    *)
(* its constraints, or fails.                                              *)
(***************************************************************************)
EXTENDS TLC, Integers, Sequences, FiniteSets, FiniteSetsExt, Functions

CONSTANTS
    Universe,           \* symbols
    FamilyOf,           \* [strategy -> a trend mechanism, or Unattributed]
    Unattributed,       \* a signal with no mechanism
    ExitOnly,           \* mechanisms that never open a position
    Funds,              \* how the alpha and its pipeline are configured
    Answers,            \* the half cents the solver may give a name
    Contexts            \* the signals a boundary may deliver

VARIABLES
    fund,               \* [caps, cap, consumes, decay, loads, sectors, budget, name, solver]
    signals,            \* [Universe -> [a set of strategies -> [dir, edge, old]]]
    intent              \* what the boundary published

sectionVars == <<fund, signals, intent>>

Unit == 1000
Clip == 4 * Unit
NoIntent == [targets |-> <<>>, shares |-> <<>>, edges |-> <<>>, status |-> "none"]

Magnitude(x) == IF x < 0 THEN -x ELSE x
Quotient(x, n) == IF x < 0 THEN -((-x) \div n) ELSE x \div n
Tally(Op(_), S) == MapThenFoldSet(+, 0, Op, LAMBDA X : CHOOSE x \in X : TRUE, S)
Gross(v) == Tally(LAMBDA s : Magnitude(v[s]), DOMAIN v)

Lookup(v, s) == IF s \in DOMAIN v THEN v[s] ELSE 0

\* The function f, of which TLC keeps the values it has computed.
Table(f) == f @@ <<>>

-----------------------------------------------------------------------------
(* Ranking: one sleeve per mechanism, standardised over the symbols it     *)
(* speaks about.                                                           *)

\* A stale forecast counts half, where decay is on; scores are in half units.
_raw_and_decay(g) ==
    g.dir * g.edge * (IF fund.decay /\ g.old THEN 1 ELSE 2)

_is_allowed(m) == m = Unattributed \/ m \in fund.consumes

Contributors(s) ==
    {f \in DOMAIN signals[s] : _is_allowed(FamilyOf[f]) /\ FamilyOf[f] \notin ExitOnly}

\* The sleeves, each a score for the symbols some contributor speaks about.
_gather_raw_by_mech ==
    LET speaks(m, s) == {f \in Contributors(s) : FamilyOf[f] = m}
        families == {FamilyOf[f] : f \in UNION {Contributors(s) : s \in Universe}}
    IN  [m \in families |->
            [s \in {x \in Universe : speaks(m, x) # {}} |->
                Tally(LAMBDA f : _raw_and_decay(signals[s][f]), speaks(m, s))]]

NetRaw(s) == Tally(LAMBDA f : _raw_and_decay(signals[s][f]), Contributors(s))

\* Contributors that argue against the net score lend it no edge.
_aligned_mean_edge(s) ==
    LET raw(f) == _raw_and_decay(signals[s][f])
        aligned == {f \in Contributors(s) : raw(f) * NetRaw(s) > 0}
        weight == Tally(LAMBDA f : Magnitude(raw(f)), aligned)
    IN  IF weight = 0 THEN 0
        ELSE Tally(LAMBDA f : signals[s][f].edge * Magnitude(raw(f)), aligned) \div weight

SquareRoot(n) == CHOOSE r \in 0 .. 1000 : r * r <= n /\ (r + 1) * (r + 1) > n

_standardize(raw) ==
    LET m == Cardinality(DOMAIN raw)
        dev(s) == m * raw[s] - Tally(LAMBDA x : raw[x], DOMAIN raw)
        std == SquareRoot((100 * Tally(LAMBDA s : dev(s) * dev(s), DOMAIN raw)) \div m)
        z(s) == Quotient(dev(s) * 10 * Unit, std)
    IN  [s \in Universe |->
            IF s \notin DOMAIN raw \/ std = 0 THEN 0
            ELSE IF z(s) > Clip THEN Clip ELSE IF z(s) < -Clip THEN -Clip ELSE z(s)]

rank_sleeves ==
    LET raw == _gather_raw_by_mech IN Table([m \in DOMAIN raw |-> Table(_standardize(raw[m]))])

-----------------------------------------------------------------------------
(* Neutralising and capping.                                               *)

\* What is left of the weights after a regression on the loadings.
FactorNeutral(w) ==
    LET b == fund.loads
        bb == Tally(LAMBDA s : b[s] * b[s], Universe)
        bw == Tally(LAMBDA s : b[s] * w[s], Universe)
    IN  IF bb = 0 THEN w ELSE [s \in Universe |-> w[s] - Quotient(b[s] * bw, bb)]

cap_for(m) ==
    IF m = Unattributed THEN 100
    ELSE IF m \in DOMAIN fund.caps THEN Min({fund.caps[m], fund.cap}) ELSE fund.cap

\* The families that end at their cap, and the gross of the book they leave.
RECURSIVE Binding(_, _, _)
Binding(gross, bound, passes) ==
    LET room == 100 - Tally(LAMBDA m : cap_for(m), bound)
        fixed == Tally(LAMBDA m : gross[m], DOMAIN gross \ bound)
        total == (100 * fixed) \div room
        next == {m \in DOMAIN gross : cap_for(m) < 100 /\ 100 * gross[m] > cap_for(m) * total}
    IN  IF room <= 0 \/ passes = 0 THEN [feasible |-> FALSE]
        ELSE IF next = bound THEN [feasible |-> TRUE, bound |-> bound, total |-> total]
        ELSE Binding(gross, next, passes - 1)

_solve_family_cap_scales(gross) ==
    IF Tally(LAMBDA m : gross[m], DOMAIN gross) = 0 THEN [feasible |-> FALSE]
    ELSE Binding(gross, {}, Cardinality(DOMAIN gross) + 1)

Scaled(v, solved) ==
    IF ~solved.feasible THEN v
    ELSE [m \in DOMAIN v |->
            IF m \notin solved.bound THEN v[m]
            ELSE [s \in DOMAIN v[m] |->
                    Quotient(v[m][s] * ((cap_for(m) * solved.total) \div 100), Gross(v[m]))]]

\* The caps of the families that bind sum to less than one (a family over its
\* cap leaves room for the next), so the sweep kept for the other case is idle.
cap_family_vectors(v) ==
    Scaled(v, _solve_family_cap_scales([m \in DOMAIN v |-> Gross(v[m])]))

\* Each family's share of the gross, in tenths of a percent.
_finalize_cap_breakdown(v) ==
    LET total == Tally(LAMBDA m : Gross(v[m]), DOMAIN v)
    IN  [m \in {x \in DOMAIN v : x # Unattributed /\ Gross(v[x]) > 0} |->
            (1000 * Gross(v[m])) \div total]

\* The larger side of a sector shrinks to the smaller.
SectorMatch(w) ==
    LET peers(s) == {x \in DOMAIN fund.sectors : fund.sectors[x] = fund.sectors[s]}
        long(s) == Tally(LAMBDA x : w[x], {x \in peers(s) : w[x] > 0})
        short(s) == -Tally(LAMBDA x : w[x], {x \in peers(s) : w[x] < 0})
    IN  [s \in Universe |->
            IF s \notin DOMAIN fund.sectors THEN w[s]
            ELSE IF w[s] > 0 /\ long(s) > short(s) THEN Quotient(w[s] * short(s), long(s))
            ELSE IF w[s] < 0 /\ short(s) > long(s) THEN Quotient(w[s] * long(s), short(s))
            ELSE w[s]]

-----------------------------------------------------------------------------
(* Dollars.                                                                *)

NonZero(v) == Restrict(v, {s \in DOMAIN v : v[s] # 0})

\* x / n to the nearest cent, halves away from zero.
round_cents(x, n) ==
    IF x < 0 THEN -((n - 2 * x) \div (2 * n)) ELSE (n + 2 * x) \div (2 * n)

\* Less than a cent is dropped; what rounding put over the budget shrinks, and
\* is rounded again.
_optimize_closed_form(w) ==
    LET gross == Gross(w)
        scaled(s) ==
            IF Magnitude(w[s] * fund.budget) <= fund.name * gross
            THEN round_cents(w[s] * fund.budget, gross)
            ELSE IF w[s] > 0 THEN fund.name ELSE -fund.name
        rounded == [s \in {x \in Universe : Magnitude(w[x] * fund.budget) >= gross} |-> scaled(s)]
        shrunk == [s \in DOMAIN rounded |-> round_cents(rounded[s] * fund.budget, Gross(rounded))]
    IN  IF gross = 0 THEN [targets |-> <<>>, status |-> "ZERO_GROSS"]
        ELSE [targets |-> IF Gross(rounded) > fund.budget THEN shrunk ELSE rounded,
              status |-> "CLOSED_FORM"]

\* The solver answers with an allocation inside its constraints, which is then
\* rounded, fails, or reports that it found none.
Allocations ==
    LET answers == {x \in Answers : Magnitude(x) <= 2 * fund.name}
    IN  {NonZero([s \in Universe |-> round_cents(x[s], 2)]) :
            x \in {v \in [Universe -> answers] : Gross(v) <= 2 * fund.budget}}

_optimize_cvxpy(w) ==
    {[targets |-> v, status |-> "optimal"] : v \in Allocations}
    \union {[targets |-> <<>>, status |-> "infeasible"],
            [_optimize_closed_form(w) EXCEPT !.status = "ECOS_FAILED_FALLBACK"]}

optimize(w) == IF fund.solver THEN _optimize_cvxpy(w) ELSE {_optimize_closed_form(w)}

\* The dollars of a symbol, shared among the families in proportion to the
\* weight each of them gave it, in tenths of a cent.
FamilyDollars(dollars, v) ==
    LET denom(s) == Tally(LAMBDA m : Magnitude(v[m][s]), DOMAIN v)
    IN  [m \in DOMAIN v |->
            [s \in {x \in DOMAIN dollars : v[m][x] # 0} |->
                Quotient(10 * dollars[s] * Magnitude(v[m][s]), denom(s))]]

\* A symbol nobody weighted counts in the total and in no family.
compute_sleeve_breakdown(dollars, v) ==
    LET mine == FamilyDollars(dollars, v)
    IN  [m \in {x \in DOMAIN v : x # Unattributed /\ Gross(mine[x]) > 0} |->
            (100 * Gross(mine[m])) \div Gross(dollars)]

Combined(v) ==
    [s \in Universe |-> Tally(LAMBDA m : Lookup(v[m], s), DOMAIN v)]

CapTolerance == 5

\* What the optimiser returns goes out as it is.
RecappedNever(dollars, v) ==
    [targets |-> dollars, shares |-> compute_sleeve_breakdown(dollars, v),
     sleeves |-> FamilyDollars(dollars, v)]

\* Clipping a name moves the shares, so the dollars are capped again.
Recapped(dollars, v) ==
    LET shares == compute_sleeve_breakdown(dollars, v)
        capped == cap_family_vectors(FamilyDollars(dollars, v))
        resummed == Combined(capped)
        book == NonZero([s \in Universe |-> round_cents(resummed[s], 10)])
    IN  IF \A m \in DOMAIN shares : shares[m] <= 10 * cap_for(m) + CapTolerance
        THEN [targets |-> dollars, shares |-> shares, sleeves |-> FamilyDollars(dollars, v)]
        ELSE [targets |-> book, shares |-> _finalize_cap_breakdown(capped), sleeves |-> capped]

Published(final, status) ==
    [targets |-> final.targets, shares |-> final.shares, sleeves |-> final.sleeves,
     edges |-> [s \in DOMAIN final.targets |-> _aligned_mean_edge(s)], status |-> status]

Optimised(capped) ==
    {Published(Recapped(o.targets, capped), o.status) : o \in optimize(SectorMatch(Combined(capped)))}

Neutral(sleeves) == Table([m \in DOMAIN sleeves |-> Table(FactorNeutral(sleeves[m]))])

run_default_pipeline == Optimised(Table(cap_family_vectors(Neutral(rank_sleeves))))

-----------------------------------------------------------------------------
SectionInit == fund \in Funds /\ signals \in Contexts /\ intent = NoIntent

Construct ==
    /\ intent = NoIntent
    /\ intent' \in run_default_pipeline
    /\ UNCHANGED <<fund, signals>>

SectionNext == Construct
SectionSpec == SectionInit /\ [][SectionNext]_sectionVars

(***************************************************************************)
(* However the sleeves net out and whichever names are clipped, what is    *)
(* published stays inside the per-name budget, and inside the gross budget *)
(* but for the rounding of each name to a whole cent, which the shrink     *)
(* does not undo; no family holds more of its gross than its cap           *)
(* (composition/engine.py 376-434, cap_family_vectors, the optimiser's     *)
(* caps).  Shares are compared in tenths of a percent, with the rounding   *)
(* of the model.                                                           *)
(***************************************************************************)
IntentWithinCaps ==
    intent # NoIntent =>
        LET gross == Gross(intent.targets)
        IN  /\ 2 * (gross - fund.budget) <= Cardinality(Universe)
            /\ \A s \in DOMAIN intent.targets : Magnitude(intent.targets[s]) <= fund.name
            /\ \A m \in DOMAIN intent.sleeves :
                  100 * Gross(intent.sleeves[m]) <= (10 * cap_for(m) + 2 * CapTolerance) * gross
=============================================================================
