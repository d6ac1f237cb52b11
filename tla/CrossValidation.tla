-------------------------- MODULE CrossValidation --------------------------
(***************************************************************************)
(* Combinatorial purged cross-validation: a tape of bars is cut into       *)
(* groups, every choice of k groups is tested once by a model trained on   *)
(* what is left after the purge, and the tests are stitched into paths     *)
(* that each cover the whole tape.  Bars and groups count from 0.          *)
(*                                                                         *)
(* A return is the pair of the split that measured it and the bar it is    *)
(* of, so that a path shows where each of its returns came from.           *)
(***************************************************************************)
EXTENDS Integers, Sequences, FiniteSets, SequencesExt

CONSTANTS
    MaxBars,            \* bounds: the tapes,
    MaxGroups,          \*   the groups they are cut into,
    MaxHorizon,         \*   the bars a label looks ahead,
    MaxEmbargo          \*   and the bars left out after a test

VARIABLES
    study,              \* [n_bars, n_groups, k, horizon, embargo]: the caller's
    splits,             \* generated so far: [test_groups, test, train]
    measured,           \* the returns the caller measured, per split
    paths,              \* reconstructed: a split per group
    curves,             \* the assembled paths: a return per bar
    phase

studyVars == <<study, splits, measured, paths, curves, phase>>

(***************************************************************************)
(* Groups, splits and the purge.                                           *)
(***************************************************************************)
\* The first n_bars % n_groups groups take one bar more.
assign_groups(n_bars, n_groups) ==
    LET size == n_bars \div n_groups
        extra == n_bars % n_groups
        first(g) == g * size + Min({g, extra})
    IN  [g \in 0 .. (n_groups - 1) |->
            first(g) .. (first(g) + size - (IF g < extra THEN 0 ELSE 1))]

GroupOf(groups, bar) == CHOOSE g \in DOMAIN groups : bar \in groups[g]

\* Lexicographic, as itertools yields them.
ListedBefore(A, B) ==
    A # B /\ Min((A \ B) \union (B \ A)) \in A
Combinations(n_groups, k) ==
    LET all == kSubset(k, 0 .. (n_groups - 1))
    IN  [i \in 1 .. Cardinality(all) |->
            CHOOSE c \in all : Cardinality({d \in all : ListedBefore(d, c)}) = i - 1]

\* The maximal runs of consecutive test bars.
Regions(test) ==
    {r \in test \X test :
        r[1] <= r[2] /\ r[1] .. r[2] \subseteq test
        /\ r[1] - 1 \notin test /\ r[2] + 1 \notin test}

\* The embargo is counted from the region and not from its labels.
PurgedEmbargoInside(test, s) ==
    ((0 .. (s.n_bars - 1)) \ test)
        \ UNION {(r[1] - s.horizon) .. (r[2] + Max({s.horizon, s.embargo})) : r \in Regions(test)}

_purged_train_indices(test, s) ==
    ((0 .. (s.n_bars - 1)) \ test)
        \ UNION {(r[1] - s.horizon) .. (r[2] + s.horizon + s.embargo) : r \in Regions(test)}

SplitOf(s, test_groups) ==
    LET groups == assign_groups(s.n_bars, s.n_groups)
        test == UNION {groups[g] : g \in test_groups}
    IN  [test_groups |-> test_groups, test |-> test,
         train |-> _purged_train_indices(test, s)]

(***************************************************************************)
(* Paths.  The p-th path takes, of every group, the p-th split that        *)
(* tested it.                                                              *)
(***************************************************************************)
splits_by_group(all, g) ==
    LET tested == {i \in DOMAIN all : g \in all[i].test_groups}
    IN  FoldLeft(LAMBDA listed, i : IF i \in tested THEN Append(listed, i) ELSE listed,
                 <<>>, [i \in DOMAIN all |-> i])

\* One index short: the last split of every group is left out.
PathsFromFirst(s, all) ==
    LET per_group == Len(splits_by_group(all, 0))
    IN  {[g \in 0 .. (s.n_groups - 1) |-> splits_by_group(all, g)[Max({1, p - 1})]] :
            p \in 1 .. per_group}

reconstruct_paths(s, all) ==
    LET per_group == Len(splits_by_group(all, 0))
    IN  {[g \in 0 .. (s.n_groups - 1) |-> splits_by_group(all, g)[p]] :
            p \in 1 .. per_group}

assemble_path_returns(s, path, returns) ==
    LET groups == assign_groups(s.n_bars, s.n_groups)
    IN  [bar \in 0 .. (s.n_bars - 1) |->
            CHOOSE r \in returns[path[GroupOf(groups, bar)]] : r.bar = bar]

(***************************************************************************)
(* A study.  CPCVConfig refuses what is not of this set; assign_groups     *)
(* refuses a tape shorter than its groups.                                 *)
(***************************************************************************)
CPCVConfig(n_groups, k, horizon, embargo) ==
    n_groups >= 2 /\ k \in 1 .. (n_groups - 1) /\ horizon >= 0 /\ embargo >= 0

Studies ==
    {s \in [n_bars : 1 .. MaxBars, n_groups : 2 .. MaxGroups, k : 1 .. MaxGroups,
            horizon : 0 .. MaxHorizon, embargo : 0 .. MaxEmbargo] :
        /\ CPCVConfig(s.n_groups, s.k, s.horizon, s.embargo)}

StudyInit ==
    /\ study \in Studies
    /\ splits = <<>> /\ measured = <<>> /\ paths = {} /\ curves = {}
    /\ phase = "split"

RefuseShortTape ==
    /\ phase = "split" /\ study.n_bars < study.n_groups
    /\ phase' = "raised"
    /\ UNCHANGED <<study, splits, measured, paths, curves>>

generate_cpcv_splits ==
    /\ phase = "split" /\ study.n_bars >= study.n_groups
    /\ LET combinations == Combinations(study.n_groups, study.k)
       IN  splits' = [i \in DOMAIN combinations |-> SplitOf(study, combinations[i])]
    /\ phase' = "measure"
    /\ UNCHANGED <<study, measured, paths, curves>>

\* The caller fits on train and measures on test, split by split; it may
\* come back with a split it could not measure in full.
Measure ==
    /\ phase = "measure"
    /\ \E lost \in SUBSET (1 .. Len(splits)) :
          /\ Cardinality(lost) <= 1
          /\ measured' = [i \in DOMAIN splits |->
                {[split |-> i, bar |-> b] :
                    b \in IF i \in lost THEN splits[i].test \ {Max(splits[i].test)}
                          ELSE splits[i].test}]
    /\ phase' = "build"
    /\ UNCHANGED <<study, splits, paths, curves>>

build_cpcv_evidence ==
    /\ phase = "build"
    /\ paths' = reconstruct_paths(study, splits)
    /\ IF \A i \in DOMAIN splits : Cardinality(measured[i]) = Cardinality(splits[i].test)
       THEN /\ curves' = {assemble_path_returns(study, p, measured) : p \in paths'}
            /\ phase' = "built"
       ELSE curves' = {} /\ phase' = "raised"
    /\ UNCHANGED <<study, splits, measured>>

StudyNext == RefuseShortTape \/ generate_cpcv_splits \/ Measure \/ build_cpcv_evidence

StudySpec == StudyInit /\ [][StudyNext]_studyVars

-----------------------------------------------------------------------------
\* A label of bar b is known only horizon bars later.  No model is trained on
\* a bar whose label window meets that of a bar it is tested on, nor on a bar
\* within the embargo after such a window; every other bar is trained on, the
\* ones between two test regions included.  The purge of cpcv.py works region
\* by region; this says what the regions must add up to, bar by bar.
Leaks(train, test, s) ==
    \/ train \in (test - s.horizon) .. (test + s.horizon)
    \/ train \in (test + 1) .. (test + s.horizon + s.embargo)
TrainsWithoutLeak ==
    \A i \in DOMAIN splits :
        splits[i].train = {b \in 0 .. (study.n_bars - 1) :
                              \A t \in splits[i].test : ~Leaks(b, t, study)}

\* The evidence stands on whole, different paths: each covers the tape with
\* returns of splits that tested the bar, and between them they use every
\* measured return exactly once -- a return used twice would count one fold
\* twice in the mean and in the p-value.
PathsPartitionTests ==
    phase = "built" =>
        /\ \A c \in curves : \A b \in DOMAIN c :
              c[b].bar = b /\ b \in splits[c[b].split].test
        /\ \A i \in DOMAIN splits : \A r \in measured[i] :
              Cardinality({c \in curves : c[r.bar] = r}) = 1
        /\ \A c \in curves : DOMAIN c = 0 .. (study.n_bars - 1)

\* The evidence of a study rests on trainings that saw nothing of their tests
\* and on paths that hold every bar once (research/cpcv.py).
StudySound == TrainsWithoutLeak /\ PathsPartitionTests
=============================================================================
