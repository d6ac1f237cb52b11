------------------------------ MODULE Features ------------------------------
(***************************************************************************)
(* The layer-2 features: each hears the readings of one sensor and answers *)
(* when a boundary of its horizon is crossed.  The event that crosses it   *)
(* is read before the boundary is answered, so a window may already hold a *)
(* reading from after it.                                                  *)
(*                                                                         *)
(* One behaviour feeds one feature.  A value stands for what the reducers  *)
(* compute from it: the moments for mean, sum, rms and z-score, the newest *)
(* and the oldest sample, and the rank of the newest.                      *)
(***************************************************************************)
EXTENDS Sensors

CONSTANTS
    FeatureKinds,       \* of "windowed", "rolling", "passthrough", "imbalance"
    Samples,            \* what a warm reading may say, [pos, neg]
    Horizon,            \* horizon_seconds
    MinSamplesOf,       \* min_samples
    MaxSamples,         \* max_samples, the cap on what is retained
    MaxHeard            \* bound: readings of a behaviour

VARIABLES feature, clock, heard, win, boundary, value

featureVars == <<feature, clock, heard, win, boundary, value>>

Cold == <<>>
Scalar(x) == x.pos + x.neg
NoWindow == [entries |-> <<>>, m |-> NoMoments]

(***************************************************************************)
(* HorizonWindowedFeature: a window in event time with running moments.    *)
(***************************************************************************)
EvictBefore(w, cutoff) ==
    LET gone == Gone(w.entries, cutoff)
    IN  [entries |-> Live(w.entries, cutoff),
         m |-> RemoveAll(w.m, [i \in DOMAIN gone |-> [dq |-> Scalar(gone[i]), dp |-> 0]])]

\* The sample leaves the window and stays in the moments.
CappedKeepsMoments(w) ==
    IF Len(w.entries) <= MaxSamples THEN w ELSE [w EXCEPT !.entries = Tail(@)]

\* What is over the cap goes, whatever its age.
Capped(w) ==
    IF Len(w.entries) <= MaxSamples THEN w
    ELSE [entries |-> Tail(w.entries), m |-> _welford_remove(w.m, Scalar(w.entries[1]), 0)]

WindowedHears(w, r) ==
    Capped(EvictBefore([entries |-> Append(w.entries, r),
                        m |-> _welford_add(w.m, Scalar(r), 0)], r.at - Horizon))

\* Moments of what is not after the boundary, computed afresh.
MomentsOf(live) ==
    LET add[i \in 0 .. Len(live)] ==
            IF i = 0 THEN NoMoments ELSE _welford_add(add[i - 1], Scalar(live[i]), 0)
    IN  add[Len(live)]

Rank(live) == Cardinality({i \in DOMAIN live : Scalar(live[i]) <= Scalar(live[Len(live)])})

WindowedSays(w, asof) ==
    LET live == SelectSeq(w.entries, LAMBDA r : r.at <= asof)
        m == IF live # w.entries THEN MomentsOf(live) ELSE w.m
    IN  IF m.n < MinSamplesOf \/ w.entries = <<>> THEN Cold
        ELSE <<m, Scalar(live[Len(live)]), Scalar(live[1]), Rank(live)>>

(***************************************************************************)
(* RollingZscoreFeature and RollingPercentileFeature: the last readings,   *)
(* however old.  SensorPassthroughFeature and TupleSignedImbalanceFeature: *)
(* the last one.                                                           *)
(***************************************************************************)
RollingHears(w, r) ==
    [w EXCEPT !.entries = IF Len(@) = MaxSamples THEN Append(Tail(@), r) ELSE Append(@, r)]

RollingSays(w) ==
    IF Len(w.entries) < MinSamplesOf THEN Cold
    ELSE <<MomentsOf(w.entries), Scalar(w.entries[Len(w.entries)]), Rank(w.entries)>>

LatestHears(w, r) == [w EXCEPT !.entries = <<r>>]

PassthroughSays(w) == IF w.entries = <<>> THEN Cold ELSE <<Scalar(w.entries[1])>>

ImbalanceSays(w) ==
    LET r == w.entries[1]
    IN  IF w.entries = <<>> THEN Cold
        ELSE IF Scalar(r) = 0 THEN <<0, 1>> ELSE <<r.pos - r.neg, Scalar(r)>>

-----------------------------------------------------------------------------
FeatureInit ==
    /\ feature \in FeatureKinds
    /\ clock = 0 /\ heard = <<>> /\ win = NoWindow /\ boundary = 0 /\ value = Cold

Crossed == clock \div Horizon > boundary

\* A reading of the sensor; one that is not warm is not kept.
HearReading ==
    /\ ~Crossed /\ Len(heard) < MaxHeard
    /\ \E gap \in Gaps, x \in Samples, warm \in BOOLEAN :
        LET r == [at |-> clock + gap] @@ x
        IN  /\ clock' = r.at
            /\ heard' = Append(heard, [warm |-> warm] @@ r)
            /\ win' = IF ~warm THEN win
                      ELSE IF feature = "windowed" THEN WindowedHears(win, r)
                      ELSE IF feature = "rolling" THEN RollingHears(win, r)
                      ELSE LatestHears(win, r)
    /\ UNCHANGED <<feature, boundary, value>>

\* The tick of the boundary crossed last; those skipped have none.
AnswerBoundary ==
    /\ Crossed
    /\ boundary' = clock \div Horizon
    /\ LET asof == boundary' * Horizon
           evicted == IF feature = "windowed" THEN EvictBefore(win, asof - Horizon) ELSE win
       IN  /\ win' = evicted
           /\ value' = IF feature = "windowed" THEN WindowedSays(evicted, asof)
                       ELSE IF feature = "rolling" THEN RollingSays(win)
                       ELSE IF feature = "passthrough" THEN PassthroughSays(win)
                       ELSE ImbalanceSays(win)
    /\ UNCHANGED <<feature, clock, heard>>

FeatureNext == HearReading \/ AnswerBoundary
FeatureSpec == FeatureInit /\ [][FeatureNext]_featureVars

-----------------------------------------------------------------------------
(***************************************************************************)
(* The values by definition, from every warm reading of the behaviour.     *)
(***************************************************************************)
WarmHeard == SelectSeq(heard, LAMBDA r : r.warm)

\* The last MaxSamples of them.
Retained == SubSeq(WarmHeard, Max({1, Len(WarmHeard) - MaxSamples + 1}), Len(WarmHeard))

\* Those inside the window of the boundary.  (A reading from after the
\* boundary has already pushed out what is older than its own window.)
InWindow ==
    LET asof == boundary * Horizon
    IN  SelectSeq(Retained, LAMBDA r :
            r.at <= asof /\ r.at >= Max({asof, WarmHeard[Len(WarmHeard)].at}) - Horizon)

MomentsAre(w) ==
    LET mean == (S * Sum(DOMAIN w, LAMBDA i : Scalar(w[i]))) \div Len(w)
    IN  [n |-> Len(w), q |-> mean, p |-> 0, c |-> 0,
         m2 |-> Sum(DOMAIN w, LAMBDA i : Square(S * Scalar(w[i]) - mean))]

ValueIs ==
    LET w == IF feature = "windowed" THEN InWindow ELSE Retained
        last == w[Len(w)]
        rank == Cardinality({i \in DOMAIN w : Scalar(w[i]) <= Scalar(last)})
    IN  IF Len(w) < (IF feature \in {"windowed", "rolling"} THEN MinSamplesOf ELSE 1) THEN Cold
        ELSE IF feature = "windowed" THEN <<MomentsAre(w), Scalar(last), Scalar(w[1]), rank>>
        ELSE IF feature = "rolling" THEN <<MomentsAre(w), Scalar(last), rank>>
        ELSE IF feature = "passthrough" THEN <<Scalar(last)>>
        ELSE <<last.pos - last.neg, IF Scalar(last) = 0 THEN 1 ELSE Scalar(last)>>

\* A boundary just answered: nothing has been heard since.
Answered == boundary > 0 /\ boundary = clock \div Horizon
            /\ heard[Len(heard)].at - boundary * Horizon < Horizon
            /\ (Len(heard) = 1 \/ heard[Len(heard) - 1].at < boundary * Horizon)

\* However readings were evicted, by age, by count or at a boundary, and
\* whether or not the window already holds what came after it, a feature says
\* at a boundary what its definition gives on the readings of the sensor.
FeaturesAreDefined == Answered => value = ValueIs
=============================================================================
