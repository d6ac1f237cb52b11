------------------------------- MODULE Regime -------------------------------
(***************************************************************************)
(* The regime filter, what the kernel publishes of it and the detector     *)
(* that calls a departure.  One process runs the tape, shuts down, is      *)
(* reset and runs the tape again; a shutdown leaves a checkpoint and the   *)
(* next boot restores it before it calibrates.                             *)
(*                                                                         *)
(* A posterior is three tenths that sum to ten; a quote is the class of    *)
(* its spread, which the emissions in force turn into likelihoods.         *)
(***************************************************************************)
EXTENDS Integers, Sequences, FiniteSets

LOCAL Books == INSTANCE Positions

CONSTANTS
    RegimeTapes,        \* sequences of [sym, spread, gap] a session may replay
    MinSamples,         \* usable quotes a calibration needs
    FloorTenths,        \* below it a falling state counts as departing
    MaxRuns             \* bound: runs of one process

\* A tape is a sequence; the floor is a number of tenths.
ASSUME RegimeAssumption ==
    /\ \A t \in RegimeTapes : Len(t) \in Nat /\ DOMAIN t = 1 .. Len(t)
    /\ FloorTenths \in Nat /\ MaxRuns \in Nat

VARIABLES engine, store, kernel, tape, stage, pos, runs, traces

regimeVars == <<engine, store, kernel, tape, stage, pos, runs, traces>>

States == 1 .. 3
Uniform == <<4, 3, 3>>
Unknown == <<>>
Names(t) == {t[i].sym : i \in DOMAIN t}

(***************************************************************************)
(* The filter.  engine = [post, seq, last, emission, calibrated], the      *)
(* first three per symbol.                                                 *)
(***************************************************************************)
NewEngine(syms) ==
    [post |-> [s \in syms |-> Unknown], seq |-> [s \in syms |-> 0],
     last |-> [s \in syms |-> 0], emission |-> "placeholder", calibrated |-> FALSE]

\* Ten tenths by largest remainder, the earlier state first.
Normalised(weights) ==
    LET whole == weights[1] + weights[2] + weights[3]
        Down(i) == (10 * weights[i]) \div whole
        Rest(i) == (10 * weights[i]) % whole
        left == 10 - (Down(1) + Down(2) + Down(3))
        Ahead(i) == {j \in States : Rest(j) > Rest(i) \/ (Rest(j) = Rest(i) /\ j < i)}
    IN  IF whole = 0 THEN Uniform
        ELSE [i \in States |-> Down(i) + IF Cardinality(Ahead(i)) < left THEN 1 ELSE 0]

\* The chance to stay, in hundredths, for the time since the last quote of
\* the symbol; a first quote takes the reference step.
StayFor(e, q) ==
    LET gap == q.at - e.last[q.sym]
    IN  IF e.last[q.sym] = 0 \/ gap = 1 THEN 80
        ELSE IF gap < 1 THEN 95 ELSE 64

PredictWithMatrix(prior, stay) ==
    [j \in States |->
        prior[j] * stay + ((10 - prior[j]) * (100 - stay)) \div 2]

\* A spread the state never shows has no likelihood at all.
EmissionLikelihood(emission, spread) ==
    IF emission = "placeholder"
    THEN IF spread = "tight" THEN <<5, 3, 1>> ELSE <<1, 3, 5>>
    ELSE IF spread = "tight" THEN <<9, 1, 0>> ELSE <<0, 1, 9>>

BayesUpdate(predicted, likelihoods) ==
    Normalised([j \in States |-> predicted[j] * likelihoods[j]])

\* A second call for the quote in hand returns what the first one stored.
Posterior(e, q) ==
    LET prior == IF e.post[q.sym] = Unknown THEN Uniform ELSE e.post[q.sym]
        predicted == PredictWithMatrix(prior, StayFor(e, q))
        updated == IF q.spread = "locked" THEN Normalised(predicted)
                   ELSE BayesUpdate(predicted, EmissionLikelihood(e.emission, q.spread))
    IN  IF e.seq[q.sym] = q.seq THEN e
        ELSE [e EXCEPT !.post[q.sym] = updated, !.seq[q.sym] = q.seq, !.last[q.sym] = q.at]

\* Fit the emissions on the tape's prefix; whatever was believed is dropped.
Calibrate(e, quotes) ==
    LET usable == {i \in DOMAIN quotes : quotes[i].spread # "locked"}
        syms == DOMAIN e.post
    IN  IF e.calibrated \/ quotes = <<>> \/ Cardinality(usable) < MinSamples THEN e
        ELSE [NewEngine(syms) EXCEPT !.emission = "fitted", !.calibrated = TRUE]

\* The kernel resets what it holds and leaves the engine out.
ResetEngineLeftOut(e) == e

\* The beliefs go, the fit stays.
ResetEngine(e) ==
    [NewEngine(DOMAIN e.post) EXCEPT !.emission = e.emission, !.calibrated = e.calibrated]

Checkpoint(e) ==
    [post |-> e.post, seq |-> e.seq, last |-> e.last,
     emission |-> IF e.calibrated THEN <<e.emission>> ELSE <<>>]

\* Fields are taken over; a checkpoint without a fit leaves the engine its own.
Restore(e, blob) ==
    LET beliefs == [e EXCEPT !.post = blob.post, !.seq = blob.seq, !.last = blob.last]
    IN  IF blob.emission = <<>> THEN beliefs
        ELSE [beliefs EXCEPT !.emission = blob.emission[1], !.calibrated = TRUE]

(***************************************************************************)
(* The detector.  It compares two announcements of one symbol and keeps    *)
(* the departures it has called and not yet released.                      *)
(***************************************************************************)
Dominant(post) == CHOOSE i \in States :
    /\ \A j \in States : post[j] <= post[i]
    /\ \A j \in 1 .. (i - 1) : post[j] < post[i]

\* The symbol is left out of the key.
RearmAnySymbol(prev, curr, suppressed, s) ==
    {k \in suppressed : ~(Dominant(prev) # k[2] /\ Dominant(curr) = k[2])
                        /\ curr[k[2]] < FloorTenths}

RearmSuppression(prev, curr, suppressed, s) ==
    LET redominant(x) == Dominant(prev) # x /\ Dominant(curr) = x
        recovered(x) == curr[x] >= FloorTenths
    IN  {k \in suppressed : k[1] = s => ~redominant(k[2]) /\ ~recovered(k[2])}

ResolveIncoming(curr, departing) ==
    LET best == {i \in States \ {departing} :
                    \A j \in States \ {departing} : curr[j] <= curr[i]}
    IN  IF Cardinality(best) = 1 THEN best ELSE {}

\* [spike |-> the departing state in a set or none, suppressed |-> ...]
Detect(prev, curr, suppressed, s) ==
    LET kept == RearmSuppression(prev, curr, suppressed, s)
        d == Dominant(prev)
        leaves == Dominant(curr) # d \/ curr[d] < FloorTenths
    IN  IF prev = Unknown THEN [spike |-> {}, suppressed |-> suppressed]
        ELSE IF curr[d] >= prev[d] \/ ~leaves \/ <<s, d>> \in kept
             THEN [spike |-> {}, suppressed |-> kept]
        ELSE [spike |-> {[departing |-> d, incoming |-> ResolveIncoming(curr, d)]},
              suppressed |-> kept \cup {<<s, d>>}]

(***************************************************************************)
(* The kernel and the process.  kernel = [last, suppressed, spike]: what   *)
(* was announced last of each symbol, the departures in force and the one  *)
(* just called.                                                            *)
(***************************************************************************)
NewKernel(syms) ==
    [last |-> [s \in syms |-> Unknown], suppressed |-> {}, spike |-> {}]

RegimeInit ==
    /\ tape \in RegimeTapes
    /\ engine = NewEngine(Names(tape)) /\ kernel = NewKernel(Names(tape))
    /\ store = <<>> /\ stage = "off" /\ pos = 0 /\ runs = 0 /\ traces = <<>>

\* Restore, then calibrate unless calibrated already, then start the session.
BootRegime ==
    /\ stage = "off" /\ runs < MaxRuns
    /\ engine' = Calibrate(IF store = <<>> THEN engine ELSE Restore(engine, store[Len(store)]), tape)
    /\ kernel' = [kernel EXCEPT !.last = NewKernel(Names(tape)).last, !.suppressed = {},
                                !.spike = {}]
    /\ stage' = "running" /\ pos' = 0 /\ runs' = runs + 1
    /\ traces' = Append(traces, <<>>)
    /\ UNCHANGED <<store, tape>>

TapeQuote(t, i) ==
    [sym |-> t[i].sym, spread |-> t[i].spread, seq |-> i,
     at |-> 1 + Books!SumOf([j \in 1 .. i |-> t[j].gap])]

UpdateRegime ==
    /\ stage = "running" /\ pos < Len(tape)
    /\ LET q == TapeQuote(tape, pos + 1)
           e == Posterior(engine, q)
           found == Detect(kernel.last[q.sym], e.post[q.sym], kernel.suppressed, q.sym)
       IN  /\ engine' = e
           /\ kernel' = [last |-> [kernel.last EXCEPT ![q.sym] = e.post[q.sym]],
                         suppressed |-> found.suppressed, spike |-> found.spike]
           /\ traces' = [traces EXCEPT ![runs] =
                             Append(@, [post |-> e.post[q.sym], spike |-> found.spike])]
    /\ pos' = pos + 1
    /\ UNCHANGED <<store, tape, stage, runs>>

\* The end of a run; an operator may reset without it.
ShutdownRegime ==
    /\ stage = "running"
    /\ stage' = "shutdown"
    /\ store' = Append(store, Checkpoint(engine))
    /\ UNCHANGED <<engine, kernel, tape, pos, runs, traces>>

\* The snapshot store is not among what a reset restores.
ResetRun ==
    /\ stage \in {"running", "shutdown"} /\ runs < MaxRuns
    /\ stage' = "off" /\ pos' = 0
    /\ engine' = ResetEngine(engine) /\ kernel' = NewKernel(Names(tape))
    /\ UNCHANGED <<store, tape, runs, traces>>

RegimeNext ==
    \/ BootRegime
    \/ UpdateRegime
    \/ ShutdownRegime
    \/ ResetRun

RegimeSpec == RegimeInit /\ [][RegimeNext]_regimeVars

-----------------------------------------------------------------------------
(***************************************************************************)
(* Properties                                                              *)
(***************************************************************************)
\* Announcements of the run at hand: i is the one before j for its symbol.
Follows(i, j) ==
    /\ i < j /\ tape[i].sym = tape[j].sym
    /\ \A m \in (i + 1) .. (j - 1) : tape[m].sym # tape[j].sym

Told(i) == traces[runs][i].post
Called(i, x) == \E spike \in traces[runs][i].spike : spike.departing = x

Departs(i, j, x) ==
    /\ Dominant(Told(i)) = x /\ Told(j)[x] < Told(i)[x]
    /\ Dominant(Told(j)) # x \/ Told(j)[x] < FloorTenths

\* A state comes back: it dominates again or climbs over the floor.
Returns(m, x) ==
    \/ Told(m)[x] >= FloorTenths
    \/ Dominant(Told(m)) = x /\ \E i \in 1 .. m : Follows(i, m) /\ Dominant(Told(i)) # x

BackBetween(k, j, x) ==
    \E m \in (k + 1) .. j : tape[m].sym = tape[j].sym /\ Returns(m, x)

\* Every departure of the dominant regime is called, and once: between two
\* calls the regime has come back, and a departure that is not called was
\* called before and the regime has not come back since.
DeparturesCalledOnce ==
    runs > 0 =>
    \A j \in 1 .. Len(traces[runs]), x \in States :
        /\ (\E i \in 1 .. j : Follows(i, j) /\ Departs(i, j, x))
           => \E k \in 1 .. j : tape[k].sym = tape[j].sym /\ Called(k, x)
                               /\ ~BackBetween(k, j, x)
        /\ \A k \in 1 .. (j - 1) :
              (tape[k].sym = tape[j].sym /\ Called(k, x) /\ Called(j, x)) => BackBetween(k, j, x)

\* Two runs announce the same, as far as both have got.
SameRun(one, two) ==
    \A i \in 1 .. Len(two) : i <= Len(one) => one[i] = two[i]

\* A run after a reset announces what a cold start does, as long as no run
\* before it left a checkpoint: a checkpoint survives the reset, and the next
\* boot restores it.
ResetReplaysRun ==
    \A n \in 1 .. runs : store = <<>> => SameRun(traces[1], traces[n])
=============================================================================
