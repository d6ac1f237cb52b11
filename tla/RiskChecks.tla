----------------------------- MODULE RiskChecks -----------------------------
(***************************************************************************)
(* The risk engine's verdicts: what a signal and an order meet before they *)
(* reach the router, first against the strategy's own budget and then      *)
(* against the platform's limits, and the sizing of a portfolio's legs.    *)
(*                                                                         *)
(* One symbol at a price of one, so that exposure is the absolute          *)
(* position; factors are whole percentages.  `env` is what the engine      *)
(* reads besides the books: equity and its high-water mark, the regime's   *)
(* scale (percent), the buying-power multiplier, and whether the pattern   *)
(* day trader floor or the session's hours suppress an entry.              *)
(***************************************************************************)
EXTENDS Planner, SequencesExt

CONSTANTS
    MaxPosition,        \* platform limit on a position
    GrossPct,           \* platform limit on exposure, percent of equity
    MaxDrawdownPct,     \* drawdown from the high-water mark that flattens
    ThresholdPct,       \* share of the exposure limit where scaling starts
    Budget              \* registered strategy -> [position, exposure]

ASSUME RiskAssumption ==
    /\ MaxPosition \in Nat /\ GrossPct \in Nat /\ MaxDrawdownPct \in Nat
    /\ ThresholdPct \in 0 .. 99
    /\ \A s \in DOMAIN Budget : Budget[s].position \in Nat /\ Budget[s].exposure \in Nat

Verdict(action, factor) == [action |-> action, factor |-> factor]
Allow == Verdict("ALLOW", 100)
Reject == Verdict("REJECT", 100)
ForceFlatten == Verdict("FORCE_FLATTEN", 100)

AdjustedMax(env) == (MaxPosition * env.scale) \div 100

DrawdownBreached(env) ==
    env.peak <= 0 \/ (env.peak - env.equity) * 100 >= MaxDrawdownPct * env.peak

\* What scaling leaves in the band below the exposure limit, a tenth at least.
BandFactor(env, exposure) ==
    LET room == (env.equity * GrossPct - exposure * 100) * 10000
        band == env.equity * GrossPct * (100 - ThresholdPct)
    IN  Larger(10, Smaller(100, room \div band))

CheckExposureAndDrawdown(env, exposure, grows) ==
    IF env.equity <= 0 \/ DrawdownBreached(env) THEN ForceFlatten
    ELSE IF grows /\ exposure * 100 >= env.equity * GrossPct THEN Reject
    ELSE IF grows /\ exposure * 10000 >= env.equity * GrossPct * ThresholdPct
         THEN Verdict("SCALE_DOWN", BandFactor(env, exposure))
    ELSE Allow

\* The platform's checks: of a signal on the position held, of an order on
\* the position it leads to.  `extra` is exposure earlier legs of the same
\* portfolio add.
PlatformSignal(dir, net, env) ==
    LET reduces == SignalReducesBook(net, dir)
    IN  IF Abs(net) >= AdjustedMax(env) /\ ~reduces THEN Reject
        ELSE CheckExposureAndDrawdown(env, Abs(net), ~reduces)

\* Three gates an order that opens or increases must pass: the day trader's
\* minimum equity, the session's hours, the buying power of the phase.
BelowMinEquity(net, signed, env) == OpensOrIncreases(net, signed) /\ env.pdt

OutsideSession(net, signed, env) == OpensOrIncreases(net, signed) /\ env.closed

ProspectiveExposure(net, signed, extra) == Abs(net + signed) + extra

ExceedsBuyingPower(net, signed, env, extra) ==
    /\ OpensOrIncreases(net, signed)
    /\ ProspectiveExposure(net, signed, extra) > env.equity * env.multiplier

PlatformOrder(net, signed, env, extra) ==
    LET exposure == ProspectiveExposure(net, signed, extra)
        suppressed == \/ BelowMinEquity(net, signed, env)
                      \/ OutsideSession(net, signed, env)
                      \/ ExceedsBuyingPower(net, signed, env, extra)
    IN  IF env.equity <= 0 THEN ForceFlatten
        ELSE IF suppressed \/ Abs(net + signed) > AdjustedMax(env) THEN Reject
        ELSE CheckExposureAndDrawdown(env, exposure, exposure > Abs(net))

(***************************************************************************)
(* The wrapper: a registered strategy answers for its own slice first.     *)
(* Orders of the kernel itself carry no registered id and pass it by.      *)
(***************************************************************************)
SliceLimit(s) == Smaller(Budget[s].position, MaxPosition)

CheckSignal(s, dir, slice, net, env) ==
    LET reduces == SignalReducesBook(slice, dir)
    IN  IF s \notin DOMAIN Budget THEN PlatformSignal(dir, net, env)
        ELSE IF ~reduces /\ (Abs(slice) >= SliceLimit(s) \/ Abs(slice) >= Budget[s].exposure)
             THEN Reject
        ELSE IF s \in env.drawnDown THEN Reject
        ELSE PlatformSignal(dir, net, env)

CheckOrder(s, signed, slice, net, env, extra) ==
    LET post == Abs(slice + signed)
    IN  IF s # "" /\ s \notin DOMAIN Budget THEN Reject
        ELSE IF s # "" /\ post > SliceLimit(s) THEN Reject
        ELSE IF s # "" /\ Abs(slice) >= Budget[s].exposure /\ post >= Abs(slice) THEN Reject
        ELSE PlatformOrder(net, signed, env, extra)

(***************************************************************************)
(* Sizes after scaling: to the nearest share, a half to the even one.      *)
(***************************************************************************)
RoundHalfEven(hundredths) ==
    LET down == hundredths \div 100
        rest == hundredths % 100
    IN  IF rest > 50 \/ (rest = 50 /\ down % 2 = 1) THEN down + 1 ELSE down

ComposeScaledQuantity(base, f, g) == RoundHalfEven(base * Smaller(f, g))

RoundHalfUp(hundredths) == (hundredths + 50) \div 100

RescaleLeg(delta, v) ==
    IF delta = 0 \/ v.action = "REJECT" THEN 0
    ELSE Sign(delta) * (IF v.action = "SCALE_DOWN" THEN RoundHalfUp(Abs(delta) * v.factor)
                        ELSE Abs(delta))

\* A portfolio's legs in symbol order: each is checked with the exposure the
\* ones before it add, a rejected leg is dropped, a flatten voids them all.
\* A leg is [target, net, slice]; the result is the signed quantity per leg.
SizeLeg(s, env, acc, leg) ==
    LET delta == leg.target - leg.net
        v == CheckOrder(s, delta, leg.slice, leg.net, env, acc.extra)
        size == RescaleLeg(delta, v)
    IN  [void |-> acc.void \/ (delta # 0 /\ v.action = "FORCE_FLATTEN"),
         extra |-> acc.extra + Abs(leg.net + size) - Abs(leg.net),
         sizes |-> Append(acc.sizes, size)]

BuildSizedIntentOrders(s, legs, env) ==
    FoldLeft(LAMBDA acc, leg : SizeLeg(s, env, acc, leg),
             [void |-> FALSE, extra |-> 0, sizes |-> << >>], legs)
=============================================================================
