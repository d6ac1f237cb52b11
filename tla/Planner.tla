------------------------------ MODULE Planner ------------------------------
(***************************************************************************)
(* What a standing signal asks of the book: the planner that turns a       *)
(* desired signed position into child orders, the older translator it has  *)
(* to agree with, the projection of a plan onto an order intent, and the   *)
(* gates that read an order by what it does to the position.               *)
(*                                                                         *)
(* Quantities are signed integers, a direction is 1 (LONG), -1 (SHORT) or  *)
(* 0 (FLAT).  The module has no state: every operator is one the kernel    *)
(* calls while it handles a tick (module Book).                            *)
(***************************************************************************)
EXTENDS Integers, Sequences

Directions == {-1, 0, 1}
Sides == {"BUY", "SELL"}

Abs(x) == IF x < 0 THEN -x ELSE x
Larger(x, y) == IF x < y THEN y ELSE x
Smaller(x, y) == IF x < y THEN x ELSE y
Sign(x) == IF x > 0 THEN 1 ELSE IF x < 0 THEN -1 ELSE 0

SideOf(x) == IF x > 0 THEN "BUY" ELSE "SELL"
Signed(side, quantity) == IF side = "BUY" THEN quantity ELSE -quantity

(***************************************************************************)
(* The translator: a matrix of signal direction by position.               *)
(***************************************************************************)
OrderIntent(intent, target, current) ==
    [intent |-> intent, target |-> target, current |-> current]

HandleFlat(qty) ==
    IF qty = 0 THEN OrderIntent("NO_ACTION", 0, qty)
    ELSE OrderIntent("EXIT", Abs(qty), qty)

HandleLong(qty, tgt) ==
    IF qty < 0 THEN OrderIntent("REVERSE_SHORT_TO_LONG", Abs(qty) + tgt, qty)
    ELSE IF qty >= tgt THEN OrderIntent("NO_ACTION", 0, qty)
    ELSE IF qty > 0 THEN OrderIntent("SCALE_UP", tgt - qty, qty)
    ELSE OrderIntent("ENTRY_LONG", tgt, qty)

HandleShort(qty, tgt) ==
    IF qty > 0 THEN OrderIntent("REVERSE_LONG_TO_SHORT", qty + tgt, qty)
    ELSE IF qty <= -tgt THEN OrderIntent("NO_ACTION", 0, qty)
    ELSE IF qty < 0 THEN OrderIntent("SCALE_UP", tgt - Abs(qty), qty)
    ELSE OrderIntent("ENTRY_SHORT", tgt, qty)

Translate(dir, qty, tgt) ==
    IF dir = 0 THEN HandleFlat(qty)
    ELSE IF dir = 1 THEN HandleLong(qty, tgt)
    ELSE HandleShort(qty, tgt)

(***************************************************************************)
(* The planner: a plan is a sequence of legs.                              *)
(***************************************************************************)
Leg(name, side, quantity, style) ==
    [leg |-> name, side |-> side, quantity |-> quantity, style |-> style]

DesiredFromSignal(dir, tgt) == [qty |-> dir * tgt, dir |-> dir]

Intended(desired) == IF desired.dir # 0 THEN desired.dir ELSE Sign(desired.qty)

\* Only a directional target may not shrink what is held on its own side.
Effective(desired, cur) ==
    IF Intended(desired) > 0 THEN Larger(cur, Abs(desired.qty))
    ELSE IF Intended(desired) < 0 THEN Smaller(cur, -Abs(desired.qty))
    ELSE 0

ReversePlan(eff, cur) ==
    << Leg("REVERSE_EXIT", SideOf(eff), Abs(cur), "MARKET"),
       Leg("REVERSE_ENTRY", SideOf(eff), Abs(eff), "PASSIVE") >>

LegacyPlan(desired, cur) ==
    LET eff == Effective(desired, cur)
    IN  IF eff = cur THEN << >>
        ELSE IF Sign(cur) * Sign(eff) < 0 THEN ReversePlan(eff, cur)
        ELSE IF eff = 0 THEN << Leg("EXIT", SideOf(-cur), Abs(cur), "MARKET") >>
        ELSE << Leg(IF cur = 0 THEN "ENTRY" ELSE "SCALE_UP",
                    SideOf(eff - cur), Abs(eff - cur), "PASSIVE") >>

\* A same-direction shrink: held below the churn threshold (a tenth of the
\* position, rounded up, and never less than one share) or while the edge
\* still pays the churn; otherwise one resting order for the excess.
TrimDivisor == 10

TrimThreshold(cur) == Larger(1, (Abs(cur) + TrimDivisor - 1) \div TrimDivisor)

Shrinks(desired, cur) ==
    /\ Intended(desired) # 0
    /\ Sign(cur) = Intended(desired)
    /\ Abs(desired.qty) < Abs(cur)

TargetPlan(desired, cur, edgePaysChurn, urgencyExec) ==
    LET excess == Abs(cur) - Abs(desired.qty)
    IN  IF ~Shrinks(desired, cur) THEN LegacyPlan(desired, cur)
        ELSE IF excess < TrimThreshold(cur) \/ edgePaysChurn THEN << >>
        ELSE << Leg("TRIM", SideOf(-cur), excess,
                    IF urgencyExec THEN "PASSIVE" ELSE "MARKET") >>

TotalQuantity(plan) ==
    IF Len(plan) = 0 THEN 0
    ELSE IF Len(plan) = 1 THEN plan[1].quantity
    ELSE plan[1].quantity + plan[2].quantity

\* The plan named as an intent, which risk and routing still work from: an
\* exit asked for by a directional signal keeps a reversal's name, a trim
\* goes by the name of an exit.
IntentFromPlan(plan, dir, cur) ==
    LET reverse == IF cur > 0 THEN "REVERSE_LONG_TO_SHORT" ELSE "REVERSE_SHORT_TO_LONG"
        name == IF plan = << >> THEN "NO_ACTION"
                ELSE IF plan[1].leg = "REVERSE_EXIT" THEN reverse
                ELSE IF plan[1].leg = "EXIT" THEN IF dir = 0 THEN "EXIT" ELSE reverse
                ELSE IF plan[1].leg = "SCALE_UP" THEN "SCALE_UP"
                ELSE IF plan[1].leg = "TRIM" THEN "EXIT"
                ELSE IF plan[1].side = "BUY" THEN "ENTRY_LONG" ELSE "ENTRY_SHORT"
    IN  OrderIntent(name, TotalQuantity(plan), cur)

PlanForSignal(dir, cur, tgt, edgePaysChurn, urgencyExec) ==
    TargetPlan(DesiredFromSignal(dir, tgt), cur, edgePaysChurn, urgencyExec)

(***************************************************************************)
(* What an order does to the book, read from the intent.                   *)
(***************************************************************************)
SideForIntent(i) ==
    IF i.intent \in {"ENTRY_LONG", "REVERSE_SHORT_TO_LONG"} THEN "BUY"
    ELSE IF i.intent \in {"ENTRY_SHORT", "REVERSE_LONG_TO_SHORT"} THEN "SELL"
    ELSE IF i.intent = "EXIT" THEN SideOf(-i.current)
    ELSE IF i.current >= 0 THEN "BUY" ELSE "SELL"

PostQuantity(current, signed) == current + signed

OpensOrIncreases(current, signed) ==
    \/ current * PostQuantity(current, signed) < 0
    \/ Abs(PostQuantity(current, signed)) > Abs(current)

OpensOrIncreasesShort(current, signed) ==
    PostQuantity(current, signed) < Smaller(current, 0)

IntentDelta(i) == Signed(SideForIntent(i), i.target)

BlocksForMinSize(quantity, minShares, exempt) == ~exempt /\ quantity < minShares

\* The gates an order meets, each conditioned on what it adds.  `env` is the
\* session's state: halt blackout, flatten window, SSR, locate refused.
AdmissionBlocks(current, signed, env) ==
    \/ OpensOrIncreases(current, signed) /\ (env.blackout \/ env.flattenWindow)
    \/ OpensOrIncreasesShort(current, signed) /\ (env.ssr \/ env.noLocate)

(***************************************************************************)
(* Whether a signal may act on a shared book: an exit of one strategy      *)
(* needs that strategy to hold what it closes.                             *)
(***************************************************************************)
SignalReducesBook(qty, dir) == qty # 0 /\ (dir = 0 \/ Sign(qty) = -dir)

Actionable(dir, gateOff, strategyQty, netQty, filledBefore) ==
    IF dir = 0
    THEN ~(gateOff /\ strategyQty = 0 /\ netQty # 0 /\ ~filledBefore)
    ELSE SignalReducesBook(netQty, dir) => SignalReducesBook(strategyQty, dir)
=============================================================================
