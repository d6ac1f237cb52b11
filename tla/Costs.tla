------------------------------- MODULE Costs -------------------------------
(***************************************************************************)
(* What an entry is expected to cost, what the edge gate and the execution *)
(* policy make of it, and what the simulated fills then charge: the cost   *)
(* model, the depth-aware estimate, the gate's round trip and the acks of  *)
(* an aggressive fill.  One behaviour is one trade in one book.            *)
(*                                                                         *)
(* Money is counted in thousandths of a cent, basis points in tenths.      *)
(* Divisions round down, by less than the cent a fee is rounded to.  The   *)
(* square-root impact term, off by default, is left out.                   *)
(***************************************************************************)
EXTENDS Integers, Sequences, FiniteSetsExt, Functions

CONSTANTS
    Tariffs,            \* [floor, stress, htb, split, within]: the cost settings
    NBBOs,              \* [bid, ask, bsz, asz], prices in cents
    ShareCounts,        \* sizes an entry may have
    Edges               \* edge estimates, in tenths of a basis point

VARIABLES
    trade,              \* [tariff, book, side, qty, edge]
    deal,
    expected,           \* the round trip the gate priced
    charged,            \* fees and slippage against mid, so far
    stopped             \* the exit was a stop

costVars == <<trade, deal, expected, charged, stopped>>

Cent == 1000
Commission == 350
TakerExchange == 300
MinCommission == 35 * Cent
Taf == 17
TafMax == 830 * Cent
SellRegulatory == 5
LevelAdverse == 20
ThroughAdverse == 50
NonFillTenths == 3
MaxImpactHalfSpreads == 10
StopSlippage == 2
StopDepletion == 2

Bps(money, tenths) == ((money \div 500) * tenths) \div 200
Cents(money) == ((money + Cent \div 2) \div Cent) * Cent
Other(side) == IF side = "BUY" THEN "SELL" ELSE "BUY"
DepthFor(side, book) == IF side = "BUY" THEN book.asz ELSE book.bsz
MidOf(book) == (book.bid + book.ask) * 500
HalfSpread(book) == (book.ask - book.bid) * 500

\* DefaultCostModel.compute: total_fees before they are rounded.
compute(t, side, qty, price, half, fill, short) ==
    LET taker == fill = "TAKER"
        notional == price * qty
        spread == Max({half * qty, Bps(notional, t.floor)}) * t.stress
        shares == Commission * t.stress * qty
        exchange == IF taker THEN TakerExchange * t.stress * qty ELSE 0
        ceiling == notional \div 100
        commission == IF t.split THEN Min({Max({shares, MinCommission}), ceiling}) + exchange
                      ELSE Min({Max({shares + exchange, MinCommission}), ceiling})
        adverse == Bps(notional, IF fill = "THROUGH" THEN ThroughAdverse ELSE LevelAdverse)
        sold == Bps(notional, SellRegulatory) * t.stress + Min({Taf * t.stress * qty, TafMax})
        borrow == (Bps(notional, 10 * t.htb) * t.stress) \div 360
    IN  IF qty <= 0 THEN 0
        ELSE commission + (IF taker THEN spread ELSE adverse * t.stress)
             + (IF side = "SELL" THEN sold ELSE 0)
             + (IF side = "SELL" /\ short THEN borrow ELSE 0)

\* What a share within the displayed size pays on top, per share.
_within_l1_premium(t, qty, depth, half) ==
    (t.within * Min({qty, depth}) * half) \div (10 * depth)

\* Half a half-spread for every displayed size the rest comes to.
Impact(qty, depth, half) ==
    Min({((qty - depth) * half) \div (2 * depth), MaxImpactHalfSpreads * half})

Unpriced == -1

\* The whole order is priced at the touch.
EstimateAtTouch(t, side, qty, book, short) ==
    IF qty <= 0 \/ DepthFor(side, book) <= 0 THEN Unpriced
    ELSE compute(t, side, qty, MidOf(book), HalfSpread(book), "TAKER", short)

estimate_aggressive_taker_cost(t, side, qty, book, short) ==
    LET mid == MidOf(book)
        half == HalfSpread(book)
        depth == DepthFor(side, book)
        premium == _within_l1_premium(t, qty, depth, half) * qty
        leg(n) == compute(t, side, n, mid, half, "TAKER", short)
    IN  IF qty <= 0 \/ depth <= 0 THEN Unpriced
        ELSE IF qty <= depth
        THEN IF premium = 0 THEN leg(qty) ELSE Cents(leg(qty)) + premium
        ELSE Cents(leg(depth)) + Cents(leg(qty - depth))
             + Impact(qty, depth, half) * (qty - depth) + premium

\* An entry that may rest and an exit that crosses; the borrow is charged once.
estimate_round_trip_cost(t, side, qty, book, taker) ==
    LET entry == IF taker
                 THEN estimate_aggressive_taker_cost(t, side, qty, book, side = "SELL")
                 ELSE compute(t, side, qty, MidOf(book), HalfSpread(book), "LEVEL", side = "SELL")
        exit == estimate_aggressive_taker_cost(t, Other(side), qty, book, FALSE)
    IN  IF Unpriced \in {entry, exit} THEN Unpriced ELSE entry + exit

\* The policy rests when resting, less its bias and plus the edge it may
\* miss, is cheaper.
decide(t, side, qty, book, edge, forced) ==
    LET notional == MidOf(book) * qty
        passive == compute(t, side, qty, MidOf(book), 0, "LEVEL", side = "SELL")
                   + (Bps(notional, edge) * NonFillTenths) \div 10
        aggressive == estimate_aggressive_taker_cost(t, side, qty, book, side = "SELL")
    IN  IF forced \/ qty <= 0 THEN "aggressive"
        ELSE IF aggressive = Unpriced \/ passive < aggressive THEN "passive" ELSE "aggressive"

\* On the penny grid, never in the taker's favour.
snap_fill_price(side, price) ==
    IF side = "BUY" THEN ((price + Cent - 1) \div Cent) * Cent ELSE (price \div Cent) * Cent

Worse(side, cross, premium) ==
    IF premium <= 0 THEN cross
    ELSE IF side = "BUY" THEN cross + premium ELSE Max({cross - premium, Cent})

\* The acks of an aggressive fill.  The half-spread is in the price; a stop
\* finds less depth and pays for a wider spread.
append_market_fill_acks(t, side, qty, book, short, stop) ==
    LET half == HalfSpread(book)
        cross == (IF side = "BUY" THEN book.ask ELSE book.bid) * Cent
        shown == DepthFor(side, book)
        depth == IF stop THEN Max({1, shown \div StopDepletion}) ELSE shown
        fee_half == IF stop THEN half * (StopSlippage - 1) ELSE 0
        premium == _within_l1_premium(t, qty, depth, half)
        ack(n, extra) ==
            LET price == snap_fill_price(side, Worse(side, cross, premium + extra))
            IN  [qty |-> n, price |-> price,
                 fees |-> Cents(compute(t, side, n, price, fee_half, "TAKER", short))]
    IN  IF qty > depth
        THEN <<ack(depth, 0), ack(qty - depth, Impact(qty, depth, half))>>
        ELSE <<ack(qty, 0)>>

\* What the acks come to against the mid the trade was decided at.
Charged(acks, side, mid) ==
    FoldFunction(+, 0, [i \in DOMAIN acks |->
        acks[i].fees + acks[i].qty * (IF side = "BUY" THEN acks[i].price - mid
                                      ELSE mid - acks[i].price)])

-----------------------------------------------------------------------------
Fills(side, short, stop) ==
    append_market_fill_acks(trade.tariff, side, trade.qty, trade.book, short, stop)

Trades ==
    [tariff : Tariffs, book : NBBOs, side : {"BUY", "SELL"}, qty : ShareCounts, edge : Edges]

CostInit ==
    /\ trade \in Trades
    /\ deal = "signal" /\ expected = Unpriced /\ charged = 0 /\ stopped = FALSE

Clears(trip) ==
    trip # Unpriced /\ Bps(MidOf(trade.book) * trade.qty, 2 * trade.edge) >= trip

\* The B4 gate prices the trip the policy's route would make.  A resting
\* entry fills, if at all, later and elsewhere: it is not followed.
Gated(route) ==
    /\ expected' = estimate_round_trip_cost(trade.tariff, trade.side, trade.qty, trade.book,
                                            route = "aggressive")
    /\ deal' = IF ~Clears(expected') THEN "vetoed"
                ELSE IF route = "passive" THEN "resting" ELSE "admitted"

Gate ==
    /\ deal = "signal"
    /\ \E forced \in BOOLEAN :
          Gated(decide(trade.tariff, trade.side, trade.qty, trade.book, trade.edge, forced))
    /\ UNCHANGED <<trade, charged, stopped>>

Enter ==
    /\ deal = "admitted"
    /\ charged' = Charged(Fills(trade.side, trade.side = "SELL", FALSE), trade.side, MidOf(trade.book))
    /\ deal' = "held"
    /\ UNCHANGED <<trade, expected, stopped>>

Exit ==
    /\ deal = "held"
    /\ stopped' \in BOOLEAN
    /\ charged' = charged + Charged(Fills(Other(trade.side), FALSE, stopped'),
                                    Other(trade.side), MidOf(trade.book))
    /\ deal' = "flat"
    /\ UNCHANGED <<trade, expected>>

CostNext == Gate \/ Enter \/ Exit

CostSpec == CostInit /\ [][CostNext]_costVars

-----------------------------------------------------------------------------
\* A trade that was let in because its edge pays for its round trip is not
\* charged more for it by the fills, the book unchanged, than was estimated --
\* up to the rounding of the fees, the tick an excess share is snapped by, and
\* the spread floor, which the fills charge beside the half-spread.
Excess(side) == Max({0, trade.qty - DepthFor(side, trade.book)})
Slack ==
    4 * Cent
    + Cent * (Excess("BUY") + Excess("SELL") + (IF trade.tariff.within > 0 THEN 2 * trade.qty ELSE 0))
    + 2 * trade.tariff.stress * Bps(trade.book.ask * Cent * trade.qty, trade.tariff.floor)
EstimateCoversFills ==
    (deal = "flat" /\ ~stopped) => charged <= expected + Slack
=============================================================================
