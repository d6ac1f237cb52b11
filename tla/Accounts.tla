------------------------------ MODULE Accounts ------------------------------
(***************************************************************************)
(* The money of one symbol: the symbol-net position store, the store of    *)
(* each strategy, the lot ledger and the trade journal beside them, through*)
(* fills, fees and marks.  A fill goes to the strategy the attribution     *)
(* ledger names for its order, or is split over the slices it closes.      *)
(*                                                                         *)
(* Prices and averages are counted in fractions of a cent fine enough for  *)
(* the averages of the instances; fees in cents.                           *)
(***************************************************************************)
EXTENDS Integers, Sequences, FiniteSets, SequencesExt

Books == INSTANCE Positions

CONSTANTS
    Strategies,
    StrategyOrder,      \* their ids, sorted
    Deals,              \* what a fill may cost: [price, fee]
    Quotes,             \* [bid, ask]; no bid is 0
    MaxHolding,         \* bound: shares a store may hold
    MaxEntries          \* bound: entries of a behaviour

ASSUME AccountsAssumption ==
    /\ StrategyOrder \in Seq(Strategies) /\ Strategies \subseteq Range(StrategyOrder)
    /\ \A i, j \in DOMAIN StrategyOrder : StrategyOrder[i] = StrategyOrder[j] => i = j
    /\ Deals \subseteq [price : Int, fee : Int] /\ Quotes \subseteq [bid : Int, ask : Int]
    /\ MaxHolding \in Nat /\ MaxEntries \in Nat

VARIABLES
    net,        \* _positions: the symbol-net store
    slices,     \* _strategy_positions: one store per strategy
    lots,       \* _lot_ledger: [open, realized]
    orders,     \* the open order of a strategy, with its attribution record
    journal,    \* _trade_journal: what its records add up to per strategy
    unfilled,   \* fees of orders that ended without a fill (history)
    stray,      \* such fees that no slice was charged (history)
    cash,       \* what the fills have brought in (history)
    booked      \* entries so far (history)

accountsVars == <<net, slices, lots, orders, journal, unfilled, stray, cash, booked>>

Fraction == 216
NewStore == [qty |-> 0, avg |-> 0, realized |-> 0, unrealized |-> 0, fees |-> 0, mark |-> <<>>]
Size(n) == IF n < 0 THEN -n ELSE n
Sgn(n) == IF n > 0 THEN 1 ELSE IF n < 0 THEN -1 ELSE 0

\* Longs are liquidated at the bid, shorts at the ask; the mid stands in for
\* a bid that is not there.
Liquidation(quote, long) ==
    IF ~long THEN quote.ask * Fraction
    ELSE IF quote.bid > 0 THEN quote.bid * Fraction ELSE (quote.ask * Fraction) \div 2

_recompute_unrealized(p) ==
    [p EXCEPT !.unrealized =
        IF p.qty = 0 \/ p.mark = <<>> THEN 0
        ELSE (Liquidation(p.mark[1], p.qty > 0) - p.avg) * p.qty]

\* A fill through zero keeps the average of the side it left.
AverageAfterFlip(p, delta, price) ==
    IF p.qty = 0 THEN price
    ELSE IF p.qty + delta = 0 THEN 0
    ELSE IF Sgn(p.qty) # Sgn(delta) THEN p.avg
    ELSE (p.avg * Size(p.qty) + price * Size(delta)) \div Size(p.qty + delta)

AverageAfter(p, delta, price) ==
    IF p.qty + delta = 0 THEN 0
    ELSE IF Sgn(p.qty) # Sgn(p.qty + delta) THEN price
    ELSE IF Sgn(p.qty) # Sgn(delta) THEN p.avg
    ELSE (p.avg * Size(p.qty) + price * Size(delta)) \div Size(p.qty + delta)

\* MemoryPositionStore.update: profit is realized on what the fill closes.
Update_(p, delta, price, fee) ==
    LET closed == IF Sgn(p.qty) * Sgn(delta) < 0 THEN Min({Size(p.qty), Size(delta)}) ELSE 0
    IN  _recompute_unrealized(
            [p EXCEPT !.qty = @ + delta, !.avg = AverageAfter(p, delta, price),
                      !.realized = @ + closed * Sgn(p.qty) * (price - p.avg), !.fees = @ + fee])

update_mark(p, quote) == _recompute_unrealized([p EXCEPT !.mark = <<quote>>])
debit_fees(p, fee) == [p EXCEPT !.fees = @ + fee]

\* LotLedger.apply_fill: first in, first out.  An order to reduce takes what is
\* `left` of it from the lot in front; a lot that is used up is dropped.
MatchLot(price, st, lot) ==
    LET matched == Min({Size(lot.qty), st.left})
        over == Sgn(lot.qty) * (Size(lot.qty) - matched)
    IN  [left |-> st.left - matched,
         realized |-> st.realized + matched * Sgn(lot.qty) * (price - lot.price),
         open |-> IF over = 0 THEN st.open ELSE Append(st.open, [lot EXCEPT !.qty = over])]

apply_fill(book, signed, price) ==
    LET held == Books!SumOf([i \in DOMAIN book.open |-> book.open[i].qty])
        end == FoldLeft(LAMBDA st, lot : MatchLot(price, st, lot),
                        [left |-> Size(signed), realized |-> book.realized, open |-> <<>>], book.open)
    IN  IF held = 0 \/ Sgn(held) = Sgn(signed)
        THEN [book EXCEPT !.open = Append(@, [qty |-> signed, price |-> price])]
        ELSE [open |-> IF end.left = 0 THEN end.open
                       ELSE Append(end.open, [qty |-> Sgn(signed) * end.left, price |-> price]),
              realized |-> end.realized]

\* Cents, to the even one; what rounding leaves goes to the last share.
split_fees(total, shares) ==
    LET whole == Books!SumOf(shares)
        rounded(n) == LET q == (total * n) \div whole
                          r == 2 * ((total * n) % whole)
                      IN  IF r > whole \/ (r = whole /\ q % 2 = 1) THEN q + 1 ELSE q
        lastPaid == Max({i \in DOMAIN shares : shares[i] > 0})
        others == Books!SumOf([i \in DOMAIN shares |->
                                  IF i = lastPaid THEN 0 ELSE rounded(shares[i])])
    IN  [i \in DOMAIN shares |-> IF i = lastPaid THEN total - others ELSE rounded(shares[i])]

\* FillAttributionLedger.allocate_fill: the cumulative fill is split afresh, so
\* that partial fills come to what one fill would.
AllocateFill(record, filled) ==
    LET cum == Books!LargestRemainderSplit(Books!SumOf(record.cum) + filled, record.shares)
    IN  [record |-> [record EXCEPT !.cum = cum],
         allocations |-> [i \in DOMAIN cum |-> cum[i] - record.cum[i]]]

\* _trade_journal_legs: a record for every slice a fill reached.
TradeJournalLegs(legs) ==
    [s \in Strategies |->
        IF s \notin DOMAIN legs THEN journal[s]
        ELSE [qty |-> journal[s].qty + legs[s].qty,
              realized |-> journal[s].realized + legs[s].realized,
              fees |-> journal[s].fees + legs[s].fees]]

\* _distribute_fill_to_strategies: over the slices the fill can close, or else
\* over all that hold the symbol.
Distributed(signed) ==
    [of |-> StrategyOrder, allocations |-> Books!FillShares(slices, StrategyOrder, signed)]

-----------------------------------------------------------------------------
AccountsInit ==
    /\ net = NewStore /\ slices = [s \in Strategies |-> NewStore]
    /\ lots = [open |-> <<>>, realized |-> 0]
    /\ orders = [s \in Strategies |-> <<>>]
    /\ journal = [s \in Strategies |-> [qty |-> 0, realized |-> 0, fees |-> 0]]
    /\ unfilled = [s \in Strategies |-> 0] /\ stray = 0 /\ cash = 0 /\ booked = 0

\* _reconcile_fills: the symbol's books, then the strategies' by the legs
\* [of, allocations].
Book(signed, price, fee, legs) ==
    LET fees == split_fees(fee, legs.allocations)
        given == {i \in DOMAIN legs.of : legs.allocations[i] # 0}
        leg(s) == CHOOSE i \in given : legs.of[i] = s
        has(s) == \E i \in given : legs.of[i] = s
        after == [s \in Strategies |->
                     IF ~has(s) THEN slices[s]
                     ELSE Update_(slices[s], Sgn(signed) * legs.allocations[leg(s)],
                                  price * Fraction, fees[leg(s)])]
    IN  /\ net' = Update_(net, signed, price * Fraction, fee)
        /\ lots' = apply_fill(lots, signed, price * Fraction)
        /\ slices' = after
        /\ journal' = TradeJournalLegs([s \in {t \in Strategies : has(t)} |->
               [qty |-> Sgn(signed) * legs.allocations[leg(s)], fees |-> fees[leg(s)],
                realized |-> after[s].realized - slices[s].realized]])
        /\ cash' = cash - signed * price * Fraction
        /\ UNCHANGED <<unfilled, stray>>

\* _record_fill_attribution: an order of one strategy is that strategy's.
PlaceOrder(s) ==
    /\ orders[s] = <<>>
    /\ \E signed \in {-2, -1, 1, 2} :
          orders' = [orders EXCEPT ![s] =
              <<[sign |-> Sgn(signed), left |-> Size(signed),
                 record |-> [of |-> <<s>>, shares |-> <<1>>, cum |-> <<0>>]]>>]
    /\ UNCHANGED <<net, slices, lots, journal, unfilled, stray, cash>>

\* A fill of it, the last one or not; the last one forgets the record.
BookOwnFill(s) ==
    /\ orders[s] # <<>>
    /\ \E n \in 1 .. orders[s][1].left, deal \in Deals :
        LET o == orders[s][1]
            split == AllocateFill(o.record, n)
        IN  /\ Size(net.qty + o.sign * n) <= MaxHolding
            /\ Size(slices[s].qty + o.sign * n) <= MaxHolding
            /\ Book(o.sign * n, deal.price, deal.fee,
                    [of |-> o.record.of, allocations |-> split.allocations])
            /\ orders' = [orders EXCEPT ![s] =
                   IF n = o.left THEN <<>>
                   ELSE <<[o EXCEPT !.left = @ - n, !.record = split.record]>>]

\* A fill of an exit of the symbol, whoever holds it.
BookForcedFill ==
    \E n \in 1 .. Size(net.qty), deal \in Deals :
        LET signed == -Sgn(net.qty) * n
        IN  /\ Book(signed, deal.price, deal.fee, Distributed(signed))
            /\ UNCHANGED orders

\* The order is cancelled or expires, charged all the same: the symbol, and the
\* slice if the order is still active and names its strategy.  The journal takes
\* no record of it; the ledger's record stays, under an id not used again.
BookCancelFees(s) ==
    /\ orders[s] # <<>>
    /\ orders' = [orders EXCEPT ![s] = <<>>]
    /\ \E deal \in Deals, known \in BOOLEAN :
        /\ net' = debit_fees(net, deal.fee)
        /\ IF known
           THEN /\ slices' = [slices EXCEPT ![s] = debit_fees(@, deal.fee)]
                /\ unfilled' = [unfilled EXCEPT ![s] = @ + deal.fee]
                /\ UNCHANGED stray
           ELSE stray' = stray + deal.fee /\ UNCHANGED <<slices, unfilled>>
    /\ UNCHANGED <<lots, journal, cash>>

\* Every tick marks the stores that exist: a strategy has one once it trades.
MarkBooks ==
    \E quote \in Quotes :
        /\ net' = update_mark(net, quote)
        /\ slices' = [s \in Strategies |->
                         IF [slices[s] EXCEPT !.mark = <<>>] = NewStore THEN slices[s]
                         ELSE update_mark(slices[s], quote)]
        /\ UNCHANGED <<lots, orders, journal, unfilled, stray, cash>>

AccountsNext ==
    \/ /\ booked < MaxEntries /\ booked' = booked + 1
       /\ \/ \E s \in Strategies : BookOwnFill(s) \/ BookCancelFees(s)
          \/ BookForcedFill
          \/ MarkBooks
    \/ /\ booked < MaxEntries /\ UNCHANGED booked
       /\ \E s \in Strategies : PlaceOrder(s)

AccountsSpec == AccountsInit /\ [][AccountsNext]_accountsVars

-----------------------------------------------------------------------------
\* Whatever is traded next, the average it makes divides: the quotients of the
\* code are Decimals, of 28 digits.
Divides(p, delta, price) ==
    Sgn(p.qty) = Sgn(delta) /\ Size(p.qty + delta) <= MaxHolding =>
        (p.avg * Size(p.qty) + price * Size(delta)) % Size(p.qty + delta) = 0
AveragesDivide ==
    \A p \in {net} \cup {slices[s] : s \in Strategies}, n \in 1 .. MaxHolding, deal \in Deals :
        Divides(p, n, deal.price * Fraction) /\ Divides(p, -n, deal.price * Fraction)

TotalOf(field) == Books!SumOf([i \in DOMAIN StrategyOrder |-> slices[StrategyOrder[i]][field]])

\* What a store has paid for what it holds, less what it has earned.
Invested(p) == p.qty * p.avg - p.realized

\* First in first out: what the lots have earned and what they still hold come
\* to the cash, their shares to the symbol's and the slices' fees to its fees,
\* but for what an order was charged that the kernel no longer knew.
LotsKeepMoney ==
    /\ Books!SumOf([i \in DOMAIN lots.open |-> lots.open[i].qty * lots.open[i].price])
       - lots.realized = -cash
    /\ Books!SumOf([i \in DOMAIN lots.open |-> lots.open[i].qty]) = net.qty
    /\ TotalOf("qty") = net.qty /\ TotalOf("fees") + stray = net.fees

\* At average cost: every fill is accounted for in the symbol's book and in the
\* strategies', in what was earned and what is still held.
MoneyIsKept ==
    /\ Invested(net) = -cash
    /\ Books!SumOf([i \in DOMAIN StrategyOrder |-> Invested(slices[StrategyOrder[i]])]) = -cash

Longs == Books!SumOf([i \in DOMAIN StrategyOrder |-> Max({0, slices[StrategyOrder[i]].qty})])
Shorts == Longs - net.qty

\* Marked alike, the strategies are worth what the symbol is, less the spread
\* on the shares they hold against each other.
EquityAgrees ==
    (net.mark # <<>> /\ \A s \in Strategies : slices[s].qty # 0 => slices[s].mark = net.mark) =>
        TotalOf("realized") + TotalOf("unrealized")
        = net.realized + net.unrealized
          - Min({Longs, Shorts}) * (Liquidation(net.mark[1], FALSE) - Liquidation(net.mark[1], TRUE))

\* The journal attributes to a strategy what its slice did, fee for fee but for
\* the fees of orders that never filled.
JournalAgrees ==
    \A s \in Strategies :
        /\ journal[s].qty = slices[s].qty
        /\ journal[s].realized = slices[s].realized
        /\ journal[s].fees + unfilled[s] = slices[s].fees

\* Whoever trades, in however many fills, however one is split and whichever
\* way it takes a position, the symbol's book, the strategies' books, the lots
\* and the journal tell the same story: no profit, cost or fee is made up or
\* lost between them (_reconcile_fills).
AccountsBalance == LotsKeepMoney /\ MoneyIsKept /\ EquityAgrees /\ JournalAgrees
=============================================================================
