------------------------------ MODULE Sensors ------------------------------
(***************************************************************************)
(* The layer-1 sensors: each takes one market event at a time and keeps    *)
(* just enough to answer for a trailing window -- running sums, running    *)
(* moments, a filling bucket.  One behaviour feeds one sensor; prints is   *)
(* all it was fed, held is all it kept, and what it emits must be what its *)
(* definition gives on prints.                                             *)
(*                                                                         *)
(* Arithmetic is exact: means are counted in sixtieths, decays halve and   *)
(* are counted in 4096ths, and a log-return is the difference of two mid   *)
(* levels.                                                                 *)
(***************************************************************************)
EXTENDS Integers, Sequences, FiniteSets, FiniteSetsExt, Functions, TLC

CONSTANTS
    QuotesOf, TradesOf, \* the events a sensor may be fed, without their time
    Gaps,               \* time between two events
    MaxPrints,          \* bound: events of a behaviour
    Window,             \* window_seconds
    MaxGap,             \* max_gap_seconds
    WarmAfter,          \* observations a warm reading needs
    BufferSize,         \* quotes a baseline holds
    BucketVolume,       \* shares of a VPIN bucket
    WindowBuckets,      \* buckets VPIN averages
    DriftFloor,         \* of the break score, in sixtieths
    BarLengths,         \* horizons_seconds of the drift-diffusion grids
    Calendar            \* scheduled windows in order, [id, from, to, whose, prior]

VARIABLES sensor, prints, held, reading

sensorVars == <<sensor, prints, held, reading>>

S == 60
Whole == 4096
Silent == <<>>
Total(w, f(_)) == FoldFunction(+, 0, [i \in DOMAIN w |-> f(w[i])])
ValidNBBO(q) == q.bid > 0 /\ q.ask > 0 /\ q.bid <= q.ask
Mid(q) == q.bid + q.ask

TickSide(last, side, price) ==
    IF last = 0 \/ price = last THEN side ELSE IF price > last THEN 1 ELSE -1

(***************************************************************************)
(* A window loses its front entries older than the cutoff; the sums lose   *)
(* what the entries brought.                                               *)
(***************************************************************************)
Oldest(w, cutoff) ==
    Cardinality({i \in DOMAIN w : \A j \in 1 .. i : w[j].at < cutoff})
Gone(w, cutoff) == SubSeq(w, 1, Oldest(w, cutoff))
Live(w, cutoff) == SubSeq(w, Oldest(w, cutoff) + 1, Len(w))

NoEntries == [entries |-> <<>>, sum |-> 0, vol |-> 0]

\* The entry leaves the window, its volume stays in the sum.
SlideKeepsVolume(w, entry) ==
    LET grown == Append(w.entries, entry)
        cutoff == entry.at - Window
    IN  [entries |-> Live(grown, cutoff),
         sum |-> w.sum + entry.v - Total(Gone(grown, cutoff), LAMBDA x : x.v),
         vol |-> w.vol + entry.n]

Slide(w, entry) ==
    LET grown == Append(w.entries, entry)
        cutoff == entry.at - Window
    IN  [entries |-> Live(grown, cutoff),
         sum |-> w.sum + entry.v - Total(Gone(grown, cutoff), LAMBDA x : x.v),
         vol |-> w.vol + entry.n - Total(Gone(grown, cutoff), LAMBDA x : x.n)]

Warm(w) == Len(w) >= WarmAfter

\* Running moments of pairs (dq, dp); a sensor of one series leaves dp at 0.
NoMoments == [n |-> 0, q |-> 0, p |-> 0, m2 |-> 0, c |-> 0]
_welford_add(m, dq, dp) ==
    LET n == m.n + 1
        q == m.q + (S * dq - m.q) \div n
        p == m.p + (S * dp - m.p) \div n
    IN  [n |-> n, q |-> q, p |-> p,
         m2 |-> m.m2 + (S * dq - m.q) * (S * dq - q),
         c |-> m.c + (S * dq - m.q) * (S * dp - p)]
_welford_remove(m, dq, dp) ==
    LET q == (m.n * m.q - S * dq) \div (m.n - 1)
        p == (m.n * m.p - S * dp) \div (m.n - 1)
    IN  IF m.n <= 1 THEN NoMoments
        ELSE [n |-> m.n - 1, q |-> q, p |-> p,
              m2 |-> m.m2 - (S * dq - q) * (S * dq - m.q),
              c |-> m.c - (S * dq - q) * (S * dp - m.p)]
RemoveAll(m, gone) ==
    LET left[i \in 0 .. Len(gone)] ==
            IF i = 0 THEN m ELSE _welford_remove(left[i - 1], gone[i].dq, gone[i].dp)
    IN  left[Len(gone)]

(***************************************************************************)
(* The sensors.  Each gives [held, reading]; a reading is a tuple that     *)
(* fixes the emitted value and ends with its warmth.                       *)
(***************************************************************************)
Quiet(s) == [held |-> s, reading |-> Silent]

\* sweep_flow_imbalance: a gap between eligible prints empties the window.
SweepFlow(s, e) ==
    LET gap == s.last # 0 /\ e.at - s.last > MaxGap
        side == TickSide(s.price, s.side, e.price)
        w == Slide(IF gap THEN NoEntries ELSE s.w,
                   [at |-> e.at, v |-> side * e.size, n |-> e.size])
    IN  IF e.quote \/ e.size = 0 \/ ~e.sweep THEN Quiet(s)
        ELSE [held |-> [w |-> w, price |-> e.price, side |-> side, last |-> e.at],
              reading |-> <<w.sum, w.vol, Warm(w.entries)>>]

InventoryPressure(s, e) ==
    LET side == TickSide(s.price, s.side, e.price)
        w == Slide(s.w, [at |-> e.at, v |-> -side * e.size, n |-> e.size])
    IN  IF e.quote \/ e.size = 0 THEN Quiet(s)
        ELSE [held |-> [w |-> w, price |-> e.price, side |-> side],
              reading |-> <<w.sum, w.vol, Warm(w.entries)>>]

TradeThrough(s, e) ==
    LET through == e.price >= s.ask \/ e.price <= s.bid
        w == Slide(s.w, [at |-> e.at, v |-> IF through THEN 1 ELSE 0, n |-> 0])
    IN  IF e.quote
        THEN Quiet(IF ValidNBBO(e) THEN [s EXCEPT !.bid = e.bid, !.ask = e.ask] ELSE s)
        ELSE IF s.bid = 0 THEN Quiet(s)
        ELSE [held |-> [s EXCEPT !.w = w],
              reading |-> <<w.sum, Len(w.entries), Warm(w.entries)>>]

\* Every bucket the trade fills alone is one-sided; they are not walked.
Vpin(s, e) ==
    LET side == TickSide(s.price, s.side, e.price)
        room == BucketVolume - s.buy - s.sell
        filled == [b |-> s.buy + (IF side > 0 THEN room ELSE 0),
                   s |-> s.sell + (IF side > 0 THEN 0 ELSE room)]
        gap == IF filled.b > filled.s THEN filled.b - filled.s ELSE filled.s - filled.b
        whole == (e.size - room) \div BucketVolume
        rest == (e.size - room) % BucketVolume
        into(q, volume) == [q EXCEPT !.buy = @ + (IF side > 0 THEN volume ELSE 0),
                                     !.sell = @ + (IF side > 0 THEN 0 ELSE volume)]
        push(q, x) ==
            [q EXCEPT !.buckets = IF Len(@) = WindowBuckets THEN Append(Tail(@), x)
                                  ELSE Append(@, x),
                      !.sum = @ + x - (IF Len(q.buckets) = WindowBuckets
                                       THEN q.buckets[1] ELSE 0)]
        batch(q, k) ==
            LET overflow == Max({0, Len(q.buckets) + k - WindowBuckets})
            IN  IF k >= WindowBuckets
                THEN [q EXCEPT !.buckets = [i \in 1 .. WindowBuckets |-> BucketVolume],
                               !.sum = WindowBuckets * BucketVolume]
                ELSE [q EXCEPT !.buckets = SubSeq(@, overflow + 1, Len(@))
                                            \o [i \in 1 .. k |-> BucketVolume],
                               !.sum = @ + k * BucketVolume
                                  - Total(SubSeq(q.buckets, 1, overflow), LAMBDA x : x)]
        seen == [s EXCEPT !.price = e.price, !.side = side]
        now == IF e.size < room THEN into(seen, e.size)
               ELSE into(batch(push([seen EXCEPT !.buy = 0, !.sell = 0], gap), whole), rest)
    IN  IF e.quote \/ e.size = 0 THEN Quiet(s)
        ELSE [held |-> now, reading |-> <<now.sum, Len(now.buckets), Warm(now.buckets)>>]

\* hawkes_intensity: the excess over the base rate halves per unit of time.
Hawkes(s, e) ==
    LET side == TickSide(s.price, s.side, e.price)
        fade == IF s.last = 0 THEN 1 ELSE 2 ^ (e.at - s.last)
        hit(t) == IF side = t THEN Whole ELSE 0
        stamps(q, t) == Live(IF side = t THEN Append(q, [at |-> e.at]) ELSE q, e.at - Window)
        now == [price |-> e.price, side |-> side, last |-> e.at,
                buy |-> s.buy \div fade + hit(1), sell |-> s.sell \div fade + hit(-1),
                buys |-> stamps(s.buys, 1), sells |-> stamps(s.sells, -1)]
    IN  IF e.quote \/ e.size = 0 THEN Quiet(s)
        ELSE [held |-> now,
              reading |-> <<now.buy, now.sell,
                            2 * Len(now.buys) >= WarmAfter /\ 2 * Len(now.sells) >= WarmAfter>>]

Slope(n, under, over) ==
    IF n < 2 \/ over = 0 THEN <<0, 0, FALSE>> ELSE <<under, over, n >= WarmAfter>>

SlopeOf(n, m, sums, welford) ==
    IF welford THEN Slope(n, (n * m.c) \div (S * S), (n * m.m2) \div (S * S))
    ELSE Slope(n, n * sums.pq - sums.p * sums.q, n * sums.qq - sums.q * sums.q)

\* kyle_lambda_60s, causal alignment: the move since the previous print
\* against that print's signed size, with either estimator.
Kyle(s, e, welford) ==
    LET side == TickSide(s.price, s.side, e.price)
        dp == s.mid - s.mid_prev
        entry == [at |-> e.at, dp |-> dp, dq |-> s.prev]
        grown == Append(s.entries, entry)
        gone == Gone(grown, e.at - Window)
        m == IF welford THEN RemoveAll(_welford_add(s.m, s.prev, dp), gone) ELSE s.m
        less(sum, f(_)) == sum + f(entry) - Total(gone, f)
        sums == IF welford THEN s.sums
                ELSE [p |-> less(s.sums.p, LAMBDA x : x.dp),
                      q |-> less(s.sums.q, LAMBDA x : x.dq),
                      pq |-> less(s.sums.pq, LAMBDA x : x.dp * x.dq),
                      qq |-> less(s.sums.qq, LAMBDA x : x.dq * x.dq)]
        seen == [s EXCEPT !.price = e.price, !.side = side, !.mid_prev = s.mid,
                          !.prev = side * e.size]
    IN  IF e.quote THEN Quiet([s EXCEPT !.mid = IF ValidNBBO(e) THEN Mid(e) ELSE 0])
        ELSE IF e.size = 0 \/ s.mid = 0 THEN Quiet(s)
        ELSE IF s.price = 0 THEN Quiet(seen)
        ELSE [held |-> [seen EXCEPT !.entries = Live(grown, e.at - Window),
                                    !.m = m, !.sums = sums],
              reading |-> SlopeOf(Len(grown) - Len(gone), m, sums, welford)]

\* What the touch gained at the bid less what it gained at the ask.
Contribution(b, e) ==
    LET bid == IF e.bid > b.bid THEN e.bsz ELSE IF e.bid < b.bid THEN -b.bsz ELSE e.bsz - b.bsz
        ask == IF e.ask > b.ask THEN b.asz ELSE IF e.ask < b.ask THEN -e.asz ELSE b.asz - e.asz
    IN  bid + ask

\* The quotes of the warm window, the newest with them.
Stamped(stamps, e) == Live(Append(stamps, [at |-> e.at]), e.at - Window)

\* ofi_raw: nothing is averaged and a gap forgets nothing.
OrderFlowRaw(s, e) ==
    LET stamps == Stamped(s.stamps, e)
    IN  IF ~e.quote \/ ~ValidNBBO(e) THEN Quiet(s)
        ELSE IF s.book = <<>> THEN [held |-> [s EXCEPT !.book = <<e>>], reading |-> <<0, FALSE>>]
        ELSE [held |-> [book |-> <<e>>, stamps |-> stamps],
              reading |-> <<Contribution(s.book[1], e), Warm(stamps)>>]

\* ofi_ewma with a half for alpha; a gap forgets the average and the book.
OrderFlow(s, e) ==
    LET gap == s.last # 0 /\ e.at - s.last > MaxGap
        old == IF gap THEN [s EXCEPT !.ewma = 0, !.book = <<>>, !.stamps = <<>>] ELSE s
        ewma == IF old.book = <<>> THEN old.ewma
                ELSE (64 * Contribution(old.book[1], e) + old.ewma) \div 2
        stamps == Stamped(old.stamps, e)
    IN  IF ~e.quote \/ ~ValidNBBO(e) THEN Quiet(s)
        ELSE [held |-> [ewma |-> ewma, book |-> <<e>>, last |-> e.at, stamps |-> stamps],
              reading |-> <<ewma, Warm(stamps)>>]

\* book_imbalance, uncapped (the default): an empty book counts for nothing.
BookImbalance(s, e) ==
    LET stamps == Stamped(s.stamps, e)
    IN  IF ~e.quote \/ ~ValidNBBO(e) THEN Quiet(s)
        ELSE IF e.bsz + e.asz = 0 THEN [held |-> s, reading |-> <<0, 0, FALSE>>]
        ELSE [held |-> [stamps |-> stamps],
              reading |-> <<e.bsz - e.asz, e.bsz + e.asz, Warm(stamps)>>]

\* micro_price: each touch weighed by the size at the other.
MicroPrice(s, e) ==
    LET stamps == Stamped(s.stamps, e)
    IN  IF ~e.quote \/ ~ValidNBBO(e) THEN Quiet(s)
        ELSE IF e.bsz + e.asz = 0 THEN [held |-> s, reading |-> <<Mid(e), 2, FALSE>>]
        ELSE [held |-> [stamps |-> stamps],
              reading |-> <<e.ask * e.bsz + e.bid * e.asz, e.bsz + e.asz, Warm(stamps)>>]

\* quote_hazard_rate, without a least span (the default): every quote counts.
QuoteRate(s, e) ==
    LET stamps == Stamped(s.stamps, e)
    IN  IF ~e.quote THEN Quiet(s)
        ELSE [held |-> [stamps |-> stamps], reading |-> <<Len(stamps), Warm(stamps)>>]

Sign(x) == IF x > 0 THEN 1 ELSE IF x < 0 THEN -1 ELSE 0
QuoteFlicker(s, e) ==
    LET d(now, then) == IF s.bid = 0 THEN 0 ELSE Sign(now - then)
        dbid == d(e.bid, s.bid)
        dask == d(e.ask, s.ask)
        flicker == (dbid # 0 /\ dbid = -s.dbid) \/ (dask # 0 /\ dask = -s.dask)
        w == Slide(s.w, [at |-> e.at, v |-> IF flicker THEN 1 ELSE 0, n |-> 0])
    IN  IF ~e.quote \/ ~ValidNBBO(e) THEN Quiet(s)
        ELSE [held |-> [w |-> w, bid |-> e.bid, ask |-> e.ask,
                        dbid |-> IF dbid # 0 THEN dbid ELSE s.dbid,
                        dask |-> IF dask # 0 THEN dask ELSE s.dask],
              reading |-> <<w.sum, Len(w.entries), Warm(w.entries)>>]

\* quote_replenish_asymmetry: what is added at an unchanged price, summed as
\* it comes and as it leaves the window.
QuoteReplenish(s, e) ==
    LET side(w, px, sz, now_px, now_sz) ==
            LET adds == sz # 0 /\ px = now_px /\ now_sz > sz
                new == IF adds THEN <<[at |-> e.at, v |-> now_sz - sz]>> ELSE <<>>
                gone == Gone(w.adds \o new, e.at - Window)
            IN  [adds |-> Live(w.adds \o new, e.at - Window),
                 sum |-> w.sum + Total(new, LAMBDA x : x.v) - Total(gone, LAMBDA x : x.v)]
        bids == side(s.bids, s.bid, s.bsz, e.bid, e.bsz)
        asks == side(s.asks, s.ask, s.asz, e.ask, e.asz)
    IN  IF ~e.quote THEN Quiet(s)
        ELSE IF ~ValidNBBO(e) \/ e.bsz = 0 \/ e.asz = 0
        THEN Quiet([s EXCEPT !.bsz = 0, !.asz = 0, !.bid = 0, !.ask = 0])
        ELSE [held |-> [bids |-> bids, asks |-> asks, bid |-> e.bid, ask |-> e.ask,
                        bsz |-> e.bsz, asz |-> e.asz, count |-> s.count + 1],
              reading |-> <<bids.sum - asks.sum, bids.sum + asks.sum,
                            /\ s.count + 1 >= WarmAfter
                            /\ bids.adds # <<>> /\ asks.adds # <<>> >>]

\* realized_vol_30s, centred.  The first quote after a bad one has no return.
RealizedVol(s, e) ==
    LET ret == Mid(e) - s.mid
        grown == Append(s.history, [at |-> e.at, dq |-> ret, dp |-> 0])
        m == RemoveAll(_welford_add(s.m, ret, 0), Gone(grown, e.at - Window))
        history == Live(grown, e.at - Window)
    IN  IF ~e.quote THEN Quiet(s)
        ELSE IF ~ValidNBBO(e) THEN Quiet([s EXCEPT !.mid = 0])
        ELSE IF s.mid = 0
        THEN [held |-> [s EXCEPT !.mid = Mid(e)], reading |-> <<0, 0, Warm(s.history)>>]
        ELSE [held |-> [mid |-> Mid(e), history |-> history, m |-> m],
              reading |-> IF m.n < 2 THEN <<0, 0, Warm(history)>>
                          ELSE <<m.m2, m.n - 1, Warm(history)>>]

\* structural_break_score: the reference mean leaves the newest move out, and
\* the cumulant never sinks below nothing.
StructuralBreak(s, e) ==
    LET d == Mid(e) - s.mid
        move == IF d < 0 THEN -d ELSE d
        samples == Live(s.samples, e.at - Window)
        sum == s.sum - Total(Gone(s.samples, e.at - Window), LAMBDA x : x.v)
        mu == IF samples = <<>> THEN 0 ELSE (S * sum) \div Len(samples)
        m == Max({0, s.m + S * move - mu - DriftFloor})
        now == Append(samples, [at |-> e.at, v |-> move])
    IN  IF ~e.quote THEN Quiet(s)
        ELSE IF ~ValidNBBO(e) THEN Quiet([s EXCEPT !.mid = 0])
        ELSE IF s.mid = 0
        THEN [held |-> [s EXCEPT !.mid = Mid(e)], reading |-> <<0, FALSE>>]
        ELSE [held |-> [mid |-> Mid(e), samples |-> now, sum |-> sum + move, m |-> m],
              reading |-> <<m, Warm(now) /\ e.at - now[1].at >= Window>>]

\* A baseline of the last BufferSize values.
_welford_push(b, x) ==
    LET full == Len(b.buf) = BufferSize
        m == IF full THEN _welford_remove(b.m, b.buf[1], 0) ELSE b.m
    IN  [buf |-> Append(IF full THEN Tail(b.buf) ELSE b.buf, x), m |-> _welford_add(m, x, 0)]
NoBaseline == [buf |-> <<>>, m |-> NoMoments]
_zscore(b, x) == IF b.m.n < 2 THEN <<0, 0>> ELSE <<S * x - b.m.q, b.m.m2, b.m.n>>

\* spread_z_30d counts the newest spread in, liquidity_stress_score out.
SpreadZ(s, e) ==
    LET gap == s.last # 0 /\ e.at - s.last > MaxGap
        b == _welford_push(IF gap THEN NoBaseline ELSE s.spread, e.ask - e.bid)
    IN  IF ~e.quote \/ ~ValidNBBO(e) THEN Quiet(s)
        ELSE [held |-> [spread |-> b, last |-> e.at],
              reading |-> <<_zscore(b, e.ask - e.bid), Warm(b.buf)>>]

LiquidityStress(s, e) ==
    LET gap == s.last # 0 /\ e.at - s.last > MaxGap
        spread == IF gap THEN NoBaseline ELSE s.spread
        depth == IF gap THEN NoBaseline ELSE s.depth
        now == [spread |-> _welford_push(spread, e.ask - e.bid),
                depth |-> _welford_push(depth, e.bsz + e.asz), last |-> e.at]
    IN  IF ~e.quote \/ ~ValidNBBO(e) THEN Quiet(s)
        ELSE [held |-> now,
              reading |-> <<_zscore(spread, e.ask - e.bid), _zscore(depth, e.bsz + e.asz),
                            Warm(now.spread.buf)>>]

\* snr_drift_diffusion: on every grid, the quote that passes a grid point
\* closes the open bars, each with its share of the move since the last close.
Slot(slot, h, at, mid) ==
    LET bars == (at - slot.next) \div h + 1
        share == ((mid - slot.open) * Whole) \div bars
        ewma(old, new) == (old + (2 ^ bars - 1) * new) \div (2 ^ bars)
    IN  IF slot.next = 0
        THEN [slot EXCEPT !.next = at + (h - (at % h)), !.open = mid]
        ELSE IF at < slot.next THEN slot
        ELSE [mu |-> ewma(slot.mu, share),
              sig2 |-> ewma(slot.sig2, (share * (mid - slot.open)) \div bars),
              open |-> mid, next |-> slot.next + bars * h, samples |-> slot.samples + bars]

DriftDiffusion(s, e) ==
    LET now == [h \in BarLengths |-> Slot(s[h], h, e.at, Mid(e))]
    IN  IF ~e.quote THEN Quiet(s)
        ELSE IF ~ValidNBBO(e)
        THEN Quiet([h \in BarLengths |-> [s[h] EXCEPT !.open = 0, !.next = 0]])
        ELSE [held |-> now,
              reading |-> <<[h \in BarLengths |-> <<now[h].mu, now[h].sig2>>],
                            \A h \in BarLengths : now[h].samples >= WarmAfter>>]

\* scheduled_flow_window: of the windows open for the symbol, the first to end.
Eligible(w) == w.whose \in {"all", "ours"}
_select_active_window(ts) ==
    LET open == SelectSeq(Calendar, LAMBDA w : w.from <= ts /\ ts < w.to /\ Eligible(w))
        sooner(w, chosen) == w.to < chosen.to \/ (w.to = chosen.to /\ w.id < chosen.id)
        best[i \in 0 .. Len(open)] ==
            IF i = 0 THEN <<>>
            ELSE IF best[i - 1] = <<>> \/ sooner(open[i], best[i - 1][1]) THEN <<open[i]>>
            ELSE best[i - 1]
    IN  best[Len(open)]

ScheduledFlow(s, e) ==
    LET chosen == _select_active_window(e.at)
        warm == \E i \in DOMAIN Calendar : Eligible(Calendar[i])
    IN  [held |-> s,
         reading |-> IF chosen = <<>> THEN <<0, -1, 0, 0, warm>>
                     ELSE <<1, chosen[1].to - e.at, chosen[1].id, chosen[1].prior, warm>>]

-----------------------------------------------------------------------------
initial_state ==
    [sweep |-> [w |-> NoEntries, price |-> 0, side |-> 1, last |-> 0],
     inventory |-> [w |-> NoEntries, price |-> 0, side |-> 1],
     through |-> [w |-> NoEntries, bid |-> 0, ask |-> 0],
     vpin |-> [buy |-> 0, sell |-> 0, price |-> 0, side |-> 1, buckets |-> <<>>, sum |-> 0],
     hawkes |-> [price |-> 0, side |-> 1, last |-> 0, buy |-> 0, sell |-> 0,
                 buys |-> <<>>, sells |-> <<>>],
     kyle |-> [entries |-> <<>>, m |-> NoMoments, sums |-> [p |-> 0, q |-> 0, pq |-> 0, qq |-> 0],
               mid |-> 0, mid_prev |-> 0, price |-> 0, side |-> 1, prev |-> 0],
     ofi |-> [ewma |-> 0, book |-> <<>>, last |-> 0, stamps |-> <<>>],
     ofi_raw |-> [book |-> <<>>, stamps |-> <<>>],
     imbalance |-> [stamps |-> <<>>], micro |-> [stamps |-> <<>>],
     rate |-> [stamps |-> <<>>],
     flicker |-> [w |-> NoEntries, bid |-> 0, ask |-> 0, dbid |-> 0, dask |-> 0],
     replenish |-> [bids |-> [adds |-> <<>>, sum |-> 0], asks |-> [adds |-> <<>>, sum |-> 0],
                    bid |-> 0, ask |-> 0, bsz |-> 0, asz |-> 0, count |-> 0],
     vol |-> [mid |-> 0, history |-> <<>>, m |-> NoMoments],
     break |-> [mid |-> 0, samples |-> <<>>, sum |-> 0, m |-> 0],
     spread |-> [spread |-> NoBaseline, last |-> 0],
     stress |-> [spread |-> NoBaseline, depth |-> NoBaseline, last |-> 0],
     snr |-> [h \in BarLengths |->
                [mu |-> 0, sig2 |-> 0, open |-> 0, next |-> 0, samples |-> 0]],
     calendar |-> <<>>]

StateOf(k) == initial_state[IF k = "kyle_welford" THEN "kyle" ELSE k]

Update(k, s, e) ==
    CASE k = "sweep" -> SweepFlow(s, e)      [] k = "inventory" -> InventoryPressure(s, e)
      [] k = "through" -> TradeThrough(s, e) [] k = "vpin" -> Vpin(s, e)
      [] k = "hawkes" -> Hawkes(s, e)        [] k = "kyle" -> Kyle(s, e, FALSE)
      [] k = "kyle_welford" -> Kyle(s, e, TRUE)
      [] k = "ofi" -> OrderFlow(s, e)        [] k = "flicker" -> QuoteFlicker(s, e)
      [] k = "ofi_raw" -> OrderFlowRaw(s, e) [] k = "imbalance" -> BookImbalance(s, e)
      [] k = "micro" -> MicroPrice(s, e)
      [] k = "rate" -> QuoteRate(s, e)       [] k = "replenish" -> QuoteReplenish(s, e)
      [] k = "vol" -> RealizedVol(s, e)      [] k = "break" -> StructuralBreak(s, e)
      [] k = "spread" -> SpreadZ(s, e)       [] k = "stress" -> LiquidityStress(s, e)
      [] k = "snr" -> DriftDiffusion(s, e)   [] k = "calendar" -> ScheduledFlow(s, e)

SensorInit ==
    /\ sensor \in DOMAIN QuotesOf
    /\ prints = <<>> /\ held = StateOf(sensor) /\ reading = Silent

Timed(event, gap) ==
    [at |-> (IF prints = <<>> THEN 0 ELSE prints[Len(prints)].at) + gap] @@ event

Keep(out) == held' = out.held /\ reading' = out.reading

Observe(event) ==
    /\ Len(prints) < MaxPrints
    /\ \E gap \in Gaps : prints' = Append(prints, Timed(event, gap))
    /\ Keep(Update(sensor, held, prints'[Len(prints')]))
    /\ UNCHANGED sensor

OnQuote == \E q \in QuotesOf[sensor] : Observe(q)
OnTrade == \E t \in TradesOf[sensor] : Observe(t)

SensorNext == OnQuote \/ OnTrade

SensorSpec == SensorInit /\ [][SensorNext]_sensorVars
-----------------------------------------------------------------------------
(***************************************************************************)
(* What the readings are by definition, from every print of the behaviour. *)
(***************************************************************************)
Of(ok(_)) == SelectSeq(prints, ok)
Now == prints[Len(prints)].at
Recent(i, w) == Now - w[i].at <= Window
Sum(I, f(_)) == FoldFunction(+, 0, [i \in I |-> f(i)])

\* A trade is on the side of the last move of the price, the first ones bought.
SideAt(ts, i) ==
    LET moves == {j \in 2 .. i : ts[j].price # ts[j - 1].price}
    IN  IF moves = {} THEN 1
        ELSE IF ts[Max(moves)].price > ts[Max(moves) - 1].price THEN 1 ELSE -1

Signed(ts, I) == Sum(I, LAMBDA i : SideAt(ts, i) * ts[i].size)

Unbroken(w, i) == \A j \in (i + 1) .. Len(w) : w[j].at - w[j - 1].at <= MaxGap

SweepFlowIs ==
    LET ts == Of(LAMBDA e : ~e.quote /\ e.size > 0 /\ e.sweep)
        I == {i \in DOMAIN ts : Recent(i, ts) /\ Unbroken(ts, i)}
    IN  <<Signed(ts, I), Sum(I, LAMBDA i : ts[i].size), Cardinality(I) >= WarmAfter>>

InventoryIs ==
    LET ts == Of(LAMBDA e : ~e.quote /\ e.size > 0)
        I == {i \in DOMAIN ts : Recent(i, ts)}
    IN  <<-Signed(ts, I), Sum(I, LAMBDA i : ts[i].size), Cardinality(I) >= WarmAfter>>

\* Against the last valid book before the trade.
ThroughIs ==
    LET book(i) == {j \in 1 .. (i - 1) : prints[j].quote /\ ValidNBBO(prints[j])}
        I == {i \in DOMAIN prints : ~prints[i].quote /\ book(i) # {} /\ Recent(i, prints)}
        through == {i \in I : \/ prints[i].price >= prints[Max(book(i))].ask
                              \/ prints[i].price <= prints[Max(book(i))].bid}
    IN  <<Cardinality(through), Cardinality(I), Cardinality(I) >= WarmAfter>>

\* Lay the shares end to end and cut them into buckets.
VpinIs ==
    LET ts == Of(LAMBDA e : ~e.quote /\ e.size > 0)
        upto(i) == Sum(1 .. i, LAMBDA j : ts[j].size)
        buyer(u) == SideAt(ts, Min({i \in DOMAIN ts : u <= upto(i)})) > 0
        full == upto(Len(ts)) \div BucketVolume
        shown == Max({1, full - WindowBuckets + 1}) .. full
        bought(b) == Cardinality({u \in ((b - 1) * BucketVolume + 1) .. (b * BucketVolume) : buyer(u)})
        skew(b) == 2 * bought(b) - BucketVolume
    IN  <<Sum(shown, LAMBDA b : Max({skew(b), -skew(b)})), Cardinality(shown),
          Cardinality(shown) >= WarmAfter>>

\* Every trade still excites its side by what its age has left of it.
HawkesIs ==
    LET ts == Of(LAMBDA e : ~e.quote /\ e.size > 0)
        on(t) == {i \in DOMAIN ts : SideAt(ts, i) = t}
        excess(t) == Sum(on(t), LAMBDA i : Whole \div 2 ^ (Now - ts[i].at))
        enough(t) == 2 * Cardinality({i \in on(t) : Recent(i, ts)}) >= WarmAfter
    IN  <<excess(1), excess(-1), enough(1) /\ enough(-1)>>

\* The slope of the moves on the previous print's signed size, in the window.
KyleIs ==
    LET quotes(i) == {j \in 1 .. (i - 1) : prints[j].quote}
        mid(i) == IF quotes(i) # {} /\ ValidNBBO(prints[Max(quotes(i))])
                  THEN Mid(prints[Max(quotes(i))]) ELSE 0
        at == [i \in DOMAIN prints |-> ~prints[i].quote /\ prints[i].size > 0 /\ mid(i) # 0]
        before(i) == {j \in 1 .. (i - 1) : at[j]}
        trades(i) == Cardinality(before(i)) + 1
        ts == SelectSeq([i \in DOMAIN prints |-> [prints[i] EXCEPT !.at = i]],
                        LAMBDA e : at[e.at])
        dq(i) == SideAt(ts, trades(i) - 1) * ts[trades(i) - 1].size
        dp(i) == mid(i) - mid(Max(before(i)))
        I == {i \in DOMAIN prints : at[i] /\ before(i) # {} /\ Recent(i, prints)}
        n == Cardinality(I)
        over == n * Sum(I, LAMBDA i : dq(i) * dq(i)) - Sum(I, dq) * Sum(I, dq)
    IN  IF n < 2 \/ over = 0 THEN <<0, 0, FALSE>>
        ELSE <<n * Sum(I, LAMBDA i : dp(i) * dq(i)) - Sum(I, dp) * Sum(I, dq),
               over, n >= WarmAfter>>

\* Order flow is what the best bid gained less what the best ask gained.
FlowOf(q, i) ==
    LET if(b, x) == IF b THEN x ELSE 0
    IN  if(q[i].bid >= q[i - 1].bid, q[i].bsz) - if(q[i].bid <= q[i - 1].bid, q[i - 1].bsz)
        - if(q[i].ask <= q[i - 1].ask, q[i].asz) + if(q[i].ask >= q[i - 1].ask, q[i - 1].asz)

OrderFlowIs ==
    LET q == Of(LAMBDA e : e.quote /\ ValidNBBO(e))
        I == {i \in DOMAIN q : Unbroken(q, i)}
    IN  <<Sum(I \ {Min(I)}, LAMBDA i : (FlowOf(q, i) * 64) \div 2 ^ (Len(q) - i + 1)),
          Cardinality({i \in I : Recent(i, q)}) >= WarmAfter>>

OrderFlowRawIs ==
    LET q == Of(LAMBDA e : e.quote /\ ValidNBBO(e))
    IN  IF Len(q) = 1 THEN <<0, FALSE>>
        ELSE <<FlowOf(q, Len(q)), Cardinality({i \in DOMAIN q \ {1} : Recent(i, q)}) >= WarmAfter>>

\* The quotes with shares at the touch that warm a reading.
Shown(q) == {i \in DOMAIN q : Recent(i, q) /\ q[i].bsz + q[i].asz > 0}

BookImbalanceIs ==
    LET q == Of(LAMBDA e : e.quote /\ ValidNBBO(e))
        last == q[Len(q)]
    IN  <<last.bsz - last.asz, last.bsz + last.asz,
          last.bsz + last.asz > 0 /\ Cardinality(Shown(q)) >= WarmAfter>>

\* As far from the bid to the ask as the bid's part of the depth.
MicroPriceIs ==
    LET q == Of(LAMBDA e : e.quote /\ ValidNBBO(e))
        last == q[Len(q)]
        depth == last.bsz + last.asz
    IN  IF depth = 0 THEN <<last.bid + last.ask, 2, FALSE>>
        ELSE <<last.bid * depth + (last.ask - last.bid) * last.bsz, depth,
               Cardinality(Shown(q)) >= WarmAfter>>

QuoteRateIs ==
    LET q == Of(LAMBDA e : e.quote)
        n == Cardinality({i \in DOMAIN q : Recent(i, q)})
    IN  <<n, n >= WarmAfter>>

\* A side flickers when it moves against its last move.
FlickerIs ==
    LET q == Of(LAMBDA e : e.quote /\ ValidNBBO(e))
        turns(i, f(_)) ==
            LET moves == {j \in 2 .. (i - 1) : f(j) # f(j - 1)}
            IN  moves # {} /\ (f(i) - f(i - 1)) * (f(Max(moves)) - f(Max(moves) - 1)) < 0
        I == {i \in DOMAIN q : Recent(i, q)}
        flickers == {i \in I \ {1} : \/ turns(i, LAMBDA j : q[j].bid)
                                      \/ turns(i, LAMBDA j : q[j].ask)}
    IN  <<Cardinality(flickers), Cardinality(I), Cardinality(I) >= WarmAfter>>

ReplenishIs ==
    LET q == Of(LAMBDA e : e.quote)
        whole(e) == ValidNBBO(e) /\ e.bsz > 0 /\ e.asz > 0
        I == {i \in DOMAIN q \ {1} : whole(q[i]) /\ whole(q[i - 1]) /\ Recent(i, q)}
        bids == {i \in I : q[i].bid = q[i - 1].bid /\ q[i].bsz > q[i - 1].bsz}
        asks == {i \in I : q[i].ask = q[i - 1].ask /\ q[i].asz > q[i - 1].asz}
        b == Sum(bids, LAMBDA i : q[i].bsz - q[i - 1].bsz)
        a == Sum(asks, LAMBDA i : q[i].asz - q[i - 1].asz)
    IN  <<b - a, b + a, /\ Cardinality({i \in DOMAIN q : whole(q[i])}) >= WarmAfter
                        /\ bids # {} /\ asks # {}>>

\* Moves between two valid quotes in a row; no move spans a bad quote.
Moves(q) == {i \in DOMAIN q \ {1} : ValidNBBO(q[i]) /\ ValidNBBO(q[i - 1])}
Square(x) == x * x

RealizedVolIs ==
    LET q == Of(LAMBDA e : e.quote)
        I == {i \in Moves(q) : Recent(i, q)}
        n == Cardinality(I)
        r(i) == Mid(q[i]) - Mid(q[i - 1])
    IN  <<IF n < 2 THEN 0 ELSE Sum(I, LAMBDA i : Square(S * r(i) - (S * Sum(I, r)) \div n)),
          IF n < 2 THEN 0 ELSE n - 1, n >= WarmAfter>>

\* Page's statistic: the most the excess has added up to since any start.
BreakIs ==
    LET q == Of(LAMBDA e : e.quote)
        r(i) == Max({Mid(q[i]) - Mid(q[i - 1]), Mid(q[i - 1]) - Mid(q[i])})
        past(i) == {j \in Moves(q) : j < i /\ q[i].at - q[j].at <= Window}
        mu(i) == IF past(i) = {} THEN 0 ELSE (S * Sum(past(i), r)) \div Cardinality(past(i))
        since(k) == Sum({i \in Moves(q) : i >= k}, LAMBDA i : S * r(i) - mu(i) - DriftFloor)
        held_in == {i \in Moves(q) : Recent(i, q)}
    IN  IF Len(q) \notin Moves(q) THEN <<0, FALSE>>
        ELSE <<Max({0} \union {since(k) : k \in Moves(q)}),
               Cardinality(held_in) >= WarmAfter /\ Now - q[Min(held_in)].at >= Window>>

\* The newest of the values against those of I.
ZIs(x(_), I, i) ==
    LET n == Cardinality(I)
        mean == (S * Sum(I, x)) \div n
    IN  IF n < 2 THEN <<0, 0>>
        ELSE <<S * x(i) - mean, Sum(I, LAMBDA j : Square(S * x(j) - mean)), n>>

BaselineIs(within(_, _)) ==
    LET q == Of(LAMBDA e : e.quote /\ ValidNBBO(e))
        n == Len(q)
        I == {i \in DOMAIN q : Unbroken(q, i)}
    IN  within(q, I)

SpreadIs == BaselineIs(LAMBDA q, I :
    LET J == I \intersect ((Len(q) - BufferSize + 1) .. Len(q))
    IN  <<ZIs(LAMBDA i : q[i].ask - q[i].bid, J, Len(q)), Cardinality(J) >= WarmAfter>>)

StressIs == BaselineIs(LAMBDA q, I :
    LET J == I \intersect ((Len(q) - BufferSize) .. (Len(q) - 1))
        K == I \intersect ((Len(q) - BufferSize + 1) .. Len(q))
    IN  <<ZIs(LAMBDA i : q[i].ask - q[i].bid, J, Len(q)),
          ZIs(LAMBDA i : q[i].bsz + q[i].asz, J, Len(q)), Cardinality(K) >= WarmAfter>>)

\* Every bar between two quotes that close bars, or open a grid, has an equal
\* share of the move, weighs half as much as the bar after it, and none spans
\* a bad quote.
SnrIs ==
    LET q == Of(LAMBDA e : e.quote)
        bars(h, i) == q[i].at \div h - q[i - 1].at \div h
        closes(h) == {i \in Moves(q) : bars(h, i) > 0}
        opened(h, i) == Max({j \in 1 .. (i - 1) : j \in closes(h) \/ j \notin Moves(q)})
        move(h, i) == Mid(q[i]) - Mid(q[opened(h, i)])
        later(h, i) == Sum({j \in closes(h) : j > i}, LAMBDA j : bars(h, j))
        moment(h, p) ==
            Sum(closes(h), LAMBDA i : Sum(1 .. bars(h, i), LAMBDA k :
                (Whole * move(h, i) ^ p) \div (bars(h, i) ^ p * 2 ^ (later(h, i) + k))))
    IN  <<[h \in BarLengths |-> <<moment(h, 1), moment(h, 2)>>],
          \A h \in BarLengths : Sum(closes(h), LAMBDA i : bars(h, i)) >= WarmAfter>>

\* No other window of the symbol, or of all of them, ends before it.
ScheduledFlowIs ==
    LET I == {i \in DOMAIN Calendar : Calendar[i].whose # "others"}
        open == {i \in I : Now \in Calendar[i].from .. Calendar[i].to - 1}
        first == {i \in open : \A j \in open : Calendar[i].to <= Calendar[j].to}
        w == Calendar[CHOOSE i \in first : \A j \in first : Calendar[i].id <= Calendar[j].id]
    IN  IF open = {} THEN <<0, -1, 0, 0, I # {}>>
        ELSE <<1, w.to - Now, w.id, w.prior, I # {}>>

Definition ==
    CASE sensor = "sweep" -> SweepFlowIs  [] sensor = "inventory" -> InventoryIs
      [] sensor = "through" -> ThroughIs  [] sensor = "vpin" -> VpinIs
      [] sensor = "hawkes" -> HawkesIs    [] sensor \in {"kyle", "kyle_welford"} -> KyleIs
      [] sensor = "ofi" -> OrderFlowIs    [] sensor = "flicker" -> FlickerIs
      [] sensor = "ofi_raw" -> OrderFlowRawIs
      [] sensor = "imbalance" -> BookImbalanceIs
      [] sensor = "micro" -> MicroPriceIs
      [] sensor = "rate" -> QuoteRateIs   [] sensor = "replenish" -> ReplenishIs
      [] sensor = "vol" -> RealizedVolIs  [] sensor = "break" -> BreakIs
      [] sensor = "spread" -> SpreadIs    [] sensor = "stress" -> StressIs
      [] sensor = "snr" -> SnrIs          [] sensor = "calendar" -> ScheduledFlowIs

\* Whatever was appended, evicted, flushed at a gap or batched into buckets on
\* the way, a reading is what its definition gives on all the sensor was fed:
\* running sums and moments forget nothing they should keep and keep nothing
\* they should forget.  Left out: the first reading of realized_vol after a bad
\* quote, which is 0 and counts the returns of before.
ReadingsAreDefined ==
    LET q == Of(LAMBDA e : e.quote)
    IN  (reading # Silent /\ ~(sensor = "vol" /\ Len(q) \notin Moves(q)))
            => reading = Definition
=============================================================================
