-------------------------- MODULE SimulatedRouter --------------------------
(***************************************************************************)
(* The backtest execution venue: PassiveLimitOrderRouter (a superset of    *)
(* BacktestOrderRouter) with its MocFillController and RthEntryFillGate,   *)
(* for one symbol, together with the part of the kernel that feeds it      *)
(* quotes and trades, submits and cancels orders, and books its acks.      *)
(*                                                                         *)
(* A quote is abstracted to whether it is locked, the size shown on each   *)
(* side, and where it leaves the limit price of each working order:        *)
(* "through" it, "away" from it, or at its "level", where the seeded       *)
(* Bernoulli trial of the queue either succeeds ("drain") or not.          *)
(*                                                                         *)
(* Everything runs on the replay thread: quote, fills, acks, kernel.       *)
(***************************************************************************)
EXTENDS Integers, Sequences, FiniteSetsExt, OrderStates

CONSTANTS
    Orders, Quantity,
    Requests,           \* per order: the <<side, kind>> the kernel may ask for
    Latency,            \* backtest_fill_latency_ns
    Delay,              \* market_data_latency_ns: an event is seen this long after it happened
    MaxRestingTicks,    \* passive_max_resting_ticks
    CapThrough,         \* through_fill_size_cap_enabled
    NeedsTrade,         \* require_trade_for_level_fill, or a queue ahead
    RthOpen, RthClose,  \* entries are refused before the one and from the other on
    MocCutoff, OfficialClose,
    Sizes,              \* bound: the sizes a quote may show on its two sides
    LastTime            \* bound: exchange time

ASSUME RouterAssumption ==
    /\ Quantity \in [Orders -> Nat \ {0}]
    /\ Requests \in [Orders -> SUBSET ({"BUY", "SELL"} \X {"market", "limit", "moc"})]
    /\ Latency \in Nat /\ Delay \in Nat
    /\ MaxRestingTicks \in Nat \ {0}
    /\ CapThrough \in BOOLEAN /\ NeedsTrade \in BOOLEAN
    /\ RthOpen \in Nat /\ RthClose \in Nat
    /\ MocCutoff \in Nat /\ OfficialClose \in Nat
    /\ Sizes \subseteq [{"BUY", "SELL"} -> Nat] /\ LastTime \in Nat

VARIABLES
    now,       \* exchange time of the last market event
    quote,     \* _last_quotes[symbol], or NoQuote
    order,     \* per order: where the router keeps it (its three tables as one)
    acks,      \* per order: _pending_acks, oldest first
    out,       \* per order: the last ack the router produced (history)
    state,     \* kernel: the order's state machine
    booked,    \* kernel: shares reconciled into the position
    stopped    \* kernel: shutdown has begun

kernelVars == <<state, booked, stopped>>
vars == <<now, quote, order, acks, out, state, booked, stopped>>

Sides  == {"BUY", "SELL"}
Kinds  == {"market", "limit", "moc"}
Seats  == {"none", "deferred", "resting", "moc", "over"}
Places == {"through", "level", "drain", "away"}

Quotes  == [locked : BOOLEAN, size : Sizes]
LastQuotes == [locked : BOOLEAN, size : Sizes, at : Nat]
Seen(q, t) == [locked |-> q.locked, size |-> q.size, at |-> t]
NoQuote == [locked |-> FALSE, size |-> <<>>, at |-> 0]

\* SimulatedClock while an event of exchange time t is handled (ReplayFeed.events).
Clock(t) == t + Delay

\* An OrderAck: status, shares of this fill, and (history) shares so far.
Ack(status, qty, cum, ts) == [status |-> status, qty |-> qty, cum |-> cum, ts |-> ts]

NotSent == Ack("NONE", 0, 0, 0)

\* _PendingOrder, _DeferredAggressiveFill and _PendingMoc.  ackTs is the time of
\* ACKNOWLEDGED and, as the clock is never behind the exchange, the deadline too.
Place(seat, side, limit, ts) ==
    [seat |-> seat, side |-> side, limit |-> limit, ackTs |-> ts,
     ticks |-> 0, filled |-> 0, traded |-> FALSE]

Nowhere == Place("none", "BUY", FALSE, 0)
Over(r) == Place("over", r.side, FALSE, 0)

Init ==
    /\ now = 0
    /\ quote = NoQuote
    /\ order = [o \in Orders |-> Nowhere]
    /\ acks = [o \in Orders |-> <<>>]
    /\ out = [o \in Orders |-> NotSent]
    /\ state = [o \in Orders |-> "CREATED"]
    /\ booked = [o \in Orders |-> 0]
    /\ stopped = FALSE

Max2(a, b) == IF a >= b THEN a ELSE b
Min2(a, b) == IF a <= b THEN a ELSE b
Abs(n)     == IF n >= 0 THEN n ELSE -n

Signed(side, n) == IF side = "BUY" THEN n ELSE -n

\* The position store: what the kernel has booked.
Position == MapThenSumSet(LAMBDA o : Signed(order[o].side, booked[o]), Orders)

OpensOrIncreases(current, post) ==
    \/ Abs(post) > Abs(current)
    \/ current # 0 /\ post # 0 /\ (current > 0) # (post > 0)

\* RthEntryFillGate.should_suppress for a request of o, at exchange time t.
Suppresses(o, side, t) ==
    /\ t < RthOpen \/ t >= RthClose
    /\ OpensOrIncreases(Position, Position + Signed(side, Quantity[o]))

(***************************************************************************)
(* What the router does with one order: where it is afterwards, and the    *)
(* acks it appends.                                                        *)
(***************************************************************************)
Stays(r)      == [at |-> r, acks |-> <<>>]
Ends(r, list) == [at |-> Over(r), acks |-> list]
Rejects(r, ts) == Ends(r, <<Ack("REJECTED", 0, r.filled, ts)>>)

\* append_market_fill_acks: the size shown, then the rest one instant later.  (A
\* forced exit may find less of that size: size is what is left of it.)
MarketFill(o, r, size, ts) ==
    Ends(r, IF Quantity[o] > size
            THEN <<Ack("PARTIALLY_FILLED", size, size, ts),
                   Ack("FILLED", Quantity[o] - size, Quantity[o], ts + 1)>>
            ELSE <<Ack("FILLED", Quantity[o], Quantity[o], ts)>>)

\* MocFillController.on_quote, for one pending order.
MocOnQuote(o, r, q, t) ==
    IF t < OfficialClose \/ q.locked
    THEN Stays(r)
    ELSE Ends(r, <<Ack("FILLED", Quantity[o], Quantity[o], Max2(r.ackTs, t))>>)

\* Mutant: the timeout is stamped with the clock.
FlushDeferredUnfloored(o, r, q, place, t) ==
    IF t < r.ackTs
    THEN IF r.ticks + 1 >= MaxRestingTicks
         THEN Rejects(r, Clock(t))
         ELSE Stays([r EXCEPT !.ticks = @ + 1])
    ELSE Rejects(r, Clock(t))

\* _flush_deferred_aggressive, for one order.  An entry the gate refuses is
\* rejected at the clock, every other outcome not before the ACKNOWLEDGED.
FlushDeferred(o, r, q, place, t) ==
    LET floored == Max2(Clock(t), r.ackTs)
        size    == q.size[r.side]
    IN  IF t < r.ackTs
        THEN IF r.ticks + 1 >= MaxRestingTicks
             THEN Rejects(r, floored)
             ELSE Stays([r EXCEPT !.ticks = @ + 1])
        ELSE IF q.locked \/ size = 0 \/ (r.limit /\ place[o] = "away")
        THEN Rejects(r, floored)
        ELSE IF Suppresses(o, r.side, t)
        THEN Rejects(r, Clock(t))
        ELSE MarketFill(o, r, size, floored)

\* Mutant: the size shown is taken, whatever is left.
ThroughSizeUncapped(left, size) == IF CapThrough /\ size > 0 THEN size ELSE left + 1

\* The size a through-fill takes of what is left.
ThroughSize(left, size) ==
    IF CapThrough /\ size > 0 THEN Min2(left, size) ELSE left

\* _evaluate_fill and _fill_hazard: does the quote fill the resting order r?
Fills(r, place) == place = "through" \/ (place = "drain" /\ (NeedsTrade => r.traded))

\* Mutant: a partial through-fill leaves filled_quantity as it was.
PassiveFillForgotten(o, r, n, ts) ==
    IF r.filled + n = Quantity[o]
    THEN Ends(r, <<Ack("FILLED", n, r.filled + n, ts)>>)
    ELSE [at |-> r, acks |-> <<Ack("PARTIALLY_FILLED", n, r.filled + n, ts)>>]

PassiveFill(o, r, n, ts) ==
    IF r.filled + n = Quantity[o]
    THEN Ends(r, <<Ack("FILLED", n, r.filled + n, ts)>>)
    ELSE [at   |-> [r EXCEPT !.filled = @ + n],
          acks |-> <<Ack("PARTIALLY_FILLED", n, r.filled + n, ts)>>]

\* Mutant: only ticks at the level count towards the timeout.
CheckRestingAtLevel(o, r0, q, place, t) ==
    LET r == [r0 EXCEPT !.ticks = IF place[o] = "away" THEN 0 ELSE @ + 1]
    IN  IF t >= r.ackTs /\ r.ticks >= MaxRestingTicks
        THEN Ends(r, <<Ack("EXPIRED", 0, r.filled, Max2(Clock(t), r.ackTs))>>)
        ELSE Stays(r)

\* _check_resting_orders, for one order.
CheckResting(o, r0, q, place, t) ==
    LET r       == [r0 EXCEPT !.ticks = @ + 1, !.traded = @ /\ place[o] # "away"]
        left    == Quantity[o] - r.filled
        floored == Max2(Clock(t), r.ackTs)
    IN  IF t < r.ackTs
        THEN Stays(r0)
        ELSE IF Fills(r, place[o])
        THEN IF Suppresses(o, r.side, t)
             THEN Rejects(r, floored)
             ELSE IF place[o] = "through"
             THEN PassiveFill(o, r, ThroughSize(left, q.size[r.side]), floored)
             ELSE PassiveFill(o, r, left, floored)
        ELSE IF r.ticks >= MaxRestingTicks
        THEN Ends(r, <<Ack("EXPIRED", 0, r.filled, floored)>>)
        ELSE Stays(r)

OrderOnQuote(o, q, place, t) ==
    LET r == order[o]
    IN  CASE r.seat = "moc"      -> MocOnQuote(o, r, q, t)
          [] r.seat = "deferred" -> FlushDeferred(o, r, q, place, t)
          [] r.seat = "resting"  -> CheckResting(o, r, q, place, t)
          [] OTHER               -> Stays(r)

\* submit refuses: no quote yet, a locked or crossed one, or the session gate,
\* which asks at the exchange time of the last quote.
Refused(o, side) == quote = NoQuote \/ quote.locked \/ Suppresses(o, side, quote.at)

\* MocFillController.submit.
MocSubmitted(side, ts) ==
    IF quote.at >= MocCutoff
    THEN Rejects(Place("none", side, FALSE, ts), ts)
    ELSE [at |-> Place("moc", side, FALSE, ts), acks |-> <<Ack("ACKNOWLEDGED", 0, 0, ts)>>]

Acknowledges(res, ts) ==
    [at |-> res.at, acks |-> <<Ack("ACKNOWLEDGED", 0, 0, ts)>> \o res.acks]

\* _submit_aggressive_market: ACKNOWLEDGED, then filled at once without a
\* latency, or deferred to the first quote past it.
MarketSubmitted(o, r) ==
    Acknowledges(
        IF Latency > 0                  THEN Stays(Place("deferred", r.side, r.limit, r.ackTs))
        ELSE IF quote.size[r.side] = 0  THEN Rejects(r, Clock(now))
        ELSE MarketFill(o, r, quote.size[r.side], r.ackTs),
        r.ackTs)

\* _post_passive: a limit price that crosses is not posted.
PostPassive(o, r, marketable) ==
    IF marketable THEN MarketSubmitted(o, r)
    ELSE Acknowledges(Stays(Place("resting", r.side, r.limit, r.ackTs)), r.ackTs)

\* submit, for an id the router has not seen, against the last quote.
Submitted(o, side, kind, marketable) ==
    LET ts == Clock(now)
        r  == Place("none", side, kind = "limit", ts + Latency)
    IN  IF Refused(o, side)
        THEN Rejects(r, ts)
        ELSE IF kind = "moc"
        THEN MocSubmitted(side, ts)
        ELSE IF kind = "market"
        THEN MarketSubmitted(o, r)
        ELSE PostPassive(o, r, marketable)

\* Mutant: the order is removed without an ack.
CancelledSilently(r) == IF r.seat \in {"resting", "moc"} THEN Ends(r, <<>>) ELSE Stays(r)

\* cancel_order, and expire_pending_moc: an order the router holds in a table
\* it can cancel from.
Cancelled(r) ==
    IF r.seat \in {"resting", "moc"}
    THEN Ends(r, <<Ack("CANCELLED", 0, r.filled, Max2(Clock(now), r.ackTs))>>)
    ELSE Stays(r)

ExpiredMoc(r) ==
    IF r.seat = "moc" THEN Rejects(r, Max2(Clock(now), r.ackTs)) ELSE Stays(r)

(***************************************************************************)
(* The steps                                                               *)
(***************************************************************************)

\* Nothing to poll: the kernel settles the acks of one call before the next.
Drained == \A o \in Orders : acks[o] = <<>>

LastAck(before, list) == IF list = <<>> THEN before ELSE list[Len(list)]

\* The router changes as result[o] says, for every order.
Answer(result) ==
    /\ order' = [o \in Orders |-> result[o].at]
    /\ acks' = [o \in Orders |-> acks[o] \o result[o].acks]
    /\ out' = [o \in Orders |-> LastAck(out[o], result[o].acks)]

\* The orders with a limit price that a quote may reach.
Priced == {o \in Orders : order[o].seat \in {"deferred", "resting"} /\ order[o].limit}

\* A quote of exchange time t: on_quote, inside bus.publish of the tick.
OnQuote(q, place, t) ==
    /\ Drained /\ ~stopped
    /\ q.locked => \A o \in Priced : place[o] \in {"through", "away"}
    /\ now' = t
    /\ quote' = Seen(q, t)
    /\ Answer([o \in Orders |-> OrderOnQuote(o, q, place, t)])
    /\ UNCHANGED kernelVars

\* A trade at exchange time t; S: the orders whose level it trades at, with
\* enough volume for the queue ahead of them and for the volume gate.
OnTrade(S, t) ==
    /\ Drained /\ ~stopped
    /\ now' = t
    /\ order' = [o \in Orders |->
                   [order[o] EXCEPT !.traded = @ \/ (/\ NeedsTrade
                                                     /\ o \in S
                                                     /\ order[o].seat = "resting"
                                                     /\ t >= order[o].ackTs)]]
    /\ UNCHANGED <<quote, acks, out, kernelVars>>

\* The kernel tracks the order and submits it (once per id).
Submit(o, side, kind, marketable) ==
    /\ Drained /\ ~stopped
    /\ Clock(now) + Latency <= LastTime
    /\ order[o].seat = "none"
    /\ state' = [state EXCEPT ![o] = "SUBMITTED"]
    /\ Answer([p \in Orders |-> IF p = o THEN Submitted(o, side, kind, marketable)
                                ELSE Stays(order[p])])
    /\ UNCHANGED <<now, quote, booked, stopped>>

Active == {o \in Orders : state[o] \notin TerminalOrderStates \cup {"CREATED"}}

\* _cancel_resting_for_symbol.
CancelResting ==
    /\ Drained /\ ~stopped
    /\ Active # {}
    /\ Answer([o \in Orders |-> IF o \in Active THEN Cancelled(order[o]) ELSE Stays(order[o])])
    /\ UNCHANGED <<now, quote, kernelVars>>

\* order_lifecycle.cancel_order: a cancel the router refuses is settled locally.
CancelOrder(o) ==
    /\ Drained /\ ~stopped
    /\ CanTransition(state[o], "CANCEL_REQUESTED")
    /\ state' = [state EXCEPT ![o] = IF Cancelled(order[o]).acks = <<>>
                                     THEN "CANCELLED" ELSE "CANCEL_REQUESTED"]
    /\ Answer([p \in Orders |-> IF p = o THEN Cancelled(order[o]) ELSE Stays(order[p])])
    /\ UNCHANGED <<now, quote, booked, stopped>>

\* What _reconcile_fills books of an ack.
BookedBy(ack) == IF ack.status \in FillStatuses THEN ack.qty ELSE 0

\* The oldest ack of every order that has one: _publish_and_apply_order_acks and
\* _reconcile_fills take the acks of an order in turn, and those of different
\* orders do not touch each other.  The order stays tracked while they last.
SettleRouterAcks ==
    /\ ~Drained
    /\ state' = [o \in Orders |-> IF acks[o] = <<>> THEN state[o]
                                  ELSE ApplyAck(state[o], Head(acks[o]).status)]
    /\ booked' = [o \in Orders |-> IF acks[o] = <<>> \/ o \notin Active THEN booked[o]
                                   ELSE booked[o] + BookedBy(Head(acks[o]))]
    /\ acks' = [o \in Orders |-> IF acks[o] = <<>> THEN <<>> ELSE Tail(acks[o])]
    /\ UNCHANGED <<now, quote, order, out, stopped>>

\* Orchestrator.shutdown: pending MOC orders are refused, and the acks drained by
\* SettleRouterAcks.  Its last loop finds no order in CANCEL_REQUESTED here.
Shutdown ==
    /\ Drained /\ ~stopped
    /\ stopped' = TRUE
    /\ Answer([o \in Orders |-> ExpiredMoc(order[o])])
    /\ UNCHANGED <<now, quote, state, booked>>

Times == now .. LastTime

Next ==
    \/ \E q \in Quotes, place \in [Priced -> Places], t \in Times : OnQuote(q, place, t)
    \/ \E S \in SUBSET Orders, t \in Times : OnTrade(S, t)
    \/ \E o \in Orders, marketable \in BOOLEAN :
          \E req \in Requests[o] : Submit(o, req[1], req[2], marketable)
    \/ CancelResting
    \/ \E o \in Orders : CancelOrder(o)
    \/ SettleRouterAcks
    \/ Shutdown

Spec == Init /\ [][Next]_vars

\* The market keeps quoting: exchange time goes on, to the end of the bound.
MarketMoves ==
    \E t \in Times :
       /\ t > now \/ t = LastTime
       /\ now' = t
       /\ \E q \in Quotes :
             /\ quote' = Seen(q, t)
             /\ \E place \in [Priced -> Places] : OnQuote(q, place, t)

FairSpec == Spec /\ WF_vars(MarketMoves) /\ WF_vars(SettleRouterAcks)

(***************************************************************************)
(* Properties                                                              *)
(***************************************************************************)
Held == {"deferred", "resting", "moc"}

OrderRecords == [seat : Seats, side : Sides, limit : BOOLEAN, ackTs : Nat,
                 ticks : Nat, filled : Nat, traded : BOOLEAN]

AckRecords == [status : OrderAckStatus \cup {"NONE"}, qty : Nat, cum : Nat, ts : Nat]

\* The router's variables have their types.
TypeOK ==
    /\ now \in Nat
    /\ quote \in LastQuotes \cup {NoQuote}
    /\ order \in [Orders -> OrderRecords]
    /\ acks \in [Orders -> Seq(AckRecords)]
    /\ out \in [Orders -> AckRecords]
    /\ stopped \in BOOLEAN

\* The last answer a to an order the router holds as r, at time t.
HeldIsWorking(o, r, a, t) ==
    r.seat \in Held =>
       /\ a.status = IF r.filled = 0 THEN "ACKNOWLEDGED" ELSE "PARTIALLY_FILLED"
       /\ a.cum = r.filled
       /\ r.filled < Quantity[o]
       /\ a.ts <= Max2(Clock(t), r.ackTs)
       /\ r.seat # "resting" => r.filled = 0 /\ a.ts = r.ackTs

OverIsAnswered(o, r, a) ==
    r.seat = "over" =>
       /\ a.status \in TerminalOrderStates
       /\ a.cum <= Quantity[o]
       /\ a.status = "FILLED" <=> a.cum = Quantity[o]

\* Inductive invariant: the last answer to an order the router holds reports
\* exactly what is filled of it, not later than any answer to come; an order
\* it no longer holds has had a terminal answer, FILLED if and only if complete.
Sound(o, r, a, t) ==
    /\ r.seat = "none" => a = NotSent
    /\ HeldIsWorking(o, r, a, t)
    /\ OverIsAnswered(o, r, a)

IInv == TypeOK /\ \A o \in Orders : Sound(o, order[o], out[o], now)

\* The acks of an order never go back in time, whichever table it waited in and
\* whatever ended it: the floors at ack_timestamp_ns and the latency deadline.
AckTimesNeverGoBack == [][\A o \in Orders : out[o].ts <= out'[o].ts]_vars

\* What the kernel may assume of a router: see RouterContract.
Contract == INSTANCE RouterContract WITH
    phase  <- [o \in Orders |->
                 CASE out[o].status = "NONE" -> "new"
                   [] out[o].status \in {"ACKNOWLEDGED", "PARTIALLY_FILLED"} -> "working"
                   [] out[o].status = "FILLED" -> "filled"
                   [] OTHER -> "over"],
    shares <- [o \in Orders |-> out[o].cum]

\* The simulated router implements the contract of an OrderRouter.
KeepsContract == Contract!Spec

\* The kernel took a cancel the router had refused for done: the order is still
\* deferred there, and what becomes of it is an ack for an unknown order.
CancelledUnheard(o) == state[o] = "CANCELLED" /\ out[o].status # "CANCELLED"

\* The gate refused the rest of a partly filled order: the order table has no
\* transition from PARTIALLY_FILLED to REJECTED, so the ack is dropped.
RestRefused(o) == out[o].status = "REJECTED" /\ out[o].cum > 0

\* Kernel and venue agree on whether the order is alive, and the kernel has
\* booked exactly the shares the router has filled of it.
AgreeOnLife(o)   == (order[o].seat \in Held) <=> (o \in Active)
AgreeOnShares(o) == booked[o] = out[o].cum

\* Once the acks are settled, kernel and venue agree on which orders are alive
\* and on the shares of every order, but for the two ways above in which they
\* lose each other (_publish_and_apply_order_acks, _reconcile_fills).
KernelAgreesWithVenue ==
    Drained => \A o \in Orders :
       \/ CancelledUnheard(o)
       \/ AgreeOnShares(o) /\ (AgreeOnLife(o) \/ RestRefused(o))

\* While the market keeps quoting, no deferred or resting order works for ever:
\* it is filled, refused, expired or cancelled (or the replay ends).
EveryOrderEnds ==
    \A o \in Orders : order[o].seat \in {"deferred", "resting"}
                         ~> (order[o].seat = "over" \/ stopped)
=============================================================================
