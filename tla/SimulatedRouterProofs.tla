----------------------- MODULE SimulatedRouterProofs -----------------------
(***************************************************************************)
(* The simulated router keeps its answers in order and implements          *)
(* RouterContract, and the kernel that settles those answers agrees with   *)
(* it, for every set of orders, quantity, latency, session and quote.  One *)
(* lemma per handler shows that what it does with one order is a Legal     *)
(* step, a second one what the acks it appends say of that order; the      *)
(* steps of Next apply handlers to every order.                            *)
(***************************************************************************)
EXTENDS SimulatedRouter, SequenceTheorems, TLAPS

Results == [at : OrderRecords, acks : Seq(AckRecords)]

\* One answer after the other, as RouterContract has it.
Follows(o, a, b) ==
    \/ b = a
    \/ /\ a.status \in {"NONE", "ACKNOWLEDGED", "PARTIALLY_FILLED"}
       /\ \/ /\ b.status \in {"ACKNOWLEDGED", "PARTIALLY_FILLED"}
             /\ a.cum <= b.cum /\ b.cum < Quantity[o]
          \/ b.status = "FILLED" /\ b.cum = Quantity[o]
          \/ b.status \in {"CANCELLED", "REJECTED", "EXPIRED"} /\ b.cum = a.cum

\* The result of a handler at time t for an order last answered with a.
Legal(o, a, res, t) ==
    /\ res \in Results
    /\ LastAck(a, res.acks) \in AckRecords
    /\ Sound(o, res.at, LastAck(a, res.acks), t)
    /\ a.ts <= LastAck(a, res.acks).ts
    /\ Follows(o, a, LastAck(a, res.acks))

\* The facts every handler starts from.
Given(o, r, a, s, t) ==
    /\ o \in Orders
    /\ r \in OrderRecords
    /\ a \in AckRecords
    /\ s \in Nat /\ t \in Nat /\ s <= t
    /\ Sound(o, r, a, s)

\* The records the handlers build have their types.
LEMMA Records ==
    /\ \A status \in OrderAckStatus, qty \in Nat, cum \in Nat, ts \in Nat :
          Ack(status, qty, cum, ts) \in AckRecords
    /\ \A seat \in Seats, side \in Sides, limit \in BOOLEAN, ts \in Nat :
          Place(seat, side, limit, ts) \in OrderRecords
    /\ NotSent \in AckRecords
    /\ \A r \in OrderRecords : Over(r) \in OrderRecords
BY DEF Ack, AckRecords, NotSent, Place, OrderRecords, Over, Seats, Sides

\* The last of one and of two acks.
LEMMA OneAck ==
    ASSUME NEW a, NEW b, b \in AckRecords
    PROVE  LastAck(a, <<b>>) = b /\ <<b>> \in Seq(AckRecords)
BY DEF LastAck

\* The last of two acks.
LEMMA TwoAcks ==
    ASSUME NEW a, NEW b, NEW c, b \in AckRecords, c \in AckRecords
    PROVE  LastAck(a, <<b, c>>) = c /\ <<b, c>> \in Seq(AckRecords)
BY DEF LastAck

\* An order left where it is keeps its last answer, as time goes on.
LEMMA StaysLegal ==
    ASSUME NEW o, NEW r, NEW a, NEW s, NEW t, Given(o, r, a, s, t)
    PROVE  Legal(o, a, Stays(r), t)
<1>1. LastAck(a, Stays(r).acks) = a
  BY DEF Stays, LastAck
<1>2. Sound(o, r, a, t)
  BY RouterAssumption DEF Given, Sound, HeldIsWorking, OverIsAnswered, Clock, Max2, OrderRecords, AckRecords
<1>3. Stays(r) \in Results
  BY DEF Stays, Given, Results
<1> QED
  BY <1>1, <1>2, <1>3 DEF Legal, Follows, Stays, Given, AckRecords

\* An order that ends with the answer b.
LEMMA EndsLegal ==
    ASSUME NEW o \in Orders, NEW r \in OrderRecords, NEW a \in AckRecords, NEW t \in Nat,
           NEW b \in AckRecords, NEW list \in Seq(AckRecords), LastAck(a, list) = b,
           b.status \in TerminalOrderStates, a.ts <= b.ts, Follows(o, a, b),
           b.cum <= Quantity[o], b.status = "FILLED" <=> b.cum = Quantity[o]
    PROVE  Legal(o, a, Ends(r, list), t)
<1>1. Over(r) \in OrderRecords /\ Over(r).seat = "over"
  BY Records DEF Over, Place
<1>2. Sound(o, Over(r), b, t)
  BY <1>1 DEF Sound, HeldIsWorking, OverIsAnswered, Held
<1>3. Ends(r, list) \in Results
  BY <1>1 DEF Ends, Results
<1> QED
  BY <1>2, <1>3 DEF Legal, Ends

\* REJECTED, CANCELLED or EXPIRED, not before the last answer.
LEMMA EndsUnfilled ==
    ASSUME NEW o \in Orders, NEW r \in OrderRecords, NEW a \in AckRecords, NEW t \in Nat,
           NEW status \in {"CANCELLED", "REJECTED", "EXPIRED"}, NEW ts \in Nat, a.ts <= ts,
           a.status \in {"NONE", "ACKNOWLEDGED", "PARTIALLY_FILLED"},
           a.cum = r.filled, r.filled < Quantity[o]
    PROVE  Legal(o, a, Ends(r, <<Ack(status, 0, r.filled, ts)>>), t)
<1> DEFINE b == Ack(status, 0, r.filled, ts)
<1>1. b \in AckRecords /\ b.status = status /\ b.cum = r.filled /\ b.ts = ts
  BY Records DEF Ack, OrderRecords, OrderAckStatus
<1>2. LastAck(a, <<b>>) = b /\ <<b>> \in Seq(AckRecords)
  BY <1>1, OneAck
<1>3. Follows(o, a, b)
  BY <1>1 DEF Follows
<1>4. b.cum <= Quantity[o] /\ b.cum # Quantity[o]
  BY <1>1, RouterAssumption DEF OrderRecords
<1>5. b.status \in TerminalOrderStates /\ b.status # "FILLED"
  BY <1>1 DEF TerminalOrderStates
<1> QED
  <2> HIDE DEF b
  <2> QED BY <1>1, <1>2, <1>3, <1>4, <1>5, EndsLegal DEF b

\* FILLED, for all that was left of the order.
LEMMA EndsFilled ==
    ASSUME NEW o \in Orders, NEW r \in OrderRecords, NEW a \in AckRecords, NEW t \in Nat,
           NEW ts \in Nat, a.ts <= ts, NEW n \in Nat,
           a.status \in {"NONE", "ACKNOWLEDGED", "PARTIALLY_FILLED"}
    PROVE  Legal(o, a, Ends(r, <<Ack("FILLED", n, Quantity[o], ts)>>), t)
<1> DEFINE b == Ack("FILLED", n, Quantity[o], ts)
<1>1. b \in AckRecords /\ b.status = "FILLED" /\ b.cum = Quantity[o] /\ b.ts = ts
  BY Records, RouterAssumption DEF Ack, OrderAckStatus
<1>2. LastAck(a, <<b>>) = b /\ <<b>> \in Seq(AckRecords)
  BY <1>1, OneAck
<1>3. Follows(o, a, b)
  BY <1>1 DEF Follows
<1>4. b.cum <= Quantity[o]
  BY <1>1, RouterAssumption
<1>5. b.status \in TerminalOrderStates
  BY <1>1 DEF TerminalOrderStates
<1> QED
  <2> HIDE DEF b
  <2> QED BY <1>1, <1>2, <1>3, <1>4, <1>5, EndsLegal DEF b

\* append_market_fill_acks, with the size shown and then the rest.
LEMMA MarketFillLegal ==
    ASSUME NEW o \in Orders, NEW r \in OrderRecords, NEW a \in AckRecords, NEW t \in Nat,
           NEW ts \in Nat, a.ts <= ts, NEW size \in Nat,
           a.status \in {"NONE", "ACKNOWLEDGED", "PARTIALLY_FILLED"}
    PROVE  Legal(o, a, MarketFill(o, r, size, ts), t)
<1>1. CASE Quantity[o] > size
  <2> DEFINE p == Ack("PARTIALLY_FILLED", size, size, ts)
             b == Ack("FILLED", Quantity[o] - size, Quantity[o], ts + 1)
  <2>1. Quantity[o] - size \in Nat /\ Quantity[o] \in Nat /\ ts + 1 \in Nat /\ a.ts <= ts + 1
    BY <1>1, RouterAssumption DEF AckRecords
  <2>2. p \in AckRecords
    BY Records DEF OrderAckStatus
  <2>3. b \in AckRecords /\ b.status = "FILLED" /\ b.cum = Quantity[o] /\ b.ts = ts + 1
    BY <2>1, Records DEF Ack, OrderAckStatus
  <2>4. MarketFill(o, r, size, ts) = Ends(r, <<p, b>>)
    BY <1>1 DEF MarketFill
  <2> HIDE DEF p, b
  <2>5. LastAck(a, <<p, b>>) = b /\ <<p, b>> \in Seq(AckRecords)
    BY <2>2, <2>3, TwoAcks
  <2>6. Follows(o, a, b) /\ b.status \in TerminalOrderStates /\ b.cum <= Quantity[o]
    BY <2>1, <2>3 DEF Follows, TerminalOrderStates
  <2> QED
    BY <2>1, <2>3, <2>4, <2>5, <2>6, EndsLegal
<1>2. CASE ~(Quantity[o] > size)
  BY <1>2, EndsFilled, RouterAssumption DEF MarketFill
<1> QED
  BY <1>1, <1>2

\* What Sound says of the last answer to an order the router holds.
LEMMA HeldFacts ==
    ASSUME NEW o, NEW r, NEW a, NEW s, NEW t, Given(o, r, a, s, t), r.seat \in Held
    PROVE  /\ a.status \in {"NONE", "ACKNOWLEDGED", "PARTIALLY_FILLED"}
           /\ a.cum = r.filled /\ r.filled < Quantity[o]
           /\ Clock(t) \in Nat /\ Max2(Clock(t), r.ackTs) \in Nat
           /\ a.ts <= Max2(Clock(t), r.ackTs)
           /\ r.seat # "resting" => a.ts = r.ackTs
           /\ t >= r.ackTs => a.ts <= Clock(t)
BY RouterAssumption DEF Given, Sound, HeldIsWorking, Clock, Max2, OrderRecords, AckRecords

\* MocFillController.on_quote.
LEMMA MocOnQuoteLegal ==
    ASSUME NEW o, NEW r, NEW a, NEW s, NEW t, Given(o, r, a, s, t), r.seat = "moc", NEW q
    PROVE  Legal(o, a, MocOnQuote(o, r, q, t), t)
<1>1. CASE t < OfficialClose \/ q.locked
  BY <1>1, StaysLegal DEF MocOnQuote
<1>2. CASE ~(t < OfficialClose \/ q.locked)
  <2>1. a.ts = r.ackTs
    BY HeldFacts DEF Held
  <2>2. a.ts <= Max2(r.ackTs, t) /\ Max2(r.ackTs, t) \in Nat
    BY <2>1 DEF Max2, Given, OrderRecords, AckRecords
  <2> QED
    BY <1>2, <2>2, HeldFacts, EndsFilled, RouterAssumption DEF MocOnQuote, Given, Held
<1> QED
  BY <1>1, <1>2

\* _flush_deferred_aggressive.
LEMMA FlushDeferredLegal ==
    ASSUME NEW o, NEW r, NEW a, NEW s, NEW t, Given(o, r, a, s, t), r.seat = "deferred",
           NEW q \in Quotes, NEW place
    PROVE  Legal(o, a, FlushDeferred(o, r, q, place, t), t)
<1> DEFINE floored == Max2(Clock(t), r.ackTs)
           size    == q.size[r.side]
           bad     == q.locked \/ size = 0 \/ (r.limit /\ place[o] = "away")
           more    == [r EXCEPT !.ticks = @ + 1]
<1>0. r.seat \in Held /\ o \in Orders /\ r \in OrderRecords /\ a \in AckRecords /\ t \in Nat
  BY DEF Given, Held
<1>1. floored \in Nat /\ a.ts <= floored /\ Clock(t) \in Nat
  BY <1>0, HeldFacts
<1>2. size \in Nat
  BY <1>0, RouterAssumption DEF Quotes, OrderRecords, Sides
<1>3. Legal(o, a, Rejects(r, floored), t)
  BY <1>0, <1>1, HeldFacts, EndsUnfilled DEF Rejects
<1>4. CASE t < r.ackTs
  <2>1. more \in OrderRecords /\ Sound(o, more, a, s)
    BY <1>0 DEF Given, Sound, HeldIsWorking, OverIsAnswered, OrderRecords
  <2>2. Legal(o, a, Stays(more), t)
    BY <2>1, StaysLegal DEF Given
  <2> QED
    BY <1>3, <1>4, <2>2 DEF FlushDeferred
<1>5. CASE ~(t < r.ackTs) /\ bad
  BY <1>3, <1>5 DEF FlushDeferred
<1>6. CASE ~(t < r.ackTs) /\ ~bad /\ Suppresses(o, r.side, t)
  <2>0. t >= r.ackTs
    BY <1>0, <1>6 DEF OrderRecords
  <2>1. a.ts <= Clock(t)
    BY <1>0, <2>0, HeldFacts
  <2>2. Legal(o, a, Rejects(r, Clock(t)), t)
    BY <1>0, <1>1, <2>1, HeldFacts, EndsUnfilled DEF Rejects
  <2> QED
    BY <1>6, <2>2 DEF FlushDeferred
<1>7. CASE ~(t < r.ackTs) /\ ~bad /\ ~Suppresses(o, r.side, t)
  <2>1. Legal(o, a, MarketFill(o, r, size, floored), t)
    BY <1>0, <1>1, <1>2, HeldFacts, MarketFillLegal
  <2> QED
    BY <1>7, <2>1 DEF FlushDeferred
<1> QED
  BY <1>4, <1>5, <1>6, <1>7

\* A through-fill or a drained queue, for n of the shares that are left.
LEMMA PassiveFillLegal ==
    ASSUME NEW o, NEW r, NEW a, NEW s, NEW t, Given(o, r, a, s, t), r.seat = "resting",
           t >= r.ackTs, NEW n \in Nat \ {0}, r.filled + n <= Quantity[o]
    PROVE  Legal(o, a, PassiveFill(o, r, n, Max2(Clock(t), r.ackTs)), t)
<1> DEFINE ts == Max2(Clock(t), r.ackTs)
           more == [r EXCEPT !.filled = @ + n]
           b == Ack("PARTIALLY_FILLED", n, r.filled + n, ts)
<1>0. r.seat \in Held /\ o \in Orders /\ r \in OrderRecords /\ a \in AckRecords /\ t \in Nat
  BY DEF Given, Held
<1>1. ts \in Nat /\ a.ts <= ts
  BY <1>0, HeldFacts
<1>2. a.status \in {"NONE", "ACKNOWLEDGED", "PARTIALLY_FILLED"} /\ a.cum = r.filled
  BY <1>0, HeldFacts
<1>3. Quantity[o] \in Nat /\ r.filled \in Nat /\ r.filled + n \in Nat
  BY <1>0, RouterAssumption DEF OrderRecords
<1>4. CASE r.filled + n = Quantity[o]
  BY <1>0, <1>1, <1>2, <1>4, EndsFilled DEF PassiveFill
<1>5. CASE r.filled + n # Quantity[o]
  <2>1. b \in AckRecords /\ b.status = "PARTIALLY_FILLED" /\ b.cum = r.filled + n /\ b.ts = ts
    BY <1>1, <1>3, Records DEF Ack, OrderAckStatus
  <2>2. /\ more \in OrderRecords /\ more.seat = "resting" /\ more.filled = r.filled + n
        /\ more.ackTs = r.ackTs
    BY <1>0, <1>3 DEF OrderRecords
  <2>3. r.filled + n < Quantity[o] /\ r.filled + n # 0
    BY <1>3, <1>5
  <2>4. PassiveFill(o, r, n, ts) = [at |-> more, acks |-> <<b>>]
    BY <1>5 DEF PassiveFill
  <2> HIDE DEF b, more, ts
  <2>5. LastAck(a, <<b>>) = b /\ <<b>> \in Seq(AckRecords)
    BY <2>1, OneAck
  <2>6. Sound(o, more, b, t)
    <3>1. b.ts <= Max2(Clock(t), more.ackTs)
      BY <1>1, <2>1, <2>2 DEF ts
    <3> QED
      BY <2>1, <2>2, <2>3, <3>1 DEF Sound, HeldIsWorking, OverIsAnswered, Held
  <2>7. Follows(o, a, b)
    BY <1>2, <1>3, <2>1, <2>3 DEF Follows
  <2>8. [at |-> more, acks |-> <<b>>] \in Results
    BY <2>2, <2>5 DEF Results
  <2>9. Legal(o, a, [at |-> more, acks |-> <<b>>], t)
    BY <1>1, <2>1, <2>5, <2>6, <2>7, <2>8 DEF Legal
  <2> QED
    BY <2>4, <2>9 DEF ts
<1> QED
  BY <1>4, <1>5

\* A resting order's tick counter and volume gate say nothing of its answers.
LEMMA TickedRecord ==
    ASSUME NEW r \in OrderRecords, NEW n \in Nat, NEW b \in BOOLEAN
    PROVE  LET u == [r EXCEPT !.ticks = n, !.traded = b]
           IN  /\ u \in OrderRecords
               /\ u.seat = r.seat /\ u.filled = r.filled /\ u.ackTs = r.ackTs /\ u.side = r.side
BY DEF OrderRecords

\* A through-fill takes something, and no more than what is left.
LEMMA ThroughSizeBounds ==
    ASSUME NEW left \in Nat \ {0}, NEW size \in Nat
    PROVE  ThroughSize(left, size) \in Nat \ {0} /\ ThroughSize(left, size) <= left
BY DEF ThroughSize, Min2

\* _check_resting_orders.
LEMMA CheckRestingLegal ==
    ASSUME NEW o, NEW r0, NEW a, NEW s, NEW t, Given(o, r0, a, s, t), r0.seat = "resting",
           NEW q \in Quotes, NEW place
    PROVE  Legal(o, a, CheckResting(o, r0, q, place, t), t)
<1> DEFINE r       == [r0 EXCEPT !.ticks = @ + 1, !.traded = @ /\ place[o] # "away"]
           left    == Quantity[o] - r.filled
           floored == Max2(Clock(t), r.ackTs)
           size    == q.size[r.side]
<1>0. o \in Orders /\ r0 \in OrderRecords /\ a \in AckRecords /\ t \in Nat
  BY DEF Given
<1>1. CASE t < r.ackTs
  BY <1>0, <1>1, StaysLegal DEF CheckResting, OrderRecords
<1>2. CASE ~(t < r.ackTs)
  <2>1. (r0.traded /\ place[o] # "away") \in BOOLEAN
    OBVIOUS
  <2>2. /\ r.seat = "resting" /\ r.filled = r0.filled /\ r.ackTs = r0.ackTs
        /\ r.side = r0.side /\ r \in OrderRecords
    <3>1. r0.ticks + 1 \in Nat
      BY <1>0 DEF OrderRecords
    <3> QED
      BY <1>0, <2>1, <3>1, TickedRecord, ZenonT(20)
  <2> HIDE DEF r
  <2>3. Given(o, r, a, s, t) /\ r.seat \in Held
    BY <2>2 DEF Given, Sound, HeldIsWorking, OverIsAnswered, Held
  <2>4. floored \in Nat /\ a.ts <= floored /\ r.filled < Quantity[o] /\ a.cum = r.filled
    BY <2>3, HeldFacts
  <2>4a. a.status \in {"NONE", "ACKNOWLEDGED", "PARTIALLY_FILLED"}
    BY <2>3, HeldFacts
  <2>5. t >= r.ackTs /\ left \in Nat \ {0} /\ r.filled + left <= Quantity[o] /\ size \in Nat
    BY <1>0, <1>2, <2>2, <2>4, RouterAssumption DEF OrderRecords, Quotes, Sides
  <2>6. /\ ThroughSize(left, size) \in Nat \ {0}
        /\ r.filled + ThroughSize(left, size) <= Quantity[o]
    <3>1. ThroughSize(left, size) \in Nat \ {0} /\ ThroughSize(left, size) <= left
      BY <2>5, ThroughSizeBounds
    <3>2. r.filled \in Nat /\ Quantity[o] \in Nat
      BY <1>0, <2>2, RouterAssumption DEF OrderRecords
    <3> QED
      BY <3>1, <3>2
  <2>7. Legal(o, a, Rejects(r, floored), t)
    BY <1>0, <2>2, <2>4, <2>4a, EndsUnfilled DEF Rejects
  <2>8. Legal(o, a, PassiveFill(o, r, ThroughSize(left, size), floored), t)
    BY <2>2, <2>3, <2>5, <2>6, PassiveFillLegal
  <2>9. Legal(o, a, PassiveFill(o, r, left, floored), t)
    BY <2>2, <2>3, <2>5, PassiveFillLegal
  <2>10. Legal(o, a, Ends(r, <<Ack("EXPIRED", 0, r.filled, floored)>>), t)
    BY <1>0, <2>2, <2>4, <2>4a, EndsUnfilled
  <2>11. Legal(o, a, Stays(r), t)
    BY <2>3, StaysLegal
  <2> QED
    BY <1>2, <2>7, <2>8, <2>9, <2>10, <2>11 DEF CheckResting, r
<1> QED
  BY <1>1, <1>2

\* on_quote, for any order.
LEMMA OrderOnQuoteLegal ==
    ASSUME IInv, NEW o \in Orders, NEW q \in Quotes, NEW place, NEW t \in Nat, now <= t
    PROVE  Legal(o, out[o], OrderOnQuote(o, q, place, t), t)
<1>1. Given(o, order[o], out[o], now, t)
  BY DEF IInv, TypeOK, Given
<1>2. CASE order[o].seat = "moc"
  BY <1>1, <1>2, MocOnQuoteLegal DEF OrderOnQuote
<1>3. CASE order[o].seat = "deferred"
  BY <1>1, <1>3, FlushDeferredLegal DEF OrderOnQuote
<1>4. CASE order[o].seat = "resting"
  BY <1>1, <1>4, CheckRestingLegal DEF OrderOnQuote
<1>5. CASE order[o].seat \notin {"moc", "deferred", "resting"}
  BY <1>1, <1>5, StaysLegal DEF OrderOnQuote
<1> QED
  BY <1>2, <1>3, <1>4, <1>5

\* cancel_order and expire_pending_moc.
LEMMA CancelledLegal ==
    ASSUME IInv, NEW o \in Orders
    PROVE  /\ Legal(o, out[o], Stays(order[o]), now)
           /\ Legal(o, out[o], Cancelled(order[o]), now)
           /\ Legal(o, out[o], ExpiredMoc(order[o]), now)
<1>1. Given(o, order[o], out[o], now, now)
  BY DEF IInv, TypeOK, Given
<1>2. Legal(o, out[o], Stays(order[o]), now)
  BY <1>1, StaysLegal
<1>3. ASSUME order[o].seat \in Held, NEW status \in {"CANCELLED", "REJECTED", "EXPIRED"}
      PROVE  Legal(o, out[o],
                   Ends(order[o], <<Ack(status, 0, order[o].filled,
                                        Max2(Clock(now), order[o].ackTs))>>), now)
  <2>1. /\ out[o].status \in {"NONE", "ACKNOWLEDGED", "PARTIALLY_FILLED"}
        /\ out[o].cum = order[o].filled /\ order[o].filled < Quantity[o]
        /\ Max2(Clock(now), order[o].ackTs) \in Nat
        /\ out[o].ts <= Max2(Clock(now), order[o].ackTs)
    BY <1>1, <1>3, HeldFacts
  <2> QED
    BY <1>1, <2>1, EndsUnfilled DEF Given
<1>4. Legal(o, out[o], Cancelled(order[o]), now)
  BY <1>2, <1>3 DEF Cancelled, Held
<1>5. Legal(o, out[o], ExpiredMoc(order[o]), now)
  BY <1>2, <1>3 DEF ExpiredMoc, Rejects, Held
<1> QED
  BY <1>2, <1>4, <1>5

\* The last of a list that begins with b.
LEMMA LastOfLonger ==
    ASSUME NEW a, NEW b \in AckRecords, NEW list \in Seq(AckRecords)
    PROVE  /\ <<b>> \o list \in Seq(AckRecords)
           /\ LastAck(a, <<b>> \o list) = LastAck(b, list)
<1>1. CASE list = <<>>
  BY <1>1 DEF LastAck
<1>2. CASE list # <<>>
  <2>1. /\ <<b>> \o list \in Seq(AckRecords) /\ <<b>> \o list # <<>>
        /\ Len(<<b>> \o list) = Len(list) + 1
        /\ Len(list) \in Nat /\ Len(list) >= 1
    BY <1>2
  <2>2. (<<b>> \o list)[Len(list) + 1] = list[Len(list)]
    BY <2>1
  <2> QED
    BY <1>2, <2>1, <2>2 DEF LastAck
<1> QED
  BY <1>1, <1>2

\* ACKNOWLEDGED, then whatever is legal after it.
LEMMA AcknowledgesLegal ==
    ASSUME NEW o \in Orders, NEW ts \in Nat, NEW t \in Nat, NEW res,
           Legal(o, Ack("ACKNOWLEDGED", 0, 0, ts), res, t)
    PROVE  Legal(o, NotSent, Acknowledges(res, ts), t)
<1> DEFINE b == Ack("ACKNOWLEDGED", 0, 0, ts)
<1>1. b \in AckRecords /\ b.status = "ACKNOWLEDGED" /\ b.cum = 0 /\ b.ts = ts
  BY Records DEF Ack, OrderAckStatus
<1>2. res \in Results /\ res.at \in OrderRecords /\ res.acks \in Seq(AckRecords)
  BY DEF Legal, Results
<1>3. Acknowledges(res, ts) = [at |-> res.at, acks |-> <<b>> \o res.acks]
  BY DEF Acknowledges
<1>4. NotSent.status = "NONE" /\ NotSent.cum = 0 /\ NotSent.ts = 0
  BY DEF NotSent, Ack
<1>5. Quantity[o] \in Nat \ {0}
  BY RouterAssumption
<1> HIDE DEF b
<1>6. PICK c \in AckRecords : c = LastAck(b, res.acks)
  BY DEF Legal, b
<1>7. /\ <<b>> \o res.acks \in Seq(AckRecords)
      /\ LastAck(NotSent, <<b>> \o res.acks) = c
  BY <1>1, <1>2, <1>6, LastOfLonger
<1>8. Sound(o, res.at, c, t) /\ b.ts <= c.ts /\ Follows(o, b, c)
  BY <1>6 DEF Legal, b
<1>9. Follows(o, NotSent, c)
  BY <1>1, <1>4, <1>5, <1>8 DEF Follows, AckRecords
<1>10. NotSent.ts <= c.ts
  BY <1>4 DEF AckRecords
<1>11. Acknowledges(res, ts) \in Results
  BY <1>2, <1>3, <1>7 DEF Results
<1> QED
  BY <1>3, <1>7, <1>8, <1>9, <1>10, <1>11 DEF Legal

\* A request as the router places it.
LEMMA Placed ==
    ASSUME NEW side \in Sides, NEW limit \in BOOLEAN, NEW x \in Nat, NEW seat \in Seats
    PROVE  /\ Place(seat, side, limit, x) \in OrderRecords
           /\ Place(seat, side, limit, x).seat = seat
           /\ Place(seat, side, limit, x).side = side
           /\ Place(seat, side, limit, x).filled = 0
           /\ Place(seat, side, limit, x).ackTs = x
           /\ Place(seat, side, limit, x).limit = limit
<1>1. Place(seat, side, limit, x) \in OrderRecords
  BY Records
<1>2. Place(seat, side, limit, x).limit = limit
  BY Zenon DEF Place
<1>3. /\ Place(seat, side, limit, x).seat = seat
      /\ Place(seat, side, limit, x).side = side
      /\ Place(seat, side, limit, x).filled = 0
      /\ Place(seat, side, limit, x).ackTs = x
  BY DEF Place
<1> QED
  BY <1>1, <1>2, <1>3

\* submit.
LEMMA SubmittedLegal ==
    ASSUME IInv, NEW o \in Orders, order[o].seat = "none",
           NEW side \in Sides, NEW kind \in Kinds, NEW marketable \in BOOLEAN
    PROVE  Legal(o, out[o], Submitted(o, side, kind, marketable), now)
<1>0. PICK isLimit \in BOOLEAN : isLimit = (kind = "limit")
  OBVIOUS
<1> DEFINE ts == Clock(now)
           r  == Place("none", side, isLimit, ts + Latency)
           b  == Ack("ACKNOWLEDGED", 0, 0, ts + Latency)
<1>1. out[o] = NotSent /\ now \in Nat
  BY DEF IInv, TypeOK, Sound
<1>2. ts \in Nat /\ ts + Latency \in Nat /\ Quantity[o] \in Nat \ {0}
  BY <1>1, RouterAssumption DEF Clock
<1>3. NotSent \in AckRecords /\ NotSent.status = "NONE" /\ NotSent.cum = 0 /\ NotSent.ts = 0
  BY Records DEF NotSent, Ack
<1>7. ASSUME NEW x \in Nat
      PROVE  /\ Ack("ACKNOWLEDGED", 0, 0, x) \in AckRecords
             /\ Ack("ACKNOWLEDGED", 0, 0, x).status = "ACKNOWLEDGED"
             /\ Ack("ACKNOWLEDGED", 0, 0, x).cum = 0
             /\ Ack("ACKNOWLEDGED", 0, 0, x).ts = x
  BY Records DEF Ack, OrderAckStatus
\* An order acknowledged and placed in one of the tables.
<1>8. ASSUME NEW seat \in Held, NEW limit \in BOOLEAN, NEW x \in Nat
      PROVE  Legal(o, Ack("ACKNOWLEDGED", 0, 0, x), Stays(Place(seat, side, limit, x)), now)
  <2> DEFINE p == Place(seat, side, limit, x)
             c == Ack("ACKNOWLEDGED", 0, 0, x)
  <2>1. /\ p \in OrderRecords /\ p.seat = seat /\ p.filled = 0 /\ p.ackTs = x
        /\ c \in AckRecords /\ c.status = "ACKNOWLEDGED" /\ c.cum = 0 /\ c.ts = x
    BY Placed, <1>7 DEF Held, Seats
  <2> HIDE DEF p, c
  <2>2. c.ts <= Max2(Clock(now), p.ackTs)
    BY <1>1, <1>2, <2>1 DEF Max2
  <2>3. Given(o, p, c, now, now)
    BY <1>1, <1>2, <2>1, <2>2 DEF Given, Sound, HeldIsWorking, OverIsAnswered, Held
  <2> QED
    BY <2>3, StaysLegal DEF p, c
<1>9. ASSUME NEW limit \in BOOLEAN, NEW x \in Nat, NEW a \in {NotSent, b}, a.ts <= ts
      PROVE  Legal(o, a, Rejects(Place("none", side, limit, x), ts), now)
  <2>1. a \in AckRecords /\ a.cum = 0 /\ a.status \in {"NONE", "ACKNOWLEDGED"}
    BY <1>2, <1>3, <1>7, <1>9
  <2>2. /\ Place("none", side, limit, x) \in OrderRecords
        /\ Place("none", side, limit, x).filled = 0
    BY Placed DEF Seats
  <2> QED
    BY <1>1, <1>2, <1>9, <2>1, <2>2, EndsUnfilled DEF Rejects
<1>10. CASE Refused(o, side)
  <2>1. Legal(o, NotSent, Rejects(r, ts), now)
    BY <1>2, <1>3, <1>9
  <2> QED
    BY <1>0, <1>1, <1>10, <2>1 DEF Submitted
<1>11. CASE ~Refused(o, side) /\ kind = "moc"
  <2>0. FALSE \in BOOLEAN /\ NotSent.ts <= ts
    BY <1>2, <1>3
  <2>1. Legal(o, NotSent, Rejects(Place("none", side, FALSE, ts), ts), now)
    BY <1>2, <2>0, <1>9, Zenon
  <2>2. Legal(o, Ack("ACKNOWLEDGED", 0, 0, ts), Stays(Place("moc", side, FALSE, ts)), now)
    BY <1>2, <1>8 DEF Held
  <2>3. Legal(o, NotSent, Acknowledges(Stays(Place("moc", side, FALSE, ts)), ts), now)
    BY <1>1, <1>2, <2>2, AcknowledgesLegal
  <2>4. Acknowledges(Stays(Place("moc", side, FALSE, ts)), ts)
          = [at |-> Place("moc", side, FALSE, ts), acks |-> <<Ack("ACKNOWLEDGED", 0, 0, ts)>>]
    BY DEF Acknowledges, Stays
  <2> QED
    BY <1>1, <1>11, <2>1, <2>3, <2>4 DEF Submitted, MocSubmitted
<1>12. CASE ~Refused(o, side) /\ kind # "moc" /\ (kind = "market" \/ marketable)
  <2>1. r.ackTs = ts + Latency /\ r.side = side /\ r.limit = isLimit /\ r \in OrderRecords
    BY <1>2, Placed DEF Seats
  <2>2. CASE Latency > 0
    <3>1. Legal(o, b, Stays(Place("deferred", side, isLimit, ts + Latency)), now)
      BY <1>2, <1>8 DEF Held
    <3> QED
      BY <1>0, <1>1, <1>2, <1>12, <2>1, <2>2, <3>1, AcknowledgesLegal DEF Submitted, PostPassive, MarketSubmitted
  <2>3. CASE ~(Latency > 0) /\ quote.size[side] = 0
    <3>1. b.ts <= ts
      BY <1>2, <1>7, <2>3, RouterAssumption
    <3>2. Legal(o, b, Rejects(r, ts), now)
      BY <1>2, <1>9, <3>1
    <3> QED
      BY <1>0, <1>1, <1>2, <1>12, <2>1, <2>3, <3>2, AcknowledgesLegal DEF Submitted, PostPassive, MarketSubmitted
  <2>4. CASE ~(Latency > 0) /\ quote.size[side] # 0
    <3>1. quote \in LastQuotes /\ quote.size[side] \in Nat
      BY <1>12, RouterAssumption DEF IInv, TypeOK, Refused, LastQuotes, Sides
    <3>2. b \in AckRecords /\ b.status = "ACKNOWLEDGED" /\ b.ts = ts + Latency
      BY <1>2, <1>7
    <3>3. Legal(o, b, MarketFill(o, r, quote.size[side], r.ackTs), now)
      BY <1>1, <1>2, <2>1, <3>1, <3>2, MarketFillLegal
    <3> QED
      BY <1>0, <1>1, <1>2, <1>12, <2>1, <2>4, <3>3, AcknowledgesLegal DEF Submitted, PostPassive, MarketSubmitted
  <2> QED
    BY <2>2, <2>3, <2>4
<1>13. CASE ~Refused(o, side) /\ kind # "moc" /\ ~(kind = "market" \/ marketable)
  <2>1. r.ackTs = ts + Latency /\ r.side = side /\ r.limit = isLimit
    BY <1>2, Placed DEF Seats
  <2>2. Legal(o, b, Stays(Place("resting", side, isLimit, ts + Latency)), now)
    BY <1>2, <1>8 DEF Held
  <2> QED
    BY <1>0, <1>1, <1>2, <1>13, <2>1, <2>2, AcknowledgesLegal DEF Submitted, PostPassive
<1> QED
  BY <1>10, <1>11, <1>12, <1>13

\* What every step keeps: later answers follow earlier ones.
Steady == \A o \in Orders : out[o].ts <= out'[o].ts /\ Follows(o, out[o], out'[o])

\* A call of the router whose result is legal for every order.
LEMMA AnswerStep ==
    ASSUME IInv, NEW result, Answer(result), now' \in Nat,
           quote' \in LastQuotes \cup {NoQuote}, stopped' \in BOOLEAN,
           \A o \in Orders : Legal(o, out[o], result[o], now')
    PROVE  IInv' /\ Steady
<1>1. ASSUME NEW o \in Orders
      PROVE  /\ order'[o] = result[o].at /\ order'[o] \in OrderRecords
             /\ out'[o] = LastAck(out[o], result[o].acks) /\ out'[o] \in AckRecords
             /\ acks'[o] \in Seq(AckRecords)
             /\ Sound(o, order'[o], out'[o], now')
             /\ out[o].ts <= out'[o].ts /\ Follows(o, out[o], out'[o])
  BY <1>1 DEF Answer, Legal, Results, IInv, TypeOK
<1>2. order' \in [Orders -> OrderRecords] /\ out' \in [Orders -> AckRecords]
  BY <1>1 DEF Answer
<1>3. acks' \in [Orders -> Seq(AckRecords)]
  BY <1>1 DEF Answer
<1> QED
  BY <1>1, <1>2, <1>3 DEF IInv, TypeOK, Steady

\* Steps that leave the answers and the places of all orders alone.
LEMMA QuietStep ==
    ASSUME IInv, UNCHANGED <<now, quote, order, out, stopped>>,
           acks' \in [Orders -> Seq(AckRecords)]
    PROVE  IInv' /\ Steady
<1>1. IInv'
  BY DEF IInv, TypeOK, Sound, HeldIsWorking, OverIsAnswered
<1>2. Steady
  BY DEF Steady, Follows, IInv, TypeOK, AckRecords
<1> QED
  BY <1>1, <1>2

\* A trade changes the volume gate of resting orders alone.
LEMMA OnTradeStep ==
    ASSUME IInv, NEW S, NEW t \in Times, OnTrade(S, t)
    PROVE  IInv' /\ Steady
<1>1. t \in Nat /\ now <= t
  BY RouterAssumption DEF IInv, TypeOK, Times
<1>2. ASSUME NEW o \in Orders
      PROVE  order'[o] \in OrderRecords /\ Sound(o, order'[o], out[o], t)
  <2>1. PICK b \in BOOLEAN : order'[o] = [order[o] EXCEPT !.traded = b]
    <3>1. (order[o].traded \/ (NeedsTrade /\ o \in S /\ order[o].seat = "resting"
                                /\ t >= order[o].ackTs)) \in BOOLEAN
      OBVIOUS
    <3> QED
      BY <1>2, <3>1, Zenon DEF OnTrade
  <2>2. order[o] \in OrderRecords
    BY <1>2 DEF IInv, TypeOK
  <2>3. /\ order'[o] \in OrderRecords /\ order'[o].seat = order[o].seat
        /\ order'[o].filled = order[o].filled /\ order'[o].ackTs = order[o].ackTs
    BY <2>1, <2>2 DEF OrderRecords
  <2>4. Sound(o, order'[o], out[o], now)
    BY <1>2, <2>3 DEF IInv, Sound, HeldIsWorking, OverIsAnswered
  <2>5. Given(o, order'[o], out[o], now, t)
    BY <1>1, <1>2, <2>3, <2>4 DEF Given, IInv, TypeOK
  <2>6. Sound(o, order'[o], out[o], t)
    BY <2>5, StaysLegal DEF Legal, Stays, LastAck
  <2> QED
    BY <2>3, <2>6
<1>3. UNCHANGED <<out, acks, quote, stopped>> /\ now' = t
  BY DEF OnTrade, kernelVars
<1>4. order' \in [Orders -> OrderRecords]
  BY <1>2 DEF OnTrade
<1>5. IInv'
  BY <1>1, <1>2, <1>3, <1>4 DEF IInv, TypeOK
<1>6. Steady
  BY <1>3 DEF Steady, Follows, IInv, TypeOK, AckRecords
<1> QED
  BY <1>5, <1>6

\* Every step keeps the invariant, and the answers in order.
LEMMA NextStep ==
    ASSUME IInv, [Next]_vars
    PROVE  IInv' /\ Steady
<1>0. now \in Nat /\ quote \in LastQuotes \cup {NoQuote} /\ stopped \in BOOLEAN
  BY DEF IInv, TypeOK
<1>1. ASSUME NEW q \in Quotes, NEW place, NEW t \in Times, OnQuote(q, place, t)
      PROVE  IInv' /\ Steady
  <2> DEFINE result == [o \in Orders |-> OrderOnQuote(o, q, place, t)]
  <2>1. t \in Nat /\ now <= t
    BY <1>0, RouterAssumption DEF Times
  <2>2. ASSUME NEW o \in Orders PROVE Legal(o, out[o], result[o], t)
    BY <2>1, <2>2, OrderOnQuoteLegal
  <2>3. now' = t /\ quote' = Seen(q, t) /\ stopped' = stopped /\ Answer(result)
    BY <1>1 DEF OnQuote, kernelVars
  <2>4. quote' \in LastQuotes
    BY <1>1, <2>1, <2>3 DEF Seen, Quotes, LastQuotes
  <2> HIDE DEF result
  <2> QED
    BY <1>0, <1>1, <2>1, <2>2, <2>3, <2>4, AnswerStep
<1>2. ASSUME NEW S, NEW t \in Times, OnTrade(S, t)
      PROVE  IInv' /\ Steady
  BY <1>2, OnTradeStep
<1>3. ASSUME NEW o \in Orders, NEW side \in Sides, NEW kind \in Kinds, NEW marketable \in BOOLEAN,
             Submit(o, side, kind, marketable)
      PROVE  IInv' /\ Steady
  <2> DEFINE result == [p \in Orders |-> IF p = o THEN Submitted(o, side, kind, marketable)
                                         ELSE Stays(order[p])]
  <2>1. ASSUME NEW p \in Orders PROVE Legal(p, out[p], result[p], now)
    <3>1. CASE p = o
      BY <1>3, <3>1, SubmittedLegal DEF Submit
    <3>2. CASE p # o
      BY <2>1, <3>2, CancelledLegal
    <3> QED
      BY <3>1, <3>2
  <2>2. now' = now /\ quote' = quote /\ stopped' = stopped /\ Answer(result)
    BY <1>3 DEF Submit
  <2> HIDE DEF result
  <2> QED
    BY <1>0, <2>1, <2>2, AnswerStep
<1>4. CASE CancelResting
  <2> DEFINE result == [o \in Orders |-> IF o \in Active THEN Cancelled(order[o])
                                         ELSE Stays(order[o])]
  <2>1. ASSUME NEW o \in Orders PROVE Legal(o, out[o], result[o], now)
    BY <2>1, CancelledLegal
  <2>2. now' = now /\ quote' = quote /\ stopped' = stopped /\ Answer(result)
    BY <1>4 DEF CancelResting, kernelVars
  <2> HIDE DEF result
  <2> QED
    BY <1>0, <2>1, <2>2, AnswerStep
<1>5. ASSUME NEW o \in Orders, CancelOrder(o)
      PROVE  IInv' /\ Steady
  <2> DEFINE result == [p \in Orders |-> IF p = o THEN Cancelled(order[o]) ELSE Stays(order[p])]
  <2>1. ASSUME NEW p \in Orders PROVE Legal(p, out[p], result[p], now)
    BY <2>1, CancelledLegal
  <2>2. now' = now /\ quote' = quote /\ stopped' = stopped /\ Answer(result)
    BY <1>5 DEF CancelOrder
  <2> HIDE DEF result
  <2> QED
    BY <1>0, <2>1, <2>2, AnswerStep
<1>6. CASE SettleRouterAcks
  <2>0. acks' = [o \in Orders |-> IF acks[o] = <<>> THEN <<>> ELSE Tail(acks[o])]
    BY <1>6, Zenon DEF SettleRouterAcks
  <2>1. acks' \in [Orders -> Seq(AckRecords)]
    <3>1. ASSUME NEW o \in Orders
          PROVE  (IF acks[o] = <<>> THEN <<>> ELSE Tail(acks[o])) \in Seq(AckRecords)
      BY <3>1 DEF IInv, TypeOK
    <3> QED
      BY <2>0, <3>1, Zenon
  <2> QED
    BY <1>6, <2>1, QuietStep DEF SettleRouterAcks
<1>7. CASE Shutdown
  <2> DEFINE result == [o \in Orders |-> ExpiredMoc(order[o])]
  <2>1. ASSUME NEW o \in Orders PROVE Legal(o, out[o], result[o], now)
    BY <2>1, CancelledLegal
  <2>2. now' = now /\ quote' = quote /\ stopped' \in BOOLEAN /\ Answer(result)
    BY <1>7 DEF Shutdown
  <2> HIDE DEF result
  <2> QED
    BY <1>0, <2>1, <2>2, AnswerStep
<1>8. CASE UNCHANGED vars
  <2>1. acks' \in [Orders -> Seq(AckRecords)]
    BY <1>8 DEF vars, IInv, TypeOK
  <2> QED
    BY <1>8, <2>1, QuietStep DEF vars
<1>9. ASSUME NEW o \in Orders, NEW req \in Requests[o]
      PROVE  req[1] \in Sides /\ req[2] \in Kinds
  BY <1>9, RouterAssumption DEF Sides, Kinds
<1> QED
  BY <1>1, <1>2, <1>3, <1>4, <1>5, <1>6, <1>7, <1>8, <1>9 DEF Next

\* The invariant holds initially.
LEMMA InitStep == Init => IInv
<1> SUFFICES ASSUME Init PROVE IInv
  OBVIOUS
<1>1. PICK b \in BOOLEAN : b = FALSE
  OBVIOUS
<1>2. Nowhere \in OrderRecords /\ Nowhere.seat = "none"
  <2>1. Place("none", "BUY", b, 0) \in OrderRecords /\ Place("none", "BUY", b, 0).seat = "none"
    BY Placed DEF Seats, Sides
  <2> QED
    BY <1>1, <2>1 DEF Nowhere
<1>3. <<>> \in Seq(AckRecords) /\ NotSent \in AckRecords
  BY Records
<1>4. TypeOK
  BY <1>2, <1>3 DEF Init, TypeOK
<1>5. ASSUME NEW o \in Orders PROVE Sound(o, order[o], out[o], now)
  BY <1>2, <1>5 DEF Init, Sound, HeldIsWorking, OverIsAnswered, Held
<1> QED
  BY <1>4, <1>5 DEF IInv

\* The router's last answer to an order reports exactly what is filled of it,
\* and the orders it has let go have had a terminal answer.
THEOREM InductiveInvariant == Spec => []IInv
BY InitStep, NextStep, PTL DEF Spec

\* The acks of an order never go back in time.
THEOREM AckTimesTheorem == Spec => AckTimesNeverGoBack
<1>1. IInv /\ [Next]_vars => [\A o \in Orders : out[o].ts <= out'[o].ts]_vars
  BY NextStep DEF Steady
<1> QED
  BY <1>1, InductiveInvariant, PTL DEF Spec, AckTimesNeverGoBack

\* PassiveLimitOrderRouter implements what the kernel assumes of a router.
THEOREM ContractTheorem == Spec => KeepsContract
<1>1. Init => Contract!Init
  BY DEF Init, Contract!Init, NotSent, Ack
<1>2. IInv /\ [Next]_vars => [Contract!Next]_(Contract!cvars)
  <2> SUFFICES ASSUME IInv, [Next]_vars
               PROVE  Contract!Next
    BY DEF Contract!cvars
  <2>1. IInv' /\ Steady
    BY NextStep
  <2> QED
    BY <2>1 DEF Steady, Follows, IInv, TypeOK, AckRecords, Contract!Next, Contract!Work,
                Contract!Complete, Contract!End, Contract!Rest
<1> QED
  BY <1>1, <1>2, InductiveInvariant, PTL DEF Spec, KeepsContract, Contract!Spec

(***************************************************************************)
(* Kernel and venue.  What a call says of an order is a list of acks that  *)
(* the kernel takes one by one: only the last may end the order, and each  *)
(* reports the shares the one before it did and its own.                   *)
(***************************************************************************)
Told(list) ==
    /\ \A i \in 1 .. Len(list) :
          /\ list[i].status \in OrderAckStatus
          /\ i < Len(list) => list[i].status \notin TerminalOrderStates
          /\ list[i].status = "PARTIALLY_FILLED" => list[Len(list)].cum > 0

Counted(n, list) ==
    /\ list # <<>> => n + BookedBy(list[1]) = list[1].cum
    /\ \A i \in 1 .. Len(list) - 1 : list[i].cum + BookedBy(list[i + 1]) = list[i + 1].cum

NoCancel(list) == \A i \in 1 .. Len(list) : list[i].status # "CANCELLED"

\* What a call says of an order that it finds at r.
Says(r, res) ==
    /\ res.acks \in Seq(AckRecords)
    /\ Told(res.acks) /\ Counted(r.filled, res.acks)
    /\ res.acks # <<>> => r.seat \notin {"none", "over"}
    /\ (res.at.seat = "none") <=> (r.seat = "none")
    /\ r.seat = "deferred" => res.at.seat \in {"deferred", "over"}
    /\ r.seat = "over" => res.at.seat = "over"

\* The kernel took a cancel the router had refused for done.
Unheard(s, a, seat) == s = "CANCELLED" /\ a.status # "CANCELLED" /\ seat \in {"deferred", "over"}

\* The kernel's state s and its n shares of an order, the acks it has still to
\* take, the router's last answer a and where the router keeps the order.
Fits(s, list, seat) ==
    /\ s \in OrderState
    /\ (s = "CREATED") <=> (seat = "none")
    /\ s = "CREATED" => list = <<>>
    /\ s = "SUBMITTED" => list # <<>>
    /\ s = "CANCEL_REQUESTED" => Len(list) = 1 /\ list[1].status = "CANCELLED"

Heard(list, a) == Told(list) /\ (list # <<>> => list[Len(list)] = a)

Closed(s, list, a, seat) ==
    /\ s = "PARTIALLY_FILLED" => a.cum > 0
    /\ s \in {"FILLED", "REJECTED", "EXPIRED"} => list = <<>> /\ a.status \in TerminalOrderStates
    /\ s = "CANCELLED" => Unheard(s, a, seat) \/ (list = <<>> /\ a.status = "CANCELLED")
    /\ s \in {"ACKNOWLEDGED", "PARTIALLY_FILLED"} /\ list = <<>> /\ a.status \in TerminalOrderStates =>
          s = "PARTIALLY_FILLED" /\ a.status = "REJECTED"

Shared(s, n, list, a, seat) ==
    /\ n \in Nat
    /\ Unheard(s, a, seat) \/ (Counted(n, list) /\ (list = <<>> => n = a.cum))

Line(s, n, list, a, seat) ==
    /\ Fits(s, list, seat)
    /\ Heard(list, a)
    /\ Closed(s, list, a, seat)
    /\ Shared(s, n, list, a, seat)

Lines == \A o \in Orders : Line(state[o], booked[o], acks[o], out[o], order[o].seat)

\* A list without acks.
LEMMA SaysNothing == \A n : Told(<<>>) /\ Counted(n, <<>>) /\ NoCancel(<<>>)
  BY DEF Told, Counted, NoCancel

\* One ack.
LEMMA SaysOne ==
    ASSUME NEW n \in Nat, NEW x \in AckRecords, x.status \in OrderAckStatus,
           x.status = "PARTIALLY_FILLED" => x.cum > 0, n + BookedBy(x) = x.cum
    PROVE  Told(<<x>>) /\ Counted(n, <<x>>) /\ <<x>> \in Seq(AckRecords) /\ <<x>> # <<>>
  <1>. DEFINE list == <<x>>
  <1>1. Len(list) = 1 /\ list[1] = x /\ list # <<>> /\ list \in Seq(AckRecords)
    OBVIOUS
  <1>. HIDE DEF list
  <1>2. \A i \in 1 .. Len(list) : i = 1
    BY <1>1
  <1>3. Told(list) /\ Counted(n, list)
    BY <1>1, <1>2 DEF Told, Counted
  <1>. QED BY <1>1, <1>3 DEF list

\* An ack put before those of list.
LEMMA SaysBefore ==
    ASSUME NEW n \in Nat, NEW x \in AckRecords, NEW list \in Seq(AckRecords),
           x.status \in {"ACKNOWLEDGED", "PARTIALLY_FILLED"}, n + BookedBy(x) = x.cum,
           Told(list), Counted(x.cum, list),
           x.status = "PARTIALLY_FILLED" =>
              IF list = <<>> THEN x.cum > 0 ELSE list[Len(list)].cum > 0
    PROVE  Told(<<x>> \o list) /\ Counted(n, <<x>> \o list)
  <1>. DEFINE long == <<x>> \o list
  <1>1. /\ long \in Seq(AckRecords) /\ Len(long) = Len(list) + 1 /\ Len(list) \in Nat
        /\ long[1] = x /\ long # <<>>
        /\ \A i \in 1 .. Len(list) : long[i + 1] = list[i]
        /\ list = <<>> => Len(list) = 0
        /\ list # <<>> => Len(list) > 0
    OBVIOUS
  <1>2. \A i \in 2 .. Len(long) : i - 1 \in 1 .. Len(list) /\ long[i] = list[i - 1]
    <2>. SUFFICES ASSUME NEW i \in 2 .. Len(long)
                  PROVE  i - 1 \in 1 .. Len(list) /\ long[i] = list[i - 1]
      OBVIOUS
    <2>. HIDE DEF long
    <2>1. i - 1 \in 1 .. Len(list) /\ (i - 1) + 1 = i
      BY <1>1
    <2>2. long[(i - 1) + 1] = list[i - 1]
      BY <1>1, <2>1
    <2>. QED BY <2>1, <2>2
  <1>. HIDE DEF long
  <1>3. \A i \in 1 .. Len(long) : i = 1 \/ i \in 2 .. Len(long)
    BY <1>1
  <1>4. long[Len(long)] = IF list = <<>> THEN x ELSE list[Len(list)]
    <2>1. CASE list = <<>>
      BY <1>1, <2>1
    <2>2. CASE list # <<>>
      <3>1. Len(list) \in 1 .. Len(list)
        BY <1>1, <2>2
      <3>. QED BY <1>1, <2>2, <3>1
    <2>. QED BY <2>1, <2>2
  <1>5. Told(long)
    <2>1. ASSUME NEW i \in 2 .. Len(long)
          PROVE  /\ long[i].status \in OrderAckStatus
                 /\ i < Len(long) => long[i].status \notin TerminalOrderStates
                 /\ long[i].status = "PARTIALLY_FILLED" => long[Len(long)].cum > 0
      <3>1. i - 1 \in 1 .. Len(list) /\ long[i] = list[i - 1] /\ list # <<>>
            /\ (i < Len(long) => i - 1 < Len(list))
        BY <1>1, <1>2
      <3>. QED BY <1>4, <3>1 DEF Told
    <2>2. /\ x.status \in OrderAckStatus /\ x.status \notin TerminalOrderStates
          /\ x.status = "PARTIALLY_FILLED" => long[Len(long)].cum > 0
      BY <1>4 DEF OrderAckStatus, TerminalOrderStates
    <2>. QED BY <1>1, <1>3, <2>1, <2>2 DEF Told
  <1>6. Counted(n, long)
    <2>1. ASSUME NEW i \in 1 .. Len(long) - 1 PROVE long[i].cum + BookedBy(long[i + 1]) = long[i + 1].cum
      <3>1. i \in 1 .. Len(list) /\ long[i + 1] = list[i] /\ list # <<>>
        BY <1>1
      <3>2. CASE i = 1
        BY <1>1, <3>1, <3>2 DEF Counted
      <3>3. CASE i # 1
        <4>1. i \in 2 .. Len(long) /\ i - 1 \in 1 .. Len(list) - 1 /\ (i - 1) + 1 = i
          BY <1>1, <3>3
        <4>2. long[i] = list[i - 1]
          BY <1>2, <4>1
        <4>3. list[i - 1].cum + BookedBy(list[(i - 1) + 1]) = list[(i - 1) + 1].cum
          BY <4>1 DEF Counted
        <4>. QED BY <3>1, <4>1, <4>2, <4>3
      <3>. QED BY <3>2, <3>3
    <2>. QED BY <1>1, <2>1 DEF Counted
  <1>. QED BY <1>5, <1>6 DEF long

\* What the kernel books of each ack.
LEMMA Booked ==
    ASSUME NEW status \in OrderAckStatus, NEW qty \in Nat, NEW cum \in Nat, NEW ts \in Nat
    PROVE  /\ Ack(status, qty, cum, ts) \in AckRecords
           /\ Ack(status, qty, cum, ts).status = status
           /\ Ack(status, qty, cum, ts).cum = cum
           /\ BookedBy(Ack(status, qty, cum, ts)) =
                 IF status \in {"FILLED", "PARTIALLY_FILLED"} THEN qty ELSE 0
  BY Records DEF Ack, BookedBy, FillStatuses

\* An order left where it is, if it is in a table at all.
LEMMA StaysSays ==
    ASSUME NEW r \in OrderRecords, NEW u \in OrderRecords, u.seat = r.seat
    PROVE  Says(r, Stays(u)) /\ NoCancel(Stays(u).acks)
  <1>1. Stays(u).at = u /\ Stays(u).acks = <<>> /\ <<>> \in Seq(AckRecords)
    BY DEF Stays
  <1>. QED BY <1>1, SaysNothing DEF Says

\* An order that ends with list.
LEMMA EndsSays ==
    ASSUME NEW r \in OrderRecords, NEW u \in OrderRecords, r.seat \in Held, NEW list \in Seq(AckRecords),
           Told(list), Counted(r.filled, list)
    PROVE  Says(r, Ends(u, list)) /\ Ends(u, list).acks = list
  <1>1. Ends(u, list).at = Over(u) /\ Ends(u, list).acks = list /\ Over(u).seat = "over"
    BY Placed DEF Ends, Over, Place, OrderRecords, Seats
  <1>. QED BY <1>1 DEF Says, Held

\* REJECTED, CANCELLED or EXPIRED: no more shares.
LEMMA UnfilledSays ==
    ASSUME NEW r \in OrderRecords, NEW u \in OrderRecords, r.seat \in Held, u.filled = r.filled,
           NEW status \in {"CANCELLED", "REJECTED", "EXPIRED"}, NEW ts \in Nat
    PROVE  /\ Says(r, Ends(u, <<Ack(status, 0, u.filled, ts)>>))
           /\ status # "CANCELLED" => NoCancel(Ends(u, <<Ack(status, 0, u.filled, ts)>>).acks)
  <1>. DEFINE x == Ack(status, 0, u.filled, ts)
  <1>1. r.filled \in Nat /\ u.filled \in Nat
    BY DEF OrderRecords
  <1>2. x \in AckRecords /\ x.status = status /\ x.cum = r.filled /\ BookedBy(x) = 0
    BY <1>1, Booked DEF OrderAckStatus
  <1>. HIDE DEF x
  <1>3. Told(<<x>>) /\ Counted(r.filled, <<x>>) /\ <<x>> \in Seq(AckRecords)
    BY <1>1, <1>2, SaysOne DEF OrderAckStatus
  <1>4. Says(r, Ends(u, <<x>>)) /\ Ends(u, <<x>>).acks = <<x>>
    BY <1>3, EndsSays
  <1>5. status # "CANCELLED" => NoCancel(<<x>>)
    BY <1>2 DEF NoCancel
  <1>. QED BY <1>4, <1>5 DEF x

\* FILLED, for the n shares that were left.
LEMMA FilledSays ==
    ASSUME NEW o \in Orders, NEW r \in OrderRecords, NEW u \in OrderRecords, r.seat \in Held,
           NEW n \in Nat, r.filled + n = Quantity[o], NEW ts \in Nat
    PROVE  /\ Says(r, Ends(u, <<Ack("FILLED", n, Quantity[o], ts)>>))
           /\ NoCancel(Ends(u, <<Ack("FILLED", n, Quantity[o], ts)>>).acks)
  <1>1. PICK full \in Nat : full = Quantity[o]
    BY RouterAssumption
  <1>. DEFINE x == Ack("FILLED", n, full, ts)
  <1>2. x \in AckRecords /\ x.status = "FILLED" /\ x.cum = full /\ BookedBy(x) = n
    BY Booked DEF OrderAckStatus
  <1>6. r.filled \in Nat /\ r.filled + BookedBy(x) = x.cum
    BY <1>1, <1>2 DEF OrderRecords
  <1>. HIDE DEF x
  <1>3. Told(<<x>>) /\ Counted(r.filled, <<x>>) /\ <<x>> \in Seq(AckRecords)
    BY <1>2, <1>6, SaysOne DEF OrderAckStatus
  <1>4. Says(r, Ends(u, <<x>>)) /\ Ends(u, <<x>>).acks = <<x>>
    BY <1>3, EndsSays
  <1>5. NoCancel(<<x>>)
    BY <1>2 DEF NoCancel
  <1>. QED BY <1>1, <1>4, <1>5 DEF x

\* What append_market_fill_acks appends for an order nothing is filled of.
LEMMA MarketFillTold ==
    ASSUME NEW o \in Orders, NEW r \in OrderRecords, NEW size \in Nat \ {0}, NEW ts \in Nat
    PROVE  \E list \in Seq(AckRecords) :
              /\ MarketFill(o, r, size, ts) = Ends(r, list)
              /\ Told(list) /\ Counted(0, list) /\ NoCancel(list) /\ list # <<>>
  <1>. DEFINE p == Ack("PARTIALLY_FILLED", size, size, ts)
  <1>0. PICK full \in Nat \ {0} : full = Quantity[o]
    BY RouterAssumption
  <1>1. CASE Quantity[o] > size
    <2>1. p \in AckRecords /\ p.status = "PARTIALLY_FILLED" /\ p.cum = size /\ BookedBy(p) = size
      BY Booked DEF OrderAckStatus
    <2>2. PICK rest \in Nat, later \in Nat : rest = full - size /\ later = ts + 1
      BY <1>0, <1>1
    <2>. DEFINE c == Ack("FILLED", rest, full, later)
    <2>3. c \in AckRecords /\ c.status = "FILLED" /\ c.cum = full /\ BookedBy(c) = rest
      BY Booked DEF OrderAckStatus
    <2>4. MarketFill(o, r, size, ts) = Ends(r, <<p, c>>)
      BY <1>0, <1>1, <2>2 DEF MarketFill
    <2>. HIDE DEF p, c
    <2>5. <<p, c>> \in Seq(AckRecords)
      BY <2>1, <2>3, TwoAcks, Zenon
    <2>6. /\ Len(<<p, c>>) = 2 /\ <<p, c>>[1] = p /\ <<p, c>>[2] = c /\ <<p, c>> # <<>>
          /\ \A i \in 1 .. 2 : i = 1 \/ i = 2
      OBVIOUS
    <2>7. Told(<<p, c>>)
      BY <1>0, <2>1, <2>3, <2>6 DEF Told, OrderAckStatus, TerminalOrderStates
    <2>8. Counted(0, <<p, c>>)
      BY <1>0, <2>1, <2>2, <2>3, <2>6 DEF Counted
    <2>9. NoCancel(<<p, c>>)
      BY <2>1, <2>3 DEF NoCancel
    <2>. QED BY <2>4, <2>5, <2>6, <2>7, <2>8, <2>9
  <1>2. CASE ~(Quantity[o] > size)
    <2>. DEFINE x == Ack("FILLED", full, full, ts)
    <2>1. x \in AckRecords /\ x.status = "FILLED" /\ x.cum = full /\ BookedBy(x) = full
      BY Booked DEF OrderAckStatus
    <2>2. MarketFill(o, r, size, ts) = Ends(r, <<x>>)
      BY <1>0, <1>2 DEF MarketFill
    <2>. HIDE DEF x
    <2>3. Told(<<x>>) /\ Counted(0, <<x>>) /\ <<x>> \in Seq(AckRecords) /\ <<x>> # <<>>
      BY <1>0, <2>1, SaysOne DEF OrderAckStatus
    <2>4. NoCancel(<<x>>)
      BY <2>1 DEF NoCancel
    <2>. QED BY <2>2, <2>3, <2>4
  <1>. QED BY <1>1, <1>2

\* MocFillController.on_quote.
LEMMA MocOnQuoteSays ==
    ASSUME NEW o \in Orders, NEW r \in OrderRecords, r.seat = "moc", r.filled = 0, NEW q, NEW t \in Nat
    PROVE  Says(r, MocOnQuote(o, r, q, t)) /\ NoCancel(MocOnQuote(o, r, q, t).acks)
  <1>1. CASE t < OfficialClose \/ q.locked
    BY <1>1, StaysSays DEF MocOnQuote
  <1>2. CASE ~(t < OfficialClose \/ q.locked)
    <2>1. PICK ts \in Nat : ts = Max2(r.ackTs, t)
      BY DEF Max2, OrderRecords
    <2>2. PICK full \in Nat : full = Quantity[o] /\ r.filled + full = Quantity[o]
      BY RouterAssumption
    <2>3. /\ Says(r, Ends(r, <<Ack("FILLED", full, Quantity[o], ts)>>))
          /\ NoCancel(Ends(r, <<Ack("FILLED", full, Quantity[o], ts)>>).acks)
      BY <2>2, FilledSays DEF Held
    <2>. QED BY <1>2, <2>1, <2>2, <2>3 DEF MocOnQuote
  <1>. QED BY <1>1, <1>2

\* A market fill of an order in a table nothing is filled of.
LEMMA MarketFillSays ==
    ASSUME NEW o \in Orders, NEW r \in OrderRecords, r.seat \in Held, r.filled = 0,
           NEW size \in Nat \ {0}, NEW ts \in Nat
    PROVE  Says(r, MarketFill(o, r, size, ts)) /\ NoCancel(MarketFill(o, r, size, ts).acks)
  <1>1. PICK list \in Seq(AckRecords) :
           /\ MarketFill(o, r, size, ts) = Ends(r, list)
           /\ Told(list) /\ Counted(0, list) /\ NoCancel(list)
    BY MarketFillTold
  <1>2. Says(r, Ends(r, list)) /\ Ends(r, list).acks = list
    BY <1>1, EndsSays
  <1>. QED BY <1>1, <1>2

\* _flush_deferred_aggressive.
LEMMA FlushDeferredSays ==
    ASSUME NEW o \in Orders, NEW r \in OrderRecords, r.seat = "deferred", r.filled = 0,
           NEW q \in Quotes, NEW place, NEW t \in Nat
    PROVE  Says(r, FlushDeferred(o, r, q, place, t)) /\ NoCancel(FlushDeferred(o, r, q, place, t).acks)
  <1>. DEFINE floored == Max2(Clock(t), r.ackTs)
              size    == q.size[r.side]
              bad     == q.locked \/ size = 0 \/ (r.limit /\ place[o] = "away")
              more    == [r EXCEPT !.ticks = @ + 1]
  <1>1. floored \in Nat /\ Clock(t) \in Nat /\ r.seat \in Held
    BY RouterAssumption DEF Clock, Max2, OrderRecords, Held
  <1>2. size \in Nat
    BY RouterAssumption DEF Quotes, OrderRecords, Sides
  <1>3. /\ Says(r, Rejects(r, floored)) /\ NoCancel(Rejects(r, floored).acks)
        /\ Says(r, Rejects(r, Clock(t))) /\ NoCancel(Rejects(r, Clock(t)).acks)
    <2>. HIDE DEF floored
    <2>. QED BY <1>1, UnfilledSays DEF Rejects
  <1>4. more \in OrderRecords /\ more.seat = r.seat
    BY DEF OrderRecords
  <1>5. Says(r, Stays(more)) /\ NoCancel(Stays(more).acks)
    <2>. HIDE DEF more
    <2>. QED BY <1>4, StaysSays
  <1>6. size # 0 =>
           Says(r, MarketFill(o, r, size, floored)) /\ NoCancel(MarketFill(o, r, size, floored).acks)
    <2>. HIDE DEF size, floored
    <2>. QED BY <1>1, <1>2, MarketFillSays
  <1>7. FlushDeferred(o, r, q, place, t) =
           IF t < r.ackTs
           THEN IF r.ticks + 1 >= MaxRestingTicks THEN Rejects(r, floored) ELSE Stays(more)
           ELSE IF bad THEN Rejects(r, floored)
           ELSE IF Suppresses(o, r.side, t) THEN Rejects(r, Clock(t))
           ELSE MarketFill(o, r, size, floored)
    BY DEF FlushDeferred
  <1>8. ~bad => size # 0
    OBVIOUS
  <1>. HIDE DEF floored, size, bad, more
  <1>. QED BY <1>3, <1>5, <1>6, <1>7, <1>8

\* A through-fill or a drained queue, for n of the shares that are left.
LEMMA PassiveFillSays ==
    ASSUME NEW o \in Orders, NEW r0 \in OrderRecords, NEW r \in OrderRecords, r0.seat = "resting",
           r.seat = "resting", r.filled = r0.filled, NEW n \in Nat \ {0}, r.filled + n <= Quantity[o],
           NEW ts \in Nat
    PROVE  Says(r0, PassiveFill(o, r, n, ts)) /\ NoCancel(PassiveFill(o, r, n, ts).acks)
  <1>1. r0.filled \in Nat /\ r.filled \in Nat /\ Quantity[o] \in Nat \ {0} /\ r0.seat \in Held
    BY RouterAssumption DEF OrderRecords, Held
  <1>2. CASE r.filled + n = Quantity[o]
    <2>1. PassiveFill(o, r, n, ts) = Ends(r, <<Ack("FILLED", n, Quantity[o], ts)>>)
      BY <1>2 DEF PassiveFill
    <2>. QED BY <1>1, <1>2, <2>1, FilledSays
  <1>3. CASE r.filled + n # Quantity[o]
    <2>1. PICK cum \in Nat : cum = r.filled + n /\ cum > 0
      BY <1>1
    <2>. DEFINE x == Ack("PARTIALLY_FILLED", n, cum, ts)
                u == [r EXCEPT !.filled = @ + n]
    <2>2. x \in AckRecords /\ x.status = "PARTIALLY_FILLED" /\ x.cum = cum /\ BookedBy(x) = n
      BY Booked DEF OrderAckStatus
    <2>3. u.seat = "resting"
      BY DEF OrderRecords
    <2>4. PassiveFill(o, r, n, ts) = [at |-> u, acks |-> <<x>>]
      BY <1>3, <2>1 DEF PassiveFill
    <2>. HIDE DEF x, u
    <2>5. r0.filled + BookedBy(x) = x.cum
      BY <2>1, <2>2
    <2>6. Told(<<x>>) /\ Counted(r0.filled, <<x>>) /\ <<x>> \in Seq(AckRecords)
      BY <1>1, <2>1, <2>2, <2>5, SaysOne DEF OrderAckStatus
    <2>7. NoCancel(<<x>>)
      BY <2>2 DEF NoCancel
    <2>8. PassiveFill(o, r, n, ts).at.seat = "resting" /\ PassiveFill(o, r, n, ts).acks = <<x>>
      BY <2>3, <2>4
    <2>. QED BY <2>6, <2>7, <2>8 DEF Says
  <1>. QED BY <1>2, <1>3

\* _check_resting_orders.
LEMMA CheckRestingSays ==
    ASSUME NEW o \in Orders, NEW r0 \in OrderRecords, r0.seat = "resting", r0.filled < Quantity[o],
           NEW q \in Quotes, NEW place, NEW t \in Nat
    PROVE  Says(r0, CheckResting(o, r0, q, place, t)) /\ NoCancel(CheckResting(o, r0, q, place, t).acks)
  <1>. DEFINE r       == [r0 EXCEPT !.ticks = @ + 1, !.traded = @ /\ place[o] # "away"]
              left    == Quantity[o] - r.filled
              floored == Max2(Clock(t), r.ackTs)
              size    == q.size[r.side]
              some    == ThroughSize(left, size)
  <1>1. /\ r.seat = "resting" /\ r.filled = r0.filled /\ r.ackTs = r0.ackTs
        /\ r.side = r0.side /\ r \in OrderRecords
    <2>1. (r0.traded /\ place[o] # "away") \in BOOLEAN
      OBVIOUS
    <2>2. r0.ticks + 1 \in Nat
      BY DEF OrderRecords
    <2>. QED BY <2>1, <2>2, TickedRecord, ZenonT(20)
  <1>2. CheckResting(o, r0, q, place, t) =
           IF t < r.ackTs THEN Stays(r0)
           ELSE IF Fills(r, place[o])
           THEN IF Suppresses(o, r.side, t) THEN Rejects(r, floored)
                ELSE IF place[o] = "through" THEN PassiveFill(o, r, some, floored)
                ELSE PassiveFill(o, r, left, floored)
           ELSE IF r.ticks >= MaxRestingTicks
           THEN Ends(r, <<Ack("EXPIRED", 0, r.filled, floored)>>)
           ELSE Stays(r)
    BY DEF CheckResting
  <1>. HIDE DEF r
  <1>3. r.filled \in Nat /\ Quantity[o] \in Nat /\ r.ackTs \in Nat /\ r0.seat \in Held
    BY <1>1, RouterAssumption DEF OrderRecords, Held
  <1>4. floored \in Nat /\ left \in Nat \ {0} /\ r.filled + left <= Quantity[o] /\ size \in Nat
    BY <1>1, <1>3, RouterAssumption DEF Clock, Max2, Quotes, OrderRecords, Sides
  <1>. HIDE DEF left, floored, size
  <1>5. some \in Nat \ {0} /\ some <= left
    BY <1>4, ThroughSizeBounds
  <1>6. r.filled + some <= Quantity[o]
    BY <1>3, <1>4, <1>5 DEF left
  <1>. HIDE DEF some
  <1>7. Says(r0, Rejects(r, floored)) /\ NoCancel(Rejects(r, floored).acks)
    BY <1>1, <1>3, <1>4, UnfilledSays DEF Rejects
  <1>8. /\ Says(r0, Ends(r, <<Ack("EXPIRED", 0, r.filled, floored)>>))
        /\ NoCancel(Ends(r, <<Ack("EXPIRED", 0, r.filled, floored)>>).acks)
    BY <1>1, <1>3, <1>4, UnfilledSays
  <1>9. /\ Says(r0, PassiveFill(o, r, some, floored)) /\ NoCancel(PassiveFill(o, r, some, floored).acks)
        /\ Says(r0, PassiveFill(o, r, left, floored)) /\ NoCancel(PassiveFill(o, r, left, floored).acks)
    BY <1>1, <1>4, <1>5, <1>6, PassiveFillSays
  <1>10. /\ Says(r0, Stays(r)) /\ NoCancel(Stays(r).acks)
         /\ Says(r0, Stays(r0)) /\ NoCancel(Stays(r0).acks)
    BY <1>1, StaysSays
  <1>. QED BY <1>2, <1>7, <1>8, <1>9, <1>10

\* on_quote, for any order.
LEMMA OrderOnQuoteSays ==
    ASSUME IInv, NEW o \in Orders, NEW q \in Quotes, NEW place, NEW t \in Nat
    PROVE  /\ Says(order[o], OrderOnQuote(o, q, place, t))
           /\ NoCancel(OrderOnQuote(o, q, place, t).acks)
  <1>. DEFINE r == order[o]
  <1>1. r \in OrderRecords /\ HeldIsWorking(o, r, out[o], now)
    BY DEF IInv, TypeOK, Sound
  <1>. HIDE DEF r
  <1>2. CASE r.seat = "moc"
    <2>1. r.filled = 0
      BY <1>1, <1>2 DEF HeldIsWorking, Held
    <2>2. OrderOnQuote(o, q, place, t) = MocOnQuote(o, r, q, t)
      BY <1>2 DEF OrderOnQuote, r
    <2>. QED BY <1>1, <1>2, <2>1, <2>2, MocOnQuoteSays DEF r
  <1>3. CASE r.seat = "deferred"
    <2>1. r.filled = 0
      BY <1>1, <1>3 DEF HeldIsWorking, Held
    <2>2. OrderOnQuote(o, q, place, t) = FlushDeferred(o, r, q, place, t)
      BY <1>3 DEF OrderOnQuote, r
    <2>. QED BY <1>1, <1>3, <2>1, <2>2, FlushDeferredSays DEF r
  <1>4. CASE r.seat = "resting"
    <2>1. r.filled < Quantity[o]
      BY <1>1, <1>4 DEF HeldIsWorking, Held
    <2>2. OrderOnQuote(o, q, place, t) = CheckResting(o, r, q, place, t)
      BY <1>4 DEF OrderOnQuote, r
    <2>. QED BY <1>1, <1>4, <2>1, <2>2, CheckRestingSays DEF r
  <1>5. CASE r.seat \notin {"moc", "deferred", "resting"}
    <2>1. OrderOnQuote(o, q, place, t) = Stays(r)
      BY <1>5 DEF OrderOnQuote, r
    <2>. QED BY <1>1, <2>1, StaysSays DEF r
  <1>. QED BY <1>2, <1>3, <1>4, <1>5

\* cancel_order and expire_pending_moc.
LEMMA CancelledSays ==
    ASSUME IInv, NEW o \in Orders
    PROVE  /\ Says(order[o], Cancelled(order[o]))
           /\ Says(order[o], Stays(order[o])) /\ NoCancel(Stays(order[o]).acks)
           /\ Says(order[o], ExpiredMoc(order[o])) /\ NoCancel(ExpiredMoc(order[o]).acks)
           /\ \/ Cancelled(order[o]).acks = <<>>
              \/ /\ Len(Cancelled(order[o]).acks) = 1
                 /\ Cancelled(order[o]).acks[1].status = "CANCELLED"
           /\ Cancelled(order[o]).acks = <<>> => order[o].seat \notin {"resting", "moc"}
           /\ Cancelled(order[o]).acks = <<>> => Cancelled(order[o]).at = order[o]
  <1>. DEFINE r == order[o]
  <1>1. r \in OrderRecords /\ now \in Nat
    BY DEF IInv, TypeOK
  <1>. HIDE DEF r
  <1>2. PICK ts \in Nat : ts = Max2(Clock(now), r.ackTs)
    BY <1>1, RouterAssumption DEF Max2, Clock, OrderRecords
  <1>3. Says(r, Stays(r)) /\ NoCancel(Stays(r).acks) /\ Stays(r).acks = <<>> /\ Stays(r).at = r
    BY <1>1, StaysSays DEF Stays
  <1>4. CASE r.seat \in {"resting", "moc"}
    <2>1. Cancelled(r) = Ends(r, <<Ack("CANCELLED", 0, r.filled, ts)>>)
      BY <1>2, <1>4 DEF Cancelled
    <2>2. Says(r, Cancelled(r))
      BY <1>1, <1>4, <2>1, UnfilledSays DEF Held
    <2>3. Cancelled(r).acks = <<Ack("CANCELLED", 0, r.filled, ts)>>
      BY <2>1 DEF Ends
    <2>4. Len(Cancelled(r).acks) = 1 /\ Cancelled(r).acks[1].status = "CANCELLED" /\ Cancelled(r).acks # <<>>
      BY <2>3 DEF Ack
    <2>5. Says(r, Rejects(r, ts)) /\ NoCancel(Rejects(r, ts).acks)
      BY <1>1, <1>4, UnfilledSays DEF Held, Rejects
    <2>6. Says(r, ExpiredMoc(r)) /\ NoCancel(ExpiredMoc(r).acks)
      BY <1>2, <1>3, <2>5 DEF ExpiredMoc
    <2>. QED BY <1>3, <2>2, <2>4, <2>6 DEF r
  <1>5. CASE r.seat \notin {"resting", "moc"}
    <2>1. Cancelled(r) = Stays(r) /\ ExpiredMoc(r) = Stays(r)
      BY <1>5 DEF Cancelled, ExpiredMoc
    <2>. QED BY <1>3, <1>5, <2>1 DEF r
  <1>. QED BY <1>4, <1>5

\* What submit says of a new order: at least one ack, and it has a place.
SaysNew(res) ==
    /\ res.acks \in Seq(AckRecords) /\ res.acks # <<>>
    /\ Told(res.acks) /\ Counted(0, res.acks)
    /\ res.at.seat # "none"

\* REJECTED at once.
LEMMA RejectsNew ==
    ASSUME NEW r \in OrderRecords, r.filled = 0, NEW ts \in Nat
    PROVE  SaysNew(Rejects(r, ts))
  <1>. DEFINE x == Ack("REJECTED", 0, r.filled, ts)
  <1>1. x \in AckRecords /\ x.status = "REJECTED" /\ x.cum = 0 /\ BookedBy(x) = 0
    BY Booked DEF OrderAckStatus
  <1>2. Rejects(r, ts).acks = <<x>> /\ Rejects(r, ts).at.seat = "over"
    BY DEF Rejects, Ends, Over, Place
  <1>. HIDE DEF x
  <1>3. Told(<<x>>) /\ Counted(0, <<x>>) /\ <<x>> \in Seq(AckRecords) /\ <<x>> # <<>>
    BY <1>1, SaysOne DEF OrderAckStatus
  <1>. QED BY <1>2, <1>3 DEF SaysNew

\* ACKNOWLEDGED, and what follows.
LEMMA AcknowledgesNew ==
    ASSUME NEW res, res.acks \in Seq(AckRecords), Told(res.acks), Counted(0, res.acks),
           res.at.seat # "none", NEW ts \in Nat
    PROVE  SaysNew(Acknowledges(res, ts))
  <1>. DEFINE x == Ack("ACKNOWLEDGED", 0, 0, ts)
  <1>1. x \in AckRecords /\ x.status = "ACKNOWLEDGED" /\ x.cum = 0 /\ BookedBy(x) = 0
    BY Booked DEF OrderAckStatus
  <1>2. Acknowledges(res, ts).acks = <<x>> \o res.acks /\ Acknowledges(res, ts).at.seat # "none"
    BY DEF Acknowledges
  <1>. HIDE DEF x
  <1>3. PICK list \in Seq(AckRecords) : list = res.acks
    OBVIOUS
  <1>4. Told(<<x>> \o list) /\ Counted(0, <<x>> \o list)
    BY <1>1, <1>3, SaysBefore
  <1>5. <<x>> \o list \in Seq(AckRecords) /\ <<x>> \o list # <<>>
    BY <1>1
  <1>. QED BY <1>2, <1>3, <1>4, <1>5 DEF SaysNew

\* submit.
LEMMA SubmittedSays ==
    ASSUME IInv, NEW o \in Orders, NEW side \in Sides, NEW kind \in Kinds, NEW marketable \in BOOLEAN
    PROVE  SaysNew(Submitted(o, side, kind, marketable))
  <1>1. PICK limit \in BOOLEAN : limit = (kind = "limit")
    OBVIOUS
  <1>2. PICK ts \in Nat, deadline \in Nat : ts = Clock(now) /\ deadline = ts + Latency
    BY RouterAssumption DEF IInv, TypeOK, Clock
  <1>. DEFINE r == Place("none", side, limit, deadline)
              size == quote.size[side]
              moc == Place("none", side, FALSE, ts)
  <1>3. /\ r \in OrderRecords /\ r.filled = 0 /\ r.ackTs = deadline /\ r.side = side /\ r.limit = limit
        /\ moc \in OrderRecords /\ moc.filled = 0
    <2>1. /\ r \in OrderRecords /\ r.filled = 0 /\ r.ackTs = deadline /\ r.side = side
          /\ r.limit = limit
      BY Placed DEF Seats
    <2>2. PICK no \in BOOLEAN : no = FALSE
      OBVIOUS
    <2>3. Place("none", side, no, ts) \in OrderRecords /\ Place("none", side, no, ts).filled = 0
      BY Placed DEF Seats
    <2>. QED BY <2>1, <2>2, <2>3
  <1>4. Submitted(o, side, kind, marketable) =
           IF Refused(o, side) THEN Rejects(r, ts)
           ELSE IF kind = "moc" THEN MocSubmitted(side, ts)
           ELSE IF kind = "market" THEN MarketSubmitted(o, r)
           ELSE PostPassive(o, r, marketable)
    BY <1>1, <1>2 DEF Submitted
  <1>. HIDE DEF r, moc
  <1>5. SaysNew(Rejects(r, ts)) /\ SaysNew(Rejects(moc, ts))
    BY <1>3, RejectsNew
  <1>6. ASSUME NEW seat \in Held, NEW l \in BOOLEAN, NEW x \in Nat, NEW y \in Nat
        PROVE  SaysNew(Acknowledges(Stays(Place(seat, side, l, x)), y))
    <2>1. /\ Stays(Place(seat, side, l, x)).acks = <<>> /\ <<>> \in Seq(AckRecords)
          /\ Stays(Place(seat, side, l, x)).at.seat # "none"
      BY Placed DEF Stays, Held, Place
    <2>. QED BY <2>1, SaysNothing, AcknowledgesNew
  <1>7. SaysNew(MocSubmitted(side, ts))
    <2>1. Acknowledges(Stays(Place("moc", side, FALSE, ts)), ts)
            = [at |-> Place("moc", side, FALSE, ts), acks |-> <<Ack("ACKNOWLEDGED", 0, 0, ts)>>]
      BY DEF Acknowledges, Stays
    <2>2. SaysNew(Acknowledges(Stays(Place("moc", side, FALSE, ts)), ts))
      BY <1>6 DEF Held
    <2>. QED BY <1>5, <2>1, <2>2 DEF MocSubmitted, moc
  <1>8. ASSUME ~Refused(o, side) PROVE SaysNew(MarketSubmitted(o, r))
    <2>1. size \in Nat
      BY <1>8, RouterAssumption DEF IInv, TypeOK, Refused, LastQuotes, Sides
    <2>2. MarketSubmitted(o, r) = Acknowledges(
              IF Latency > 0    THEN Stays(Place("deferred", side, limit, deadline))
              ELSE IF size = 0  THEN Rejects(r, Clock(now))
              ELSE MarketFill(o, r, size, deadline), deadline)
      BY <1>3 DEF MarketSubmitted
    <2>. HIDE DEF size
    <2>3. CASE Latency > 0
      BY <1>6, <2>2, <2>3 DEF Held
    <2>4. CASE ~(Latency > 0) /\ size = 0
      <3>1. SaysNew(Acknowledges(Rejects(r, ts), deadline))
        BY <1>5, AcknowledgesNew DEF SaysNew
      <3>. QED BY <1>2, <2>2, <2>4, <3>1
    <2>5. CASE ~(Latency > 0) /\ size # 0
      <3>1. PICK list \in Seq(AckRecords) :
               MarketFill(o, r, size, deadline) = Ends(r, list) /\ Told(list) /\ Counted(0, list)
        BY <1>3, <2>1, <2>5, MarketFillTold
      <3>2. Ends(r, list).acks = list /\ Ends(r, list).at.seat # "none"
        BY DEF Ends, Over, Place
      <3>3. SaysNew(Acknowledges(Ends(r, list), deadline))
        BY <3>1, <3>2, AcknowledgesNew
      <3>. QED BY <2>2, <2>5, <3>1, <3>3
    <2>. QED BY <2>3, <2>4, <2>5
  <1>9. ASSUME ~Refused(o, side) PROVE SaysNew(PostPassive(o, r, marketable))
    <2>1. SaysNew(Acknowledges(Stays(Place("resting", side, limit, deadline)), deadline))
      BY <1>6 DEF Held
    <2>. QED BY <1>3, <1>8, <1>9, <2>1 DEF PostPassive
  <1>. QED BY <1>4, <1>5, <1>7, <1>8, <1>9

\* What ApplyAck does to the state of an order the router has answered.
LEMMA Applied ==
    ASSUME NEW s \in OrderState \ {"CREATED"}, NEW status \in OrderAckStatus
    PROVE  /\ ApplyAck(s, status) \in OrderState \ {"CREATED", "SUBMITTED"}
           /\ s = "CANCELLED" => ApplyAck(s, status) = "CANCELLED"
           /\ s = "CANCEL_REQUESTED" /\ status = "CANCELLED" => ApplyAck(s, status) = "CANCELLED"
           /\ s \in {"SUBMITTED", "ACKNOWLEDGED", "PARTIALLY_FILLED"} =>
                 /\ status \notin TerminalOrderStates =>
                       /\ ApplyAck(s, status) \in {"ACKNOWLEDGED", "PARTIALLY_FILLED"}
                       /\ ApplyAck(s, status) = "PARTIALLY_FILLED" => "PARTIALLY_FILLED" \in {s, status}
                 /\ status \in TerminalOrderStates =>
                       \/ ApplyAck(s, status) = status
                       \/ s = "PARTIALLY_FILLED" /\ status = "REJECTED" /\ ApplyAck(s, status) = s
  <1>1. /\ OrderTransitions["SUBMITTED"] = {"ACKNOWLEDGED", "REJECTED"}
        /\ OrderTransitions["ACKNOWLEDGED"] = {"PARTIALLY_FILLED", "FILLED", "CANCEL_REQUESTED",
                                               "CANCELLED", "EXPIRED", "REJECTED"}
        /\ OrderTransitions["PARTIALLY_FILLED"] = {"PARTIALLY_FILLED", "FILLED", "CANCEL_REQUESTED",
                                                   "CANCELLED", "EXPIRED"}
        /\ OrderTransitions["CANCEL_REQUESTED"] = {"CANCELLED", "FILLED"}
        /\ OrderTransitions["CANCELLED"] = {}
    BY DEF OrderTransitions, OrderState
  <1>. USE DEF ApplyAck, CanTransition, Acknowledged, OrderAckStatus, TerminalOrderStates, OrderState
  <1>2. CASE s = "SUBMITTED"
    BY <1>1, <1>2
  <1>3. CASE s = "ACKNOWLEDGED"
    BY <1>1, <1>3
  <1>4. CASE s = "PARTIALLY_FILLED"
    BY <1>1, <1>4
  <1>5. CASE s = "CANCEL_REQUESTED"
    BY <1>1, <1>5
  <1>6. CASE s = "CANCELLED"
    BY <1>1, <1>6
  <1>7. CASE s \in {"FILLED", "REJECTED", "EXPIRED"}
    <2>1. OrderTransitions[s] = {}
      BY <1>7 DEF OrderTransitions
    <2>. QED BY <1>7, <2>1
  <1>. QED BY <1>2, <1>3, <1>4, <1>5, <1>6, <1>7

\* What is left of a list when its oldest ack is taken.
LEMMA TakenLine ==
    ASSUME NEW list \in Seq(AckRecords), list # <<>>, Told(list)
    PROVE  /\ Tail(list) \in Seq(AckRecords) /\ Head(list) \in AckRecords /\ Head(list) = list[1]
           /\ Head(list).status \in OrderAckStatus
           /\ Told(Tail(list))
           /\ \A n : Counted(n, list) => /\ Counted(Head(list).cum, Tail(list))
                                       /\ n + BookedBy(Head(list)) = Head(list).cum
           /\ Tail(list) # <<>> =>
                 /\ Tail(list)[Len(Tail(list))] = list[Len(list)]
                 /\ Head(list).status \notin TerminalOrderStates
           /\ Tail(list) = <<>> => Head(list) = list[Len(list)]
           /\ Head(list).status = "PARTIALLY_FILLED" => list[Len(list)].cum > 0
  <1>. DEFINE t == Tail(list)  h == Head(list)
  <1>1. /\ t \in Seq(AckRecords) /\ Len(t) = Len(list) - 1 /\ Len(list) \in Nat /\ Len(list) >= 1
        /\ h = list[1] /\ h \in AckRecords
        /\ \A i \in 1 .. Len(t) : t[i] = list[i + 1] /\ i + 1 \in 1 .. Len(list)
        /\ (t = <<>>) <=> (Len(list) = 1)
        /\ 1 \in 1 .. Len(list)
    <2>1. Len(list) \in Nat /\ Len(list) >= 1
      OBVIOUS
    <2>2. t \in Seq(AckRecords) /\ Len(t) = Len(list) - 1
      BY <2>1
    <2>3. \A i \in 1 .. Len(t) : t[i] = list[i + 1]
      BY <2>1, <2>2
    <2>4. h = list[1] /\ h \in AckRecords
      BY <2>1
    <2>. HIDE DEF t, h
    <2>5. (t = <<>>) <=> (Len(t) = 0)
      BY <2>2, EmptySeq
    <2>6. \A i \in 1 .. Len(t) : i + 1 \in 1 .. Len(list)
      BY <2>1, <2>2
    <2>7. (t = <<>>) <=> (Len(list) = 1)
      BY <2>1, <2>2, <2>5
    <2>8. 1 \in 1 .. Len(list)
      BY <2>1
    <2>. QED BY <2>1, <2>2, <2>3, <2>4, <2>6, <2>7, <2>8
  <1>. HIDE DEF t, h
  <1>2. h.status \in OrderAckStatus
    BY <1>1 DEF Told
  <1>3. h.status = "PARTIALLY_FILLED" => list[Len(list)].cum > 0
    BY <1>1 DEF Told
  <1>4. t = <<>> => h = list[Len(list)]
    BY <1>1
  <1>5. t # <<>> => t[Len(t)] = list[Len(list)] /\ h.status \notin TerminalOrderStates
    <2>. SUFFICES ASSUME t # <<>> PROVE t[Len(t)] = list[Len(list)] /\ h.status \notin TerminalOrderStates
      OBVIOUS
    <2>1. Len(t) \in 1 .. Len(t) /\ Len(t) + 1 = Len(list) /\ 1 < Len(list)
      BY <1>1
    <2>2. t[Len(t)] = list[Len(list)]
      BY <1>1, <2>1
    <2>. QED BY <1>1, <2>1, <2>2 DEF Told
  <1>6. Told(t)
    <2>1. ASSUME NEW i \in 1 .. Len(t)
          PROVE  /\ t[i].status \in OrderAckStatus
                 /\ i < Len(t) => t[i].status \notin TerminalOrderStates
                 /\ t[i].status = "PARTIALLY_FILLED" => t[Len(t)].cum > 0
      <3>1. t[i] = list[i + 1] /\ i + 1 \in 1 .. Len(list) /\ (i < Len(t) => i + 1 < Len(list)) /\ t # <<>>
        BY <1>1
      <3>. QED BY <1>5, <3>1 DEF Told
    <2>. QED BY <2>1 DEF Told
  <1>7. ASSUME NEW n, Counted(n, list) PROVE Counted(h.cum, t) /\ n + BookedBy(h) = h.cum
    <2>3. n + BookedBy(h) = h.cum
      BY <1>1, <1>7 DEF Counted
    <2>1. ASSUME t # <<>> PROVE h.cum + BookedBy(t[1]) = t[1].cum
      <3>1. 1 \in 1 .. Len(t) /\ 1 \in 1 .. Len(list) - 1 /\ t[1] = list[1 + 1]
        BY <1>1, <2>1
      <3>. QED BY <1>1, <1>7, <3>1 DEF Counted
    <2>2. ASSUME NEW i \in 1 .. Len(t) - 1 PROVE t[i].cum + BookedBy(t[i + 1]) = t[i + 1].cum
      <3>1. i \in 1 .. Len(t) /\ i + 1 \in 1 .. Len(t) /\ i + 1 \in 1 .. Len(list) - 1
        BY <1>1
      <3>2. t[i] = list[i + 1] /\ t[i + 1] = list[(i + 1) + 1]
        BY <1>1, <3>1
      <3>. QED BY <1>7, <3>1, <3>2 DEF Counted
    <2>. QED BY <2>1, <2>2, <2>3 DEF Counted
  <1>. QED BY <1>1, <1>2, <1>3, <1>4, <1>5, <1>6, <1>7 DEF t, h

\* The kernel takes the oldest ack.
LEMMA SettledLine ==
    ASSUME NEW s, NEW n, NEW list \in Seq(AckRecords), NEW a, NEW seat, Line(s, n, list, a, seat), list # <<>>
    PROVE  Line(ApplyAck(s, Head(list).status),
                IF s \in TerminalOrderStates \cup {"CREATED"} THEN n ELSE n + BookedBy(Head(list)),
                Tail(list), a, seat)
  <1>. DEFINE h == Head(list)  t == Tail(list)
              u == ApplyAck(s, h.status)
              m == IF s \in TerminalOrderStates \cup {"CREATED"} THEN n ELSE n + BookedBy(h)
  <1>. SUFFICES Line(u, m, t, a, seat)
    OBVIOUS
  <1>1. /\ s \in OrderState \ {"CREATED", "FILLED", "REJECTED", "EXPIRED"} /\ n \in Nat /\ seat # "none"
        /\ list[Len(list)] = a /\ Told(list)
        /\ s = "CANCELLED" => Unheard(s, a, seat)
        /\ s = "PARTIALLY_FILLED" => a.cum > 0
        /\ s = "CANCEL_REQUESTED" => Len(list) = 1 /\ list[1].status = "CANCELLED"
        /\ s # "CANCELLED" => Counted(n, list)
    BY DEF Line, Fits, Heard, Closed, Shared, Unheard
  <1>2. /\ h.status \in OrderAckStatus /\ Told(t)
        /\ t # <<>> => t[Len(t)] = a /\ h.status \notin TerminalOrderStates
        /\ t = <<>> => h = a
        /\ h.status = "PARTIALLY_FILLED" => a.cum > 0
        /\ Counted(n, list) => Counted(h.cum, t) /\ n + BookedBy(h) = h.cum
        /\ h \in AckRecords
    BY <1>1, TakenLine
  <1>3. BookedBy(h) \in Nat
    BY <1>2 DEF BookedBy, AckRecords
  <1>4. /\ s = "CANCEL_REQUESTED" => h.status = "CANCELLED" /\ t = <<>>
        /\ Heard(t, a)
    BY <1>1, <1>2 DEF Heard
  <1>5. /\ u \in OrderState \ {"CREATED", "SUBMITTED"}
        /\ s = "CANCELLED" => u = "CANCELLED"
        /\ s = "CANCEL_REQUESTED" => u = "CANCELLED"
        /\ s \in {"SUBMITTED", "ACKNOWLEDGED", "PARTIALLY_FILLED"} =>
              /\ h.status \notin TerminalOrderStates =>
                    /\ u \in {"ACKNOWLEDGED", "PARTIALLY_FILLED"}
                    /\ u = "PARTIALLY_FILLED" => a.cum > 0
              /\ h.status \in TerminalOrderStates =>
                    \/ u = h.status
                    \/ s = "PARTIALLY_FILLED" /\ h.status = "REJECTED" /\ u = s
    <2>. HIDE DEF h, t
    <2>. QED BY <1>1, <1>2, <1>4, Applied DEF u
  <1>. HIDE DEF h, t, u
  <1>6. CASE s = "CANCELLED"
    <2>1. Unheard(s, a, seat) /\ u = s /\ m = n
      BY <1>1, <1>5, <1>6 DEF TerminalOrderStates
    <2>2. Fits(u, t, seat)
      BY <1>1, <1>6, <2>1 DEF Fits
    <2>3. Closed(u, t, a, seat)
      BY <1>6, <2>1 DEF Closed
    <2>4. Shared(u, m, t, a, seat)
      BY <1>1, <2>1 DEF Shared
    <2>. QED BY <1>4, <2>2, <2>3, <2>4 DEF Line
  <1>7. CASE s # "CANCELLED"
    <2>1. m = h.cum /\ m \in Nat /\ Counted(m, t)
      BY <1>1, <1>2, <1>3, <1>7 DEF TerminalOrderStates, OrderState
    <2>2. Shared(u, m, t, a, seat)
      BY <1>2, <2>1 DEF Shared
    <2>3. CASE s = "CANCEL_REQUESTED"
      <3>1. u = "CANCELLED" /\ t = <<>> /\ a.status = "CANCELLED"
        BY <1>2, <1>4, <1>5, <2>3
      <3>2. Fits(u, t, seat) /\ Closed(u, t, a, seat)
        BY <1>1, <3>1 DEF Fits, Closed, OrderState
      <3>. QED BY <1>4, <2>2, <3>2 DEF Line
    <2>4. CASE s # "CANCEL_REQUESTED"
      <3>1. s \in {"SUBMITTED", "ACKNOWLEDGED", "PARTIALLY_FILLED"}
        BY <1>1, <1>7, <2>4 DEF OrderState
      <3>2. CASE h.status \notin TerminalOrderStates
        <4>1. u \in {"ACKNOWLEDGED", "PARTIALLY_FILLED"} /\ (u = "PARTIALLY_FILLED" => a.cum > 0)
              /\ (t = <<>> => a.status \notin TerminalOrderStates)
          BY <1>2, <1>5, <3>1, <3>2
        <4>2. Fits(u, t, seat)
          BY <1>1, <4>1 DEF Fits, OrderState
        <4>3. Closed(u, t, a, seat)
          BY <4>1 DEF Closed
        <4>. QED BY <1>4, <2>2, <4>2, <4>3 DEF Line
      <3>3. CASE h.status \in TerminalOrderStates
        <4>1. t = <<>> /\ h = a /\ a.status \in TerminalOrderStates
          BY <1>2, <3>3
        <4>2. u = a.status \/ (u = "PARTIALLY_FILLED" /\ a.status = "REJECTED" /\ a.cum > 0)
          BY <1>1, <1>5, <3>1, <3>3, <4>1
        <4>3. Fits(u, t, seat)
          BY <1>1, <1>5, <4>1, <4>2 DEF Fits, TerminalOrderStates
        <4>4. Closed(u, t, a, seat)
          BY <4>1, <4>2 DEF Closed, TerminalOrderStates
        <4>. QED BY <1>4, <2>2, <4>3, <4>4 DEF Line
      <3>. QED BY <3>2, <3>3
    <2>. QED BY <2>3, <2>4
  <1>. QED BY <1>6, <1>7

\* What Sound says of the seat and the last answer.
LEMMA SeatFacts ==
    ASSUME NEW o, NEW r, NEW a, NEW t, Sound(o, r, a, t)
    PROVE  /\ r.seat \in Held => a.status \notin TerminalOrderStates /\ a.cum = r.filled
           /\ r.seat = "over" => a.status \in TerminalOrderStates
           /\ r.seat = "none" => a = NotSent
  BY DEF Sound, HeldIsWorking, OverIsAnswered, TerminalOrderStates

\* The router answers an order whose acks are settled.
LEMMA AnsweredLine ==
    ASSUME NEW o \in Orders, NEW r \in OrderRecords, NEW a \in AckRecords, NEW t,
           NEW s, NEW n, Line(s, n, <<>>, a, r.seat), Sound(o, r, a, t),
           NEW res, Says(r, res), s = "CANCELLED" => NoCancel(res.acks),
           LastAck(a, res.acks) \in AckRecords, Follows(o, a, LastAck(a, res.acks))
    PROVE  Line(s, n, res.acks, LastAck(a, res.acks), res.at.seat)
  <1>. DEFINE list == res.acks  b == LastAck(a, list)  seat == res.at.seat
  <1>. SUFFICES Line(s, n, list, b, seat)
    OBVIOUS
  <1>1. /\ list \in Seq(AckRecords) /\ Told(list) /\ Counted(r.filled, list)
        /\ list # <<>> => r.seat \notin {"none", "over"}
        /\ (seat = "none") <=> (r.seat = "none")
        /\ r.seat = "deferred" => seat \in {"deferred", "over"}
        /\ r.seat = "over" => seat = "over"
    BY DEF Says
  <1>2. /\ s \in OrderState /\ n \in Nat /\ ((s = "CREATED") <=> (r.seat = "none"))
        /\ s \notin {"SUBMITTED", "CANCEL_REQUESTED"}
        /\ s = "PARTIALLY_FILLED" => a.cum > 0
        /\ s \in {"FILLED", "REJECTED", "EXPIRED"} => a.status \in TerminalOrderStates
        /\ s = "CANCELLED" => Unheard(s, a, r.seat) \/ a.status = "CANCELLED"
        /\ s \in {"ACKNOWLEDGED", "PARTIALLY_FILLED"} /\ a.status \in TerminalOrderStates =>
              s = "PARTIALLY_FILLED" /\ a.status = "REJECTED"
        /\ Unheard(s, a, r.seat) \/ n = a.cum
    <2>1. Fits(s, <<>>, r.seat) /\ Closed(s, <<>>, a, r.seat) /\ Shared(s, n, <<>>, a, r.seat)
      BY DEF Line
    <2>2. s \in OrderState /\ ((s = "CREATED") <=> (r.seat = "none")) /\ s \notin {"SUBMITTED", "CANCEL_REQUESTED"}
      BY <2>1 DEF Fits
    <2>. QED BY <2>1, <2>2 DEF Closed, Shared
  <1>3. b = IF list = <<>> THEN a ELSE list[Len(list)]
    BY DEF LastAck
  <1>4. list # <<>> => r.seat \in Held /\ a.status \notin TerminalOrderStates /\ a.cum = r.filled
    BY <1>1, SeatFacts DEF OrderRecords, Seats, Held
  <1>5. s = "PARTIALLY_FILLED" => b.cum > 0
    <2>1. Quantity[o] \in Nat \ {0} /\ a.cum \in Nat /\ b.cum \in Nat
      BY RouterAssumption DEF AckRecords
    <2>. QED BY <1>2, <2>1 DEF Follows
  <1>. HIDE DEF list, b, seat
  <1>8. Fits(s, list, seat) /\ Heard(list, b)
    <2>1. s = "CREATED" => list = <<>>
      BY <1>1, <1>2
    <2>. QED BY <1>1, <1>2, <1>3, <2>1 DEF Fits, Heard
  <1>6. CASE list = <<>>
    <2>1. b = a
      BY <1>3, <1>6
    <2>2. Unheard(s, a, r.seat) => Unheard(s, b, seat)
      BY <1>1, <2>1 DEF Unheard
    <2>3. Counted(n, list)
      BY <1>6, SaysNothing
    <2>4. Closed(s, list, b, seat)
      BY <1>2, <1>5, <1>6, <2>1, <2>2 DEF Closed
    <2>5. Shared(s, n, list, b, seat)
      BY <1>2, <2>1, <2>2, <2>3 DEF Shared
    <2>. QED BY <1>8, <2>4, <2>5 DEF Line
  <1>7. CASE list # <<>>
    <2>1. b = list[Len(list)] /\ a.status \notin TerminalOrderStates /\ a.cum = r.filled /\ r.seat # "none"
      BY <1>1, <1>3, <1>4, <1>7
    <2>2. s = "CANCELLED" => Unheard(s, a, r.seat) /\ Unheard(s, b, seat)
      <3>. SUFFICES ASSUME s = "CANCELLED" PROVE Unheard(s, a, r.seat) /\ Unheard(s, b, seat)
        OBVIOUS
      <3>1. Unheard(s, a, r.seat)
        BY <1>2, <2>1 DEF TerminalOrderStates
      <3>2. Len(list) \in 1 .. Len(list) /\ NoCancel(list)
        BY <1>1, <1>7 DEF list
      <3>3. b.status # "CANCELLED"
        BY <2>1, <3>2 DEF NoCancel
      <3>. QED BY <1>1, <3>1, <3>3 DEF Unheard
    <2>3. s \notin {"CREATED", "FILLED", "REJECTED", "EXPIRED"}
      BY <1>2, <2>1
    <2>4. s # "CANCELLED" => n = r.filled
      BY <1>2, <2>1 DEF Unheard
    <2>5. Unheard(s, b, seat) \/ Counted(n, list)
      BY <1>1, <2>2, <2>4
    <2>6. Closed(s, list, b, seat)
      BY <1>5, <1>7, <2>2, <2>3 DEF Closed
    <2>7. Shared(s, n, list, b, seat)
      BY <1>2, <1>7, <2>5 DEF Shared
    <2>. QED BY <1>8, <2>6, <2>7 DEF Line
  <1>. QED BY <1>6, <1>7

\* The kernel keeps a line on every order.
Together ==
    /\ state \in [Orders -> OrderState]
    /\ booked \in [Orders -> Nat]
    /\ Lines

\* An order the call finds in step with the kernel, and leaves so.
InStep(o, res) ==
    \/ /\ state'[o] = state[o] /\ booked'[o] = booked[o]
       /\ Says(order[o], res)
       /\ state[o] = "CANCELLED" => NoCancel(res.acks)
    \/ Line(state'[o], booked'[o], res.acks, LastAck(out[o], res.acks), res.at.seat)

\* A call of the router.
LEMMA AnswerLines ==
    ASSUME IInv, Together, Drained, NEW result, Answer(result),
           NEW t, \A o \in Orders : Legal(o, out[o], result[o], t),
           state' \in [Orders -> OrderState], booked' \in [Orders -> Nat],
           \A o \in Orders : InStep(o, result[o])
    PROVE  Together'
  <1>1. ASSUME NEW o \in Orders
        PROVE  Line(state'[o], booked'[o], acks'[o], out'[o], order'[o].seat)
    <2>. DEFINE res == result[o]
    <2>1. /\ res.acks \in Seq(AckRecords) /\ LastAck(out[o], res.acks) \in AckRecords
          /\ Follows(o, out[o], LastAck(out[o], res.acks)) /\ InStep(o, res)
      BY DEF Legal, Results
    <2>2. /\ order[o] \in OrderRecords /\ out[o] \in AckRecords /\ acks[o] = <<>>
          /\ Sound(o, order[o], out[o], now)
          /\ Line(state[o], booked[o], acks[o], out[o], order[o].seat)
      BY DEF IInv, TypeOK, Together, Lines, Drained
    <2>3. /\ order'[o] = res.at /\ out'[o] = LastAck(out[o], res.acks)
          /\ acks'[o] = acks[o] \o res.acks
      BY DEF Answer
    <2>. HIDE DEF res
    <2>4. acks'[o] = res.acks
      BY <2>1, <2>2, <2>3, ConcatEmptySeq
    <2>5. Line(state'[o], booked'[o], res.acks, LastAck(out[o], res.acks), res.at.seat)
      BY <2>1, <2>2, AnsweredLine DEF InStep
    <2>. QED BY <2>3, <2>4, <2>5
  <1>. QED BY <1>1 DEF Together, Lines

\* A quote: the kernel books nothing yet.
LEMMA OnQuoteLines ==
    ASSUME IInv, Together, NEW q \in Quotes, NEW place, NEW t \in Times, OnQuote(q, place, t)
    PROVE  Together'
  <1>. DEFINE result == [o \in Orders |-> OrderOnQuote(o, q, place, t)]
  <1>1. t \in Nat /\ now <= t
    BY RouterAssumption DEF IInv, TypeOK, Times
  <1>2. state' = state /\ booked' = booked /\ Answer(result) /\ Drained
    BY DEF OnQuote, kernelVars
  <1>3. ASSUME NEW o \in Orders PROVE Legal(o, out[o], result[o], t) /\ InStep(o, result[o])
    BY <1>1, <1>2, OrderOnQuoteLegal, OrderOnQuoteSays DEF InStep
  <1>4. state' \in [Orders -> OrderState] /\ booked' \in [Orders -> Nat]
    BY <1>2 DEF Together
  <1>. HIDE DEF result
  <1>. QED BY <1>2, <1>3, <1>4, AnswerLines

\* A trade touches nothing a line is about.
LEMMA OnTradeLines ==
    ASSUME IInv, Together, NEW S, NEW t \in Times, OnTrade(S, t)
    PROVE  Together'
  <1>1. ASSUME NEW o \in Orders PROVE order'[o].seat = order[o].seat
    <2>1. PICK b : order'[o] = [order[o] EXCEPT !.traded = b]
      BY DEF OnTrade
    <2>. QED BY <2>1 DEF IInv, TypeOK, OrderRecords
  <1>2. UNCHANGED <<acks, out, state, booked>>
    BY DEF OnTrade, kernelVars
  <1>. QED BY <1>1, <1>2 DEF Together, Lines

\* A new order: SUBMITTED, with at least one ack to take.
LEMMA SubmitLines ==
    ASSUME IInv, Together, NEW o \in Orders, NEW side \in Sides, NEW kind \in Kinds,
           NEW marketable \in BOOLEAN, Submit(o, side, kind, marketable)
    PROVE  Together'
  <1>. DEFINE new == Submitted(o, side, kind, marketable)
              result == [p \in Orders |-> IF p = o THEN new ELSE Stays(order[p])]
  <1>1. /\ Answer(result) /\ Drained /\ order[o].seat = "none"
        /\ state' = [state EXCEPT ![o] = "SUBMITTED"] /\ booked' = booked
    BY DEF Submit
  <1>2. SaysNew(new) /\ Legal(o, out[o], new, now)
    BY <1>1, SubmittedSays, SubmittedLegal
  <1>3. /\ state' \in [Orders -> OrderState] /\ booked' \in [Orders -> Nat]
        /\ state'[o] = "SUBMITTED" /\ \A p \in Orders : p # o => state'[p] = state[p]
    BY <1>1 DEF Together, OrderState
  <1>4. InStep(o, new)
    <2>1. Line(state[o], booked[o], <<>>, out[o], "none")
      BY <1>1 DEF Together, Lines, Drained
    <2>2. out[o].cum = 0 /\ ~Unheard(state[o], out[o], "none")
      BY <1>1 DEF IInv, Sound, NotSent, Ack, Unheard
    <2>3. booked[o] = 0
      BY <2>1, <2>2 DEF Line, Shared
    <2>. DEFINE list == new.acks  a == LastAck(out[o], list)  seat == new.at.seat
    <2>4. /\ list # <<>> /\ Told(list) /\ Counted(0, list) /\ seat # "none" /\ a = list[Len(list)]
      BY <1>2 DEF SaysNew, LastAck
    <2>. HIDE DEF list, a, seat, new
    <2>5. Line("SUBMITTED", 0, list, a, seat)
      <3>1. Fits("SUBMITTED", list, seat)
        BY <2>4 DEF Fits, OrderState
      <3>2. Heard(list, a)
        BY <2>4 DEF Heard
      <3>3. Closed("SUBMITTED", list, a, seat)
        BY DEF Closed
      <3>4. Shared("SUBMITTED", 0, list, a, seat)
        BY <2>4 DEF Shared
      <3>. QED BY <3>1, <3>2, <3>3, <3>4 DEF Line
    <2>. QED BY <1>1, <1>3, <2>3, <2>5 DEF InStep, list, a, seat
  <1>5. ASSUME NEW p \in Orders, p # o
        PROVE  Legal(p, out[p], Stays(order[p]), now) /\ InStep(p, Stays(order[p]))
    BY <1>1, <1>3, <1>5, CancelledLegal, CancelledSays DEF InStep
  <1>6. ASSUME NEW p \in Orders PROVE Legal(p, out[p], result[p], now) /\ InStep(p, result[p])
    <2>. HIDE DEF new
    <2>1. CASE p = o
      BY <1>2, <1>4, <2>1
    <2>2. CASE p # o
      BY <1>5, <2>2
    <2>. QED BY <2>1, <2>2
  <1>. HIDE DEF result
  <1>. QED BY <1>1, <1>3, <1>6, AnswerLines

\* The resting orders of the symbol are cancelled: those the kernel has over are
\* not asked for.
LEMMA CancelRestingLines ==
    ASSUME IInv, Together, CancelResting
    PROVE  Together'
  <1>. DEFINE result == [o \in Orders |-> IF o \in Active THEN Cancelled(order[o]) ELSE Stays(order[o])]
  <1>1. state' = state /\ booked' = booked /\ Answer(result) /\ Drained
    BY DEF CancelResting, kernelVars
  <1>2. ASSUME NEW o \in Orders PROVE Legal(o, out[o], result[o], now) /\ InStep(o, result[o])
    <2>1. CASE o \in Active
      <3>1. state[o] # "CANCELLED"
        BY <2>1 DEF Active, TerminalOrderStates
      <3>. QED BY <1>1, <2>1, <3>1, CancelledLegal, CancelledSays DEF InStep
    <2>2. CASE o \notin Active
      BY <1>1, <2>2, CancelledLegal, CancelledSays DEF InStep
    <2>. QED BY <2>1, <2>2
  <1>3. state' \in [Orders -> OrderState] /\ booked' \in [Orders -> Nat]
    BY <1>1 DEF Together
  <1>. HIDE DEF result
  <1>. QED BY <1>1, <1>2, <1>3, AnswerLines

\* Pending orders at the close are refused.
LEMMA ShutdownLines ==
    ASSUME IInv, Together, Shutdown
    PROVE  Together'
  <1>. DEFINE result == [o \in Orders |-> ExpiredMoc(order[o])]
  <1>1. state' = state /\ booked' = booked /\ Answer(result) /\ Drained
    BY DEF Shutdown
  <1>2. ASSUME NEW o \in Orders PROVE Legal(o, out[o], result[o], now) /\ InStep(o, result[o])
    BY <1>1, CancelledLegal, CancelledSays DEF InStep
  <1>3. state' \in [Orders -> OrderState] /\ booked' \in [Orders -> Nat]
    BY <1>1 DEF Together
  <1>. HIDE DEF result
  <1>. QED BY <1>1, <1>2, <1>3, AnswerLines

\* The kernel cancels an order: the router answers CANCELLED, or has none to cancel.
LEMMA CancelledInStep ==
    ASSUME IInv, Together, Drained, NEW o \in Orders, CanTransition(state[o], "CANCEL_REQUESTED"),
           NEW u, u = (IF Cancelled(order[o]).acks = <<>> THEN "CANCELLED" ELSE "CANCEL_REQUESTED")
    PROVE  Line(u, booked[o], Cancelled(order[o]).acks,
                LastAck(out[o], Cancelled(order[o]).acks), Cancelled(order[o]).at.seat)
  <1>. DEFINE res == Cancelled(order[o])  list == res.acks  b == LastAck(out[o], list)
  <1>. SUFFICES Line(u, booked[o], list, b, res.at.seat)
    OBVIOUS
  <1>1. state[o] \in {"ACKNOWLEDGED", "PARTIALLY_FILLED"}
    BY DEF Together, CanTransition, OrderTransitions, OrderState
  <1>2. Line(state[o], booked[o], <<>>, out[o], order[o].seat)
    BY DEF Together, Lines, Drained
  <1>3. booked[o] \in Nat /\ booked[o] = out[o].cum /\ order[o].seat # "none"
    BY <1>1, <1>2 DEF Line, Fits, Shared, Unheard
  <1>4. order[o].seat \in Held \cup {"over"} /\ Sound(o, order[o], out[o], now)
    BY <1>3 DEF IInv, TypeOK, OrderRecords, Seats, Held
  <1>5. /\ Says(order[o], res)
        /\ list # <<>> => Len(list) = 1 /\ list[1].status = "CANCELLED"
        /\ list = <<>> => order[o].seat \in {"deferred", "over"} /\ res.at = order[o]
    BY <1>4, CancelledSays DEF Held
  <1>6. b = IF list = <<>> THEN out[o] ELSE list[Len(list)]
    BY DEF LastAck
  <1>7. u = IF list = <<>> THEN "CANCELLED" ELSE "CANCEL_REQUESTED"
    OBVIOUS
  <1>8. Told(list) /\ Counted(order[o].filled, list) /\ res.at.seat # "none"
        /\ (list # <<>> => order[o].seat # "over")
    BY <1>3, <1>5 DEF Says
  <1>. HIDE DEF res, list, b
  <1>9. CASE list = <<>>
    <2>1. Unheard(u, b, res.at.seat) \/ b.status = "CANCELLED"
      BY <1>5, <1>6, <1>7, <1>9 DEF Unheard
    <2>2. Fits(u, list, res.at.seat) /\ Heard(list, b)
      BY <1>7, <1>8, <1>9 DEF Fits, Heard, OrderState
    <2>3. Closed(u, list, b, res.at.seat)
      BY <1>7, <1>9, <2>1 DEF Closed
    <2>4. Shared(u, booked[o], list, b, res.at.seat)
      BY <1>3, <1>6, <1>9, SaysNothing DEF Shared
    <2>. QED BY <2>2, <2>3, <2>4 DEF Line
  <1>10. CASE list # <<>>
    <2>1. booked[o] = order[o].filled
      BY <1>3, <1>4, <1>8, <1>10, SeatFacts
    <2>2. Fits(u, list, res.at.seat) /\ Heard(list, b)
      BY <1>5, <1>6, <1>7, <1>8, <1>10 DEF Fits, Heard, OrderState
    <2>3. Closed(u, list, b, res.at.seat)
      BY <1>7, <1>10 DEF Closed
    <2>4. Shared(u, booked[o], list, b, res.at.seat)
      BY <1>3, <1>8, <1>10, <2>1 DEF Shared
    <2>. QED BY <2>2, <2>3, <2>4 DEF Line
  <1>. QED BY <1>9, <1>10

\* The kernel cancels one order.
LEMMA CancelOrderLines ==
    ASSUME IInv, Together, NEW o \in Orders, CancelOrder(o)
    PROVE  Together'
  <1>. DEFINE res == Cancelled(order[o])
              u == IF res.acks = <<>> THEN "CANCELLED" ELSE "CANCEL_REQUESTED"
              result == [p \in Orders |-> IF p = o THEN res ELSE Stays(order[p])]
  <1>1. /\ Answer(result) /\ Drained /\ CanTransition(state[o], "CANCEL_REQUESTED")
        /\ state' = [state EXCEPT ![o] = u] /\ booked' = booked
    BY DEF CancelOrder
  <1>2. /\ state' \in [Orders -> OrderState] /\ booked' \in [Orders -> Nat]
        /\ state'[o] = u /\ \A p \in Orders : p # o => state'[p] = state[p]
    <2>1. u \in OrderState
      BY DEF OrderState
    <2>. HIDE DEF u
    <2>. QED BY <1>1, <2>1 DEF Together
  <1>3. Legal(o, out[o], res, now) /\ InStep(o, res)
    BY <1>1, <1>2, CancelledLegal, CancelledInStep DEF InStep
  <1>4. ASSUME NEW p \in Orders, p # o
        PROVE  Legal(p, out[p], Stays(order[p]), now) /\ InStep(p, Stays(order[p]))
    BY <1>1, <1>2, <1>4, CancelledLegal, CancelledSays DEF InStep
  <1>5. ASSUME NEW p \in Orders PROVE Legal(p, out[p], result[p], now) /\ InStep(p, result[p])
    <2>. HIDE DEF res
    <2>1. CASE p = o
      BY <1>3, <2>1
    <2>2. CASE p # o
      BY <1>4, <2>2
    <2>. QED BY <2>1, <2>2
  <1>. HIDE DEF result
  <1>. QED BY <1>1, <1>2, <1>5, AnswerLines

\* The kernel takes the oldest ack of every order.
LEMMA SettleLines ==
    ASSUME IInv, Together, SettleRouterAcks
    PROVE  Together'
  <1>1. UNCHANGED <<order, out>>
    BY DEF SettleRouterAcks
  <1>2. ASSUME NEW o \in Orders
        PROVE  /\ Line(state'[o], booked'[o], acks'[o], out'[o], order'[o].seat)
               /\ state'[o] \in OrderState /\ booked'[o] \in Nat
    <2>. DEFINE list == acks[o]
                u == ApplyAck(state[o], Head(list).status)
                m == IF state[o] \in TerminalOrderStates \cup {"CREATED"} THEN booked[o]
                     ELSE booked[o] + BookedBy(Head(list))
    <2>1. Line(state[o], booked[o], list, out[o], order[o].seat) /\ list \in Seq(AckRecords)
      BY DEF Together, Lines, IInv, TypeOK
    <2>2. CASE list = <<>>
      <3>1. state'[o] = state[o] /\ booked'[o] = booked[o] /\ acks'[o] = <<>>
        BY <2>2 DEF SettleRouterAcks
      <3>. QED BY <1>1, <2>1, <2>2, <3>1 DEF Together
    <2>3. CASE list # <<>>
      <3>1. state'[o] = u /\ acks'[o] = Tail(list)
        BY <2>3 DEF SettleRouterAcks
      <3>2. booked'[o] = m
        BY <2>3 DEF SettleRouterAcks, Active
      <3>. HIDE DEF list
      <3>3. Line(u, m, Tail(list), out[o], order[o].seat)
        BY <2>1, <2>3, SettledLine
      <3>. HIDE DEF u, m
      <3>4. Line(state'[o], booked'[o], acks'[o], out'[o], order'[o].seat)
        BY <1>1, <3>1, <3>2, <3>3
      <3>. QED BY <3>4 DEF Line, Fits, Shared
    <2>. QED BY <2>2, <2>3
  <1>3. state' \in [Orders -> OrderState] /\ booked' \in [Orders -> Nat]
    <2>1. DOMAIN state' = Orders /\ DOMAIN booked' = Orders /\ state' = [o \in Orders |-> state'[o]]
          /\ booked' = [o \in Orders |-> booked'[o]]
      BY DEF SettleRouterAcks
    <2>. QED BY <1>2, <2>1
  <1>. QED BY <1>2, <1>3 DEF Together, Lines

\* Nobody has been told anything of an order that is not sent.
LEMMA TogetherInit == Init => Together
  <1>. SUFFICES ASSUME Init PROVE Together
    OBVIOUS
  <1>1. /\ Nowhere.seat = "none" /\ NotSent.cum = 0 /\ NotSent.status = "NONE"
    BY DEF Nowhere, Place, NotSent, Ack
  <1>2. PICK zero \in Nat : zero = 0
    OBVIOUS
  <1>3. state = [o \in Orders |-> "CREATED"] /\ booked = [o \in Orders |-> zero]
    BY <1>2 DEF Init
  <1>4. state \in [Orders -> OrderState] /\ booked \in [Orders -> Nat]
    BY <1>3 DEF OrderState
  <1>5. Line("CREATED", 0, <<>>, NotSent, "none")
    <2>1. Fits("CREATED", <<>>, "none") /\ Heard(<<>>, NotSent)
      BY SaysNothing DEF Fits, Heard, OrderState
    <2>2. Closed("CREATED", <<>>, NotSent, "none")
      BY DEF Closed
    <2>3. Shared("CREATED", 0, <<>>, NotSent, "none")
      BY <1>1, SaysNothing DEF Shared
    <2>. QED BY <2>1, <2>2, <2>3 DEF Line
  <1>6. ASSUME NEW o \in Orders PROVE Line(state[o], booked[o], acks[o], out[o], order[o].seat)
    BY <1>1, <1>5 DEF Init
  <1>. QED BY <1>4, <1>6 DEF Together, Lines

\* Every step of router and kernel keeps them together.
LEMMA TogetherStep ==
    ASSUME IInv, Together, [Next]_vars
    PROVE  Together'
  <1>1. ASSUME NEW o \in Orders, NEW req \in Requests[o]
        PROVE  req[1] \in Sides /\ req[2] \in Kinds
    BY RouterAssumption DEF Sides, Kinds
  <1>2. CASE UNCHANGED vars
    BY <1>2 DEF vars, Together, Lines
  <1>. QED BY <1>1, <1>2, OnQuoteLines, OnTradeLines, SubmitLines, CancelRestingLines, CancelOrderLines,
              SettleLines, ShutdownLines DEF Next

\* What the inductive invariant says once the acks are settled.
LEMMA TogetherAgrees ==
    ASSUME IInv, Together
    PROVE  KernelAgreesWithVenue
  <1>. SUFFICES ASSUME Drained, NEW o \in Orders
                PROVE  \/ CancelledUnheard(o)
                       \/ AgreeOnShares(o) /\ (AgreeOnLife(o) \/ RestRefused(o))
    BY DEF KernelAgreesWithVenue
  <1>1. /\ Line(state[o], booked[o], <<>>, out[o], order[o].seat)
        /\ Sound(o, order[o], out[o], now) /\ order[o].seat \in Seats
    BY DEF Together, Lines, Drained, IInv, TypeOK, OrderRecords
  <1>2. /\ state[o] \in OrderState \ {"SUBMITTED", "CANCEL_REQUESTED"}
        /\ (state[o] = "CREATED") <=> (order[o].seat = "none")
    BY <1>1 DEF Line, Fits
  <1>3. CASE Unheard(state[o], out[o], order[o].seat)
    BY <1>3 DEF Unheard, CancelledUnheard
  <1>4. CASE ~Unheard(state[o], out[o], order[o].seat)
    <2>1. AgreeOnShares(o)
      BY <1>1, <1>4 DEF Line, Shared, AgreeOnShares
    <2>2. Closed(state[o], <<>>, out[o], order[o].seat)
      BY <1>1 DEF Line
    <2>3. /\ order[o].seat \in Held => out[o].status \notin TerminalOrderStates
          /\ order[o].seat = "over" => out[o].status \in TerminalOrderStates
      BY <1>1, SeatFacts
    <2>4. CASE order[o].seat = "none"
      BY <1>2, <2>1, <2>4 DEF AgreeOnLife, Active, Held
    <2>5. CASE order[o].seat \in Held
      <3>1. state[o] \notin TerminalOrderStates \cup {"CREATED"}
        BY <1>2, <1>4, <2>2, <2>3, <2>5 DEF Closed, TerminalOrderStates, Held
      <3>. QED BY <2>1, <2>5, <3>1 DEF AgreeOnLife, Active
    <2>6. CASE order[o].seat = "over"
      <3>1. CASE state[o] \in TerminalOrderStates \cup {"CREATED"}
        BY <2>1, <2>6, <3>1 DEF AgreeOnLife, Active, Held
      <3>2. CASE state[o] \notin TerminalOrderStates \cup {"CREATED"}
        <4>1. state[o] \in {"ACKNOWLEDGED", "PARTIALLY_FILLED"}
          BY <1>2, <3>2 DEF OrderState, TerminalOrderStates
        <4>2. out[o].status = "REJECTED" /\ out[o].cum > 0
          BY <2>2, <2>3, <2>6, <4>1 DEF Closed
        <4>. QED BY <2>1, <4>2 DEF RestRefused
      <3>. QED BY <3>1, <3>2
    <2>. QED BY <1>1, <2>4, <2>5, <2>6 DEF Seats, Held
  <1>. QED BY <1>3, <1>4

\* Whenever the acks are settled, kernel and venue agree on which orders are
\* alive and on the shares of every order, but for a refused cancel taken for
\* done and the refused rest of a partly filled order.
THEOREM KernelAgreesTheorem == Spec => []KernelAgreesWithVenue
  <1>1. Init => IInv /\ Together
    BY InitStep, TogetherInit
  <1>2. IInv /\ Together /\ [Next]_vars => (IInv /\ Together)'
    BY NextStep, TogetherStep
  <1>3. IInv /\ Together => KernelAgreesWithVenue
    BY TogetherAgrees
  <1>. QED BY <1>1, <1>2, <1>3, PTL DEF Spec
=============================================================================
