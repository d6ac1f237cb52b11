---------------------------- MODULE PaperOrders ----------------------------
(***************************************************************************)
(* The paper-trading order path: the kernel's order tracking and fill      *)
(* reconciliation (kernel/orchestrator.py), the IB router                  *)
(* (broker/ib/router.py) and the two threads of the IB connection          *)
(* (broker/ib/connection.py), against an external gateway.                 *)
(*                                                                         *)
(*   main thread   Track / Submit, Cancel, then Settle: poll the router,   *)
(*                 apply each ack to its order, book its fill, prune       *)
(*   ib-writer     takes orders and cancels off the queues to the socket   *)
(*   ib-msg        puts the gateway's callbacks on _fill_queue             *)
(*                                                                         *)
(* The gateway reports CUMULATIVE quantities and may repeat, delay or      *)
(* reorder them; the router turns them into per-ack deltas and the kernel  *)
(* adds the deltas up.  Orders are shares of one quantity each; prices and *)
(* fees are not modelled.  One connection session: an IB id stands for one *)
(* platform order (IBSession models the ids).                              *)
(***************************************************************************)
EXTENDS OrderStates, Naturals, Sequences

CONSTANTS
    Orders,     \* platform order ids the session can submit
    Qty,        \* Qty[o]: shares ordered
    Situations, \* which of AllSituations can occur
    MaxQueue    \* bound on the length of _fill_queue

(***************************************************************************)
(* "overtake"    the writer drains a cancel before the order's placeOrder  *)
(* "warning"     IB sends an order-scoped error code that is not fatal     *)
(* "cancelFill"  shares executed since the last report ride on Cancelled   *)
(* "pipeline"    poll / apply raises while the main thread settles acks    *)
(* "stale"       callbacks repeated, delayed or out of order               *)
(* "operator"    an operator cancels an order (order_lifecycle.cancel_order) *)
(***************************************************************************)
AllSituations == {"overtake", "warning", "cancelFill", "pipeline", "stale",
                  "operator"}

ASSUME QtyAssumption == Qty \in [Orders -> Nat \ {0}]
ASSUME SituationsAssumption == Situations \subseteq AllSituations
ASSUME MaxQueueAssumption == MaxQueue \in Nat \ {0}

VARIABLES
    \* kernel, main thread
    ost,        \* ost[o]: state of the order's state machine
    active,     \* keys of _active_orders
    unpruned,   \* history: orders of the settles that raised since the last prune
    booked,     \* booked[o]: shares of o added to the position store
    phase,      \* what the main thread does: see Phases
    expected,   \* expected_order_ids of the running settle
    inbox,      \* acks polled and not yet routed in the running settle
    batch,      \* acks the running settle applies and reconciles
    done,       \* how many of them it has applied
    deferred,   \* _deferred_router_acks
    \* router, main thread
    submitted,  \* _submitted_order_ids
    meta,       \* keys of _meta
    lastCum,    \* _last_cumulative, 0 when absent
    pendingAcks,\* _pending_acks
    \* connection, shared between threads
    submitQ,    \* orders in _submit_queue
    cancelQ,    \* orders in _cancel_queue
    fillQ,      \* _fill_queue
    \* gateway (external)
    gw,         \* gw[o]: "none", "working" or "closed"
    executed,   \* executed[o]: shares really traded
    reported    \* reported[o]: largest cumulative quantity called back

settleVars == <<phase, expected, inbox, batch, done, deferred>>
kernelVars == <<ost, active, unpruned, booked, settleVars>>
routerVars == <<submitted, meta, lastCum, pendingAcks>>
connVars   == <<submitQ, cancelQ, fillQ>>
gwVars     == <<gw, executed, reported>>
vars       == <<kernelVars, routerVars, connVars, gwVars>>

Phases == {"idle", "submit", "poll", "route", "apply", "book", "stopped"}

(***************************************************************************)
(* Messages                                                                *)
(***************************************************************************)
OrderStatuses == {"Submitted", "PartiallyFilled", "Filled", "Cancelled",
                  "Inactive", "Expired", "Unrecognised"}
ErrorCodes    == {"reject201", "cancel202", "connectivity", "otherCode"}

\* An IBFillEvent: status is a textual orderStatus or an error code.
FillEvents == [order: Orders, status: OrderStatuses \cup ErrorCodes, cum: Nat]

\* An OrderAck.  cum is a history field: the cumulative quantity this ack
\* brings the order to (the code's ack has the delta, qty, alone).
Acks == [order: Orders, status: OrderAckStatus, qty: Nat, cum: Nat]

Event(o, status, cum)    == [order |-> o, status |-> status, cum |-> cum]
Ack(o, status, qty, cum) == [order |-> o, status |-> status, qty |-> qty, cum |-> cum]

Init ==
    /\ ost = [o \in Orders |-> "CREATED"]
    /\ active = {}
    /\ unpruned = {}
    /\ booked = [o \in Orders |-> 0]
    /\ phase = "idle"
    /\ expected = {}
    /\ inbox = <<>>
    /\ batch = <<>>
    /\ done = 0
    /\ deferred = <<>>
    /\ submitted = {}
    /\ meta = {}
    /\ lastCum = [o \in Orders |-> 0]
    /\ pendingAcks = <<>>
    /\ submitQ = {}
    /\ cancelQ = {}
    /\ fillQ = <<>>
    /\ gw = [o \in Orders |-> "none"]
    /\ executed = [o \in Orders |-> 0]
    /\ reported = [o \in Orders |-> 0]

(***************************************************************************)
(* Main thread: submission and cancels                                     *)
(***************************************************************************)
\* What _prune_terminal_orders keeps of the tracked orders.
Live(states) == {o \in active : states[o] \notin TerminalOrderStates}

\* _track_order, _submit_tracked_order and IBOrderRouter.submit: the router
\* acknowledges synchronously and leaves the order to the writer.  A portfolio
\* batch or a reversal submits several orders before it settles them.
TrackAndSubmit(o) ==
    /\ phase \in {"idle", "submit"}
    /\ o \notin submitted
    /\ ost' = [ost EXCEPT ![o] = "SUBMITTED"]
    /\ active' = active \cup {o}
    /\ submitted' = submitted \cup {o}
    /\ meta' = meta \cup {o}
    /\ submitQ' = submitQ \cup {o}
    /\ pendingAcks' = Append(pendingAcks, Ack(o, "ACKNOWLEDGED", 0, 0))
    /\ phase' = "submit"
    /\ expected' = expected \cup {o}
    /\ UNCHANGED <<unpruned, booked, inbox, batch, done, deferred, lastCum, cancelQ, fillQ, gwVars>>

\* submit raises (no nextValidId yet): _reject_order_after_submit_failure, which
\* prunes every terminal order.
TrackAndSubmitFails(o) ==
    /\ phase \in {"idle", "submit"}
    /\ o \notin submitted
    /\ ost' = [ost EXCEPT ![o] = "REJECTED"]
    /\ active' = Live(ost')
    /\ unpruned' = {}
    /\ submitted' = submitted \cup {o}
    /\ UNCHANGED <<booked, settleVars, meta, lastCum, pendingAcks,
                   connVars, gwVars>>

\* _settle_router_acks polls: the deferred acks, then the router's pending ones;
\* the callbacks of _fill_queue follow one at a time (PollFill).
BeginSettle(ids) ==
    /\ phase' = "poll"
    /\ expected' = ids
    /\ inbox' = deferred \o pendingAcks
    /\ deferred' = <<>>
    /\ pendingAcks' = <<>>
    /\ UNCHANGED <<batch, done>>

SettleSubmitted ==
    /\ phase = "submit"
    /\ BeginSettle(expected)
    /\ UNCHANGED <<ost, active, unpruned, booked, submitted, meta, lastCum, connVars, gwVars>>

\* _cancel_resting_for_symbol, S being the orders of the symbol: IBOrderRouter.cancel_order only enqueues, and
\* the settle collects whatever acks the cancelled orders already have.
CancelResting(S) ==
    /\ phase = "idle"
    /\ S # {}
    /\ S \subseteq active
    /\ cancelQ' = cancelQ \cup S
    /\ BeginSettle(S)
    /\ UNCHANGED <<ost, active, unpruned, booked, submitted, meta, lastCum, submitQ,
                   fillQ, gwVars>>

\* order_lifecycle.cancel_order, an operator's cancel of one order.
CancelOrder(o) ==
    /\ "operator" \in Situations
    /\ phase = "idle"
    /\ o \in active
    /\ CanTransition(ost[o], "CANCEL_REQUESTED")
    /\ ost' = [ost EXCEPT ![o] = "CANCEL_REQUESTED"]
    /\ cancelQ' = cancelQ \cup {o}
    /\ BeginSettle({o})
    /\ UNCHANGED <<active, unpruned, booked, submitted, meta, lastCum, submitQ, fillQ, gwVars>>

\* Mutant: the drain looks at the callback queue alone.
DrainIgnoringDeferred ==
    /\ phase = "idle"
    /\ fillQ # <<>>
    /\ BeginSettle(Orders)
    /\ UNCHANGED <<ost, active, unpruned, booked, submitted, meta, lastCum, connVars, gwVars>>

\* _drain_async_fills: idle tick, tick start or shutdown; takes every ack.
DrainAsyncFills ==
    /\ phase = "idle"
    /\ deferred # <<>> \/ fillQ # <<>>
    /\ BeginSettle(Orders)
    /\ UNCHANGED <<ost, active, unpruned, booked, submitted, meta, lastCum, connVars, gwVars>>

(***************************************************************************)
(* Main thread: IBOrderRouter.poll_acks                                    *)
(***************************************************************************)
StatusToAck ==
    [s \in OrderStatuses \cup ErrorCodes |->
        CASE s = "PartiallyFilled" -> "PARTIALLY_FILLED"
          [] s = "Filled"          -> "FILLED"
          [] s \in {"Cancelled", "cancel202"} -> "CANCELLED"
          [] s \in {"Inactive", "reject201", "otherCode"} -> "REJECTED"
          [] s = "Expired"         -> "EXPIRED"
          [] OTHER                 -> "ACKNOWLEDGED"]

\* Callbacks that never become an ack: acknowledgement echoes, statuses the
\* table does not know and connectivity codes.
Suppressed == {"Submitted", "Unrecognised", "connectivity"}

\* Mutant: the textual status is taken at its word.
NotDowngraded(ev) == StatusToAck[ev.status]

\* "Filled" before the last lot has landed counts as a partial fill.
Downgraded(ev) ==
    IF ev.status = "Filled" /\ ev.cum < Qty[ev.order]
    THEN "PARTIALLY_FILLED" ELSE StatusToAck[ev.status]

\* Mutant: the ack carries the cumulative quantity.
CumulativeDelta(ev) == IF ev.status \in ErrorCodes THEN 0 ELSE ev.cum

\* An error callback carries no quantity; a status callback carries a delta.
Delta(ev) == IF ev.status \in ErrorCodes THEN 0 ELSE ev.cum - lastCum[ev.order]

\* Mutant: no check for a cumulative quantity that runs backwards.
DroppedUnlessStale(ev) ==
    \/ ev.order \notin meta
    \/ ev.status \in Suppressed

\* Callbacks for unknown orders, echoes, and quantities that bring nothing new.
Dropped(ev) ==
    \/ ev.order \notin meta
    \/ ev.status \in Suppressed
    \/ /\ ev.status \notin ErrorCodes
       /\ \/ ev.cum < lastCum[ev.order]
          \/ StatusToAck[ev.status] \in FillStatuses /\ ev.cum = lastCum[ev.order]

\* Mutant: the router keeps the metadata of a finished order.
FillToAckUnpruned(ev) ==
    LET cum == IF ev.status \in ErrorCodes THEN lastCum[ev.order] ELSE ev.cum
    IN  /\ inbox' = Append(inbox, Ack(ev.order, Downgraded(ev), Delta(ev), cum))
        /\ lastCum' = [lastCum EXCEPT ![ev.order] = ev.cum]
        /\ UNCHANGED meta

\* _fill_to_ack on the head of _fill_queue.  A terminal ack makes the router
\* forget the order (_prune_ib_order).
FillToAck(ev) ==
    LET status == Downgraded(ev)
        cum    == IF ev.status \in ErrorCodes THEN lastCum[ev.order] ELSE ev.cum
    IN  /\ inbox' = Append(inbox, Ack(ev.order, status, Delta(ev), cum))
        /\ IF status \in TerminalOrderStates
           THEN /\ meta' = meta \ {ev.order}
                /\ lastCum' = [lastCum EXCEPT ![ev.order] = 0]
           ELSE /\ lastCum' = [lastCum EXCEPT ![ev.order] = ev.cum]
                /\ UNCHANGED meta

PollFill ==
    /\ phase = "poll"
    /\ fillQ # <<>>
    /\ fillQ' = Tail(fillQ)
    /\ \/ Dropped(Head(fillQ)) /\ UNCHANGED <<inbox, meta, lastCum>>
       \/ ~Dropped(Head(fillQ)) /\ FillToAck(Head(fillQ))
    /\ UNCHANGED <<ost, active, unpruned, booked, phase, expected, batch, done, deferred,
                   submitted, pendingAcks, submitQ, cancelQ, gwVars>>

\* get_nowait found the queue empty: what arrives later waits for the next poll.
PollDone ==
    /\ phase = "poll"
    /\ fillQ = <<>>
    /\ phase' = "route"
    /\ UNCHANGED <<ost, active, unpruned, booked, expected, inbox, batch, done, deferred,
                   routerVars, connVars, gwVars>>

(***************************************************************************)
(* Main thread: routing, applying and booking the acks                     *)
(***************************************************************************)
\* Mutant: the acks of other orders are not kept.
RouteAckForgets ==
    /\ phase = "route"
    /\ inbox # <<>>
    /\ batch' = IF Head(inbox).order \in expected THEN Append(batch, Head(inbox)) ELSE batch
    /\ inbox' = Tail(inbox)
    /\ UNCHANGED <<ost, active, unpruned, booked, phase, expected, done, deferred, routerVars,
                   connVars, gwVars>>

\* _poll_order_router_acks hands over the acks of the expected orders and
\* keeps the others for a later settle.
RouteAck ==
    /\ phase = "route"
    /\ inbox # <<>>
    /\ IF Head(inbox).order \in expected
       THEN batch' = Append(batch, Head(inbox)) /\ UNCHANGED deferred
       ELSE deferred' = Append(deferred, Head(inbox)) /\ UNCHANGED batch
    /\ inbox' = Tail(inbox)
    /\ UNCHANGED <<ost, active, unpruned, booked, phase, expected, done, routerVars,
                   connVars, gwVars>>

RouteDone ==
    /\ phase = "route"
    /\ inbox = <<>>
    /\ phase' = "apply"
    /\ UNCHANGED <<ost, active, unpruned, booked, expected, inbox, batch, done, deferred,
                   routerVars, connVars, gwVars>>

\* _publish_and_apply_order_acks, one ack; an unknown order only alerts.
ApplyAckToOrder ==
    /\ phase = "apply"
    /\ done < Len(batch)
    /\ LET ack == batch[done + 1]
       IN  ost' = [ost EXCEPT ![ack.order] =
                      IF ack.order \in active THEN ApplyAck(@, ack.status) ELSE @]
    /\ done' = done + 1
    /\ UNCHANGED <<active, unpruned, booked, phase, expected, inbox, batch, deferred,
                   routerVars, connVars, gwVars>>

ApplyDone ==
    /\ phase = "apply"
    /\ done = Len(batch)
    /\ done' = 0
    /\ phase' = "book"
    /\ UNCHANGED <<ost, active, unpruned, booked, expected, inbox, batch, deferred,
                   routerVars, connVars, gwVars>>

\* Mutant: only the final fill is booked.
BookedWhenFilled(ack) ==
    IF ack.status = "FILLED" /\ ack.order \in active THEN ack.qty ELSE 0

\* What _reconcile_fills adds to the position for this ack: a fill status, a
\* positive quantity and an order that is still tracked.
BookedBy(ack) ==
    IF ack.status \in FillStatuses /\ ack.order \in active THEN ack.qty ELSE 0

ReconcileFill ==
    /\ phase = "book"
    /\ batch # <<>>
    /\ booked' = [booked EXCEPT ![Head(batch).order] = @ + BookedBy(Head(batch))]
    /\ batch' = Tail(batch)
    /\ UNCHANGED <<ost, active, unpruned, phase, expected, inbox, done, deferred,
                   routerVars, connVars, gwVars>>

\* Mutant: no pruning.
FinishSettleUnpruned ==
    /\ phase = "book"
    /\ batch = <<>>
    /\ phase' = "idle"
    /\ expected' = {}
    /\ UNCHANGED <<ost, active, unpruned, booked, inbox, batch, done, deferred, routerVars,
                   connVars, gwVars>>

\* The end of _reconcile_fills: _prune_terminal_orders.
FinishSettle ==
    /\ phase = "book"
    /\ batch = <<>>
    /\ active' = Live(ost)
    /\ unpruned' = {}
    /\ phase' = "idle"
    /\ expected' = {}
    /\ UNCHANGED <<ost, booked, inbox, batch, done, deferred, routerVars,
                   connVars, gwVars>>

\* _force_order_terminal_after_pipeline_error takes the first legal target.
ForceTerminal(s) ==
    IF CanTransition(s, "REJECTED") THEN "REJECTED"
    ELSE IF CanTransition(s, "CANCELLED") THEN "CANCELLED" ELSE s

\* An exception leaves the settle, or the submissions before it: what it polled
\* and has not yet applied or booked is lost and the main thread is free again.
Abandon ==
    /\ batch' = <<>>
    /\ done' = 0
    /\ phase' = "idle"
    /\ expected' = {}
    /\ UNCHANGED <<booked, inbox, deferred>>

\* Applying or booking raises while an emergency exit is settled: the order is
\* forced terminal and the finished orders are pruned.
PipelineError(o) ==
    /\ "pipeline" \in Situations
    /\ phase \in {"apply", "book"}
    /\ expected = {o}
    /\ o \in active
    /\ ost[o] # "CREATED"
    /\ LET forced == [ost EXCEPT ![o] = ForceTerminal(@)]
       IN  /\ ost' = forced
           /\ active' = Live(forced)
    /\ unpruned' = {}
    /\ Abandon
    /\ UNCHANGED <<routerVars, connVars, gwVars>>

\* Any other settle raises (a handler of the published ack, a callback of an
\* order's state machine, the POSITION_UPDATE transition, the reconciliation),
\* or a handler of a submitted order does before the settle: nothing more is
\* booked or pruned.  _force_flatten_symbol_on_degrade swallows the exception,
\* a tick degrades on it.  An ack takes a SUBMITTED order through two
\* transitions, and the second may raise after the first.
SettleRaises ==
    /\ "pipeline" \in Situations
    /\ phase \in {"submit", "apply", "book"}
    /\ \/ UNCHANGED ost
       \/ /\ phase = "apply" /\ done < Len(batch)
          /\ batch[done + 1].order \in active /\ batch[done + 1].status # "REJECTED"
          /\ ost' = [ost EXCEPT ![batch[done + 1].order] = Acknowledged(@)]
    /\ unpruned' = unpruned \cup expected
    /\ Abandon
    /\ UNCHANGED <<active, routerVars, connVars, gwVars>>

\* An order is tracked and an exception comes before the router has it: the
\* SUBMITTED transition raises, or the submit of a path that does not catch it.
TrackRaises(o) ==
    /\ "pipeline" \in Situations
    /\ phase \in {"idle", "submit"}
    /\ o \notin submitted
    /\ \E s \in {"CREATED", "SUBMITTED"} : ost' = [ost EXCEPT ![o] = s]
    /\ active' = active \cup {o}
    /\ unpruned' = unpruned \cup expected
    /\ submitted' = submitted \cup {o}
    /\ Abandon
    /\ UNCHANGED <<meta, lastCum, pendingAcks, connVars, gwVars>>

\* shutdown, after its drain: cancels without an answer are resolved locally.
Shutdown ==
    /\ phase = "idle"
    /\ deferred = <<>> /\ fillQ = <<>>
    /\ phase' = "stopped"
    /\ ost' = [o \in Orders |->
                 IF o \in active /\ ost[o] = "CANCEL_REQUESTED"
                 THEN "CANCELLED" ELSE ost[o]]
    /\ active' = Live(ost')
    /\ unpruned' = {}
    /\ UNCHANGED <<booked, expected, inbox, batch, done, deferred, routerVars,
                   connVars, gwVars>>

(***************************************************************************)
(* ib-writer thread                                                        *)
(***************************************************************************)
Deliver(ev) ==
    /\ Len(fillQ) < MaxQueue
    /\ fillQ' = Append(fillQ, ev)

WriterPlaceOrder(o) ==
    /\ o \in submitQ
    /\ submitQ' = submitQ \ {o}
    /\ gw' = [gw EXCEPT ![o] = "working"]
    /\ UNCHANGED <<kernelVars, routerVars, cancelQ, fillQ, executed, reported>>

\* placeOrder raises: a synthetic error callback, and the order never left.
WriterPlaceOrderFails(o) ==
    /\ o \in submitQ
    /\ submitQ' = submitQ \ {o}
    /\ gw' = [gw EXCEPT ![o] = "closed"]
    /\ Deliver(Event(o, "otherCode", 0))
    /\ UNCHANGED <<kernelVars, routerVars, cancelQ, executed, reported>>

\* cancelOrder.  The gateway cancels a working order some time later
\* (GatewayCancel); for an order it has not seen it answers with an error
\* code, and for a closed one with nothing the router still listens to.
WriterCancelOrder(o) ==
    /\ o \in cancelQ
    /\ o \in submitQ => "overtake" \in Situations
    /\ cancelQ' = cancelQ \ {o}
    /\ IF o \in submitQ THEN Deliver(Event(o, "otherCode", 0)) ELSE UNCHANGED fillQ
    /\ UNCHANGED <<kernelVars, routerVars, submitQ, gwVars>>

(***************************************************************************)
(* Gateway (external) and ib-msg thread                                    *)
(***************************************************************************)
\* The gateway trades n shares; the last one closes the order and is reported.
GatewayExecute(o, n) ==
    /\ gw[o] = "working"
    /\ executed[o] + n <= Qty[o]
    /\ executed' = [executed EXCEPT ![o] = @ + n]
    /\ IF executed[o] + n = Qty[o]
       THEN /\ gw' = [gw EXCEPT ![o] = "closed"]
            /\ reported' = [reported EXCEPT ![o] = Qty[o]]
            /\ Deliver(Event(o, "Filled", Qty[o]))
       ELSE UNCHANGED <<gw, reported, fillQ>>
    /\ UNCHANGED <<kernelVars, routerVars, submitQ, cancelQ>>

\* A progress callback with any quantity reached so far: late, repeated or
\* out of order callbacks are the ones with cum below the last report.
GatewayReport(o, status, cum) ==
    /\ gw[o] # "none"
    /\ status \in {"PartiallyFilled", "Filled", "Submitted", "Unrecognised", "connectivity"}
    /\ cum \in 1 .. executed[o]
    /\ "stale" \in Situations \/ (cum > reported[o] /\ cum = executed[o] /\ status = "PartiallyFilled")
    /\ reported' = [reported EXCEPT ![o] =
                      IF status \in {"PartiallyFilled", "Filled"} /\ cum > @ THEN cum ELSE @]
    /\ Deliver(Event(o, status, cum))
    /\ UNCHANGED <<kernelVars, routerVars, submitQ, cancelQ, gw, executed>>

\* The order ends with shares left: cancelled, expired or refused.
GatewayEnd(o, status) ==
    /\ gw[o] = "working"
    /\ status \in {"Cancelled", "cancel202", "Expired", "Inactive", "reject201"}
    /\ status \in {"Inactive", "reject201"} => executed[o] = 0
    /\ "cancelFill" \in Situations \/ executed[o] = reported[o]
    /\ gw' = [gw EXCEPT ![o] = "closed"]
    /\ Deliver(Event(o, status, IF status \in ErrorCodes THEN 0 ELSE executed[o]))
    /\ UNCHANGED <<kernelVars, routerVars, submitQ, cancelQ, executed, reported>>

\* An order-scoped error code that does not end the order.
GatewayWarning(o) ==
    /\ "warning" \in Situations
    /\ gw[o] = "working"
    /\ Deliver(Event(o, "otherCode", 0))
    /\ UNCHANGED <<kernelVars, routerVars, submitQ, cancelQ, gwVars>>

\* _settle_router_acks: poll, route, apply, reconcile, prune.
Settle ==
    \/ SettleSubmitted \/ PollFill \/ PollDone \/ RouteAck \/ RouteDone
    \/ ApplyAckToOrder \/ ApplyDone \/ ReconcileFill \/ FinishSettle

Writer(o) == WriterPlaceOrder(o) \/ WriterPlaceOrderFails(o) \/ WriterCancelOrder(o)

Gateway(o) ==
    \/ \E n \in 1 .. Qty[o] : GatewayExecute(o, n)
    \/ \E s \in OrderStatuses \cup ErrorCodes, n \in 1 .. Qty[o] : GatewayReport(o, s, n)
    \/ \E s \in OrderStatuses \cup ErrorCodes : GatewayEnd(o, s)
    \/ GatewayWarning(o)

MainThread ==
    \/ Settle \/ SettleRaises \/ DrainAsyncFills \/ Shutdown
    \/ \E S \in SUBSET Orders : CancelResting(S)
    \/ \E o \in Orders :
          \/ TrackAndSubmit(o) \/ TrackAndSubmitFails(o) \/ CancelOrder(o)
          \/ PipelineError(o) \/ TrackRaises(o)

Next == MainThread \/ \E o \in Orders : Writer(o) \/ Gateway(o)

Spec == Init /\ [][Next]_vars

(***************************************************************************)
(* Properties                                                              *)
(***************************************************************************)
\* Type correctness of the kernel, router, connection and gateway state.
TypeOK ==
    /\ ost \in [Orders -> OrderState]
    /\ active \subseteq Orders
    /\ unpruned \subseteq Orders
    /\ booked \in [Orders -> Nat]
    /\ phase \in Phases
    /\ expected \subseteq Orders
    /\ inbox \in Seq(Acks) /\ batch \in Seq(Acks) /\ deferred \in Seq(Acks)
    /\ done \in 0 .. Len(batch)
    /\ submitted \subseteq Orders
    /\ meta \subseteq Orders
    /\ lastCum \in [Orders -> Nat]
    /\ pendingAcks \in Seq(Acks)
    /\ submitQ \subseteq Orders
    /\ cancelQ \subseteq Orders
    /\ fillQ \in Seq(FillEvents)
    /\ gw \in [Orders -> {"none", "working", "closed"}]
    /\ executed \in [Orders -> Nat]
    /\ reported \in [Orders -> Nat]

\* The position never holds a share of an order that the gateway has not
\* traded, and never more than the order asked for, whatever callbacks are
\* repeated, delayed or reordered and whenever the main thread polls
\* (_fill_to_ack's delta accounting, _reconcile_fills).
NeverOverbooks ==
    \A o \in Orders : booked[o] <= executed[o] /\ executed[o] <= Qty[o]

\* An order the kernel has closed as FILLED and pruned has all its shares in
\* the position store: no delta is lost between the router, the deferred acks
\* and the reconciliation (_poll_order_router_acks, _prune_terminal_orders).
FilledMeansBooked ==
    \A o \in Orders : ost[o] = "FILLED" /\ o \notin active => booked[o] = Qty[o]

\* Between two settles the kernel tracks no order its state machine calls
\* terminal, so a late ack of a finished order is refused as one of an unknown
\* order; a settle that raises skips the pruning and may leave terminal the
\* orders it was for, and no others, until the next completed settle
\* (_settle_router_acks, _prune_terminal_orders).
NoTerminalOrderTracked ==
    phase = "idle" => \A o \in active : ost[o] \in TerminalOrderStates => o \in unpruned

\* Everything the router still knows of an order, and every ack on its way to
\* the kernel, belongs to an order the kernel tracks: the fills that arrive
\* have a side (_reconcile_fills rejects the fills of unknown orders).
RouterOrdersTracked ==
    /\ phase # "stopped" => meta \subseteq active
    /\ \A i \in 1 .. Len(deferred) : deferred[i].order \in active

\* An order the router has finished with is one the kernel finishes too:
\* between settles, with no ack waiting, a tracked order is known to the router.
KernelFollowsRouter ==
    phase = "idle" /\ deferred = <<>> => active \subseteq meta

\* An order at work at the gateway is tracked by the kernel.
WorkingOrderTracked ==
    \A o \in Orders : gw[o] = "working" /\ phase # "stopped" => o \in active

\* Every share the gateway trades is booked once the order is over and all
\* its callbacks are handled.
NothingLost ==
    phase = "idle" /\ fillQ = <<>> /\ deferred = <<>> =>
        \A o \in Orders : gw[o] = "closed" => booked[o] = executed[o]

\* A settle always ends, and every tick and idle tick begins with a drain, so
\* other settles cannot put it off for ever.  poll_fills empties the queue before it returns, so
\* callbacks that for ever arrive faster than they are drained are excluded
\* (the strong fairness of PollDone).
Fairness == WF_vars(Settle) /\ SF_vars(PollDone) /\ SF_vars(DrainAsyncFills)
FairSpec == Spec /\ Fairness

\* An order that is over at the gateway is eventually over in the kernel with
\* its shares booked, unless the session is shut down first.
EventuallySettled ==
    \A o \in Orders :
        gw[o] = "closed" ~> (o \notin active /\ booked[o] = executed[o]) \/ phase = "stopped"

(***************************************************************************)
(* The inductive invariant behind NeverOverbooks.  An ack in flight covers *)
(* the shares from cum - qty to cum of its order; the acks of one order    *)
(* cover disjoint, increasing ranges above what is booked.                 *)
(***************************************************************************)
IsFill(a) == a.status \in FillStatuses

\* a comes before b in the pipeline: b's shares lie above a's.
Precedes(a, b) == IsFill(a) /\ IsFill(b) /\ a.order = b.order => a.cum + b.qty <= b.cum

FillAckOK(a) ==
    IsFill(a) =>
        /\ a.order \in submitted
        /\ a.cum <= executed[a.order]
        /\ booked[a.order] + a.qty <= a.cum
        /\ a.order \in meta => a.cum <= lastCum[a.order]

Increasing(s) == \A i, j \in 1 .. Len(s) : i < j => Precedes(s[i], s[j])

EachOK(s) == \A i \in 1 .. Len(s) : FillAckOK(s[i])

AllBefore(s, t) == \A i \in 1 .. Len(s), j \in 1 .. Len(t) : Precedes(s[i], t[j])

CountersOK ==
    \A o \in Orders :
        /\ executed[o] <= Qty[o]
        /\ booked[o] <= executed[o]
        /\ lastCum[o] <= executed[o]
        /\ o \in meta => o \in submitted /\ booked[o] <= lastCum[o]
        /\ o \notin meta => lastCum[o] = 0
        /\ o \notin submitted => booked[o] = 0

EventsOK == \A i \in 1 .. Len(fillQ) : fillQ[i].cum <= executed[fillQ[i].order]

PhaseOK ==
    /\ phase \notin {"poll", "route"} => inbox = <<>>
    /\ phase \notin {"route", "apply", "book"} => batch = <<>>
    /\ phase # "apply" => done = 0
    /\ \A i \in 1 .. Len(pendingAcks) : ~IsFill(pendingAcks[i])
    /\ \A i \in 1 .. Len(batch) : batch[i].order \in expected
    /\ phase \in {"poll", "route", "apply", "book"} =>
          \A i \in 1 .. Len(deferred) : deferred[i].order \notin expected

\* Every state satisfies it and every step keeps it.
IInv ==
    /\ TypeOK /\ PhaseOK /\ CountersOK /\ EventsOK
    /\ EachOK(inbox) /\ EachOK(batch) /\ EachOK(deferred)
    /\ Increasing(inbox) /\ Increasing(batch) /\ Increasing(deferred)
    /\ AllBefore(batch, inbox) /\ AllBefore(deferred, inbox)

\* Kernel, router and gateway track the same orders: what works at the gateway
\* or is known to the router is tracked by the kernel, and what the router has
\* finished with the kernel finishes (_track_order, _prune_terminal_orders,
\* IBRouter._fill_to_ack).
TrackersAgree == RouterOrdersTracked /\ KernelFollowsRouter /\ WorkingOrderTracked
=============================================================================
