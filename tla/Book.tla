-------------------------------- MODULE Book --------------------------------
(***************************************************************************)
(* One symbol's book under everyone who may trade it: standalone signals   *)
(* of several strategies, a portfolio, and the controllers that force an   *)
(* exit (stop, regime hazard and hard age, safety composer, deferral cap,  *)
(* the flatten on a degraded feed, the emergency flatten).  A simulated    *)
(* session: the kernel is synchronous, a router call returns before the    *)
(* next line runs, and an event is handled to its end before the next.     *)
(*                                                                         *)
(* `todo` holds the handlers the event in flight still has to run, in the  *)
(* order the kernel runs them.  On a quote the router and the stop         *)
(* controller see the quote BEFORE the fills it caused are booked, so one  *)
(* event is several steps.  `book` is what the kernel and the router hold, *)
(* `guards` what the controllers remember between events.                  *)
(***************************************************************************)
EXTENDS RiskChecks, Positions

CONSTANTS
    SortedIds,          \* every id a slice may have, in the order they sort
    Signallers,         \* strategies whose standalone signals act on the book
    Decoupled,          \* strategies whose exit is deferred past gate OFF
    Hazarded,           \* strategies with a regime-hazard policy
    Portfolio,          \* the id a portfolio's legs are attributed to
    Targets,            \* sizes the position sizer returns
    Envs,               \* states of the session besides the books
    Desks,              \* sets of handlers at work in one session
    MinShares,          \* smallest entry
    MinAge, HardAge,    \* youngest spike exit, oldest position
    MaxHold,            \* longest stay after the first safe OFF
    CloseAt,            \* when the session's flatten window opens
    MaxNow,             \* bound: events of a session
    MaxRejects          \* bound: orders the router refuses

Ids == Range(SortedIds)

\* Every order the kernel makes is booked under an id of the list; the empty
\* strategy of a symbol-net exit is none of them.
ASSUME BookAssumption ==
    /\ SortedIds \in Seq(Ids) /\ "" \notin Ids
    /\ \A i, j \in DOMAIN SortedIds : SortedIds[i] = SortedIds[j] => i = j
    /\ Signallers \cup Decoupled \cup Hazarded \subseteq Ids
    /\ {Portfolio, "__working_exit_fallback__", "degrade_flatten", "emergency_flatten"}
          \subseteq Ids
    /\ Targets \subseteq Nat /\ MaxNow \in Nat
    /\ \A e \in Envs : e.equity \in Int

VARIABLES book, guards, todo, now, env, desk

vars == <<book, guards, todo, now, env, desk>>

None == [opened |-> Never, qty |-> 0]

RiskForced == {"HAZARD_SPIKE", "HARD_EXIT_AGE", "SAFETY_FAIL_CLOSED", "DECOUPLING_REVOKED",
               "MAX_HOLD_AFTER_SAFE_OFF", "SESSION_FLATTEN", "STOP_EXIT", "SESSION_FLAT"}
SelfAttributed == {"SAFETY_FAIL_CLOSED", "DECOUPLING_REVOKED",
                   "MAX_HOLD_AFTER_SAFE_OFF", "SESSION_FLATTEN"}
SliceScoped == SelfAttributed \cup {"HARD_EXIT_AGE"}

(***************************************************************************)
(* The order path.  An order is [signed, strategy, reason]; `active` maps  *)
(* the ids the kernel tracks to orders, `resting` is what rests at the     *)
(* router, oldest first, with what is left of it, `acks` is what the next  *)
(* poll returns, `fallback` the working exits with what they filled.       *)
(* Three fields record what happened and no handler reads them:            *)
(* `overshot`, the reasons of the exits that took what they close past     *)
(* zero; `off`, the time safety first went OFF under a slice that has      *)
(* stayed open since; and `flipped`, the slices that changed side since    *)
(* and that no trade has seen yet.  The cap takes such a slice for a new   *)
(* episode on the next OFF.                                                *)
(***************************************************************************)
Order(signed, strategy, reason) ==
    [signed |-> signed, strategy |-> strategy, reason |-> reason]

Ack(id, status, quantity) == [id |-> id, status |-> status, quantity |-> quantity]

EmptyMap == [x \in {} |-> x]

OrderOwnsOneSlice(o) ==
    o.strategy # "" /\ (o.reason \in SelfAttributed \/ o.reason \notin RiskForced)

SliceQty(b, s) == IF s \in Ids THEN b.slices[s].qty ELSE 0

\* An id that no order, working exit or pending answer carries.
FreshId(b) ==
    LET taken == DOMAIN b.active \cup DOMAIN b.fallback \cup {b.acks[i].id : i \in DOMAIN b.acks}
    IN  CHOOSE n \in 1 .. (Cardinality(taken) + 1) :
            n \notin taken /\ \A m \in 1 .. (n - 1) : m \in taken

With(f, id, value) == [x \in DOMAIN f \cup {id} |-> IF x = id THEN value ELSE f[x]]

TrackOrder(b, id, o) == [b EXCEPT !.active = With(@, id, o)]

\* A market order fills whole while it is submitted, or the router refuses it.
SubmitMarket(b, o, filled) ==
    LET id == FreshId(b)
        t == TrackOrder(b, id, o)
    IN  IF filled THEN [t EXCEPT !.acks = Append(@, Ack(id, "FILLED", Abs(o.signed)))]
        ELSE [t EXCEPT !.acks = Append(@, Ack(id, "REJECTED", 0)), !.rejects = @ + 1]

SubmitPassive(b, o) ==
    LET id == FreshId(b)
    IN  [TrackOrder(b, id, o) EXCEPT !.resting = Append(@, [id |-> id, left |-> Abs(o.signed)])]

Crosses(position, signed) == position * (position + signed) < 0

\* An exit closes its slice, the symbol's position, or for the hard age
\* either of the two.
Overshoots(b, o, signed) ==
    /\ o.reason \notin {"ENTRY", "PORTFOLIO"}
    /\ o.reason \in SliceScoped => Crosses(SliceQty(b, o.strategy), signed)
    /\ o.reason \notin SelfAttributed => Crosses(b.net.qty, signed)

ChargedSlices(b, o, signed) ==
    IF OrderOwnsOneSlice(o)
    THEN [b.slices EXCEPT ![o.strategy] = UpdatePosition(@, signed, now)]
    ELSE DistributeFill(b.slices, SortedIds, signed, now)

EnterFill(b, ack, o, signed, slices) ==
    [b EXCEPT
        !.net = UpdatePosition(b.net, signed, now),
        !.slices = slices,
        !.off = [s \in Decoupled |-> IF slices[s].qty = 0 THEN Never ELSE b.off[s]],
        !.flipped = {s \in Decoupled :
                        /\ b.off[s] # Never /\ slices[s].qty # 0
                        /\ s \in b.flipped \/ b.slices[s].qty * slices[s].qty < 0},
        !.overshot = b.overshot \cup IF Overshoots(b, o, signed) THEN {o.reason} ELSE {},
        !.fallback = IF ack.id \in DOMAIN b.fallback
                     THEN With(b.fallback, ack.id, b.fallback[ack.id] + ack.quantity)
                     ELSE b.fallback,
        !.filledBy = b.filledBy \cup ({o.strategy} \cap Signallers)]

\* One fill entered in the symbol's position and in the slices.
ReconcileFill(b, ack) ==
    LET o == b.active[ack.id]
        signed == Sign(o.signed) * ack.quantity
    IN  EnterFill(b, ack, o, signed, ChargedSlices(b, o, signed))

Terminal == {"FILLED", "CANCELLED", "REJECTED"}

\* Poll the router, book the answers to `ids`, prune the orders that ended.
SettleAck(ids, x, ack) ==
    IF ack.id \notin ids THEN [x EXCEPT !.acks = Append(@, ack)]
    ELSE IF ack.status \in {"FILLED", "PARTIALLY_FILLED"} THEN ReconcileFill(x, ack)
    ELSE x

SettleAcks(b, ids) ==
    LET done == {a.id : a \in {m \in Range(b.acks) : m.id \in ids /\ m.status \in Terminal}}
        booked == FoldLeft(LAMBDA x, a : SettleAck(ids, x, a), [b EXCEPT !.acks = <<>>], b.acks)
    IN  [booked EXCEPT !.active = Restrict(@, DOMAIN @ \ done)]

\* A working exit whose order is gone is never looked at again.
Forget(b) == [b EXCEPT !.fallback = Restrict(@, DOMAIN @ \cap DOMAIN b.active)]

CancelResting(b) ==
    LET gone == [b EXCEPT !.resting = <<>>,
                          !.acks = @ \o [i \in DOMAIN b.resting |->
                                            Ack(b.resting[i].id, "CANCELLED", 0)]]
    IN  Forget(SettleAcks(gone, DOMAIN b.active))

SubmitAndSettle(b, o, filled) ==
    Forget(SettleAcks(SubmitMarket(b, o, filled), {FreshId(b)}))

(***************************************************************************)
(* Forced exits: what every controller's requirement goes through.         *)
(***************************************************************************)
Closable(position, signed) ==
    IF signed < 0 THEN Larger(position, 0) ELSE Larger(-position, 0)

\* The forced exit as the controller sized it, whatever the cancel booked.
ForcedExitUnclamped(b, o) == Abs(o.signed)

ForcedExitClosable(b, o) ==
    LET net == Closable(b.net.qty, o.signed)
        slice == Closable(SliceQty(b, o.strategy), o.signed)
    IN  Smaller(Abs(o.signed), IF o.reason \in SliceScoped THEN Larger(net, slice) ELSE net)

PendingForcedExit(b) == \E id \in DOMAIN b.active : b.active[id].reason \in RiskForced

ForcedExitVerdict(b, o) ==
    CheckOrder(o.strategy, o.signed, SliceQty(b, o.strategy), b.net.qty, env, 0).action

CancelledFirst(b) == IF DOMAIN b.active # {} THEN CancelResting(b) ELSE b

\* The exit, clamped to what the cancel has left to close.
SubmitForcedExit(b, o, filled) ==
    LET q == ForcedExitClosable(b, o)
    IN  IF q = 0 THEN b ELSE SubmitAndSettle(b, [o EXCEPT !.signed = Sign(@) * q], filled)

\* Risk may refuse a forced exit as it may an entry.
OnDeRiskRequirementVetoed(b, o, filled) ==
    IF PendingForcedExit(b) \/ ForcedExitVerdict(b, o) \in {"REJECT", "FORCE_FLATTEN"} THEN b
    ELSE SubmitForcedExit(CancelledFirst(b), o, filled)

OnDeRiskRequirement(b, o, filled) ==
    IF \/ PendingForcedExit(b)
       \/ ForcedExitVerdict(b, o) = "REJECT" /\ ForcedExitClosable(b, o) = 0
    THEN b
    ELSE SubmitForcedExit(CancelledFirst(b), o, filled)

Episode(p) == [opened |-> p.opened, qty |-> p.qty]

(***************************************************************************)
(* The controllers.  Each remembers the episode, (opened, quantity), it    *)
(* has asked an exit for and stays silent while the book still shows it.   *)
(***************************************************************************)
\* Stop and session flat: symbol net, on every quote.
StopExit(b, g, triggered, reason, filled) ==
    IF b.net.qty = 0 THEN <<b, [g EXCEPT !.stop = None]>>
    ELSE IF ~triggered \/ g.stop = Episode(b.net) THEN <<b, g>>
    ELSE <<OnDeRiskRequirement(b, Order(-b.net.qty, "", reason), filled),
           [g EXCEPT !.stop = Episode(b.net)]>>

ClearEpisodeIfFlat(b, g, s, reason) ==
    IF b.net.qty # 0 THEN g
    ELSE [g EXCEPT !.emitted = @ \ {<<s, reason>>}, !.hazard = None]

\* Hazard: symbol net, per policy.  The requirement's id does not name the
\* strategy, so a second policy's on the same event is taken for a repeat.
HazardExit(b, g, s, reason, repeat, filled) ==
    LET h == ClearEpisodeIfFlat(b, g, s, reason)
        young == reason = "HAZARD_SPIKE" /\ now - b.net.opened < MinAge
        asked == [h EXCEPT !.emitted = @ \cup {<<s, reason>>}, !.hazard = Episode(b.net)]
    IN  IF b.net.qty = 0 \/ <<s, reason>> \in h.emitted \/ h.hazard = Episode(b.net)
        THEN <<b, h>>
        ELSE IF young THEN <<b, [h EXCEPT !.hazard = None]>>
        ELSE IF repeat THEN <<b, asked>>
        ELSE <<OnDeRiskRequirement(b, Order(-b.net.qty, s, reason), filled), asked>>

\* The policies in the order their ids sort, on one spike or one trade.
HazardDue(b, s, reason) ==
    /\ s \in Hazarded
    /\ reason = "HARD_EXIT_AGE" => b.net.opened # Never /\ now - b.net.opened >= HardAge

HazardOf(event, acc, s) ==
    LET Then(r) == <<r[1], r[2], acc[3] \/ r[2].emitted \ acc[2].emitted # {}>>
    IN  IF ~HazardDue(acc[1], s, event.reason) THEN acc
        ELSE Then(HazardExit(acc[1], acc[2], s, event.reason, acc[3], event.filled))

HazardExits(b, g, reason, filled) ==
    LET event == [reason |-> reason, filled |-> filled]
    IN  FoldLeft(LAMBDA acc, s : HazardOf(event, acc, s), <<b, g, FALSE>>, SortedIds)

\* Composer: the slice of a decoupled strategy whose safety gate failed.
EmitFlattenOrder(b, g, s, reason, filled) ==
    LET p == b.slices[s]
    IN  IF g.composer[s] = Episode(p) THEN <<b, g>>
        ELSE <<OnDeRiskRequirement(b, Order(-p.qty, s, reason), filled),
               [g EXCEPT !.composer[s] = Episode(p)]>>

\* The exit table: a cap, a gate that failed, or the story behind the position
\* ends it; a safety gate merely off does not, unless the story is expected to
\* speak and has not.
ComposeExit(flat, safe, story, capsHit, storyConfigured, failClosed) ==
    /\ ~flat
    /\ \/ capsHit
       \/ ~safe /\ failClosed
       \/ story = "off"
       \/ ~safe /\ story = "unknown" /\ storyConfigured

\* No story is configured yet, and caps are left to the controllers of their own.
ComposerOnSafety(b, g, s, safety, filled) ==
    IF safety = "on" THEN <<b, g>>
    ELSE IF b.slices[s].qty = 0 THEN <<b, [g EXCEPT !.composer[s] = None]>>
    ELSE IF ComposeExit(b.slices[s].qty = 0, FALSE, "unknown", FALSE, FALSE, safety = "failed")
    THEN EmitFlattenOrder(b, g, s, "SAFETY_FAIL_CLOSED", filled)
    ELSE <<b, g>>

\* Deferral cap: the anchor is the first safe OFF of the slice's episode.
CapOnSafety(b, g, s, safety) ==
    LET opened == b.slices[s].opened
    IN  IF safety = "on" \/ s \in g.revoked THEN g
        ELSE IF opened = Never THEN [g EXCEPT !.anchor[s] = <<>>]
        ELSE IF g.anchor[s] # <<>> /\ g.anchor[s][1] = opened THEN g
        ELSE [g EXCEPT !.anchor[s] = <<opened, now>>]

\* Earliest of the three bounds; at a tie the hard age names the exit, then
\* the longest hold.
EpisodeDeadline(opened, first) ==
    LET age == opened + HardAge
        hold == first + MaxHold
    IN  IF age <= Smaller(hold, CloseAt) THEN <<age, "HARD_EXIT_AGE">>
        ELSE IF hold <= CloseAt THEN <<hold, "MAX_HOLD_AFTER_SAFE_OFF">>
        ELSE <<CloseAt, "SESSION_FLATTEN">>

CapOnTrade(b, g, s, filled) ==
    LET p == b.slices[s]
        carried == IF g.anchor[s] = <<>> THEN g
                   ELSE [g EXCEPT !.anchor[s] = <<p.opened, g.anchor[s][2]>>]
        free == [carried EXCEPT !.cap[s] = None]
        deadline == EpisodeDeadline(p.opened, g.anchor[s][2])
    IN  IF p.qty = 0 THEN <<b, [g EXCEPT !.anchor[s] = <<>>, !.cap[s] = None]>>
        ELSE IF g.cap[s] = Episode(p) THEN <<b, carried>>
        ELSE IF g.anchor[s] = <<>> \/ now < deadline[1] THEN <<b, free>>
        ELSE <<OnDeRiskRequirement(b, Order(-p.qty, s, deadline[2]), filled),
               [free EXCEPT !.cap[s] = Episode(p)]>>

CapOf(filled, acc, s) ==
    IF s \in Decoupled \ acc[2].revoked THEN CapOnTrade(acc[1], acc[2], s, filled) ELSE acc

CapsOnTrade(b, g, filled) ==
    FoldLeft(LAMBDA acc, s : CapOf(filled, acc, s), <<b, g>>, SortedIds)

(***************************************************************************)
(* What the kernel itself submits.                                         *)
(***************************************************************************)
\* Working exits the router ended short of their size go to market for the
\* rest; nobody polls for the answer before the next settlement.
Escalate(polled, x, ack) ==
    LET o == polled.active[ack.id]
        residual == Abs(o.signed) - x.fallback[ack.id]
    IN  IF ack.status = "CANCELLED" /\ ack.id \in DOMAIN x.fallback /\ residual > 0
        THEN SubmitMarket(x, Order(Sign(o.signed) * residual,
                "__working_exit_fallback__", "WORKING_EXIT_FALLBACK"), polled.filled)
        ELSE x

EscalateUnfilledWorkingExits(b, acks, filled) ==
    LET polled == [active |-> b.active, filled |-> filled]
        settled == SettleAcks(b, DOMAIN b.active)
    IN  Forget(FoldLeft(LAMBDA x, a : Escalate(polled, x, a), settled, acks))

DrainAsyncFills(b, filled) == EscalateUnfilledWorkingExits(b, b.acks, filled)

\* The flatten on a degraded feed and the emergency flatten leave resting
\* orders at the router.
FlattenNet(b, strategy, reason, filled) ==
    IF b.net.qty = 0 THEN b
    ELSE SubmitAndSettle(b, Order(-b.net.qty, strategy, reason), filled)

EntryOrder(b, o, rests, filled) ==
    IF rests THEN SubmitPassive(b, o) ELSE SubmitMarket(b, o, filled)

(***************************************************************************)
(* A portfolio's target: a leg against the symbol's position, refused by   *)
(* admission or by any order still pending.  A verdict that flattens ends  *)
(* the session once the position is closed.                                *)
(***************************************************************************)
PendingConflict(b) == DOMAIN b.active # {}

PortfolioLegEdgeBlock(b, q) == OpensOrIncreases(b.net.qty, q) /\ ~env.edge

PortfolioAdmits(b, q) ==
    /\ ~AdmissionBlocks(b.net.qty, q, env)
    /\ ~BlocksForMinSize(Abs(q), MinShares, ~OpensOrIncreases(b.net.qty, q))
    /\ ~PortfolioLegEdgeBlock(b, q)

PortfolioLeg(b, target, filled) ==
    LET leg == [target |-> target, net |-> b.net.qty, slice |-> SliceQty(b, Portfolio)]
        sized == BuildSizedIntentOrders(Portfolio, <<leg>>, env)
        q == sized.sizes[1]
    IN  IF sized.void
        THEN <<FlattenNet(b, "emergency_flatten", "FORCE_FLATTEN", filled), TRUE>>
        ELSE IF q = 0 \/ ~PortfolioAdmits(b, q) \/ PendingConflict(b) THEN <<b, FALSE>>
        ELSE <<SubmitAndSettle(b, Order(q, Portfolio, "PORTFOLIO"), filled), FALSE>>

(***************************************************************************)
(* A standalone signal.                                                    *)
(***************************************************************************)
EntrySize(raw, size, factor, ev) ==
    IF size < MinShares \/ ~env.edge \/ ev.action \in {"REJECT", "FORCE_FLATTEN"} THEN 0
    ELSE IF ev.action = "ALLOW" THEN size
    ELSE LET scaled == ComposeScaledQuantity(raw, factor, ev.factor)
         IN  IF scaled < MinShares THEN 0 ELSE scaled

ReverseEntry(b, s, i, v) ==
    LET raw == i.target - Abs(i.current)
        size == RoundHalfEven(raw * v.factor)
    IN  EntrySize(raw, size, v.factor,
                  CheckOrder(s, Sign(-i.current) * size, SliceQty(b, s),
                             b.net.qty - i.current, env, 0))

ReverseLegs(c, s, exit, entry, rests, filled) ==
    LET out == SubmitMarket(c, Order(exit, s, "REVERSE_EXIT"), filled)
    IN  IF entry = 0 THEN out
        ELSE EntryOrder(out, Order(Sign(exit) * entry, s, "ENTRY"), rests, filled)

SettleNew(b, known) == Forget(SettleAcks(b, DOMAIN b.active \ known))

\* A reversal: cancel what rests, close what the INTENT saw at market, enter
\* the other side if the gates allow it on the position after the close.
ExecuteReverse(b, s, i, v, rests, filled) ==
    LET From(c) ==
            SettleNew(ReverseLegs(c, s, -i.current, ReverseEntry(c, s, i, v), rests, filled),
                      DOMAIN c.active)
    IN  From(CancelResting(b))

\* An exit only to be refused by a pending exit, anything else by any order.
RestingOrderGuard(b, isExit) ==
    \E id \in DOMAIN b.active :
        isExit => b.net.qty # 0 /\ Sign(b.active[id].signed) = -Sign(b.net.qty)

\* The size an intent is built with: nothing below the smallest order or, for
\* an entry, without an edge that pays for it.
TryBuildOrder(i, v) ==
    LET isExit == i.intent = "EXIT"
        built == IF isExit THEN i.target ELSE RoundHalfEven(i.target * v.factor)
    IN  IF BlocksForMinSize(built, MinShares, isExit) \/ (~isExit /\ ~env.edge) THEN 0
        ELSE built

BuildAndSubmit(b, s, i, v, trim, rests, filled) ==
    LET isExit == i.intent = "EXIT"
        built == TryBuildOrder(i, v)
        side == Sign(IntentDelta(i))
        ov == CheckOrder(s, side * built, SliceQty(b, s), b.net.qty, env, 0)
        size == IF isExit \/ ov.action # "SCALE_DOWN" THEN built
                ELSE ComposeScaledQuantity(i.target, v.factor, ov.factor)
        o == Order(side * size, s, IF isExit THEN "EXIT" ELSE "ENTRY")
        \* A trim rests for its style, an entry as the mode says, an exit never.
        t == EntryOrder(b, o, rests /\ (trim \/ ~isExit), filled)
        id == FreshId(b)
    IN  IF built <= 0 THEN b
        ELSE IF ~isExit /\ ov.action \in {"REJECT", "FORCE_FLATTEN"} THEN b
        ELSE IF size <= 0 \/ RestingOrderGuard(b, isExit) THEN b
        ELSE IF trim /\ rests THEN [t EXCEPT !.fallback = With(@, id, 0)]
        ELSE Forget(SettleAcks(t, {id}))

SubmitIntent(b, s, i, sv, trim, rests, filled) ==
    LET v == IF i.intent = "EXIT" THEN Allow ELSE sv
    IN  IF \/ v.action \in {"REJECT", "FORCE_FLATTEN"}
           \/ AdmissionBlocks(b.net.qty, IntentDelta(i), env)
        THEN b
        ELSE IF i.intent \in {"REVERSE_LONG_TO_SHORT", "REVERSE_SHORT_TO_LONG"}
        THEN ExecuteReverse(b, s, i, v, rests, filled)
        ELSE BuildAndSubmit(b, s, i, v, trim, rests, filled)

FollowPlan(b, s, dir, plan, rests, filled) ==
    IF plan = <<>> THEN b
    ELSE SubmitIntent(b, s, IntentFromPlan(plan, dir, b.net.qty),
                      CheckSignal(s, dir, SliceQty(b, s), b.net.qty, env),
                      plan[1].leg = "TRIM", rests, filled)

OnSignal(b, s, dir, tgt, gateOff, rests, filled) ==
    LET net == b.net.qty
    IN  IF ~Actionable(dir, gateOff, SliceQty(b, s), net, s \in b.filledBy) THEN b
        ELSE FollowPlan(b, s, dir, PlanForSignal(dir, net, tgt, env.churn, TRUE), rests, filled)

(***************************************************************************)
(* The session.                                                            *)
(***************************************************************************)
QuoteHandlers == <<"stop", "drain", "spike", "safety", "portfolio", "signal">>
TradeHandlers == <<"age", "cap", "safety">>

Init ==
    /\ book = [net |-> Flat, slices |-> [s \in Ids |-> Flat], filledBy |-> {},
               active |-> EmptyMap, resting |-> <<>>, acks |-> <<>>,
               fallback |-> EmptyMap, rejects |-> 0, overshot |-> {}, flipped |-> {},
               off |-> [s \in Decoupled |-> Never]]
    /\ guards = [stop |-> None, hazard |-> None, emitted |-> {}, revoked |-> {},
                 composer |-> [s \in Decoupled |-> None], cap |-> [s \in Decoupled |-> None],
                 anchor |-> [s \in Decoupled |-> <<>>]]
    /\ todo = <<>> /\ now = 0
    /\ env \in Envs /\ desk \in Desks

\* What the router answers for an order at rest, on the quote that decides it.
Fates == {"stays", "fills", "partly", "expires"}

Answer(fate, x, r) ==
    IF fate = "fills" THEN [x EXCEPT !.acks = Append(@, Ack(r.id, "FILLED", r.left))]
    ELSE IF fate = "expires" THEN [x EXCEPT !.acks = Append(@, Ack(r.id, "CANCELLED", 0))]
    ELSE IF r.left = 1 THEN [x EXCEPT !.resting = Append(@, r)]
    ELSE [x EXCEPT !.acks = Append(@, Ack(r.id, "PARTIALLY_FILLED", 1)),
                   !.resting = Append(@, [r EXCEPT !.left = @ - 1])]

RouterOnQuote(b, fate) ==
    IF fate = "stays" THEN b
    ELSE FoldLeft(LAMBDA x, r : Answer(fate, x, r), [b EXCEPT !.resting = <<>>], b.resting)

Arrives(handlers) ==
    /\ todo = <<>> /\ now < MaxNow
    /\ now' = now + 1
    /\ todo' = SelectSeq(handlers, LAMBDA h : h = "drain" \/ h \in desk)
    /\ UNCHANGED desk

Quote(e, fate) ==
    /\ Arrives(QuoteHandlers)
    /\ fate # "stays" => book.resting # <<>>
    /\ env' = e
    /\ book' = RouterOnQuote(book, fate)
    /\ UNCHANGED guards

Trade ==
    /\ Arrives(TradeHandlers)
    /\ UNCHANGED <<book, guards, env>>

Handles(handler) ==
    /\ todo # <<>> /\ Head(todo) = handler
    /\ todo' = Tail(todo)
    /\ UNCHANGED <<now, env, desk>>

Becomes(result) == book' = result[1] /\ guards' = result[2]

\* The router refuses at most MaxRejects orders of a session.
Answers == {TRUE} \cup {FALSE : x \in {y \in {1} : book.rejects < MaxRejects}}

\* A session flatten goes the same way under its own reason.
StopHandler(triggered, filled) ==
    /\ Handles("stop")
    /\ Becomes(StopExit(book, guards, triggered, "STOP_EXIT", filled))

DrainHandler(filled) ==
    /\ Handles("drain")
    /\ book' = DrainAsyncFills(book, filled)
    /\ UNCHANGED guards

SpikeHandler(spiked, filled) ==
    /\ Handles("spike")
    /\ Becomes(IF spiked THEN HazardExits(book, guards, "HAZARD_SPIKE", filled)
               ELSE <<book, guards>>)

AgeHandler(filled) ==
    /\ Handles("age")
    /\ Becomes(HazardExits(book, guards, "HARD_EXIT_AGE", filled))

CapHandler(filled) ==
    /\ Handles("cap")
    /\ Becomes(CapsOnTrade([book EXCEPT !.flipped = {}], guards, filled))

\* The composer hears of a change of safety before the cap does.
SafetyHandler(s, safety, filled) ==
    LET First(b) == /\ safety # "on" /\ b.slices[s].qty # 0
                    /\ b.off[s] = Never \/ s \in b.flipped
        Capped(b, g) ==
            <<IF First(b) THEN [b EXCEPT !.off[s] = now, !.flipped = @ \ {s}] ELSE b,
              CapOnSafety(b, g, s, safety)>>
        Heard(r) == Capped(r[1], r[2])
    IN  /\ Handles("safety")
        /\ Becomes(Heard(ComposerOnSafety(book, guards, s, safety, filled)))

PortfolioHandler(target, filled) ==
    /\ todo # <<>> /\ Head(todo) = "portfolio"
    /\ LET Ends(r) == /\ book' = r[1]
                      /\ todo' = IF r[2] THEN <<>> ELSE Tail(todo)
                      /\ now' = IF r[2] THEN MaxNow ELSE now
       IN  Ends(PortfolioLeg(book, target, filled))
    /\ UNCHANGED <<guards, env, desk>>

SignalHandler(s, dir, tgt, gateOff, rests, filled) ==
    /\ Handles("signal") /\ s \in desk
    /\ book' = OnSignal(book, s, dir, tgt, gateOff, rests, filled)
    /\ UNCHANGED guards

\* Nothing published for a handler to act on.
Quiet ==
    /\ todo # <<>> /\ Head(todo) \in {"safety", "portfolio", "signal"}
    /\ todo' = Tail(todo)
    /\ UNCHANGED <<book, guards, now, env, desk>>

\* A strategy loses its live licence: its open slice is flattened and the
\* cap forgets it.
RevokeAndFlatten(s, filled) ==
    /\ "revoke" \in desk /\ todo = <<>> /\ s \notin guards.revoked
    /\ LET Forgets(r) == <<r[1], [r[2] EXCEPT !.revoked = @ \cup {s}, !.cap[s] = None,
                                              !.anchor[s] = <<>>]>>
       IN  Becomes(Forgets(IF book.slices[s].qty = 0 THEN <<book, guards>>
                           ELSE EmitFlattenOrder(book, guards, s, "DECOUPLING_REVOKED", filled)))
    /\ UNCHANGED <<todo, now, env, desk>>

\* The feed of the symbol degrades: the position is closed, the session may
\* be resumed later.
ForceFlattenOnDegrade(filled) ==
    /\ "degrade" \in desk /\ todo = <<>> /\ book.net.qty # 0
    /\ book' = FlattenNet(book, "degrade_flatten", "DATA_HEALTH", filled)
    /\ UNCHANGED <<guards, todo, now, env, desk>>

Done == todo = <<>> /\ now = MaxNow /\ UNCHANGED vars

Next ==
    \/ \E e \in Envs, fate \in Fates : Quote(e, fate)
    \/ Trade
    \/ \E triggered \in BOOLEAN, filled \in Answers : StopHandler(triggered, filled)
    \/ \E filled \in Answers : DrainHandler(filled) \/ AgeHandler(filled) \/ CapHandler(filled)
    \/ \E spiked \in BOOLEAN, filled \in Answers : SpikeHandler(spiked, filled)
    \/ \E s \in Decoupled, safety \in {"on", "off", "failed"}, filled \in Answers :
           SafetyHandler(s, safety, filled)
    \/ \E target \in Targets, dir \in {-1, 1}, filled \in Answers :
           PortfolioHandler(dir * target, filled)
    \/ \E s \in Signallers, dir \in Directions, tgt \in Targets, gateOff \in BOOLEAN,
          rests \in BOOLEAN, filled \in Answers : SignalHandler(s, dir, tgt, gateOff, rests, filled)
    \/ Quiet
    \/ \E s \in Decoupled, filled \in Answers : RevokeAndFlatten(s, filled)
    \/ \E filled \in Answers : ForceFlattenOnDegrade(filled)
    \/ Done

Spec == Init /\ [][Next]_vars

-----------------------------------------------------------------------------
(***************************************************************************)
(* Properties                                                              *)
(***************************************************************************)
Holdings(b) == SumOf([i \in DOMAIN SortedIds |-> b.slices[SortedIds[i]].qty])

TypeOK ==
    /\ book.net.qty \in Int /\ book.net.opened \in Never .. MaxNow
    /\ \A s \in Ids : book.slices[s].qty \in Int /\ book.slices[s].opened \in Never .. MaxNow
    /\ {r.id : r \in Range(book.resting)} \cup DOMAIN book.fallback \subseteq DOMAIN book.active
    /\ now \in 0 .. MaxNow /\ env \in Envs /\ desk \in Desks

\* The two position stores never drift apart: what the strategies hold adds
\* up to what the symbol holds, whoever traded and however a fill was split.
BooksAgree == book.net.qty = Holdings(book)

\* No exit but a reversal's opens the other side: not a stop racing a fill the
\* router has already made, not the market order behind a working exit, not a
\* flatten, and not an exit of a slice inside a book that holds against it.
ExitsNeverOvershoot == book.overshot \subseteq {"REVERSE_EXIT"}

\* A handler runs.
Runs(handler) == todo # <<>> /\ Head(todo) = handler /\ todo' = Tail(todo)

Asked(s) == guards.cap[s] = Episode(book.slices[s])

\* Deferral is bounded: a slice held since safety went OFF longer than the
\* policy allows is asked for on the next trade.  When the reason names the
\* slice as its own the exit shrinks it, unless the router refuses; risk may
\* not veto it.
BoundedHold ==
    [][\A s \in Decoupled \ guards.revoked :
        LET p == book.slices[s]
            deadline == EpisodeDeadline(p.opened, book.off[s])
        IN  (Runs("cap") /\ p.qty # 0 /\ book.off[s] # Never /\ now >= deadline[1] /\ ~Asked(s))
            => \/ book'.rejects > book.rejects
               \/ Abs(book'.slices[s].qty) < Abs(p.qty)
               \/ deadline[2] = "HARD_EXIT_AGE" /\ book'.net.qty # book.net.qty]_vars
=============================================================================
