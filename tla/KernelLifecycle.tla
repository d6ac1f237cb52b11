-------------------------- MODULE KernelLifecycle --------------------------
(***************************************************************************)
(* The kernel's control skeleton (kernel/orchestrator.py): the session,    *)
(* the walk of one quote through the micro states, the PORTFOLIO flush,    *)
(* the trade and idle paths, risk escalation, tick-failure recovery and    *)
(* the operator's calls, with the thread that calls halt()                 *)
(* (scripts/run_paper.py) running beside them.                             *)
(*                                                                         *)
(* pc is what the main thread does next: one step per call that changes    *)
(* shared state, so that halt() can fall between any two of them.  Risk    *)
(* decisions and order routing are abstracted to one symbol: whether the   *)
(* book is in drawdown breach, whether a position is held, which kinds of  *)
(* order are live.  Signals, sizes and prices are nondeterministic.  Exits *)
(* that risk controllers publish on the bus are not modelled here.         *)
(***************************************************************************)
EXTENDS KernelStates, Naturals, FiniteSets

CONSTANTS
    Mode,        \* the trading mode this deployment runs
    Layers,      \* configured layers, a subset of AllLayers
    Situations,  \* which of AllSituations can occur
    EdgeGate,    \* the edge/cost gate is armed
    MaxIntents   \* bound: sized intents published by one quote

AllLayers == {"sensors", "signals", "portfolio"}

(***************************************************************************)
(* "fault"      a call of the main thread raises (a bus handler, the log,  *)
(*              the router)                                                *)
(* "callback"   a StateTransition handler raises while the recovery of a   *)
(*              tick or halt() moves the machines                          *)
(* "cost"       realized costs trip the kill switch while booking a fill   *)
(* "latency"    a latency budget breach trips it at the end of a tick      *)
(* "halt"       SIGINT or the max-runtime timer calls halt()               *)
(* "earlyHalt"  ... also between run_paper's test and the trading mode     *)
(***************************************************************************)
AllSituations == {"fault", "callback", "cost", "latency", "halt", "earlyHalt"}

ASSUME ModeAssumption == Mode \in TradingModes
ASSUME LayersAssumption == Layers \subseteq AllLayers
ASSUME KernelSituationsAssumption == Situations \subseteq AllSituations
ASSUME EdgeGateAssumption == EdgeGate \in BOOLEAN
ASSUME MaxIntentsAssumption == MaxIntents \in Nat

VARIABLES
    macro, micro, risk, \* the three state machines
    kill,     \* the kill switch is active
    abort,    \* _pipeline_abort_requested
    pc,       \* what the main thread does next
    after,    \* where the running settle returns to
    ret,      \* where the running escalation returns to
    inTick,   \* _quote_tick_in_flight
    intent,   \* the order kind the tick is working on
    pend,     \* length of _pending_sized_intents
    breach,   \* the risk engine sees a drawdown breach
    held,     \* the position store shows exposure
    live,     \* kinds of order working at the router
    acked,    \* results applied to orders and not yet booked
    halter,   \* the thread in halt()
    haltReq   \* _halt_requested

machines == <<macro, micro, risk>>
book     == <<breach, held, live, acked>>
halting  == <<halter, haltReq>>
vars     == <<machines, kill, abort, pc, after, ret, inTick, intent, pend, book, halting>>

\* Labels of a quote's walk, of a trade or idle event, and of the session.
TickLabels ==
    {"gate", "mark", "m2", "sensors", "horizonCheck", "horizon", "aggregate",
     "signalGate", "bookend", "flush", "flushNext", "sized", "legSubmit",
     "legSend", "legAck", "legDone", "m4", "signal", "check", "decide",
     "order", "reverseCheck", "submit", "send", "ack", "failAck", "failUpdate",
     "update", "fin", "metrics", "abortTick"}
SharedLabels ==
    {"apply", "book", "fallback", "raw", "rawNext", "escalate", "flatten",
     "locked", "lock", "lockdown"}
SessionLabels == {"cli", "enter", "loop", "fault", "sessionFault"}

OrderKinds == {"open", "exit"}
Outcomes   == {"openFill", "exitFill", "exitEnd"}

Init ==
    /\ macro = "INIT"
    /\ micro = "WAITING_FOR_MARKET_EVENT"
    /\ risk = "NORMAL"
    /\ kill = FALSE
    /\ abort = FALSE
    /\ pc = "cli"
    /\ after = "fallback"
    /\ ret = "abortTick"
    /\ inTick = FALSE
    /\ intent = "open"
    /\ pend = 0
    /\ breach = FALSE
    /\ held = FALSE
    /\ live = {}
    /\ acked = {}
    /\ halter = "idle"
    /\ haltReq = FALSE

(***************************************************************************)
(* Transitions and exceptions                                              *)
(***************************************************************************)
CanMove(t)    == t \in MicroTransitions[micro]
CanBe(m)      == m \in MacroTransitions[macro]
CanLockdown   == CanBe("RISK_LOCKDOWN")

\* Inside a quote _process_tick catches an exception; elsewhere it ends the session.
Raise == pc' = IF inTick THEN "fault" ELSE "sessionFault"

\* self._micro.transition(t), then on to label l.
Move(t, l) ==
    IF CanMove(t)
    THEN micro' = t /\ pc' = l
    ELSE Raise /\ UNCHANGED micro

(***************************************************************************)
(* Sessions and the event loop                                             *)
(***************************************************************************)
\* boot: the configuration may be refused, the data may fail verification.
Boot ==
    /\ pc = "cli"
    /\ macro = "INIT"
    /\ \/ macro' = "SHUTDOWN" /\ UNCHANGED pend
       \/ macro' = "READY" /\ pend' = 0
       \/ macro' = "DEGRADED" /\ UNCHANGED pend
    /\ UNCHANGED <<micro, risk, kill, abort, pc, after, ret, inTick, intent, book, halting>>

\* run_paper / run_backtest up to the macro transition.  The paper script
\* tests _halt_requested before it calls run_paper.
BeginSession ==
    /\ pc = "cli"
    /\ ~haltReq
    /\ macro = "READY"
    /\ ~kill
    /\ risk = "NORMAL"
    /\ abort' = FALSE
    /\ micro' = "WAITING_FOR_MARKET_EVENT"
    /\ pend' = 0
    /\ pc' = "enter"
    /\ UNCHANGED <<macro, risk, kill, after, ret, inTick, intent, book, halting>>

EnterMode ==
    /\ pc = "enter"
    /\ macro' = Mode
    /\ pc' = "loop"
    /\ UNCHANGED <<micro, risk, kill, abort, after, ret, inTick, intent, pend, book, halting>>

\* Mutant: the loop does not look at the macro state.
ContinuesAnyway == ~abort

\* _run_pipeline: the next event, unless the loop was told to stop.
Continues == ~abort /\ macro \in TradingModes

QuoteArrives ==
    /\ pc = "loop"
    /\ Continues
    /\ inTick' = TRUE
    /\ pc' = "gate"
    /\ UNCHANGED <<machines, kill, abort, after, ret, intent, pend, book, halting>>

\* A trade may close a horizon: the composition engine's intent is executed
\* at once because no quote is in flight.
TradeArrives ==
    /\ pc = "loop"
    /\ Continues
    /\ "portfolio" \in Layers
    /\ pc' = "raw"
    /\ UNCHANGED <<machines, kill, abort, after, ret, inTick, intent, pend, book, halting>>

\* _drain_async_fills
Drain == pc' = "apply" /\ after' = "fallback"

IdleTick ==
    /\ pc = "loop"
    /\ Continues
    /\ Drain
    /\ UNCHANGED <<machines, kill, abort, ret, inTick, intent, pend, book, halting>>

\* The feed ends, or the loop breaks: back to READY when still trading.  An
\* abort is raised as an exception and degrades the session instead.
EndSession ==
    /\ pc = "loop"
    /\ pc' = "cli"
    /\ macro' = IF macro # Mode THEN macro
                ELSE IF abort THEN "DEGRADED" ELSE "READY"
    /\ UNCHANGED <<micro, risk, kill, abort, after, ret, inTick, intent, pend, book, halting>>

\* An exception on the trade or idle path leaves the session.
SessionFault ==
    /\ pc = "sessionFault"
    /\ pc' = "cli"
    /\ macro' = IF macro = Mode THEN "DEGRADED" ELSE macro
    /\ acked' = {}
    /\ UNCHANGED <<micro, risk, kill, abort, after, ret, inTick, intent, pend,
                   breach, held, live, halting>>

(***************************************************************************)
(* The walk of one quote                                                   *)
(***************************************************************************)
\* The kill switch gate, the data health gate and the halted-symbol gate.
GateCloses ==
    /\ pc = "gate"
    /\ macro' = IF kill /\ macro \in TradingModes THEN "DEGRADED" ELSE macro
    /\ pc' = "loop"
    /\ inTick' = FALSE
    /\ UNCHANGED <<micro, risk, kill, abort, after, ret, intent, pend, book, halting>>

\* Mutant: the tick does not look at the kill switch.
GateOpensAnyway ==
    /\ pc = "gate"
    /\ Move("MARKET_EVENT_RECEIVED", "mark")
    /\ UNCHANGED <<macro, risk, kill, abort, after, ret, inTick, intent, pend, book, halting>>

GateOpens ==
    /\ pc = "gate"
    /\ ~kill
    /\ Move("MARKET_EVENT_RECEIVED", "mark")
    /\ UNCHANGED <<macro, risk, kill, abort, after, ret, inTick, intent, pend, book, halting>>

\* The quote marks the position, which may start or end a drawdown breach;
\* then the tick-start drain.
Mark ==
    /\ pc = "mark"
    /\ breach' \in IF held THEN BOOLEAN ELSE {breach}
    /\ Drain
    /\ UNCHANGED <<machines, kill, abort, ret, inTick, intent, pend, held, live, acked, halting>>

\* Every straight-line transition of the walk: at label, to state, then.
Step(at, to, next) == [at |-> at, to |-> to, next |-> next]
Steps ==
    {Step("m2",           "STATE_UPDATE",             "sensors"),
     Step("horizonCheck", "HORIZON_CHECK",            "horizon"),
     Step("aggregate",    "HORIZON_AGGREGATE",        "signalGate"),
     Step("m4",           "SIGNAL_EVALUATE",          "signal"),
     Step("legSubmit",    "ORDER_SUBMIT",             "legSend"),
     Step("legDone",      "LOG_AND_METRICS",          "flushNext"),
     Step("submit",       "ORDER_SUBMIT",             "send"),
     Step("failAck",      "ORDER_ACK",                "failUpdate"),
     Step("failUpdate",   "POSITION_UPDATE",          "fin"),
     Step("update",       "POSITION_UPDATE",          "book"),
     Step("fin",          "LOG_AND_METRICS",          "metrics")}

Walk ==
    \E s \in Steps :
        /\ pc = s.at
        /\ Move(s.to, s.next)
        /\ UNCHANGED <<macro, risk, kill, abort, after, ret, inTick, intent, pend, book, halting>>

\* A stage that is walked only when its layer is configured.
Optional(at, layer, to, next) ==
    /\ pc = at
    /\ IF layer \in Layers
       THEN Move(to, next)
       ELSE pc' = "bookend" /\ UNCHANGED micro
    /\ UNCHANGED <<macro, risk, kill, abort, after, ret, inTick, intent, pend, book, halting>>

\* _dispatch_sensor_layer: on a horizon boundary the bus runs the signal and
\* composition engines, which buffer sized intents.
Horizon ==
    /\ pc = "horizon"
    /\ \/ pc' = "bookend" /\ UNCHANGED pend
       \/ /\ pc' = "aggregate"
          /\ \E n \in 0 .. (IF "portfolio" \in Layers THEN MaxIntents ELSE 0) :
                 pend' = pend + n
    /\ UNCHANGED <<machines, kill, abort, after, ret, inTick, intent, book, halting>>

\* _maybe_transition_cross_sectional_bookend
Bookend ==
    /\ pc = "bookend"
    /\ micro' = IF "portfolio" \in Layers /\ CanMove("CROSS_SECTIONAL")
                THEN "CROSS_SECTIONAL" ELSE micro
    /\ pc' = "flush"
    /\ UNCHANGED <<macro, risk, kill, abort, after, ret, inTick, intent, pend, book, halting>>

(***************************************************************************)
(* The PORTFOLIO flush                                                     *)
(***************************************************************************)
\* Nothing (more) pends: on to FEATURE_COMPUTE.
FlushDone ==
    /\ pc \in {"flush", "flushNext"} \/ (pc = "rawNext" /\ inTick)
    /\ pend = 0
    /\ Move("FEATURE_COMPUTE", "m4")
    /\ UNCHANGED <<macro, risk, kill, abort, after, ret, inTick, intent, pend, book, halting>>

\* Mutant: the queue is popped without a look at its length.
NextIntentUnguarded ==
    /\ pc \in {"flush", "flushNext"}
    /\ pend' = pend - 1
    /\ IF pc = "flush" /\ ~CanMove("RISK_CHECK")
       THEN pc' = "raw" /\ UNCHANGED micro
       ELSE Move("RISK_CHECK", "sized")
    /\ UNCHANGED <<macro, risk, kill, abort, after, ret, inTick, intent, book, halting>>

\* Mutant: the intent is read and left on the queue.
NextIntentPeeks ==
    /\ pc \in {"flush", "flushNext"}
    /\ pend > 0
    /\ pend' = pend
    /\ IF pc = "flush" /\ ~CanMove("RISK_CHECK")
       THEN pc' = "raw" /\ UNCHANGED micro
       ELSE Move("RISK_CHECK", "sized")
    /\ UNCHANGED <<macro, risk, kill, abort, after, ret, inTick, intent, book, halting>>

\* The first intent is submitted without a walk when the micro machine cannot
\* enter RISK_CHECK; for a later one the same is an exception.
NextIntent ==
    /\ pc \in {"flush", "flushNext"}
    /\ pend > 0
    /\ pend' = pend - 1
    /\ IF pc = "flush" /\ ~CanMove("RISK_CHECK")
       THEN pc' = "raw" /\ UNCHANGED micro
       ELSE Move("RISK_CHECK", "sized")
    /\ UNCHANGED <<macro, risk, kill, abort, after, ret, inTick, intent, book, halting>>

NextRawIntent ==
    /\ pc = "rawNext"
    /\ inTick => pend > 0
    /\ pend' = IF inTick THEN pend - 1 ELSE pend
    /\ pc' = IF inTick THEN "raw" ELSE "loop"
    /\ UNCHANGED <<machines, kill, abort, after, ret, inTick, intent, book, halting>>

Escalate(back) == pc' = "escalate" /\ ret' = back

\* check_sized_intent: a breach aborts the intent and asks for escalation.
\* Admission refuses an opening leg that it has no quote to price (a trade's);
\* the pending-conflict filter drops a leg whose symbol has a live order.
LegAllowed(k) ==
    /\ ~breach
    /\ k = "exit" => held
    /\ (k = "open" /\ EdgeGate) => inTick
    /\ live = {}

SizedIntent ==
    /\ pc = "sized"
    /\ \/ breach /\ Escalate("legDone") /\ UNCHANGED <<micro, intent>>
       \/ Move("LOG_AND_METRICS", "flushNext") /\ UNCHANGED <<ret, intent>>
       \/ \E k \in OrderKinds :
              /\ LegAllowed(k)
              /\ intent' = k
              /\ Move("ORDER_DECISION", "legSubmit")
              /\ UNCHANGED ret
    /\ UNCHANGED <<macro, risk, kill, abort, after, inTick, pend, book, halting>>

LegSend ==
    /\ pc = "legSend"
    /\ live' = live \cup {intent}
    /\ pc' = "legAck"
    /\ UNCHANGED <<machines, kill, abort, after, ret, inTick, intent, pend,
                   breach, held, acked, halting>>

\* _submit_portfolio_leg_without_micro_walk
RawLeg ==
    /\ pc = "raw"
    /\ \/ breach /\ Escalate("rawNext") /\ UNCHANGED <<after, live>>
       \/ pc' = "rawNext" /\ UNCHANGED <<after, ret, live>>
       \/ \E k \in OrderKinds :
              /\ LegAllowed(k)
              /\ live' = {k}
              /\ pc' = "apply"
              /\ after' = "rawNext"
              /\ UNCHANGED ret
    /\ UNCHANGED <<machines, kill, abort, inTick, intent, pend, breach, held, acked, halting>>

(***************************************************************************)
(* The SIGNAL path                                                         *)
(***************************************************************************)
\* Arbitration, sizing and translation: no action, or an intent.
Signal ==
    /\ pc = "signal"
    /\ \/ pc' = "fin" /\ UNCHANGED <<micro, intent>>
       \/ \E k \in OrderKinds \cup {"reverse"} :
              /\ k # "open" => held
              /\ intent' = k
              /\ Move("RISK_CHECK", "check")
    /\ UNCHANGED <<macro, risk, kill, abort, after, ret, inTick, pend, book, halting>>

\* The engine's verdicts on an intent.  A reduction is allowed whatever the
\* verdict, unless a forced flatten can still lock the system down.
Verdicts ==
    IF breach
    THEN IF intent = "exit" /\ ~CanLockdown THEN {"ALLOW"}
         ELSE {"FORCE_FLATTEN"} \cup (IF intent = "open" THEN {"REJECT"} ELSE {})
    ELSE IF intent = "exit" THEN {"ALLOW"} ELSE {"ALLOW", "REJECT"}

\* A forced flatten that cannot lock down (a backtest) is simulated: no order.
Refused(v, back) ==
    \/ v = "FORCE_FLATTEN" /\ CanLockdown /\ Escalate(back)
    \/ v = "FORCE_FLATTEN" /\ ~CanLockdown /\ pc' = "fin" /\ UNCHANGED ret
    \/ v = "REJECT" /\ pc' = "fin" /\ UNCHANGED ret

\* check_signal
CheckSignal ==
    /\ pc = "check"
    /\ \E v \in Verdicts :
           \/ Refused(v, "abortTick") /\ UNCHANGED micro
           \/ v = "ALLOW" /\ Move("ORDER_DECISION", "decide") /\ UNCHANGED ret
    /\ UNCHANGED <<macro, risk, kill, abort, after, inTick, intent, pend, book, halting>>

\* Admission and order construction may end the walk; a reversal first cancels
\* the symbol's resting orders and settles.
Decide ==
    /\ pc = "decide"
    /\ \/ pc' = "fin" /\ UNCHANGED after
       \/ intent # "reverse" /\ pc' = "order" /\ UNCHANGED after
       \/ intent = "reverse" /\ pc' = "apply" /\ after' = "reverseCheck"
    /\ UNCHANGED <<machines, kill, abort, ret, inTick, intent, pend, book, halting>>

\* check_order, then the guard against a second order on the symbol.
CheckOrder ==
    /\ pc = "order"
    /\ \E v \in Verdicts :
           \/ Refused(v, "abortTick")
           \/ /\ v = "ALLOW"
              /\ pc' = IF live = {} \/ (live = {"open"} /\ intent = "exit")
                       THEN "submit" ELSE "fin"
              /\ UNCHANGED ret
    /\ UNCHANGED <<machines, kill, abort, after, inTick, intent, pend, book, halting>>

\* _execute_reverse: its exit leg escalates or is submitted, never refused.
CheckReverse ==
    /\ pc = "reverseCheck"
    /\ IF breach /\ CanLockdown
       THEN Escalate("fin") /\ UNCHANGED micro
       ELSE Move("ORDER_SUBMIT", "send") /\ UNCHANGED ret
    /\ UNCHANGED <<macro, risk, kill, abort, after, inTick, intent, pend, book, halting>>

\* _submit_tracked_order: the router may refuse.  A reversal's entry leg is
\* optional, and a reversal settles even when its exit leg was refused.
Send ==
    /\ pc = "send"
    /\ \/ intent # "reverse" /\ live' = live \cup {intent} /\ pc' = "ack"
       \/ intent # "reverse" /\ pc' = "failAck" /\ UNCHANGED live
       \/ /\ intent = "reverse"
          /\ \E K \in {{}, {"exit"}, {"exit", "open"}} : live' = live \cup K
          /\ pc' = "ack"
    /\ UNCHANGED <<machines, kill, abort, after, ret, inTick, intent, pend,
                   breach, held, acked, halting>>

\* Mutant: the acks are polled from ORDER_SUBMIT.
AckSkipped(at, back) ==
    /\ pc = at
    /\ pc' = "apply"
    /\ after' = back
    /\ UNCHANGED <<machines, kill, abort, ret, inTick, intent, pend, book, halting>>

\* ORDER_ACK, then settle under the walk.
Ack(at, back) ==
    /\ pc = at
    /\ Move("ORDER_ACK", "apply")
    /\ after' = back
    /\ UNCHANGED <<macro, risk, kill, abort, ret, inTick, intent, pend, book, halting>>

\* _finalize_tick: metrics, a possible latency breach, back to WAITING.
Metrics ==
    /\ pc = "metrics"
    /\ kill' \in {kill} \cup (IF "latency" \in Situations THEN {TRUE} ELSE {})
    /\ Move("WAITING_FOR_MARKET_EVENT", "loop")
    /\ inTick' = (pc' # "loop")
    /\ UNCHANGED <<macro, risk, abort, after, ret, intent, pend, book, halting>>

(***************************************************************************)
(* _settle_router_acks                                                     *)
(***************************************************************************)
\* Poll and apply: some live orders end, filled or not.  Under the walk the
\* micro machine enters POSITION_UPDATE before the fills are booked.
ApplyAcks ==
    /\ pc = "apply"
    /\ \E ended \in SUBSET live : \E filled \in SUBSET ended :
           /\ live' = live \ ended
           /\ acked' = {o \in Outcomes : \/ o = "openFill" /\ "open" \in filled
                                         \/ o = "exitFill" /\ "exit" \in filled
                                         \/ o = "exitEnd" /\ "exit" \in ended \ filled}
    /\ pc' = IF after \in {"fin", "legDone"} THEN "update" ELSE "book"
    /\ UNCHANGED <<machines, kill, abort, after, ret, inTick, intent, pend,
                   breach, held, halting>>

\* _reconcile_fills: an exit closes the position, an entry opens it (a
\* reversal books its exit first).  A fill's costs can deepen a drawdown into
\* a breach and, after a streak, trip the kill switch.
HeldAfter(outcomes) ==
    "openFill" \in outcomes \/ (held /\ "exitFill" \notin outcomes)

ReconcileFills ==
    /\ pc = "book"
    /\ held' = HeldAfter(acked)
    /\ IF acked \cap {"openFill", "exitFill"} = {}
       THEN UNCHANGED <<breach, kill>>
       ELSE /\ breach' \in {breach, TRUE}
            /\ kill' \in {kill} \cup (IF "cost" \in Situations THEN {TRUE} ELSE {})
    /\ acked' = IF after = "fallback" THEN acked \cap {"exitEnd"} ELSE {}
    /\ pc' = after
    /\ UNCHANGED <<machines, abort, after, ret, inTick, intent, pend, live, halting>>

\* _escalate_unfilled_working_exits: a working exit that ended unfilled goes
\* to market.  The drain then returns to the tick or to the loop.
Fallback ==
    /\ pc = "fallback"
    /\ live' \in {live} \cup (IF "exitEnd" \in acked THEN {live \cup {"exit"}} ELSE {})
    /\ acked' = {}
    /\ pc' = IF inTick THEN "m2" ELSE "loop"
    /\ UNCHANGED <<machines, kill, abort, after, ret, inTick, intent, pend,
                   breach, held, halting>>

(***************************************************************************)
(* _escalate_risk                                                          *)
(***************************************************************************)
EscalateLevel ==
    /\ pc = "escalate"
    /\ IF risk \in {"FORCED_FLATTEN", "LOCKED"}
       THEN UNCHANGED risk
       ELSE risk' \in RiskTransitions[risk]
    /\ pc' = CASE risk = "FORCED_FLATTEN" -> "flatten"
               [] risk = "LOCKED" -> "lock"
               [] OTHER -> "escalate"
    /\ UNCHANGED <<macro, micro, kill, abort, after, ret, inTick, intent, pend, book, halting>>

\* _emergency_flatten_all: a market exit for the open position; the router may
\* refuse it.  Orders that are already live are left alone.
EmergencyFlatten ==
    /\ pc = "flatten"
    /\ \/ pc' = "locked" /\ UNCHANGED <<after, live>>
       \/ /\ held
          /\ live' = live \cup {"exit"}
          /\ pc' = "apply"
          /\ after' = "locked"
    /\ UNCHANGED <<machines, kill, abort, ret, inTick, intent, pend, breach,
                   held, acked, halting>>

\* Mutant: a flatten that left exposure does not lock.
LockIfFlat ==
    /\ pc = "locked"
    /\ risk' = IF held THEN risk ELSE "LOCKED"
    /\ pc' = "lock"
    /\ UNCHANGED <<macro, micro, kill, abort, after, ret, inTick, intent, pend, book, halting>>

Lock ==
    /\ pc = "locked"
    /\ risk' = "LOCKED"
    /\ pc' = "lock"
    /\ UNCHANGED <<macro, micro, kill, abort, after, ret, inTick, intent, pend, book, halting>>

ActivateKillSwitch ==
    /\ pc = "lock"
    /\ kill' = TRUE
    /\ pc' = "lockdown"
    /\ UNCHANGED <<machines, abort, after, ret, inTick, intent, pend, book, halting>>

EnterLockdown ==
    /\ pc = "lockdown"
    /\ IF CanLockdown
       THEN macro' = "RISK_LOCKDOWN" /\ pc' = ret
       ELSE Raise /\ UNCHANGED macro
    /\ UNCHANGED <<micro, risk, kill, abort, after, ret, inTick, intent, pend, book, halting>>

\* After an escalation the SIGNAL path resets the walk and returns.
AbortTick ==
    /\ pc = "abortTick"
    /\ micro' = "WAITING_FOR_MARKET_EVENT"
    /\ pc' = "loop"
    /\ inTick' = FALSE
    /\ UNCHANGED <<macro, risk, kill, abort, after, ret, intent, pend, book, halting>>

(***************************************************************************)
(* Failures of the main thread                                             *)
(***************************************************************************)
\* Any call may raise.  _emergency_flatten_all catches what its settle raises.
StepRaises ==
    /\ "fault" \in Situations
    /\ pc \in TickLabels \cup SharedLabels
    /\ IF pc \in {"apply", "book"} /\ after = "locked"
       THEN pc' = "locked" /\ acked' = {}
       ELSE Raise /\ UNCHANGED acked
    /\ UNCHANGED <<machines, kill, abort, after, ret, inTick, intent, pend,
                   breach, held, live, halting>>

\* reset(for_new_run=False).  The micro machine tells its handlers before it
\* commits: one that raises leaves the machine and the intents as they were.
RecoverMicro ==
    \/ micro' = "WAITING_FOR_MARKET_EVENT" /\ pend' = 0
    \/ "callback" \in Situations /\ UNCHANGED <<micro, pend>>

\* Mutant: a DEGRADED that could not be recorded does not stop the loop.
HandleTickFailureGoesOn ==
    /\ pc = "fault"
    /\ RecoverMicro
    /\ acked' = {}
    /\ inTick' = FALSE
    /\ pc' = "loop"
    /\ \/ macro' = IF macro \in TradingModes THEN "DEGRADED" ELSE macro
       \/ "callback" \in Situations /\ UNCHANGED macro
    /\ UNCHANGED <<abort, risk, kill, after, ret, intent, breach, held, live, halting>>

\* _handle_tick_failure: two recoveries, neither of which may raise.
HandleTickFailure ==
    /\ pc = "fault"
    /\ RecoverMicro
    /\ acked' = {}
    /\ inTick' = FALSE
    /\ pc' = "loop"
    /\ \/ /\ macro' = IF macro \in TradingModes THEN "DEGRADED" ELSE macro
          /\ UNCHANGED abort
       \/ /\ "callback" \in Situations
          /\ macro \in TradingModes
          /\ abort' = TRUE
          /\ UNCHANGED macro
    /\ UNCHANGED <<risk, kill, after, ret, intent, breach, held, live, halting>>

(***************************************************************************)
(* halt(), from the timer thread.  SIGINT's handler, which runs on the main *)
(* thread, takes the same steps with nothing in between.                    *)
(***************************************************************************)
HaltRequest ==
    /\ "halt" \in Situations
    /\ ~haltReq
    /\ pc = "enter" => "earlyHalt" \in Situations
    /\ haltReq' = TRUE
    /\ halter' = IF macro \in TradingModes THEN "checked" ELSE "idle"
    /\ UNCHANGED <<machines, kill, abort, pc, after, ret, inTick, intent, pend, book>>

\* StateMachine.transition checks, calls back and commits without a lock: a
\* transition the main thread commits at the same time may win.
HaltMacro ==
    /\ halter = "checked"
    /\ \/ macro' = "READY"
       \/ macro \notin TradingModes /\ UNCHANGED macro
    /\ halter' = "committed"
    /\ UNCHANGED <<micro, risk, kill, abort, pc, after, ret, inTick, intent, pend, book, haltReq>>

HaltMicro ==
    /\ halter = "committed"
    /\ \/ micro' = "WAITING_FOR_MARKET_EVENT"
       \/ inTick /\ UNCHANGED micro
    /\ halter' = "reset"
    /\ UNCHANGED <<macro, risk, kill, abort, pc, after, ret, inTick, intent, pend, book, haltReq>>

HaltClear ==
    /\ halter = "reset"
    /\ pend' = 0
    /\ halter' = "idle"
    /\ UNCHANGED <<machines, kill, abort, pc, after, ret, inTick, intent, book, haltReq>>

\* A handler of either transition raises before the commit; the timer logs it.
HaltRaises ==
    /\ "callback" \in Situations
    /\ halter \in {"checked", "committed"}
    /\ halter' = "idle"
    /\ UNCHANGED <<machines, kill, abort, pc, after, ret, inTick, intent, pend, book, haltReq>>

(***************************************************************************)
(* Operator calls between sessions                                         *)
(***************************************************************************)
operatorUnchanged == <<micro, abort, pc, after, ret, inTick, intent, halting>>

RecoverFromDegraded ==
    /\ pc = "cli"
    /\ macro = "DEGRADED"
    /\ ~kill
    /\ macro' = "READY"
    /\ UNCHANGED <<risk, kill, pend, book, operatorUnchanged>>

\* Mutant: the exposure is not looked at.
UnlockExposed ==
    /\ pc = "cli"
    /\ macro = "RISK_LOCKDOWN"
    /\ macro' = "READY"
    /\ IF "NORMAL" \in RiskTransitions[risk]
       THEN risk' = "NORMAL" /\ kill' = FALSE
       ELSE UNCHANGED <<risk, kill>>
    /\ UNCHANGED <<pend, book, operatorUnchanged>>

\* Mutant: the risk level is left LOCKED.
UnlockMacroOnly ==
    /\ pc = "cli"
    /\ macro = "RISK_LOCKDOWN"
    /\ ~held
    /\ macro' = "READY"
    /\ IF "NORMAL" \in RiskTransitions[risk]
       THEN risk' = risk /\ kill' = FALSE
       ELSE UNCHANGED <<risk, kill>>
    /\ UNCHANGED <<pend, book, operatorUnchanged>>

\* Macro, risk, kill switch in this order; the risk transition raises when the
\* level is not LOCKED, after the macro transition has been committed.
UnlockFromLockdown ==
    /\ pc = "cli"
    /\ macro = "RISK_LOCKDOWN"
    /\ ~held
    /\ macro' = "READY"
    /\ IF "NORMAL" \in RiskTransitions[risk]
       THEN risk' = "NORMAL" /\ kill' = FALSE
       ELSE UNCHANGED <<risk, kill>>
    /\ UNCHANGED <<pend, book, operatorUnchanged>>

ResetRiskEscalation ==
    /\ pc = "cli"
    /\ risk \notin {"NORMAL", "LOCKED"}
    /\ macro \notin TradingModes
    /\ risk = "FORCED_FLATTEN" => ~held
    /\ risk' = "NORMAL"
    /\ UNCHANGED <<macro, kill, pend, book, operatorUnchanged>>

\* The operator trips or resets the kill switch.
OperatorKillSwitch ==
    /\ pc = "cli"
    /\ kill' = ~kill
    /\ UNCHANGED <<macro, risk, pend, book, operatorUnchanged>>

\* shutdown drains the router once more, then SHUTDOWN where it is allowed.
Shutdown ==
    /\ pc = "cli"
    /\ \E ended \in SUBSET live : \E filled \in SUBSET ended :
           /\ live' = live \ ended
           /\ held' = ("open" \in filled \/ (held /\ "exit" \notin filled))
    /\ macro' = IF CanBe("SHUTDOWN") THEN "SHUTDOWN" ELSE macro
    /\ UNCHANGED <<risk, kill, pend, breach, acked, operatorUnchanged>>

\* reset(for_new_run=True): run-scoped state, not the kill switch.
Reset ==
    /\ pc = "cli"
    /\ macro' = "INIT"
    /\ micro' = "WAITING_FOR_MARKET_EVENT"
    /\ risk' = "NORMAL"
    /\ abort' = FALSE
    /\ pend' = 0
    /\ breach' = FALSE
    /\ held' = FALSE
    /\ live' = {}
    /\ UNCHANGED <<kill, pc, after, ret, inTick, intent, acked, halting>>

(***************************************************************************)
(* Specification                                                           *)
(***************************************************************************)
QuoteWalk ==
    \/ GateCloses \/ GateOpens \/ Mark \/ Walk
    \/ Optional("sensors", "sensors", "SENSOR_UPDATE", "horizonCheck")
    \/ Optional("signalGate", "signals", "SIGNAL_GATE", "bookend")
    \/ Horizon \/ Bookend
    \/ Signal \/ CheckSignal \/ Decide \/ CheckOrder \/ CheckReverse \/ Send
    \/ Ack("ack", "fin") \/ Metrics \/ AbortTick

Portfolio ==
    FlushDone \/ NextIntent \/ NextRawIntent \/ SizedIntent \/ LegSend \/ RawLeg
    \/ Ack("legAck", "legDone")

Settle == ApplyAcks \/ ReconcileFills \/ Fallback

Escalation ==
    EscalateLevel \/ EmergencyFlatten \/ Lock \/ ActivateKillSwitch \/ EnterLockdown

Session == EnterMode \/ QuoteArrives \/ TradeArrives \/ IdleTick \/ EndSession

Failure == StepRaises \/ HandleTickFailure \/ SessionFault

Halt == HaltMacro \/ HaltMicro \/ HaltClear \/ HaltRaises

Operator ==
    \/ Boot \/ BeginSession \/ RecoverFromDegraded \/ UnlockFromLockdown
    \/ ResetRiskEscalation \/ OperatorKillSwitch \/ Shutdown \/ Reset

Main == QuoteWalk \/ Portfolio \/ Settle \/ Escalation \/ Session \/ Failure

Next == Main \/ HaltRequest \/ Halt \/ Operator

Spec == Init /\ [][Next]_vars

\* The main thread runs while it has a step to take (the paper feed yields an
\* IdleTick when nothing arrives), and so does the thread in halt().
FairSpec == Spec /\ WF_vars(Main) /\ WF_vars(Halt)

(***************************************************************************)
(* Properties                                                              *)
(***************************************************************************)
\* The three machines, the labels and the book have their types.
TypeOK ==
    /\ macro \in MacroState
    /\ micro \in MicroState
    /\ risk \in RiskLevel
    /\ kill \in BOOLEAN
    /\ abort \in BOOLEAN
    /\ pc \in TickLabels \cup SharedLabels \cup SessionLabels
    /\ after \in {"fallback", "fin", "legDone", "rawNext", "reverseCheck", "locked"}
    /\ ret \in {"abortTick", "fin", "legDone", "rawNext"}
    /\ inTick \in BOOLEAN
    /\ intent \in OrderKinds \cup {"reverse"}
    /\ pend \in Nat
    /\ breach \in BOOLEAN
    /\ held \in BOOLEAN
    /\ live \subseteq OrderKinds
    /\ acked \subseteq Outcomes
    /\ halter \in {"idle", "checked", "committed", "reset"}
    /\ haltReq \in BOOLEAN

(***************************************************************************)
(* No event is taken up with anything of the last one left: the micro      *)
(* machine waits, no sized intent pends and no quote is in flight,         *)
(* whatever raised and wherever halt() fell.  When the recovery itself     *)
(* raises, the machine and the intents stay as they were, but then the     *)
(* loop takes no event and the next session starts with a reset            *)
(* (_handle_tick_failure, halt, _flush_pending_sized_intents, run_paper).  *)
(***************************************************************************)
TickLeavesNothing ==
    /\ pc \in {"cli", "enter", "loop"} => ~inTick
    /\ pc = "enter" \/ (pc = "loop" /\ Continues) =>
          micro = "WAITING_FOR_MARKET_EVENT" /\ pend = 0

\* What makes it inductive: which labels belong to a quote, where a settle or
\* an escalation returns to, and where sized intents may pend.
Escalating ==
    \/ pc \in {"escalate", "flatten", "locked", "lock", "lockdown"}
    \/ pc \in {"apply", "book"} /\ after = "locked"

InPortfolio ==
    \/ pc \in {"aggregate", "signalGate", "bookend", "flush", "flushNext", "sized",
              "legSubmit", "legSend", "legAck", "legDone", "raw", "rawNext", "fault"}
    \/ pc \in {"update", "apply", "book"} /\ after \in {"legDone", "rawNext"}
    \/ Escalating /\ ret \in {"legDone", "rawNext"}

QuoteInFlight ==
    \/ pc \in TickLabels \cup {"fault"}
    \/ pc \in {"apply", "book"} /\ after \in {"fin", "legDone", "reverseCheck"}
    \/ Escalating /\ ret \in {"abortTick", "fin", "legDone"}

\* No further event is taken up before BeginSession.
Stopped == pc = "cli" \/ (pc = "loop" /\ ~Continues)

(***************************************************************************)
(* RISK_LOCKDOWN is entered only by an escalation that ran to its end, so  *)
(* unlock_from_lockdown never commits its macro transition and then raises *)
(* on the risk one.                                                        *)
(***************************************************************************)
LockdownMeansLocked == macro = "RISK_LOCKDOWN" => risk = "LOCKED"

(***************************************************************************)
(* The inductive invariant behind the two: a quote is in flight exactly    *)
(* where _process_tick's handler will catch what is raised; outside it the *)
(* micro machine waits and no intent pends, unless a recovery has raised   *)
(* and the loop is over; intents pend only on the PORTFOLIO path; and the  *)
(* kill switch and the macro state are touched by an escalation only once  *)
(* the level is LOCKED.                                                    *)
(***************************************************************************)
IInv ==
    /\ TypeOK
    /\ QuoteInFlight => inTick
    /\ pc \in SessionLabels \ {"fault"} => ~inTick
    /\ (~inTick /\ ~Stopped) \/ pc = "gate" => micro = "WAITING_FOR_MARKET_EVENT"
    /\ pend # 0 => (inTick /\ InPortfolio) \/ Stopped
    /\ pc \in {"legSubmit", "legSend"} => intent \in OrderKinds
    /\ pc \in {"lock", "lockdown"} => risk = "LOCKED"
    /\ LockdownMeansLocked

(***************************************************************************)
(* A LOCKED kernel at rest is in RISK_LOCKDOWN (or shut down), the one     *)
(* state unlock_from_lockdown accepts: reset_risk_escalation refuses       *)
(* LOCKED and sends the operator there.                                    *)
(***************************************************************************)
LockedCanBeUnlocked ==
    pc \in {"cli", "loop"} /\ risk = "LOCKED" => macro \in {"RISK_LOCKDOWN", "SHUTDOWN"}

(***************************************************************************)
(* The escalation levels FORCED_FLATTEN and LOCKED are left for NORMAL     *)
(* only with a flat book (unlock_from_lockdown, reset_risk_escalation).    *)
(***************************************************************************)
ReleasedFlat ==
    [][(risk \in {"FORCED_FLATTEN", "LOCKED"} /\ risk' = "NORMAL") => ~held']_vars

(***************************************************************************)
(* An order that opens exposure is submitted only while the kill switch is *)
(* off and the session is in its trading mode.                             *)
(***************************************************************************)
OpensOnlyWhenSafe ==
    [][("open" \in live' \ live) => (~kill /\ macro = Mode)]_vars

(***************************************************************************)
(* A fill that was applied to its order is booked: no exception leaves the *)
(* settle between _apply_ack_to_order and _reconcile_fills.                *)
(***************************************************************************)
NoFillDropped ==
    pc \in {"fault", "sessionFault"} => acked \cap {"openFill", "exitFill"} = {}

(***************************************************************************)
(* Every quote's walk ends, through all flush, settle and escalation loops.*)
(***************************************************************************)
TickEnds == inTick ~> ~inTick

(***************************************************************************)
(* Once halt() has moved the macro machine the session ends.               *)
(***************************************************************************)
HaltEndsSession == halter = "committed" ~> pc = "cli"
=============================================================================
