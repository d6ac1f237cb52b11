------------------------------- MODULE LiveFeed -------------------------------
(***************************************************************************)
(* The live market data path: the websocket thread (connect, subscribe,    *)
(* normalise, enqueue), the bounded queue, and the kernel thread that      *)
(* takes events from it and asks the data gate before it trades.  Both     *)
(* threads write the same halt store and the same trade-feed machine: the  *)
(* websocket thread when it parses a halt print, sees a gap or loses the   *)
(* connection, the kernel when it later processes the halt print.  Whoever *)
(* moves a machine looks at its state, asks for the transition, which      *)
(* looks again and may raise, and commits: three steps here, of either     *)
(* thread.                                                                 *)
(***************************************************************************)
EXTENDS FeedHealth, Sequences

CONSTANTS
    Symbols,        \* the subscribed symbols
    MaxQueue,       \* capacity of the event queue
    MaxMessages,    \* bound: messages the normalizer accepts
    MaxFaults,      \* bound: disturbances of the connection and the tape, and restarted
    DegradeOnGap,   \* degrade_on_data_gap
    FeedSituations  \* which of the disturbances below are explored

ASSUME LiveFeedAssumption ==
    /\ Symbols # {}
    /\ MaxQueue \in Nat \ {0} /\ MaxMessages \in Nat
    /\ MaxFaults \in Nat
    /\ DegradeOnGap \in BOOLEAN
    /\ FeedSituations \subseteq {"lost", "repeated", "unnumbered", "corrupt", "halts", "broken", "restart", "absent"}

Quote(s) == <<s, "quote">>
Trade(s) == <<s, "trade">>
Feeds == Symbols \X {"quote", "trade"}
FeedsOf(s) == {Quote(s), Trade(s)}

Sentinel == [feed |-> <<"stop", "stop">>, marks |-> {}]
NoMove == [kind |-> "gap", feeds |-> {}, then |-> "read"]
NoSync == [sym |-> "none", target |-> "none"]

VARIABLES
    \* the websocket thread
    ws,         \* none, import, connect, read, store, put, backoff, leaving, dead;
                \* move, enter, commit
    move,       \* the transitions of machines it is in the middle of
    parsing,    \* the event of the message it is in the middle of
    batch,      \* events of the current frame, parsed and not yet enqueued
    cancelled,  \* stop() has cancelled its task
    \* shared by the two threads
    cursor,     \* _last_seen
    health,     \* the DataHealth machines
    halted,     \* halted_symbols
    blackout,   \* symbols with a blackout deadline
    queue,      \* market events and stop sentinels
    stopEvent,  \* _stop_event
    \* the kernel thread
    kn,         \* off, get, store, check, enter, commit, announce, gate, ended, faulted
    knSync,     \* the halt transition it is in the middle of
    event,      \* the event it is processing
    announced,  \* forensic_open: halt episodes it has announced
    macro,      \* trading, halted or degraded
    flattened,  \* symbols force-flattened by the data gate
    \* bounds and history
    accepted, started, faults, sent, owed, printed, consumed, lostMark, hidden, died

wsVars == <<ws, move, parsing, batch, cancelled>>
knVars == <<kn, knSync, event, announced, macro, flattened>>
history == <<accepted, started, faults, sent, owed, printed, consumed, lostMark, hidden, died>>
feedVars == <<wsVars, cursor, health, halted, blackout, queue, stopEvent, knVars, history>>

(***************************************************************************)
(* History: sent numbers what the vendor published; owed is the number of  *)
(* a lost message nothing has told of yet (0: none), settled as soon as    *)
(* the feed is not HEALTHY, and given up in the two cases the code never   *)
(* tells: the next message carries no number, or the thread's task ends    *)
(* while it handles an exception.  printed and consumed are the last halt  *)
(* print parsed and processed; lostMark, the symbols one of whose halt     *)
(* prints never reached the kernel; hidden, those whose HALTED a report    *)
(* that had looked before it has overwritten; died, that the task of this  *)
(* run of the feed ended with an exception.                                *)
(***************************************************************************)
Disturbed(kind) == kind \in FeedSituations /\ faults < MaxFaults /\ faults' = faults + 1

Untold(o, h) == [f \in Feeds |-> IF h[f] # "HEALTHY" THEN 0 ELSE o[f]]
Settle == owed' = Untold(owed, health')

FeedInit ==
    /\ ws = "none" /\ move = NoMove /\ parsing = Sentinel /\ batch = <<>> /\ cancelled = FALSE
    /\ cursor = [f \in Feeds |-> NoCursor]
    /\ health = [f \in Feeds |-> "HEALTHY"]
    /\ halted = {} /\ blackout = {}
    /\ queue = <<>> /\ stopEvent = FALSE
    /\ kn = "off" /\ knSync = NoSync /\ event = Sentinel
    /\ announced = {} /\ macro = "trading" /\ flattened = {}
    /\ accepted = 0 /\ started = FALSE /\ faults = 0
    /\ sent = [f \in Feeds |-> 0] /\ owed = [f \in Feeds |-> 0]
    /\ printed = [s \in Symbols |-> "none"] /\ consumed = [s \in Symbols |-> "none"]
    /\ lostMark = {} /\ hidden = {} /\ died = FALSE

\* The thread turns to moving the machines of feeds, and goes on after them.
Asks(kind, feeds, after) ==
    /\ ws' = "move"
    /\ move' = [kind |-> kind, feeds |-> feeds, then |-> after]

notify_feed_interrupted(symbols, after) == Asks("gap", UNION {FeedsOf(s) : s \in symbols}, after)

enqueue_nowait(e) == IF Len(queue) < MaxQueue THEN Append(queue, e) ELSE queue

(***************************************************************************)
(* start, stop: start() refuses a thread that is still alive, clears the   *)
(* stop event and drops the sentinels an earlier stop() left; the main     *)
(* thread calls it before it runs the session.  stop() may come from any   *)
(* thread; a cancelled task unwinds at its next await.                     *)
(***************************************************************************)
\* What is no sentinel is put back in its order.
_drain_stale_sentinels ==
    \E n \in 0..Len(queue) : \E order \in [1..n -> DOMAIN queue] :
       /\ \A i, j \in 1..n : i < j => order[i] < order[j]
       /\ {order[i] : i \in 1..n} = {i \in DOMAIN queue : queue[i] # Sentinel}
       /\ queue' = [i \in 1..n |-> queue[order[i]]]

start ==
    /\ ws \in {"none", "dead"} /\ kn \in {"off", "ended"}
    /\ IF started THEN Disturbed("restart") ELSE UNCHANGED faults
    /\ started' = TRUE
    /\ stopEvent' = FALSE
    /\ _drain_stale_sentinels
    /\ ws' = "import" /\ cancelled' = FALSE /\ died' = FALSE /\ macro' = "trading"
    /\ kn' = "get"
    /\ UNCHANGED <<move, parsing, batch, cursor, health, halted, blackout, knSync, event,
                   announced, flattened, accepted, sent, owed, printed, consumed, lostMark, hidden>>

stop ==
    /\ started /\ ~stopEvent
    /\ stopEvent' = TRUE
    /\ cancelled' = (ws # "dead")
    /\ queue' = enqueue_nowait(Sentinel)
    /\ UNCHANGED <<ws, move, parsing, batch, cursor, health, halted, blackout, knVars, history>>

\* SIGINT or the runtime timer: orchestrator.halt() takes the session out of
\* its trading mode; the loop sees it at the next event or idle tick.
halt ==
    /\ kn \notin {"off", "ended", "faulted"} /\ macro = "trading"
    /\ macro' = "halted"
    /\ UNCHANGED <<wsVars, cursor, health, halted, blackout, queue, stopEvent, kn, knSync,
                   event, announced, flattened, history>>

(***************************************************************************)
(* The connection.  Every await is a point where a cancelled task leaves;  *)
(* a clean close of the socket reconnects without a word, an exception     *)
(* (refused, no preamble, no authentication, no subscription confirmed,    *)
(* connection broken) tells every symbol and backs off.  A task without    *)
(* the websockets library ends at once.                                    *)
(***************************************************************************)
Shared == <<cursor, health, halted, blackout, stopEvent, knVars, accepted, started, sent, printed,
            consumed, hidden>>
wsSame == <<Shared, parsing, batch, cancelled, owed, lostMark>>

ImportWebsockets ==
    /\ ws = "import" /\ ~cancelled
    /\ \/ ws' = "connect" /\ UNCHANGED <<faults, died>>
       \/ ws' = "leaving" /\ died' = TRUE /\ Disturbed("absent")
    /\ UNCHANGED <<wsSame, move, queue>>

_connect_with_retry ==
    /\ ws = "connect" /\ ~stopEvent /\ ~cancelled
    /\ \/ ws' = "read" /\ UNCHANGED <<move, faults>>
       \/ notify_feed_interrupted(Symbols, "read") /\ Disturbed("broken") \* some channels confirmed
    /\ UNCHANGED <<wsSame, queue, died>>

ConnectionClosed ==
    /\ ws = "read" /\ batch = <<>> /\ Disturbed("broken")
    /\ ws' = "connect"
    /\ UNCHANGED <<wsSame, move, queue, died>>

ConnectionLost ==
    /\ ws \in {"connect", "read"} /\ batch = <<>> /\ ~stopEvent /\ Disturbed("broken")
    /\ notify_feed_interrupted(Symbols, "backoff")
    /\ UNCHANGED <<wsSame, queue, died>>

BackoffEnds ==
    /\ ws = "backoff"
    /\ ws' = "connect"
    /\ UNCHANGED <<wsSame, move, queue, faults, died>>

\* _run_loop ends and posts the sentinel: the task was cancelled, saw the stop
\* event at the top of its loop, after a message or in its exception handler,
\* or ended with an exception.
_run_loop ==
    /\ \/ ws = "leaving"
       \/ ws \in {"import", "connect", "read", "backoff"} /\ batch = <<>> /\ (cancelled \/ stopEvent)
    /\ ws' = "dead"
    /\ queue' = enqueue_nowait(Sentinel)
    /\ UNCHANGED <<wsSame, move, faults, died>>

(***************************************************************************)
(* The normalizer.  A message the vendor publishes may be lost, delivered  *)
(* again, or carry no number.  Nothing is recorded for a message that      *)
(* cannot be parsed, reuses a number or repeats the one before it.         *)
(***************************************************************************)
MessageLost(f) ==
    /\ Disturbed("lost") /\ sent[f] < MaxMessages /\ accepted < MaxMessages
    /\ ws # "none"
    /\ sent' = [sent EXCEPT ![f] = @ + 1]
    /\ owed' = [owed EXCEPT ![f] =
                  IF @ = 0 /\ cursor[f].seq # 0 /\ health[f] = "HEALTHY" THEN sent[f] + 1 ELSE @]
    /\ UNCHANGED <<wsVars, cursor, health, halted, blackout, queue, stopEvent, knVars, accepted,
                   started, printed, consumed, lostMark, hidden, died>>

NextMessage(f) == [seq |-> sent[f] + 1, body |-> "a", price |-> "positive", time |-> "near"]

Disturbances(f) ==
    [unnumbered |-> {[NextMessage(f) EXCEPT !.seq = 0]},
     repeated   |-> {[NextMessage(f) EXCEPT !.seq = n] : n \in 1..cursor[f].seq},
     corrupt    |-> {[NextMessage(f) EXCEPT !.price = p] : p \in {"zero", "bad"}}
                    \cup {[NextMessage(f) EXCEPT !.time = "far"],
                          [NextMessage(f) EXCEPT !.seq = cursor[f].seq, !.body = "b"]}]

Receives(f, m) ==
    \/ m = NextMessage(f) /\ UNCHANGED faults
    \/ \E kind \in DOMAIN Disturbances(f) : m \in Disturbances(f)[kind] /\ Disturbed(kind)

Messages(f) == {NextMessage(f)} \cup UNION {Disturbances(f)[k] : k \in DOMAIN Disturbances(f)}

_parse_ws(f, m) ==
    IF f[2] = "quote" THEN _ws_quote(cursor[f], m) ELSE _ws_trade(cursor[f], m)

Marks(f) == IF f[2] = "trade" /\ "halts" \in FeedSituations THEN {{}, {"on"}, {"off"}} ELSE {{}}

Reading == ws = "read" /\ ~stopEvent /\ accepted < MaxMessages

ReadOne(f, m) == sent' = [sent EXCEPT ![f] = IF m.seq > @ THEN m.seq ELSE @]

_mark_corrupted(f) ==
    /\ Reading
    /\ \E m \in Messages(f) :
         /\ Receives(f, m)
         /\ _parse_ws(f, m) = "corrupt"
         /\ ReadOne(f, m)
    /\ Asks("corrupted", FeedsOf(f[1]), "read")
    /\ accepted' = accepted + 1
    /\ UNCHANGED <<parsing, batch, cancelled, cursor, health, halted, blackout, queue, stopEvent,
                   knVars, started, owed, printed, consumed, lostMark, hidden, died>>

(***************************************************************************)
(* _sync_halt_store_and_health, first part: the halt store.  The machine   *)
(* is moved next, in steps of the thread's own.                            *)
(***************************************************************************)
SyncStore(s, status) ==
    LET was_in == s \in halted
        health_was_halted == health[Trade(s)] = "HALTED"
    IN  IF status = "HALT_ON"
          THEN /\ halted' = halted \cup {s}
               /\ blackout' = IF was_in THEN blackout ELSE blackout \ {s}
          ELSE /\ halted' = halted \ {s}
               /\ blackout' = IF was_in \/ health_was_halted THEN blackout \cup {s} ELSE blackout

\* The machine is moved for a halt, and for a resume that found it HALTED.
SyncTarget(s, status) ==
    IF status = "HALT_ON" THEN [sym |-> s, target |-> "HALTED"]
    ELSE IF health[Trade(s)] = "HALTED" THEN [sym |-> s, target |-> "HEALTHY"] ELSE NoSync

\* A message is accepted: the cursor, then what the gap check asks for.
Accept(f) ==
    /\ Reading
    /\ \E m \in Messages(f), marks \in Marks(f) :
         LET kind == GapKind(m.seq, cursor[f].seq)
         IN /\ Receives(f, m)
            /\ _parse_ws(f, m) = "event"
            /\ ReadOne(f, m)
            /\ cursor' = [cursor EXCEPT ![f] = _update_last_seen(m)]
            /\ owed' = [owed EXCEPT ![f] = IF m.seq = 0 THEN 0 ELSE @]
            /\ parsing' = [feed |-> f, marks |-> marks]
            /\ IF kind = "none" THEN ws' = "store" /\ UNCHANGED move ELSE Asks(kind, {f}, "store")
    /\ accepted' = accepted + 1
    /\ UNCHANGED <<batch, cancelled, health, halted, blackout, queue, stopEvent, knVars, started,
                   printed, consumed, lostMark, hidden, died>>

\* ... and for a halt print the halt store, before its event joins the frame's.
_apply_halt_status_ws ==
    /\ ws = "store"
    /\ LET s == parsing.feed[1]
           status == classify_halt_status(parsing.marks)
       IN IF status = "none"
            THEN ws' = "read" /\ UNCHANGED <<move, halted, blackout, printed>>
            ELSE /\ SyncStore(s, status)
                 /\ printed' = [printed EXCEPT ![s] = status]
                 /\ IF SyncTarget(s, status) = NoSync THEN ws' = "read" /\ UNCHANGED move
                    ELSE Asks(status, {Trade(s)}, "read")
    /\ batch' = Append(batch, parsing) /\ parsing' = Sentinel
    /\ UNCHANGED <<cancelled, cursor, health, queue, stopEvent, knVars, accepted, started, faults,
                   sent, owed, consumed, lostMark, hidden, died>>

(***************************************************************************)
(* The machines, moved by the websocket thread: it looks at the state, a   *)
(* symbol's quotes before its trades; transition() looks again and raises  *)
(* or notifies; and the state is written.                                  *)
(***************************************************************************)
Turn == CHOOSE f \in move.feeds : f[2] = "quote" \/ Quote(f[1]) \notin move.feeds

Done ==
    LET left == move.feeds \ {Turn}
    IN  IF left = {} THEN ws' = move.then /\ move' = NoMove
        ELSE ws' = "move" /\ move' = [move EXCEPT !.feeds = left]

moveRest == <<parsing, batch, cancelled, cursor, halted, blackout, queue, stopEvent, knVars,
              accepted, started, faults, sent, printed, consumed, lostMark, died>>

MoveSkips ==
    /\ ws = "move" /\ ~Asked(move.kind, health[Turn])
    /\ Done
    /\ UNCHANGED <<moveRest, health, owed, hidden>>

MoveAsks ==
    /\ ws = "move" /\ Asked(move.kind, health[Turn])
    /\ ws' = "enter"
    /\ UNCHANGED <<moveRest, move, health, owed, hidden>>

MoveEnters ==
    /\ ws = "enter" /\ can_transition(health[Turn], TargetOf[move.kind])
    /\ ws' = "commit"
    /\ UNCHANGED <<moveRest, move, health, owed, hidden>>

MoveCommits ==
    /\ ws = "commit"
    /\ health' = [health EXCEPT ![Turn] = TargetOf[move.kind]]
    /\ hidden' = IF move.kind \in {"gap", "continuity"} /\ health[Turn] \in {"HALTED", "CORRUPTED"}
                   THEN hidden \cup {Turn[1]} ELSE hidden
    /\ Settle
    /\ Done
    /\ UNCHANGED moveRest

\* A frame whose message raised is gone, the message with it.
Unqueued(f) == parsing.feed = f \/ \E i \in DOMAIN batch : batch[i].feed = f

\* IllegalTransition leaves on_message, _subscribe or the loop that enqueues:
\* every symbol is told and the connection opened again, unless a stop is seen
\* first.  Out of the handler that tells them, it ends the task.
MoveRaises ==
    /\ ws = "enter" /\ ~can_transition(health[Turn], TargetOf[move.kind])
    /\ parsing' = Sentinel /\ batch' = <<>>
    /\ lostMark' = lostMark \cup {batch[i].feed[1] : i \in {j \in DOMAIN batch : batch[j].marks # {}}}
    /\ IF move.then = "backoff" \/ stopEvent
         THEN /\ ws' = "leaving" /\ move' = NoMove
              /\ died' = (died \/ move.then = "backoff")
              /\ owed' = [f \in Feeds |-> 0]
         ELSE /\ notify_feed_interrupted(Symbols, "backoff")
              /\ owed' = Untold([f \in Feeds |-> IF owed[f] = 0 /\ Unqueued(f)
                                                 THEN cursor[f].seq ELSE owed[f]], health)
              /\ UNCHANGED died
    /\ UNCHANGED <<cancelled, cursor, health, halted, blackout, queue, stopEvent, knVars, accepted,
                   started, faults, sent, printed, consumed, hidden>>

\* The frame is parsed: its events are enqueued one by one; a full queue
\* drops the event and tells the normalizer.
EndFrame ==
    /\ ws = "read" /\ batch # <<>>
    /\ ws' = "put"
    /\ UNCHANGED <<wsSame, move, queue, faults, died>>

\* After the head of the frame.
PutOn == IF Tail(batch) = <<>> THEN "read" ELSE "put"

DropsFrom(e) ==
    /\ owed' = Untold([owed EXCEPT ![e.feed] = IF @ = 0 THEN cursor[e.feed].seq ELSE @], health)
    /\ lostMark' = IF e.marks = {} THEN lostMark ELSE lostMark \cup {e.feed[1]}

\* Mutant: the full queue drops the event in silence.
DropEvent_Silent(e) == ws' = PutOn /\ UNCHANGED move /\ DropsFrom(e)

\* A full queue: the event is lost, and its symbol is told.
DropEvent(e) == notify_feed_interrupted({e.feed[1]}, PutOn) /\ DropsFrom(e)

_consume ==
    /\ ws = "put"
    /\ IF Len(queue) < MaxQueue
         THEN /\ queue' = Append(queue, Head(batch))
              /\ ws' = PutOn
              /\ UNCHANGED <<move, owed, lostMark>>
         ELSE /\ DropEvent(Head(batch))
              /\ UNCHANGED queue
    /\ batch' = Tail(batch)
    /\ UNCHANGED <<Shared, parsing, cancelled, faults, died>>

(***************************************************************************)
(* The kernel thread: _run_pipeline over events().  An empty queue yields  *)
(* an idle tick after a second, which is when the loop looks at the macro  *)
(* state again; it ends on a sentinel, on the stop event with an empty     *)
(* queue, or outside a trading mode.                                       *)
(***************************************************************************)
knRest == <<wsVars, cursor, stopEvent, accepted, started, faults, sent, printed, hidden, died>>

events ==
    /\ kn = "get" /\ queue # <<>>
    /\ queue' = Tail(queue)
    /\ LET e == Head(queue)
           status == classify_halt_status(e.marks)
       IN IF e = Sentinel \/ macro # "trading"
            THEN /\ kn' = "ended"
                 /\ lostMark' = IF status = "none" THEN lostMark ELSE lostMark \cup {e.feed[1]}
                 /\ UNCHANGED <<event, consumed>>
            ELSE /\ event' = e
                 /\ kn' = IF status = "none" THEN "gate" ELSE "store"
                 /\ consumed' = IF status = "none" THEN consumed
                                ELSE [consumed EXCEPT ![e.feed[1]] = status]
                 /\ UNCHANGED lostMark
    /\ UNCHANGED <<knRest, health, halted, blackout, knSync, announced, macro, flattened, owed>>

\* Mutant: an idle tick looks at the stop event only.
IdleTick_StopOnly ==
    /\ kn = "get" /\ queue = <<>> /\ stopEvent
    /\ kn' = "ended"
    /\ UNCHANGED <<knRest, health, halted, blackout, queue, knSync, event, announced, macro,
                   flattened, owed, consumed, lostMark>>

IdleTick ==
    /\ kn = "get" /\ queue = <<>>
    /\ stopEvent \/ macro # "trading"
    /\ kn' = "ended"
    /\ UNCHANGED <<knRest, health, halted, blackout, queue, knSync, event, announced, macro,
                   flattened, owed, consumed, lostMark>>

(***************************************************************************)
(* _update_halt_state: the kernel runs the same synchronisation for the    *)
(* print it now processes, then announces the episode once.                *)
(***************************************************************************)
knSame == <<knRest, queue, event, flattened, consumed, lostMark>>

Sym == event.feed[1]

_update_halt_state ==
    /\ kn = "store"
    /\ LET status == classify_halt_status(event.marks)
       IN /\ SyncStore(Sym, status)
          /\ knSync' = SyncTarget(Sym, status)
    /\ kn' = IF knSync' = NoSync THEN "announce" ELSE "check"
    /\ UNCHANGED <<knSame, health, announced, macro, owed>>

KernelCheck ==
    /\ kn = "check"
    /\ kn' = IF can_transition(health[Trade(Sym)], knSync.target) THEN "enter" ELSE "announce"
    /\ UNCHANGED <<knSame, health, halted, blackout, knSync, announced, macro, owed>>

KernelEnter ==
    /\ kn = "enter" /\ can_transition(health[Trade(Sym)], knSync.target)
    /\ kn' = "commit"
    /\ UNCHANGED <<knSame, health, halted, blackout, knSync, announced, macro, owed>>

KernelCommit ==
    /\ kn = "commit"
    /\ health' = [health EXCEPT ![Trade(Sym)] = knSync.target]
    /\ Settle
    /\ kn' = "announce"
    /\ UNCHANGED <<knSame, halted, blackout, knSync, announced, macro>>

KernelRaises ==
    /\ kn = "enter" /\ ~can_transition(health[Trade(Sym)], knSync.target)
    /\ kn' = "faulted" /\ macro' = "degraded"
    /\ UNCHANGED <<knSame, health, halted, blackout, knSync, announced, owed>>

_emit_symbol_halted ==
    /\ kn = "announce"
    /\ announced' = IF classify_halt_status(event.marks) = "HALT_ON"
                      THEN announced \cup {Sym} ELSE announced \ {Sym}
    /\ kn' = "gate"
    /\ UNCHANGED <<knSame, health, halted, blackout, knSync, macro, owed>>

(***************************************************************************)
(* _data_health_blocks_trading: a store and a machine that disagree are a  *)
(* kernel fault; a corrupted (or, if so configured, gapped) symbol is      *)
(* flattened and the session degraded; a halted symbol is passed over.     *)
(***************************************************************************)
_halt_health_xor_store(s) == (health[Trade(s)] = "HALTED") # (s \in halted)

Gate ==
    /\ kn = "gate"
    /\ IF _halt_health_xor_store(Sym)
         THEN kn' = "faulted" /\ macro' = "degraded"
         ELSE kn' = "judge" /\ UNCHANGED macro
    /\ UNCHANGED <<knSame, health, halted, blackout, knSync, announced, owed>>

AggregateHealth(s) == Worst({health[f] : f \in FeedsOf(s)})

Degrades(h) == h = "CORRUPTED" \/ (DegradeOnGap /\ h = "GAP_DETECTED")

Degrade ==
    /\ kn = "judge" /\ Degrades(AggregateHealth(Sym))
    /\ flattened' = flattened \cup {Sym}
    /\ macro' = IF macro = "trading" THEN "degraded" ELSE macro
    /\ kn' = "get"
    /\ UNCHANGED <<knRest, queue, event, consumed, lostMark, health, halted, blackout, knSync,
                   announced, owed>>

PassOver ==
    /\ kn = "judge"
    /\ \/ AggregateHealth(Sym) = "HALTED"
       \/ event.feed = Quote(Sym) /\ Sym \in halted /\ ~Degrades(AggregateHealth(Sym))
    /\ kn' = "get"
    /\ UNCHANGED <<knSame, health, halted, blackout, knSync, announced, macro, owed>>

\* Mutant: a degraded symbol is stopped, a halted one traded.
Process_IgnoresHalt ==
    /\ kn = "judge"
    /\ ~Degrades(AggregateHealth(Sym))
    /\ kn' = "get"
    /\ UNCHANGED <<knSame, health, halted, blackout, knSync, announced, macro, owed>>

\* The quote is walked, or the trade published and given to the router.
Process ==
    /\ kn = "judge"
    /\ ~Degrades(AggregateHealth(Sym)) /\ AggregateHealth(Sym) # "HALTED"
    /\ event.feed = Quote(Sym) => Sym \notin halted
    /\ kn' = "get"
    /\ UNCHANGED <<knSame, health, halted, blackout, knSync, announced, macro, owed>>

WebsocketThread ==
    \/ ImportWebsockets \/ _connect_with_retry \/ ConnectionClosed \/ ConnectionLost \/ BackoffEnds
    \/ \E f \in Feeds : MessageLost(f) \/ _mark_corrupted(f) \/ Accept(f)
    \/ _apply_halt_status_ws
    \/ MoveSkips \/ MoveAsks \/ MoveEnters \/ MoveCommits \/ MoveRaises
    \/ EndFrame \/ _consume \/ _run_loop

KernelThread ==
    \/ events \/ IdleTick
    \/ _update_halt_state \/ KernelCheck \/ KernelEnter \/ KernelCommit \/ KernelRaises
    \/ _emit_symbol_halted \/ Gate \/ Degrade \/ PassOver \/ Process

FeedNext == start \/ stop \/ halt \/ WebsocketThread \/ KernelThread

\* The kernel thread runs on: events() wakes every second.
FeedFairness == WF_feedVars(KernelThread)

FeedSpec == FeedInit /\ [][FeedNext]_feedVars /\ FeedFairness

FeedTypeOK ==
    /\ ws \in {"none", "import", "connect", "read", "store", "move", "enter", "commit", "put",
              "backoff", "leaving", "dead"}
    /\ kn \in {"off", "get", "store", "check", "enter", "commit", "announce", "gate", "judge",
               "ended", "faulted"}
    /\ health \in [Feeds -> DataHealth]
    /\ halted \subseteq Symbols /\ blackout \subseteq Symbols
    /\ announced \subseteq Symbols /\ flattened \subseteq Symbols
    /\ macro \in {"trading", "halted", "degraded"}
    /\ Len(queue) <= MaxQueue /\ stopEvent \in BOOLEAN /\ cancelled \in BOOLEAN

(***************************************************************************)
(* Properties.                                                             *)
(***************************************************************************)

\* A message that is lost on the wire, at the full queue or with a frame is
\* told: once the websocket thread is done with a later message of its feed,
\* the feed has left HEALTHY since (_check_gap, notify_feed_interrupted).  Two
\* losses are never told: one followed by a message that carries no number,
\* which forgets the last one, and a frame lost by a task that then ends.
LossTold ==
    ws \notin {"move", "enter", "commit"} =>
       \A f \in Feeds : owed[f] # 0 => cursor[f].seq <= owed[f]

\* The kernel walks a quote of a symbol whose last processed halt print
\* suspended it only when the websocket thread has already parsed the resume:
\* no interleaving of the two writers of the store opens an earlier window
\* (_sync_halt_store_and_health, _data_health_blocks_trading).
NoTradeInsideHalt ==
    [][(Process /\ event.feed = Quote(Sym)) =>
          ~(consumed[Sym] = "HALT_ON" /\ printed[Sym] = "HALT_ON")]_feedVars

\* When both threads are at rest and no halt print was lost between them, the
\* store and the trade-feed machine say what the last halt print said - unless
\* a gap or interruption report of the websocket thread, which had looked at
\* the machine before the kernel halted it, has overwritten HALTED.
AtRest ==
    kn = "get" /\ queue = <<>> /\ batch = <<>>
    /\ ws \in {"import", "connect", "read", "backoff", "leaving", "dead"}

HaltFollowsTape ==
    AtRest => \A s \in Symbols :
       (s \notin lostMark \cup hidden /\ health[Trade(s)] # "CORRUPTED") =>
          /\ s \in halted <=> printed[s] = "HALT_ON"
          /\ health[Trade(s)] = "HALTED" <=> s \in halted

\* A session in its trading mode sees the end of its market data only when
\* this run of the feed was stopped, or its task died of an exception: the
\* sentinel of an earlier run never ends a later session
\* (_drain_stale_sentinels, _run_loop).
EndsOnlyWhenStopped ==
    [][(kn = "get" /\ kn' = "ended" /\ macro = "trading") => stopEvent \/ died]_feedVars

\* A halted, degraded or stopped session leaves its loop, with a silent
\* market and a queue too full for the sentinel too (IdleTick).
SessionEnds ==
    (stopEvent \/ macro # "trading") ~> kn \in {"off", "ended", "faulted"}

\* Halts are told as the tape tells them, and nothing is walked inside one even
\* when the machine no longer says so
\* (Orchestrator._update_halt_state, _data_health_blocks_trading).
HaltsRespected == []HaltFollowsTape /\ NoTradeInsideHalt

\* A session in its trading mode ends when, and only when, it is stopped or the
\* task of its feed has died (massive_ws.stop, Orchestrator._run_pipeline).
EndsWhenStopped == EndsOnlyWhenStopped /\ SessionEnds
=============================================================================
