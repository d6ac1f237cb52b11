---------------------------- MODULE HorizonProofs ----------------------------
(* The decision pipeline for every universe, grid and set of alphas.         *)
EXTENDS Horizon, TLAPS

-----------------------------------------------------------------------------
(* The index HorizonScheduler computes is the last boundary at or before a   *)
(* time: the time is less than one horizon past it.                          *)
LEMMA DivFacts ==
    ASSUME NEW a \in Nat, NEW h \in Nat \ {0}
    PROVE  /\ a \div h \in Nat
           /\ (a \div h) * h <= a
           /\ a < (a \div h) * h + h
BY SMT

(* The freshness index reaches back two of any horizon of the grid.          *)
LEMMA BufferFacts ==
    /\ BufferWindow \in Nat
    /\ \A h \in Horizons : h \in Nat \ {0} /\ 2 * h <= BufferWindow
<1>1. /\ LongestHorizon \in Horizons
      /\ \A g \in Horizons : g <= LongestHorizon
  BY HorizonAssumption DEF LongestHorizon
<1>2. \A h \in Horizons : h \in Nat \ {0}
  BY HorizonAssumption
<1> QED
  BY <1>1, <1>2, SMT DEF BufferWindow

(* Every tick on_event returns is less than one horizon behind the event.    *)
LEMMA ScheduleFacts ==
    ASSUME TypeOK, NEW t \in Nat, Schedule(t), now' = t
    PROVE  /\ anchor' \in Nat \cup {None}
           /\ lastTick' \in [Horizons -> [Scopes -> Nat \cup {-1}]]
           /\ pend' \subseteq Horizons \X Scopes
           /\ PendingCrossed'
<1> DEFINE open == IF anchor = None THEN t ELSE anchor
           crossed == {p \in Horizons \X Scopes :
                           /\ t >= open
                           /\ Boundary(open, p[1], t) > lastTick[p[1]][p[2]]}
<1>1. open \in Nat /\ open # None
  BY HorizonAssumption DEF TypeOK
<1>2. /\ anchor' = open
      /\ pend' = crossed
      /\ lastTick' = [h \in Horizons |-> [x \in Scopes |->
             IF <<h, x>> \in crossed THEN Boundary(open, h, t) ELSE lastTick[h][x]]]
  BY DEF Schedule
<1>3. ASSUME NEW h \in Horizons, NEW x \in Scopes, <<h, x>> \in crossed
      PROVE  /\ Boundary(open, h, t) \in Nat
             /\ open + Boundary(open, h, t) * h <= t
             /\ t < open + Boundary(open, h, t) * h + h
  <2>1. t - open \in Nat /\ h \in Nat \ {0}
    BY <1>1, <1>3, HorizonAssumption
  <2>2. /\ (t - open) \div h \in Nat
        /\ ((t - open) \div h) * h <= t - open
        /\ t - open < ((t - open) \div h) * h + h
    BY <2>1, DivFacts
  <2> DEFINE q == (t - open) \div h
  <2>3. q * h \in Nat
    BY <2>1, <2>2, SMT
  <2> HIDE DEF open
  <2>4. /\ q \in Nat
        /\ open + q * h <= t
        /\ t < open + q * h + h
    BY <1>1, <2>1, <2>2, <2>3, SMT
  <2> QED
    BY <2>4 DEF Boundary
<1> HIDE DEF open, crossed
<1>4. lastTick' \in [Horizons -> [Scopes -> Nat \cup {-1}]]
  BY <1>2, <1>3 DEF TypeOK
<1>5. PendingCrossed'
  <2> SUFFICES ASSUME NEW p \in pend'
               PROVE  /\ anchor' # None
                      /\ lastTick'[p[1]][p[2]] \in Nat
                      /\ anchor' + lastTick'[p[1]][p[2]] * p[1] <= now'
                      /\ now' < anchor' + lastTick'[p[1]][p[2]] * p[1] + p[1]
    BY DEF PendingCrossed, BoundaryTime
  <2>1. PICK h \in Horizons, x \in Scopes : p = <<h, x>> /\ <<h, x>> \in crossed
    BY <1>2 DEF crossed
  <2>2. lastTick'[h][x] = Boundary(open, h, t)
    BY <1>2, <2>1
  <2> QED
    BY <1>1, <1>2, <1>3, <2>1, <2>2
<1>6. pend' \subseteq Horizons \X Scopes
  BY <1>2 DEF crossed
<1> QED
  BY <1>1, <1>2, <1>4, <1>5, <1>6

(* A reading keeps windows and index complete: what they evict is older than *)
(* what a boundary at the time of the reading can ask for.                   *)
LEMMA ObserveFacts ==
    ASSUME TypeOK, WindowsKept, FreshnessKept,
           NEW s \in Symbols, NEW t \in Nat, NEW kind \in Kinds,
           now <= t, now' = t,
           AggregatorObserves(s, t, kind),
           heard' = [heard EXCEPT ![s] = IF kind = "warm" THEN @ \cup {t} ELSE @]
    PROVE  /\ warmAt' \in [Symbols -> SUBSET Nat]
           /\ window' \in [Horizons -> [Symbols -> SUBSET Nat]]
           /\ heard' \in [Symbols -> SUBSET Nat]
           /\ WindowsKept'
           /\ FreshnessKept'
<1> DEFINE new == IF kind = "warm" THEN {t} ELSE {}
           kept == IF kind = "none" THEN warmAt[s] ELSE {x \in warmAt[s] \cup new : x >= t - BufferWindow}
<1>1. /\ heard' \in [Symbols -> SUBSET Nat]
      /\ heard'[s] = heard[s] \cup new
      /\ \A r \in Symbols \ {s} : heard'[r] = heard[r]
  BY DEF TypeOK
<1>2. /\ warmAt' = [warmAt EXCEPT ![s] = kept]
      /\ kind = "none" => new = {}
  BY DEF AggregatorObserves
<1>3. kept \in SUBSET Nat
  BY DEF TypeOK
<1>4. warmAt' \in [Symbols -> SUBSET Nat]
  BY <1>2, <1>3 DEF TypeOK
<1>5. FreshnessKept'
  <2> SUFFICES ASSUME NEW r \in Symbols
               PROVE  /\ warmAt'[r] \subseteq heard'[r]
                      /\ \A x \in heard'[r] : now' - BufferWindow <= x => x \in warmAt'[r]
    BY BufferFacts DEF FreshnessKept, BufferWindow
  <2>1. /\ warmAt[r] \subseteq heard[r]
        /\ \A x \in heard[r] : x \in Nat /\ (now - BufferWindow <= x => x \in warmAt[r])
    BY DEF FreshnessKept, TypeOK
  <2>2. now \in Nat /\ BufferWindow \in Nat
    BY BufferFacts DEF TypeOK
  <2>3. CASE r = s
    <3>1. warmAt'[r] = kept /\ heard'[r] = heard[r] \cup new
      BY <1>1, <1>2, <2>3 DEF TypeOK
    <3>2. \A x \in heard[r] : t - BufferWindow <= x => x \in warmAt[r]
      BY <2>1, <2>2
    <3>3. \A x \in new : x = t
      OBVIOUS
    <3> QED
      BY <1>2, <2>1, <2>2, <2>3, <3>1, <3>2, <3>3
  <2>4. CASE r # s
    <3>1. warmAt'[r] = warmAt[r] /\ heard'[r] = heard[r]
      BY <1>1, <1>2, <2>4 DEF TypeOK
    <3> QED
      BY <2>1, <2>2, <3>1
  <2> QED
    BY <2>3, <2>4
<1>6. ASSUME NEW h \in Horizons
      PROVE  /\ window'[h] \in [Symbols -> SUBSET Nat]
             /\ window'[h][s] = IF kind = "warm" THEN {x \in window[h][s] \cup {t} : x >= t - h}
                                ELSE window[h][s]
             /\ \A r \in Symbols \ {s} : window'[h][r] = window[h][r]
  <2>1. window[h] \in [Symbols -> SUBSET Nat]
    BY DEF TypeOK
  <2>2. CASE kind = "warm"
    <3>1. window'[h] = [window[h] EXCEPT ![s] = {x \in @ \cup {t} : x >= t - h}]
      BY <2>2 DEF AggregatorObserves
    <3> QED
      BY <2>1, <2>2, <3>1
  <2>3. CASE kind # "warm"
    BY <2>1, <2>3 DEF AggregatorObserves
  <2> QED
    BY <2>2, <2>3
<1>7. window' \in [Horizons -> [Symbols -> SUBSET Nat]]
  <2>1. window' = [h \in Horizons |-> window'[h]]
    BY DEF AggregatorObserves, TypeOK
  <2> QED
    BY <1>6, <2>1
<1>8. WindowsKept'
  <2> SUFFICES ASSUME NEW h \in Horizons, NEW r \in Symbols
               PROVE  /\ window'[h][r] \subseteq heard'[r]
                      /\ \A x \in heard'[r] : now' - h <= x => x \in window'[h][r]
    BY DEF WindowsKept
  <2>1. /\ window[h][r] \subseteq heard[r]
        /\ \A x \in heard[r] : x \in Nat /\ (now - h <= x => x \in window[h][r])
    BY DEF WindowsKept, TypeOK
  <2>2. now \in Nat /\ h \in Nat
    BY BufferFacts DEF TypeOK
  <2>3. \A x \in heard[r] : t - h <= x => x \in window[h][r]
    BY <2>1, <2>2
  <2>4. CASE r = s
    BY <1>1, <1>6, <2>1, <2>2, <2>3, <2>4
  <2>5. CASE r # s
    BY <1>1, <1>6, <2>1, <2>3, <2>5
  <2> QED
    BY <2>4, <2>5
<1> QED
  BY <1>1, <1>4, <1>5, <1>7, <1>8

\* The engine caches readings of the symbol only, two at most.
LEMMA CacheFacts ==
    ASSUME TypeOK, NEW s \in Symbols, NEW t \in Nat, NEW kind \in Kinds,
           EngineCaches(s, t, kind)
    PROVE  cache' \in [Symbols -> Seq(Nat)]
<1>1. cache[s] \in Seq(Nat)
  BY DEF TypeOK
<1>2. cache[s] # <<>> => cache[s][Len(cache[s])] \in Nat
  BY <1>1
<1>3. CASE kind = "none"
  BY <1>3 DEF EngineCaches, TypeOK
<1>4. CASE kind = "cold"
  <2>1. cache' = [cache EXCEPT ![s] = <<>>]
    BY <1>4 DEF EngineCaches
  <2>2. <<>> \in Seq(Nat)
    OBVIOUS
  <2> QED
    BY <2>1, <2>2 DEF TypeOK
<1>5. CASE kind = "warm"
  <2> DEFINE two == IF cache[s] = <<>> THEN <<t>> ELSE <<cache[s][Len(cache[s])], t>>
  <2>1. two \in Seq(Nat)
    BY <1>2
  <2>2. cache' = [cache EXCEPT ![s] = two]
    BY <1>5 DEF EngineCaches
  <2> QED
    BY <2>1, <2>2 DEF TypeOK
<1> QED
  BY <1>3, <1>4, <1>5 DEF Kinds

-----------------------------------------------------------------------------
(* What an event leaves for its ticks: shared by quotes and trades.          *)
LEMMA RunFacts ==
    ASSUME TypeOK, NEW s \in Symbols, NEW t \in Nat, NEW kind \in Kinds, Remember(s, t, kind)
    PROVE  run' \in [Symbols -> SUBSET Nat]
<1>1. run[s] \in SUBSET Nat
  BY DEF TypeOK
<1>2. CASE kind = "none"
  <2>1. run' = [run EXCEPT ![s] = run[s]]
    BY <1>2 DEF Remember
  <2> QED
    BY <1>1, <2>1 DEF TypeOK
<1>3. CASE kind = "cold"
  <2>1. run' = [run EXCEPT ![s] = {}]
    BY <1>3 DEF Remember
  <2> QED
    BY <2>1 DEF TypeOK
<1>4. CASE kind = "warm"
  <2>1. run' = [run EXCEPT ![s] = run[s] \cup {t}]
    BY <1>4 DEF Remember
  <2> QED
    BY <1>1, <2>1 DEF TypeOK
<1> QED
  BY <1>2, <1>3, <1>4 DEF Kinds

\* A quote that the kill switch, the data health or a halt stops.
LEMMA BlockedQuoteStep ==
    ASSUME IInv, NEW t \in 1..MaxTime, ReceiveBlockedQuote(t)
    PROVE  IInv'
<1> USE DEF IInv
<1>1. t \in Nat /\ now \in Nat /\ now <= t /\ now' = t /\ events' \in Nat /\ pend = {}
  BY HorizonAssumption DEF ReceiveBlockedQuote, Receive, TypeOK
<1>2. UNCHANGED <<inQuote, anchor, lastTick, pend, warmAt, window, snapAt, cache, regime, gate,
                  feed, emitted, book, filled, heard, run>>
  BY DEF ReceiveBlockedQuote, grid, features, engine, barrier, history
<1>3. TypeOK'
  BY <1>1, <1>2 DEF TypeOK, ReceiveBlockedQuote, Carried
<1>4. PendingCrossed' /\ FeedsFollowGates'
  BY <1>1, <1>2 DEF PendingCrossed, FeedsFollowGates
<1>5. FreshnessKept'
  <2>1. \A s \in Symbols : heard[s] \subseteq Nat
    BY DEF TypeOK
  <2>2. BufferWindow' = BufferWindow /\ BufferWindow \in Nat
    BY BufferFacts DEF BufferWindow, LongestHorizon
  <2>3. \A x \in Nat : now' - BufferWindow <= x => now - BufferWindow <= x
    BY <1>1, <2>2
  <2> QED
    BY <1>2, <2>1, <2>2, <2>3 DEF FreshnessKept
<1>6. WindowsKept'
  <2>1. \A s \in Symbols : heard[s] \subseteq Nat
    BY DEF TypeOK
  <2>2. \A h \in Horizons : \A x \in Nat : now' - h <= x => now - h <= x
    BY <1>1, BufferFacts
  <2> QED
    BY <1>2, <2>1, <2>2 DEF WindowsKept
<1> QED
  BY <1>3, <1>4, <1>5, <1>6

\* A quote.
LEMMA QuoteStep ==
    ASSUME IInv, NEW s \in Symbols, NEW t \in 1..MaxTime, NEW kind \in Kinds, NEW r \in Regimes,
           ReceiveQuote(s, t, kind, r)
    PROVE  IInv'
<1> USE HorizonAssumption DEF IInv
<1>1. t \in Nat /\ now <= t /\ now' = t /\ events' \in Nat
  BY DEF ReceiveQuote, Receive, TypeOK
<1>2. /\ anchor' \in Nat \cup {None}
      /\ lastTick' \in [Horizons -> [Scopes -> Nat \cup {-1}]]
      /\ pend' \subseteq Horizons \X Scopes
      /\ PendingCrossed'
  BY <1>1, ScheduleFacts DEF ReceiveQuote
<1>3. heard' = [heard EXCEPT ![s] = IF kind = "warm" THEN @ \cup {t} ELSE @]
  BY DEF ReceiveQuote, SensorFanOut, Remember
<1>4. /\ warmAt' \in [Symbols -> SUBSET Nat]
      /\ window' \in [Horizons -> [Symbols -> SUBSET Nat]]
      /\ heard' \in [Symbols -> SUBSET Nat]
      /\ WindowsKept'
      /\ FreshnessKept'
  BY <1>1, <1>3, ObserveFacts DEF ReceiveQuote, SensorFanOut
<1>5. cache' \in [Symbols -> Seq(Nat)] /\ run' \in [Symbols -> SUBSET Nat]
  BY <1>1, CacheFacts, RunFacts DEF ReceiveQuote, SensorFanOut
<1>6. FeedsFollowGates'
  BY DEF FeedsFollowGates, ReceiveQuote, barrier
<1>7. regime' \in [Symbols -> Regimes \cup {None}]
  BY DEF ReceiveQuote, TypeOK
<1>8. buffer' \subseteq Signal /\ inQuote' \in BOOLEAN
  BY DEF ReceiveQuote, Carried, TypeOK
<1>9. TypeOK'
  BY <1>1, <1>2, <1>4, <1>5, <1>7, <1>8 DEF TypeOK, ReceiveQuote, barrier
<1> QED
  BY <1>2, <1>4, <1>6, <1>9

\* A trade.
LEMMA TradeStep ==
    ASSUME IInv, NEW s \in Symbols, NEW t \in 1..MaxTime, NEW kind \in Kinds,
           ReceiveTrade(s, t, kind)
    PROVE  IInv'
<1> USE HorizonAssumption DEF IInv
<1>1. t \in Nat /\ now <= t /\ now' = t /\ events' \in Nat /\ pend = {}
  BY DEF ReceiveTrade, Receive, TypeOK
<1>2. /\ anchor' \in Nat \cup {None}
      /\ lastTick' \in [Horizons -> [Scopes -> Nat \cup {-1}]]
      /\ pend' \subseteq Horizons \X Scopes
      /\ PendingCrossed'
  <2>1. CASE regime[s] # None
    BY <1>1, <2>1, ScheduleFacts DEF ReceiveTrade
  <2>2. CASE regime[s] = None
    <3>1. pend' = {} /\ anchor' = anchor /\ lastTick' = lastTick
      BY <1>1, <2>2 DEF ReceiveTrade, grid
    <3> QED
      BY <3>1 DEF PendingCrossed, TypeOK
  <2> QED
    BY <2>1, <2>2
<1>3. heard' = [heard EXCEPT ![s] = IF kind = "warm" THEN @ \cup {t} ELSE @]
  BY DEF ReceiveTrade, SensorFanOut, Remember
<1>4. /\ warmAt' \in [Symbols -> SUBSET Nat]
      /\ window' \in [Horizons -> [Symbols -> SUBSET Nat]]
      /\ heard' \in [Symbols -> SUBSET Nat]
      /\ WindowsKept'
      /\ FreshnessKept'
  BY <1>1, <1>3, ObserveFacts DEF ReceiveTrade, SensorFanOut
<1>5. cache' \in [Symbols -> Seq(Nat)] /\ run' \in [Symbols -> SUBSET Nat]
  BY <1>1, CacheFacts, RunFacts DEF ReceiveTrade, SensorFanOut
<1>6. FeedsFollowGates'
  BY DEF FeedsFollowGates, ReceiveTrade, barrier
<1>7. TypeOK'
  BY <1>1, <1>2, <1>4, <1>5 DEF TypeOK, ReceiveTrade, barrier, kernel
<1> QED
  BY <1>2, <1>4, <1>6, <1>7

\* A print of a halted symbol.
LEMMA HaltedTradeStep ==
    ASSUME IInv, NEW s \in Symbols, NEW t \in 1..MaxTime, NEW kind \in Kinds,
           ReceiveHaltedTrade(s, t, kind)
    PROVE  IInv'
<1> USE HorizonAssumption DEF IInv
<1>1. t \in Nat /\ now <= t /\ now' = t /\ events' \in Nat /\ pend = {}
  BY DEF ReceiveHaltedTrade, Receive, TypeOK
<1>2. pend' = {} /\ anchor' = anchor /\ lastTick' = lastTick
  BY <1>1 DEF ReceiveHaltedTrade, grid
<1>3. /\ warmAt' \in [Symbols -> SUBSET Nat]
      /\ window' \in [Horizons -> [Symbols -> SUBSET Nat]]
      /\ heard' \in [Symbols -> SUBSET Nat]
      /\ WindowsKept'
      /\ FreshnessKept'
  BY <1>1, ObserveFacts DEF ReceiveHaltedTrade
<1>4. cache' \in [Symbols -> Seq(Nat)]
  BY <1>1, CacheFacts DEF ReceiveHaltedTrade
<1>5. run' \in [Symbols -> SUBSET Nat]
  BY DEF ReceiveHaltedTrade, TypeOK
<1>6. FeedsFollowGates'
  BY DEF FeedsFollowGates, ReceiveHaltedTrade, barrier
<1>7. PendingCrossed'
  BY <1>2 DEF PendingCrossed
<1>8. TypeOK'
  BY <1>1, <1>2, <1>3, <1>4, <1>5 DEF TypeOK, ReceiveHaltedTrade, barrier, kernel
<1> QED
  BY <1>3, <1>6, <1>7, <1>8

-----------------------------------------------------------------------------
(* The stamp of a signal, with its Boolean field named.                      *)
LEMMA StampFacts ==
    ASSUME TypeOK, NEW p \in Slices, NEW dir \in {"ENTRY", "FLAT"}
    PROVE  /\ Stamp(p, dir) \in Signal
           /\ Stamp(p, dir).alpha = p[1]
           /\ Stamp(p, dir).symbol = p[2]
           /\ Stamp(p, dir).dir = dir
<1>1. PICK b \in BOOLEAN : b = ~inQuote
  OBVIOUS
<1>2. now \in Nat /\ p[1] \in Alphas /\ p[2] \in Symbols
  BY DEF TypeOK, Slices
<1>3. Stamp(p, dir) = [alpha |-> p[1], symbol |-> p[2], dir |-> dir, at |-> now, carry |-> b]
  BY <1>1, Zenon DEF Stamp
<1> QED
  BY <1>2, <1>3 DEF Signal

(* Dispatch publishes signals of slices only, and a closed gate's feeder is  *)
(* overwritten by its FLAT.                                                  *)
LEMMA DispatchFacts ==
    ASSUME TypeOK, FeedsFollowGates, NEW h, NEW syms, NEW asof, Dispatch(h, syms, asof)
    PROVE  /\ gate' \subseteq Slices
           /\ feed' \in [Upstream \X Symbols -> Signal \cup {None}]
           /\ buffer' \subseteq Signal
           /\ FeedsFollowGates'
<1> USE HorizonAssumption
<1> DEFINE closed == Closing(h, syms, asof)
           flats == {p \in closed : p[1] \notin Decoupled}
<1>1. /\ gate' = (gate \ closed) \cup Arming(h, syms, asof)
      /\ gate' \subseteq Slices
  BY DEF Dispatch, Arming, Dispatched, TypeOK
<1>2. PICK entries \in SUBSET {p \in Dispatched(h, syms) : p \in gate' /\ Ready(h, p[2], asof)} :
          PublishSignals(entries, flats)
  BY DEF Dispatch
<1>3. entries \subseteq Slices /\ entries \subseteq gate' /\ flats \subseteq Slices
  BY <1>2 DEF Dispatched, Closing
<1>4. feed' = [p \in Upstream \X Symbols |->
                 IF p \in flats THEN Stamp(p, "FLAT")
                 ELSE IF p \in entries THEN Stamp(p, "ENTRY") ELSE feed[p]]
  BY <1>2 DEF PublishSignals
<1>5. buffer' = buffer
           \cup {Stamp(p, "ENTRY") : p \in {q \in entries : q[1] \notin Upstream}}
           \cup {Stamp(p, "FLAT") : p \in {q \in flats : q[1] \notin Upstream /\ ~Redundant(q)}}
  BY <1>2 DEF PublishSignals
<1> HIDE DEF closed, flats
<1>6. \A p \in Slices :
          /\ Stamp(p, "ENTRY") \in Signal /\ Stamp(p, "ENTRY").alpha = p[1]
          /\ Stamp(p, "ENTRY").symbol = p[2]
          /\ Stamp(p, "FLAT") \in Signal /\ Stamp(p, "FLAT").alpha = p[1]
          /\ Stamp(p, "FLAT").symbol = p[2] /\ Stamp(p, "FLAT").dir = "FLAT"
  BY StampFacts
<1>7. buffer' \subseteq Signal
  <2>1. buffer \subseteq Signal
    BY DEF TypeOK
  <2>2. {Stamp(p, "ENTRY") : p \in {q \in entries : q[1] \notin Upstream}} \subseteq Signal
    BY <1>3, <1>6
  <2>3. {Stamp(p, "FLAT") : p \in {q \in flats : q[1] \notin Upstream /\ ~Redundant(q)}} \subseteq Signal
    BY <1>3, <1>6
  <2> QED
    BY <1>5, <2>1, <2>2, <2>3, Zenon
<1>8. feed' \in [Upstream \X Symbols -> Signal \cup {None}]
  BY <1>3, <1>4, <1>6 DEF TypeOK
<1>9. FeedsFollowGates'
  <2> SUFFICES ASSUME NEW p \in Upstream \X Symbols, feed'[p] # None
               PROVE  /\ feed'[p].alpha = p[1] /\ feed'[p].symbol = p[2]
                      /\ (feed'[p].dir = "ENTRY" /\ p[1] \notin Decoupled => p \in gate')
    BY DEF FeedsFollowGates
  <2>1. CASE p \in flats
    BY <1>3, <1>4, <1>6, <2>1
  <2>2. CASE p \notin flats /\ p \in entries
    BY <1>3, <1>4, <1>6, <2>2
  <2>3. CASE p \notin flats /\ p \notin entries
    <3>1. feed'[p] = feed[p]
      BY <1>4, <2>3
    <3>2. feed[p].alpha = p[1] /\ feed[p].symbol = p[2]
      BY <3>1 DEF FeedsFollowGates
    <3>3. feed[p].dir = "ENTRY" /\ p[1] \notin Decoupled => p \in gate
      BY <3>1 DEF FeedsFollowGates
    <3>4. p[1] \notin Decoupled => p \notin closed
      BY <2>3 DEF flats
    <3> QED
      BY <1>1, <3>1, <3>2, <3>3, <3>4 DEF closed
  <2> QED
    BY <2>1, <2>2, <2>3
<1> QED
  BY <1>1, <1>7, <1>8, <1>9

\* A boundary of a horizon.
LEMMA TickStep ==
    ASSUME IInv, NEW h \in Horizons, NEW x \in Scopes, PublishTick(h, x)
    PROVE  IInv'
<1> USE HorizonAssumption DEF IInv
<1> DEFINE asof == BoundaryTime(h, x)
           todo == Targets(h, x)
<1>1. <<h, x>> \in pend /\ pend' \subseteq pend
  BY DEF PublishTick, NextTick
<1>2. /\ anchor # None /\ anchor \in Nat /\ lastTick[h][x] \in Nat
      /\ asof <= now /\ h \in Nat /\ now \in Nat
  BY <1>1, BufferFacts DEF PendingCrossed, TypeOK
<1>3. asof \in Int
  BY <1>2 DEF BoundaryTime
<1>4. /\ window' = [window EXCEPT ![h] =
             [s \in Symbols |-> IF s \in todo THEN Evicted(h, s, asof) ELSE @[s]]]
      /\ snapAt' = [snapAt EXCEPT ![h] =
             [s \in Symbols |-> IF s \in todo THEN lastTick[h][x] ELSE @[s]]]
      /\ Dispatch(h, todo, asof)
  BY DEF PublishTick, Aggregate
<1> HIDE DEF asof, todo
<1>5. /\ gate' \subseteq Slices
      /\ feed' \in [Upstream \X Symbols -> Signal \cup {None}]
      /\ buffer' \subseteq Signal
      /\ FeedsFollowGates'
  BY <1>4, DispatchFacts
<1>6. snapAt' \in [Horizons -> [Symbols -> Nat \cup {-1}]]
  BY <1>2, <1>4 DEF TypeOK
<1>7. \A s \in Symbols : Evicted(h, s, asof) \in SUBSET Nat
  BY DEF Evicted, TypeOK
<1>8. window' \in [Horizons -> [Symbols -> SUBSET Nat]]
  BY <1>4, <1>7 DEF TypeOK
<1>9. emitted' \subseteq ContextHorizons \X Nat
  BY <1>2 DEF PublishTick, TypeOK
<1>10. /\ now' = now /\ events' = events /\ inQuote' = inQuote /\ anchor' = anchor
       /\ lastTick' = lastTick /\ warmAt' = warmAt /\ cache' = cache /\ regime' = regime
       /\ book' = book /\ filled' = filled /\ heard' = heard /\ run' = run
  BY DEF PublishTick, history
<1>11. TypeOK'
  BY <1>1, <1>5, <1>6, <1>8, <1>9, <1>10 DEF TypeOK
<1>12. PendingCrossed'
  BY <1>1, <1>10 DEF PendingCrossed, BoundaryTime
<1>13. FreshnessKept'
  BY <1>10 DEF FreshnessKept
<1>14. WindowsKept'
  <2> SUFFICES ASSUME NEW g \in Horizons, NEW s \in Symbols
               PROVE  /\ window'[g][s] \subseteq heard[s]
                      /\ \A y \in heard[s] : now - g <= y => y \in window'[g][s]
    BY <1>10 DEF WindowsKept
  <2>1. /\ window[g][s] \subseteq heard[s]
        /\ \A y \in heard[s] : y \in Nat /\ (now - g <= y => y \in window[g][s])
    BY DEF WindowsKept, TypeOK
  <2>2. CASE g = h /\ s \in todo
    <3>1. window'[g][s] = {y \in window[h][s] : y >= asof - h}
      BY <1>4, <2>2 DEF Evicted, TypeOK
    <3> QED
      BY <1>2, <1>3, <2>1, <2>2, <3>1
  <2>3. CASE ~(g = h /\ s \in todo)
    <3>1. window'[g][s] = window[g][s]
      BY <1>4, <2>3 DEF TypeOK
    <3> QED
      BY <2>1, <3>1
  <2> QED
    BY <2>2, <2>3
<1> QED
  BY <1>5, <1>11, <1>12, <1>13, <1>14

\* The signals of a boundary are arbitrated.
LEMMA ArbitrateStep ==
    ASSUME IInv, Arbitrate
    PROVE  IInv'
<1> USE HorizonAssumption DEF IInv
<1>1. /\ now' = now /\ events' = events /\ inQuote' = FALSE /\ buffer' = {}
      /\ UNCHANGED <<anchor, lastTick, pend, warmAt, window, snapAt, cache, regime, gate,
                     feed, emitted, heard, run>>
  BY DEF Arbitrate, grid, features, engine, barrier, history
<1>2. book' \in [Symbols -> Alphas \cup {None}] /\ filled' \subseteq Slices
  <2>1. PICK win \in Winners({g \in buffer : Actionable(g)}) :
           \/ UNCHANGED <<book, filled>>
           \/ /\ win # None
              /\ book' = [book EXCEPT ![win.symbol] = None]
              /\ UNCHANGED filled
           \/ /\ win # None
              /\ book' = [book EXCEPT ![win.symbol] = win.alpha]
              /\ filled' = filled \cup {<<win.alpha, win.symbol>>}
    BY Zenon DEF Arbitrate
  <2>2. win # None => win \in Signal
    BY DEF Winners, TypeOK
  <2>3. win # None => win.alpha \in Alphas /\ win.symbol \in Symbols
    BY <2>2 DEF Signal
  <2>4. book \in [Symbols -> Alphas \cup {None}] /\ filled \subseteq Slices
    BY DEF TypeOK
  <2>5. CASE UNCHANGED <<book, filled>>
    BY <2>4, <2>5
  <2>6. CASE /\ win # None
             /\ book' = [book EXCEPT ![win.symbol] = None]
             /\ UNCHANGED filled
    BY <2>4, <2>6
  <2>7. CASE /\ win # None
             /\ book' = [book EXCEPT ![win.symbol] = win.alpha]
             /\ filled' = filled \cup {<<win.alpha, win.symbol>>}
    BY <2>3, <2>4, <2>7 DEF Slices
  <2> QED
    BY <2>1, <2>5, <2>6, <2>7
<1>3. TypeOK'
  BY <1>1, <1>2 DEF TypeOK
<1>4. PendingCrossed' /\ WindowsKept' /\ FreshnessKept' /\ FeedsFollowGates'
  BY <1>1 DEF PendingCrossed, BoundaryTime, WindowsKept, FreshnessKept, FeedsFollowGates
<1> QED
  BY <1>3, <1>4

\* The invariant holds initially.
LEMMA InitIInv == Init => IInv
<1> SUFFICES ASSUME Init PROVE IInv
  OBVIOUS
<1>1. TypeOK
  <2>1. <<>> \in Seq(Nat)
    OBVIOUS
  <2> QED
    BY <2>1, HorizonAssumption DEF Init, TypeOK, Slices, Scopes
<1>2. PendingCrossed /\ WindowsKept /\ FreshnessKept /\ FeedsFollowGates
  BY DEF Init, PendingCrossed, WindowsKept, FreshnessKept, FeedsFollowGates
<1> QED
  BY <1>1, <1>2 DEF IInv

\* Every step keeps the invariant.
LEMMA NextIInv == IInv /\ [Next]_vars => IInv'
<1> SUFFICES ASSUME IInv, [Next]_vars PROVE IInv'
  OBVIOUS
<1>1. ASSUME NEW s \in Symbols, NEW t \in 1..MaxTime, NEW kind \in Kinds,
             \/ \E r \in Regimes : ReceiveQuote(s, t, kind, r)
             \/ ReceiveTrade(s, t, kind)
             \/ ReceiveHaltedTrade(s, t, kind)
      PROVE  IInv'
  BY <1>1, QuoteStep, TradeStep, HaltedTradeStep
<1>2. ASSUME NEW h \in Horizons, NEW x \in Scopes, PublishTick(h, x) PROVE IInv'
  BY <1>2, TickStep
<1>3. CASE Arbitrate
  BY <1>3, ArbitrateStep
<1>4. ASSUME NEW t \in 1..MaxTime, ReceiveBlockedQuote(t) PROVE IInv'
  BY <1>4, BlockedQuoteStep
<1>5. CASE UNCHANGED vars
  BY <1>5 DEF vars, grid, features, engine, barrier, kernel, output, history, IInv, TypeOK,
              PendingCrossed, BoundaryTime, WindowsKept, FreshnessKept, FeedsFollowGates
<1> QED
  BY <1>1, <1>2, <1>3, <1>4, <1>5 DEF Next

(* Scheduler, aggregator, engine and synchronizer stay in agreement, for     *)
(* every universe, grid of horizons and set of alphas.                       *)
THEOREM InductiveInvariant == Spec => []IInv
  BY InitIInv, NextIInv, PTL DEF Spec

-----------------------------------------------------------------------------
(* Only a tick publishes snapshots, contexts and safety changes, and only it *)
(* moves a gate.                                                             *)
LEMMA StepKinds ==
    ASSUME [Next]_vars
    PROVE  \/ made' = {} /\ announced' = {} /\ context' = None /\ gate' = gate
           \/ \E h \in Horizons, x \in Scopes : PublishTick(h, x)
           \/ UNCHANGED vars
<1>1. ASSUME NEW s \in Symbols, NEW t \in 1..MaxTime, NEW kind \in Kinds, NEW r \in Regimes,
             ReceiveQuote(s, t, kind, r)
      PROVE  made' = {} /\ announced' = {} /\ context' = None /\ gate' = gate
  BY <1>1 DEF ReceiveQuote, Receive, Silent
<1>2. ASSUME NEW t \in 1..MaxTime, ReceiveBlockedQuote(t)
      PROVE  made' = {} /\ announced' = {} /\ context' = None /\ gate' = gate
  BY <1>2 DEF ReceiveBlockedQuote, Receive, Silent, engine
<1>3. ASSUME NEW s \in Symbols, NEW t \in 1..MaxTime, NEW kind \in Kinds,
             ReceiveTrade(s, t, kind) \/ ReceiveHaltedTrade(s, t, kind)
      PROVE  made' = {} /\ announced' = {} /\ context' = None /\ gate' = gate
  BY <1>3 DEF ReceiveTrade, ReceiveHaltedTrade, Receive, Silent
<1>4. ASSUME Arbitrate
      PROVE  made' = {} /\ announced' = {} /\ context' = None /\ gate' = gate
  BY <1>4 DEF Arbitrate, engine
<1> QED
  BY <1>1, <1>2, <1>3, <1>4 DEF Next

(* The fields of a snapshot, with the Boolean one named.                     *)
LEMMA SnapshotFacts ==
    ASSUME NEW h, NEW s, NEW b, NEW asof
    PROVE  /\ Snapshot(h, s, b, asof).horizon = h
           /\ Snapshot(h, s, b, asof).symbol = s
           /\ Snapshot(h, s, b, asof).asof = asof
           /\ Snapshot(h, s, b, asof).uses = Live(h, s, asof)
           /\ Snapshot(h, s, b, asof).stale <=> Stale(h, s, asof)
<1>1. PICK z \in BOOLEAN : z = Stale(h, s, asof)
  BY Zenon DEF Stale
<1>2. Snapshot(h, s, b, asof) = [horizon |-> h, symbol |-> s, boundary |-> b, asof |-> asof,
                                 uses |-> Live(h, s, asof), stale |-> z]
  BY <1>1, Zenon DEF Snapshot
<1>3. Snapshot(h, s, b, asof).stale = z
  BY <1>2
<1>4. Snapshot(h, s, b, asof).stale <=> Stale(h, s, asof)
  BY <1>1, <1>3, Zenon
<1> QED
  BY <1>2, <1>4

(* What the theorems need of a tick: its boundary is at or before the event, *)
(* less than one horizon back.                                               *)
LEMMA TickFacts ==
    ASSUME IInv, NEW h \in Horizons, NEW x \in Scopes, PublishTick(h, x)
    PROVE  /\ h \in Nat \ {0} /\ now \in Nat /\ BoundaryTime(h, x) \in Nat
           /\ BoundaryTime(h, x) <= now /\ now < BoundaryTime(h, x) + h
           /\ now' = now /\ heard' = heard
           /\ made' = {Snapshot(h, s, lastTick[h][x], BoundaryTime(h, x)) : s \in Targets(h, x)}
           /\ Targets(h, x) \subseteq Symbols
<1>1. <<h, x>> \in pend
  BY DEF PublishTick, NextTick
<1>2. /\ anchor # None /\ lastTick[h][x] \in Nat
      /\ BoundaryTime(h, x) <= now /\ now < BoundaryTime(h, x) + h
  BY <1>1 DEF IInv, PendingCrossed
<1>3. anchor \in Nat /\ now \in Nat /\ h \in Nat \ {0}
  BY <1>2, BufferFacts DEF IInv, TypeOK
<1>4. BoundaryTime(h, x) \in Nat
  BY <1>2, <1>3, SMT DEF BoundaryTime
<1> QED
  BY <1>2, <1>3, <1>4 DEF PublishTick, Aggregate, Targets, history

(* No feature ever sees past its boundary, and none misses a reading of the  *)
(* horizon before the event, for every grid and every course of events.      *)
THEOREM WindowTheorem == Spec => []WindowCausal
<1>1. Init => WindowCausal
  BY DEF Init, WindowCausal
<1>2. ASSUME IInv, WindowCausal, [Next]_vars PROVE WindowCausal'
  <2>1. CASE made' = {}
    BY <2>1 DEF WindowCausal
  <2>2. ASSUME NEW h \in Horizons, NEW x \in Scopes, PublishTick(h, x) PROVE WindowCausal'
    <3> DEFINE asof == BoundaryTime(h, x)
    <3> SUFFICES ASSUME NEW n \in made'
                 PROVE  /\ n.uses \subseteq {y \in heard[n.symbol] : n.asof - n.horizon <= y /\ y <= n.asof}
                        /\ {y \in heard[n.symbol] : now - n.horizon <= y /\ y <= n.asof} \subseteq n.uses
      BY <1>2, <2>2, TickFacts DEF WindowCausal
    <3>1. PICK s \in Symbols : n = Snapshot(h, s, lastTick[h][x], asof)
      BY <1>2, <2>2, TickFacts
    <3>2. n.symbol = s /\ n.horizon = h /\ n.asof = asof /\ n.uses = Live(h, s, asof)
      BY <3>1, SnapshotFacts
    <3>3. /\ window[h][s] \subseteq heard[s]
          /\ \A y \in heard[s] : y \in Nat /\ (now - h <= y => y \in window[h][s])
      BY <1>2 DEF IInv, WindowsKept, TypeOK
    <3>4. h \in Nat /\ now \in Nat /\ asof \in Nat /\ asof <= now
      BY <1>2, <2>2, TickFacts
    <3> HIDE DEF asof
    <3> QED
      BY <3>2, <3>3, <3>4 DEF Live, Evicted
  <2>3. CASE UNCHANGED vars
    BY <1>2, <2>3 DEF WindowCausal, vars, output, history
  <2> QED
    BY <1>2, <2>1, <2>2, <2>3, StepKinds
<1> QED
  BY <1>1, <1>2, InductiveInvariant, PTL DEF Spec

(* Two of the longest horizons are enough: the pruned index decides          *)
(* staleness as the whole history would, for every grid.                     *)
THEOREM StaleTheorem == Spec => []StaleExact
<1>1. Init => StaleExact
  BY DEF Init, StaleExact
<1>2. ASSUME IInv, StaleExact, [Next]_vars PROVE StaleExact'
  <2>1. CASE made' = {}
    BY <2>1 DEF StaleExact
  <2>2. ASSUME NEW h \in Horizons, NEW x \in Scopes, PublishTick(h, x) PROVE StaleExact'
    <3> DEFINE asof == BoundaryTime(h, x)
    <3> SUFFICES ASSUME NEW n \in made'
                 PROVE  n.stale <=> \A y \in heard[n.symbol] : y > n.asof \/ n.asof - y > n.horizon
      BY <1>2, <2>2, TickFacts DEF StaleExact
    <3>1. PICK s \in Symbols : n = Snapshot(h, s, lastTick[h][x], asof)
      BY <1>2, <2>2, TickFacts
    <3>2. n.symbol = s /\ n.horizon = h /\ n.asof = asof /\ (n.stale <=> Stale(h, s, asof))
      BY <3>1, SnapshotFacts
    <3>3. /\ warmAt[s] \subseteq heard[s]
          /\ \A y \in heard[s] : y \in Nat /\ (now - BufferWindow <= y => y \in warmAt[s])
      BY <1>2 DEF IInv, FreshnessKept, TypeOK
    <3>4. /\ h \in Nat /\ now \in Nat /\ asof \in Nat /\ now < asof + h
          /\ BufferWindow \in Nat /\ 2 * h <= BufferWindow
      BY <1>2, <2>2, TickFacts, BufferFacts
    <3> HIDE DEF asof
    <3>5. Stale(h, s, asof) <=> \A y \in heard[s] : y > asof \/ asof - y > h
      <4>1. Stale(h, s, asof) <=> \A y \in warmAt[s] : y <= asof => asof - y > h
        BY DEF Stale
      <4>2. \A y \in heard[s] : y <= asof /\ ~(asof - y > h) => y \in warmAt[s]
        BY <3>3, <3>4
      <4>3. \A y \in heard[s] : y > asof \/ y <= asof
        BY <3>3, <3>4
      <4>4. \A y \in heard[s] : ~(y > asof /\ y <= asof)
        BY <3>3, <3>4
      <4> QED
        BY <3>3, <4>1, <4>2, <4>3, <4>4, Zenon
    <3> QED
      BY <3>2, <3>5, Zenon
  <2>3. CASE UNCHANGED vars
    BY <1>2, <2>3 DEF StaleExact, vars, output, history
  <2> QED
    BY <1>2, <2>1, <2>2, <2>3, StepKinds
<1> QED
  BY <1>1, <1>2, InductiveInvariant, PTL DEF Spec

(* A context is made by a UNIVERSE tick from the snapshots and feeders that  *)
(* the same tick leaves.                                                     *)
LEMMA ContextFacts ==
    ASSUME NEW h \in Horizons, NEW x \in Scopes, PublishTick(h, x), context' # None
    PROVE  /\ x = Universe
           /\ context'.missing = {s \in Symbols : snapAt'[h][s] < lastTick[h][x]}
           /\ context'.signals \subseteq {feed'[p] : p \in {q \in Upstream \X Symbols : feed'[q] # None}}
<1>1. x = Universe /\ EmitContext(h, lastTick[h][x])
  BY DEF PublishTick
<1>2. PICK intent :
          context' = [horizon |-> h, boundary |-> lastTick[h][x],
                      missing |-> {s \in Symbols : snapAt'[h][s] < lastTick[h][x]},
                      signals |-> {feed'[p] : p \in
                                      {q \in Upstream \X Symbols : q[1] \in Feeders(h, q[2])}},
                      intent |-> intent]
  BY <1>1, Zenon DEF EmitContext
<1>3. /\ context'.missing = {s \in Symbols : snapAt'[h][s] < lastTick[h][x]}
      /\ context'.signals = {feed'[p] : p \in {q \in Upstream \X Symbols : q[1] \in Feeders(h, q[2])}}
  BY <1>2
<1>4. ASSUME NEW q \in Upstream \X Symbols, q[1] \in Feeders(h, q[2])
      PROVE  feed'[q] # None
  <2>1. feed'[<<q[1], q[2]>>] # None
    BY <1>4 DEF Feeders
  <2>2. q = <<q[1], q[2]>>
    OBVIOUS
  <2> QED
    BY <2>1, <2>2
<1> QED
  BY <1>1, <1>3, <1>4

(* No barrier is ever emitted with a symbol's snapshot missing, for every    *)
(* universe and grid.                                                        *)
THEOREM BarrierTheorem == Spec => []BarrierComplete
<1>1. Init => BarrierComplete
  BY DEF Init, BarrierComplete
<1>2. ASSUME IInv, BarrierComplete, [Next]_vars PROVE BarrierComplete'
  <2>1. CASE context' = None
    BY <2>1 DEF BarrierComplete
  <2>2. ASSUME NEW h \in Horizons, NEW x \in Scopes, PublishTick(h, x), context' # None
        PROVE  BarrierComplete'
    <3>1. x = Universe /\ context'.missing = {s \in Symbols : snapAt'[h][s] < lastTick[h][x]}
      BY <2>2, ContextFacts
    <3>2. /\ snapAt[h] \in [Symbols -> Nat \cup {-1}]
          /\ lastTick[h][x] \in Nat \cup {-1}
          /\ snapAt \in [Horizons -> [Symbols -> Nat \cup {-1}]]
      BY <1>2 DEF IInv, TypeOK
    <3>3. snapAt' = [snapAt EXCEPT ![h] =
               [s \in Symbols |-> IF s \in Targets(h, x) THEN lastTick[h][x] ELSE @[s]]]
      BY <2>2 DEF PublishTick, Aggregate
    <3>4. \A s \in Symbols : s \in Targets(h, x) <=> snapAt[h][s] < lastTick[h][x]
      BY <3>1 DEF Targets
    <3>5. \A s \in Symbols : ~(snapAt'[h][s] < lastTick[h][x])
      BY <3>2, <3>3, <3>4
    <3> QED
      BY <3>1, <3>5 DEF BarrierComplete
  <2>3. CASE UNCHANGED vars
    BY <1>2, <2>3 DEF BarrierComplete, vars, output
  <2> QED
    BY <1>2, <2>1, <2>2, <2>3, StepKinds
<1> QED
  BY <1>1, <1>2, InductiveInvariant, PTL DEF Spec

(* A snapshot says what was heard up to its boundary, all of it and nothing   *)
(* later, and a context misses none (_build_snapshot, _emit_context).         *)
THEOREM SnapshotsTheorem == Spec => []SnapshotsFaithful
  BY WindowTheorem, StaleTheorem, BarrierTheorem, PTL DEF SnapshotsFaithful

(* A PORTFOLIO alpha is never handed an entry whose gate has closed, for     *)
(* every set of alphas and every horizon they feed.                          *)
THEOREM NoEntryTheorem == Spec => []NoEntryAfterClose
<1>1. Init => NoEntryAfterClose
  BY DEF Init, NoEntryAfterClose
<1>2. ASSUME IInv, IInv', NoEntryAfterClose, [Next]_vars PROVE NoEntryAfterClose'
  <2>1. CASE context' = None
    BY <2>1 DEF NoEntryAfterClose
  <2>2. ASSUME NEW h \in Horizons, NEW x \in Scopes, PublishTick(h, x), context' # None
        PROVE  NoEntryAfterClose'
    <3> SUFFICES ASSUME NEW g \in context'.signals, g.dir = "ENTRY", g.alpha \notin Decoupled
                 PROVE  <<g.alpha, g.symbol>> \in gate'
      BY DEF NoEntryAfterClose
    <3>1. PICK p \in Upstream \X Symbols : g = feed'[p] /\ feed'[p] # None
      BY <2>2, ContextFacts
    <3>2. /\ feed'[p].alpha = p[1] /\ feed'[p].symbol = p[2]
          /\ (feed'[p].dir = "ENTRY" /\ p[1] \notin Decoupled => p \in gate')
      BY <1>2, <3>1 DEF IInv, FeedsFollowGates
    <3>3. p = <<p[1], p[2]>>
      OBVIOUS
    <3> QED
      BY <3>1, <3>2, <3>3
  <2>3. CASE UNCHANGED vars
    BY <1>2, <2>3 DEF NoEntryAfterClose, vars, output, engine
  <2> QED
    BY <1>2, <2>1, <2>2, <2>3, StepKinds
<1> QED
  BY <1>1, <1>2, InductiveInvariant, PTL DEF Spec

(* No gate goes OFF unannounced or without its FLAT being delivered, on the  *)
(* clean path and on every error path.                                       *)
THEOREM ClosesTheorem == Spec => ClosesAnnounced
<1>1. ASSUME IInv, [Next]_vars
      PROVE  [\A p \in gate \ gate' : p \in announced' /\ CloseReaches(p)]_vars
  <2>1. ASSUME NEW h \in Horizons, NEW x \in Scopes, PublishTick(h, x), NEW p \in gate \ gate'
        PROVE  p \in announced' /\ CloseReaches(p)
    <3> DEFINE syms == Targets(h, x)
               asof == BoundaryTime(h, x)
               closed == Closing(h, syms, asof)
               flats == {q \in closed : q[1] \notin Decoupled}
    <3>1. Dispatch(h, syms, asof)
      BY <2>1 DEF PublishTick, Aggregate
    <3>2. /\ gate' = (gate \ closed) \cup Arming(h, syms, asof)
          /\ announced' = closed
      BY <3>1 DEF Dispatch
    <3>3. PICK entries : PublishSignals(entries, flats)
      BY <3>1 DEF Dispatch
    <3>4. feed' = [q \in Upstream \X Symbols |->
                     IF q \in flats THEN Stamp(q, "FLAT")
                     ELSE IF q \in entries THEN Stamp(q, "ENTRY") ELSE feed[q]]
      BY <3>3 DEF PublishSignals
    <3>5. {Stamp(q, "FLAT") : q \in {r \in flats : r[1] \notin Upstream /\ ~Redundant(r)}} \subseteq buffer'
      BY <3>3 DEF PublishSignals
    <3>6. p \in closed /\ p \in Slices
      BY <1>1, <2>1, <3>2 DEF IInv, TypeOK
    <3> HIDE DEF syms, asof, closed
    <3>7. /\ Stamp(p, "FLAT").alpha = p[1]
          /\ Stamp(p, "FLAT").symbol = p[2]
          /\ Stamp(p, "FLAT").dir = "FLAT"
          /\ Stamp(p, "FLAT") \in Signal
      BY <1>1, <3>6, StampFacts DEF IInv
    <3>8. CASE p[1] \in Decoupled
      BY <3>2, <3>6, <3>8 DEF CloseReaches
    <3>9. CASE p[1] \notin Decoupled /\ p[1] \in Upstream
      <4>1. p \in Upstream \X Symbols
        BY <3>6, <3>9 DEF Slices
      <4>2. feed'[p] = Stamp(p, "FLAT")
        BY <3>4, <3>6, <3>9, <4>1
      <4>3. Stamp(p, "FLAT") # None
        BY <3>7, HorizonAssumption
      <4> QED
        BY <3>2, <3>6, <3>7, <3>9, <4>2, <4>3 DEF CloseReaches
    <3>10. CASE p[1] \notin Decoupled /\ p[1] \notin Upstream /\ Redundant(p)
      BY <3>2, <3>6, <3>10 DEF CloseReaches, Redundant
    <3>11. CASE p[1] \notin Decoupled /\ p[1] \notin Upstream /\ ~Redundant(p)
      <4>1. Stamp(p, "FLAT") \in buffer'
        BY <3>5, <3>6, <3>11
      <4> QED
        BY <3>2, <3>6, <3>7, <3>11, <4>1 DEF CloseReaches
    <3> QED
      BY <3>8, <3>9, <3>10, <3>11
  <2> QED
    BY <1>1, <2>1, StepKinds
<1> QED
  BY <1>1, InductiveInvariant, PTL DEF Spec, ClosesAnnounced

-----------------------------------------------------------------------------
(* A gate that is ON finds its reading: what the two cached readings of a    *)
(* symbol and the boundaries already published say of each other.            *)

(* Every boundary up to the event in process is reached while ticks wait.    *)
GridReached ==
    pend # {} =>
        /\ anchor # None
        /\ \A h \in Horizons, x \in Scopes : now < BoundaryTime(h, x) + h

OneGrid == \A h \in Horizons, x \in Scopes, y \in Scopes : lastTick[h][x] = lastTick[h][y]

(* Of an unbroken warm run the newest reading is cached, and of a longer one *)
(* the newest of the others.                                                 *)
RunCachedAt(c, r) ==
    r # {} =>
        /\ c # <<>> /\ c[Len(c)] \in r
        /\ \/ r = {c[Len(c)]}
           \/ /\ Len(c) = 2 /\ c[1] \in r /\ c[1] <= c[2]
              /\ \A y \in r : y = c[2] \/ y <= c[1]

RunCached == \A s \in Symbols : RunCachedAt(cache[s], run[s])

RunPast == \A s \in Symbols : \A y \in run[s] : y <= now

(* Since a gate went ON every reading of the run has crossed its boundaries. *)
GatesGridded ==
    \A p \in gate :
        /\ regime[p[2]] # None /\ anchor # None
        /\ \A y \in run[p[2]], h \in Horizons, x \in Scopes : y < BoundaryTime(h, x) + h

Serves(s, asof) == \A y \in run[s] : y <= asof => Bound(s, asof)

Served ==
    \A h \in Horizons, x \in Scopes, p \in gate :
        (/\ <<h, x>> \in pend /\ AlphaHorizon[p[1]] = h
         /\ snapAt[h][p[2]] < lastTick[h][x]) => Serves(p[2], BoundaryTime(h, x))

Bridged == GridReached /\ OneGrid /\ RunCached /\ RunPast /\ GatesGridded /\ Served

(* What products of the grid need of arithmetic. *)
LEMMA TimesGrow ==
    ASSUME NEW a \in Int, NEW b \in Int, a <= b, NEW h \in Nat
    PROVE  a * h \in Int /\ b * h \in Int /\ a * h <= b * h /\ (a + 1) * h = a * h + h
BY SMT

(* A scheduled event reaches every boundary up to its time, and the ticks it *)
(* returns are at least one horizon past the boundaries before.              *)
LEMMA ScheduleReaches ==
    ASSUME TypeOK, OneGrid, NEW t \in Nat, Schedule(t)
    PROVE  /\ OneGrid'
           /\ anchor' # None /\ anchor' \in Nat
           /\ anchor # None => anchor' = anchor
           /\ \A h \in Horizons, x \in Scopes :
                 /\ BoundaryTime(h, x)' \in Int
                 /\ t < BoundaryTime(h, x)' + h
                 /\ anchor # None => BoundaryTime(h, x) \in Int /\ BoundaryTime(h, x) <= BoundaryTime(h, x)'
                 /\ anchor # None /\ <<h, x>> \in pend' =>
                       BoundaryTime(h, x) + h <= BoundaryTime(h, x)'
<1> DEFINE open == IF anchor = None THEN t ELSE anchor
           crossed == {p \in Horizons \X Scopes :
                           /\ t >= open
                           /\ Boundary(open, p[1], t) > lastTick[p[1]][p[2]]}
<1>1. open \in Nat /\ open # None /\ (anchor # None => open = anchor)
  BY HorizonAssumption DEF TypeOK
<1>2. /\ anchor' = open /\ pend' = crossed
      /\ \A h \in Horizons, x \in Scopes :
            lastTick'[h][x] = IF <<h, x>> \in crossed THEN Boundary(open, h, t) ELSE lastTick[h][x]
  BY DEF Schedule
<1> HIDE DEF open
<1>3. OneGrid'
  <2> SUFFICES ASSUME NEW h \in Horizons, NEW x \in Scopes, NEW y \in Scopes
               PROVE  lastTick'[h][x] = lastTick'[h][y]
    BY DEF OneGrid
  <2>1. lastTick[h][x] = lastTick[h][y]
    BY DEF OneGrid
  <2>2. <<h, x>> \in crossed <=> <<h, y>> \in crossed
    BY <2>1
  <2> HIDE DEF crossed
  <2> QED
    BY <1>2, <2>1, <2>2
<1>4. ASSUME NEW h \in Horizons, NEW x \in Scopes
      PROVE  /\ BoundaryTime(h, x)' \in Int
             /\ t < BoundaryTime(h, x)' + h
             /\ anchor # None => BoundaryTime(h, x) \in Int /\ BoundaryTime(h, x) <= BoundaryTime(h, x)'
             /\ anchor # None /\ <<h, x>> \in pend' =>
                   BoundaryTime(h, x) + h <= BoundaryTime(h, x)'
  <2>1. h \in Nat \ {0}
    BY HorizonAssumption
  <2>2. PICK l \in Int : l = lastTick[h][x] /\ l >= -1
    <3>1. lastTick[h][x] \in Nat \cup {-1}
      BY DEF TypeOK
    <3>. QED BY <3>1
  <2>3. PICK k \in Int : k = lastTick'[h][x] /\ k >= l
        /\ (<<h, x>> \in crossed => l + 1 <= k) /\ t < open + k * h + h
    <3>1. CASE t >= open
      <4>1. t - open \in Nat
        BY <1>1, <3>1
      <4>2. PICK b \in Nat : b = Boundary(open, h, t)
        BY <2>1, <4>1, DivFacts DEF Boundary
      <4>3. t - open < b * h + h
        BY <2>1, <4>1, <4>2, DivFacts DEF Boundary
      <4>4. <<h, x>> \in crossed <=> b > l
        BY <2>2, <3>1, <4>2
      <4>5. CASE b > l
        <5>1. b * h \in Int
          BY <2>1, TimesGrow
        <5>. QED BY <1>1, <1>2, <2>1, <4>2, <4>3, <4>4, <4>5, <5>1
      <4>6. CASE ~(b > l)
        <5>1. b * h \in Int /\ l * h \in Int /\ b * h <= l * h
          BY <2>1, <2>2, <4>6, TimesGrow
        <5>. QED BY <1>1, <1>2, <2>1, <2>2, <4>3, <4>4, <4>6, <5>1
      <4>. QED BY <4>5, <4>6
    <3>2. CASE ~(t >= open)
      <4>1. <<h, x>> \notin crossed
        BY <3>2
      <4>2. (-1) * h \in Int /\ l * h \in Int /\ (-1) * h <= l * h /\ ((-1) + 1) * h = (-1) * h + h
        BY <2>1, <2>2, TimesGrow
      <4>3. ((-1) + 1) * h = 0
        BY <2>1
      <4>. QED BY <1>1, <1>2, <2>1, <2>2, <3>2, <4>1, <4>2, <4>3
    <3>. QED BY <3>1, <3>2
  <2>4. /\ k * h \in Int /\ l * h \in Int /\ l * h <= k * h
        /\ l + 1 <= k => l * h + h <= k * h
    <3>1. k * h \in Int /\ l * h \in Int /\ l * h <= k * h /\ (l + 1) * h = l * h + h
      BY <2>1, <2>3, TimesGrow
    <3>2. ASSUME l + 1 <= k PROVE (l + 1) * h <= k * h
      <4>1. PICK m \in Int : m = l + 1
        OBVIOUS
      <4>. QED BY <2>1, <2>3, <3>2, <4>1, TimesGrow
    <3>. QED BY <3>1, <3>2
  <2>5. BoundaryTime(h, x)' = open + k * h /\ BoundaryTime(h, x) = anchor + l * h
    BY <1>2, <2>2, <2>3 DEF BoundaryTime
  <2>6. <<h, x>> \in pend' <=> <<h, x>> \in crossed
    BY <1>2
  <2>. HIDE DEF crossed
  <2>. QED BY <1>1, <2>1, <2>3, <2>4, <2>5, <2>6
<1> QED
  BY <1>1, <1>2, <1>3, <1>4

(* A reading keeps what is cached of the run.                                *)
LEMMA RunStep ==
    ASSUME TypeOK, RunCached, RunPast, NEW s \in Symbols, NEW t \in Nat, NEW kind \in Kinds,
           now <= t, EngineCaches(s, t, kind), now' = t, run' \in [Symbols -> SUBSET Nat],
           \A r \in Symbols \ {s} : run'[r] = run[r],
           \/ run'[s] = {}
           \/ kind = "none" /\ run'[s] = run[s]
           \/ kind = "warm" /\ run'[s] = run[s] \cup {t}
    PROVE  RunCached' /\ RunPast'
<1>0. now \in Nat /\ cache \in [Symbols -> Seq(Nat)] /\ run \in [Symbols -> SUBSET Nat]
  BY DEF TypeOK
<1>1. RunPast'
  BY <1>0, SMTT(15) DEF RunPast
<1>2. ASSUME NEW r \in Symbols, r # s PROVE RunCachedAt(cache'[r], run'[r])
  <2>1. cache'[r] = cache[r] /\ run'[r] = run[r]
    BY <1>0, <1>2 DEF EngineCaches
  <2> QED
    BY <2>1 DEF RunCached
<1>3. RunCachedAt(cache'[s], run'[s])
  <2>1. CASE run'[s] = {}
    BY <2>1 DEF RunCachedAt
  <2>2. CASE kind = "none" /\ run'[s] = run[s]
    <3>1. cache'[s] = cache[s]
      BY <1>0, <2>2 DEF EngineCaches
    <3> QED
      BY <2>2, <3>1 DEF RunCached
  <2>3. CASE kind = "warm" /\ run'[s] = run[s] \cup {t}
    <3>1. cache'[s] = IF cache[s] = <<>> THEN <<t>> ELSE <<cache[s][Len(cache[s])], t>>
      BY <1>0, <2>3 DEF EngineCaches
    <3>2. RunCachedAt(cache[s], run[s]) /\ run[s] \in SUBSET Nat /\ \A y \in run[s] : y <= t
      BY <1>0 DEF RunCached, RunPast
    <3>3. CASE run[s] = {}
      <4> DEFINE c == cache'[s]
      <4>1. c # <<>> /\ c[Len(c)] = t
        BY <3>1
      <4> QED
        BY <2>3, <3>3, <4>1 DEF RunCachedAt
    <3>4. CASE run[s] # {}
      <4>1. PICK last \in Nat : last = cache[s][Len(cache[s])] /\ last \in run[s] /\ cache[s] # <<>>
        BY <3>2, <3>4 DEF RunCachedAt
      <4> DEFINE c == cache[s]
      <4>5. RunCachedAt(c, run[s]) /\ c[Len(c)] = last /\ run[s] # {} /\ run[s] \in SUBSET Nat
        BY <3>2, <3>4, <4>1
      <4> HIDE DEF c
      <4>2. ASSUME NEW y \in run[s] PROVE y <= last
        <5>1. y \in Nat
          BY <4>5
        <5>2. CASE run[s] = {c[Len(c)]}
          BY <4>1, <4>5, <5>1, <5>2
        <5>3. CASE Len(c) = 2 /\ c[1] <= c[2] /\ (y = c[2] \/ y <= c[1]) /\ c[1] \in run[s]
          <6>1. c[2] = last /\ c[1] \in Nat
            BY <4>5, <5>3
          <6> QED
            BY <4>1, <5>1, <5>3, <6>1
        <5> QED
          BY <4>5, <5>2, <5>3 DEF RunCachedAt
      <4>3. cache'[s] = <<last, t>>
        BY <3>1, <4>1
      <4>4. /\ cache'[s] # <<>> /\ Len(cache'[s]) = 2
            /\ cache'[s][1] = last /\ cache'[s][2] = t
        BY <4>3
      <4> QED
        <5>1. last <= t
          BY <3>2, <4>1
        <5> QED
          BY <2>3, <4>1, <4>2, <4>4, <5>1 DEF RunCachedAt
    <3> QED
      BY <3>3, <3>4
  <2> QED
    BY <2>1, <2>2, <2>3
<1> QED
  BY <1>1, <1>2, <1>3 DEF RunCached

(* What an event whose boundaries are scheduled leaves its ticks.            *)
LEMMA EventBridged ==
    ASSUME TypeOK, Bridged, pend = {}, NEW s \in Symbols, NEW t \in Nat, NEW kind \in Kinds,
           now <= t, now' = t, Schedule(t), EngineCaches(s, t, kind), Remember(s, t, kind),
           cache' \in [Symbols -> Seq(Nat)], run' \in [Symbols -> SUBSET Nat],
           gate' = gate, gate \subseteq Slices,
           \A r \in Symbols : regime[r] # None => regime'[r] # None
    PROVE  Bridged'
<1>1. /\ \A r \in Symbols \ {s} : run'[r] = run[r]
      /\ \/ run'[s] = {}
         \/ kind = "none" /\ run'[s] = run[s]
         \/ kind = "warm" /\ run'[s] = run[s] \cup {t}
  BY DEF Remember, TypeOK, Kinds
<1>2. RunCached' /\ RunPast'
  BY <1>1, RunStep DEF Bridged
<1>3. /\ OneGrid' /\ anchor' # None
      /\ anchor # None => anchor' = anchor
      /\ \A h \in Horizons, x \in Scopes :
            /\ BoundaryTime(h, x)' \in Int
            /\ t < BoundaryTime(h, x)' + h
            /\ anchor # None => BoundaryTime(h, x) \in Int /\ BoundaryTime(h, x) <= BoundaryTime(h, x)'
            /\ anchor # None /\ <<h, x>> \in pend' =>
                  BoundaryTime(h, x) + h <= BoundaryTime(h, x)'
  BY ScheduleReaches DEF Bridged
<1>4. GridReached'
  BY <1>3 DEF GridReached
<1>5. \A h \in Horizons : h \in Nat
  BY HorizonAssumption
<1>6. ASSUME NEW p \in gate
      PROVE  /\ regime[p[2]] # None /\ anchor # None /\ p[2] \in Symbols /\ run[p[2]] \subseteq Nat
             /\ \A y \in run[p[2]], h \in Horizons, x \in Scopes : y < BoundaryTime(h, x) + h
             /\ run'[p[2]] \subseteq run[p[2]] \cup {t}
  BY <1>1 DEF Bridged, GatesGridded, Slices, TypeOK
<1>7. GatesGridded'
  <2> SUFFICES ASSUME NEW p \in gate
               PROVE  /\ regime'[p[2]] # None /\ anchor' # None
                      /\ \A y \in run'[p[2]], h \in Horizons, x \in Scopes : y < BoundaryTime(h, x)' + h
    BY DEF GatesGridded
  <2>1. ASSUME NEW y \in run'[p[2]], NEW h \in Horizons, NEW x \in Scopes
        PROVE  y < BoundaryTime(h, x)' + h
    <3>1. CASE y = t
      BY <1>3, <3>1
    <3>2. CASE y \in run[p[2]]
      <4>1. y \in Nat /\ y < BoundaryTime(h, x) + h /\ BoundaryTime(h, x) \in Int
            /\ BoundaryTime(h, x)' \in Int /\ BoundaryTime(h, x) <= BoundaryTime(h, x)'
        BY <1>3, <1>6, <3>2
      <4> QED
        BY <1>5, <4>1
    <3> QED
      BY <1>6, <3>1, <3>2
  <2> QED
    BY <1>3, <1>6, <2>1
<1>8. Served'
  <2> SUFFICES ASSUME NEW h \in Horizons, NEW x \in Scopes, NEW p \in gate, <<h, x>> \in pend',
                      NEW y \in run'[p[2]], y <= BoundaryTime(h, x)'
               PROVE  \E i \in 1..Len(cache'[p[2]]) : cache'[p[2]][i] <= BoundaryTime(h, x)'
    BY DEF Served, Serves, Bound
  <2> DEFINE r == p[2]  c == cache'[r]
  <2>1. r \in Symbols /\ RunCachedAt(c, run'[r]) /\ c \in Seq(Nat) /\ y \in Nat
    BY <1>2, <1>6 DEF RunCached
  <2>2. c # <<>> /\ Len(c) \in 1..Len(c) /\ 1 \in 1..Len(c)
    BY <2>1 DEF RunCachedAt
  <2>3. CASE y = c[Len(c)]
    BY <2>2, <2>3
  <2>4. CASE y # c[Len(c)]
    <3>1. Len(c) = 2 /\ c[1] \in run'[r] /\ y <= c[1] /\ run'[r] # {c[2]}
      <4> SUFFICES Len(c) = 2 /\ c[1] \in run'[r] /\ y <= c[1] /\ run'[r] # {c[2]}
        OBVIOUS
      <4> DEFINE all == run'[r]  last == c[Len(c)]  first == c[1]
      <4>1. y \in all /\ y # last /\ (Len(c) = 2 => last = c[2])
        BY <2>4
      <4>2. \/ all = {last}
            \/ Len(c) = 2 /\ first \in all /\ (y = c[2] \/ y <= first)
        BY <2>1, <4>1 DEF RunCachedAt
      <4> HIDE DEF all, last, first
      <4>3. Len(c) = 2 /\ first \in all /\ y <= first /\ all # {c[2]}
        BY <4>1, <4>2
      <4> QED
        BY <4>3 DEF all, first
    <3>2. c[1] \in run[r]
      <4>1. CASE kind = "warm" /\ r = s
        <5>1. c = IF cache[s] = <<>> THEN <<t>> ELSE <<cache[s][Len(cache[s])], t>>
          BY <4>1 DEF EngineCaches, TypeOK
        <5>2. cache[s] # <<>> /\ c[1] = cache[s][Len(cache[s])] /\ c[2] = t
          BY <3>1, <5>1
        <5>3. run[s] # {}
          BY <1>1, <3>1, <4>1, <5>2
        <5>4. RunCachedAt(cache[s], run[s])
          BY DEF Bridged, RunCached
        <5> QED
          BY <4>1, <5>2, <5>3, <5>4 DEF RunCachedAt
      <4>2. CASE ~(kind = "warm" /\ r = s)
        BY <1>1, <2>1, <3>1, <4>2
      <4> QED
        BY <4>1, <4>2
    <3>3. /\ c[1] \in Nat /\ c[1] < BoundaryTime(h, x) + h /\ BoundaryTime(h, x) \in Int
          /\ BoundaryTime(h, x)' \in Int /\ BoundaryTime(h, x) + h <= BoundaryTime(h, x)'
      BY <1>3, <1>6, <3>2
    <3>4. c[1] <= BoundaryTime(h, x)'
      BY <1>5, <3>3
    <3> QED
      BY <2>2, <3>4
  <2> QED
    BY <2>3, <2>4
<1> QED
  BY <1>2, <1>3, <1>4, <1>7, <1>8 DEF Bridged

(* An event that schedules nothing.                                          *)
LEMMA IdleBridged ==
    ASSUME TypeOK, Bridged, RunCached', RunPast', pend' = {}, anchor' = anchor, lastTick' = lastTick,
           gate' = gate, regime' = regime, \A p \in gate : run'[p[2]] \subseteq run[p[2]]
    PROVE  Bridged'
<1>1. OneGrid' /\ GridReached' /\ Served'
  BY DEF Bridged, OneGrid, GridReached, Served
<1>2. GatesGridded'
  BY DEF Bridged, GatesGridded, BoundaryTime
<1> QED
  BY <1>1, <1>2 DEF Bridged

(* A tick: a gate it arms has found its reading, and its slice is done with  *)
(* the boundary.                                                             *)
LEMMA TickBridged ==
    ASSUME IInv, Bridged, NEW h \in Horizons, NEW x \in Scopes, PublishTick(h, x)
    PROVE  Bridged'
<1>1. /\ <<h, x>> \in pend /\ pend' \subseteq pend
      /\ now' = now /\ anchor' = anchor /\ lastTick' = lastTick
      /\ cache' = cache /\ regime' = regime /\ run' = run
  BY DEF PublishTick, NextTick, history
<1>2. /\ snapAt' = [snapAt EXCEPT ![h] =
             [s \in Symbols |-> IF s \in Targets(h, x) THEN lastTick[h][x] ELSE @[s]]]
      /\ Dispatch(h, Targets(h, x), BoundaryTime(h, x))
  BY DEF PublishTick, Aggregate
<1>3. GridReached' /\ OneGrid' /\ RunCached' /\ RunPast'
  BY <1>1 DEF Bridged, GridReached, OneGrid, RunCached, RunPast, BoundaryTime
<1>4. \A p \in gate' \ gate :
         /\ p \in Slices /\ p[2] \in Targets(h, x) /\ AlphaHorizon[p[1]] = h
         /\ regime[p[2]] # None
  BY <1>2 DEF Dispatch, Arming, Dispatched, GateFails
<1>5. anchor # None /\ \A g \in Horizons, y \in Scopes :
                          now < BoundaryTime(g, y) + g /\ BoundaryTime(g, y) \in Int /\ g \in Nat
  <2>1. anchor # None /\ \A g \in Horizons, y \in Scopes : now < BoundaryTime(g, y) + g
    BY <1>1 DEF Bridged, GridReached
  <2>2. ASSUME NEW g \in Horizons, NEW y \in Scopes PROVE BoundaryTime(g, y) \in Int /\ g \in Nat
    <3>1. anchor \in Nat /\ g \in Nat
      BY <2>1, HorizonAssumption DEF IInv, TypeOK
    <3>4. lastTick[g][y] \in Nat \cup {-1}
      BY DEF IInv, TypeOK
    <3>2. PICK l \in Int : l = lastTick[g][y]
      BY <3>4
    <3>3. l * g \in Int
      BY <3>1, <3>2, TimesGrow
    <3> QED
      BY <3>1, <3>2, <3>3 DEF BoundaryTime
  <2> QED
    BY <2>1, <2>2
<1>6. GatesGridded'
  <2> SUFFICES ASSUME NEW p \in gate'
               PROVE  /\ regime[p[2]] # None /\ anchor # None
                      /\ \A y \in run[p[2]], g \in Horizons, z \in Scopes : y < BoundaryTime(g, z) + g
    BY <1>1 DEF GatesGridded, BoundaryTime
  <2>1. CASE p \in gate
    BY <2>1 DEF Bridged, GatesGridded
  <2>2. CASE p \notin gate
    <3>1. p[2] \in Symbols /\ regime[p[2]] # None
      BY <1>4, <2>2 DEF Slices
    <3>2. \A y \in run[p[2]] : y \in Nat /\ y <= now
      BY <3>1 DEF Bridged, RunPast, IInv, TypeOK
    <3>3. now \in Nat
      BY DEF IInv, TypeOK
    <3> QED
      BY <1>5, <3>1, <3>2, <3>3
  <2> QED
    BY <2>1, <2>2
<1>7. Served'
  <2> SUFFICES ASSUME NEW g \in Horizons, NEW z \in Scopes, NEW p \in gate', <<g, z>> \in pend,
                      AlphaHorizon[p[1]] = g, snapAt'[g][p[2]] < lastTick[g][z]
               PROVE  Serves(p[2], BoundaryTime(g, z))
    BY <1>1 DEF Served, Serves, Bound, BoundaryTime
  <2>1. lastTick[h][x] = lastTick[h][z]
    BY DEF Bridged, OneGrid
  <2>2. p[2] \in Symbols /\ snapAt[g] \in [Symbols -> Nat \cup {-1}] /\ lastTick[g][z] \in Nat \cup {-1}
        /\ snapAt \in [Horizons -> [Symbols -> Nat \cup {-1}]]
    BY <1>4 DEF IInv, TypeOK, Slices
  <2>3. snapAt'[g][p[2]] = IF g = h /\ p[2] \in Targets(h, x) THEN lastTick[h][x] ELSE snapAt[g][p[2]]
    BY <1>2, <2>2
  <2>4. ~(g = h /\ p[2] \in Targets(h, x)) /\ snapAt'[g][p[2]] = snapAt[g][p[2]]
    BY <2>1, <2>2, <2>3
  <2>5. p \in gate
    BY <1>4, <2>4
  <2> QED
    BY <2>4, <2>5 DEF Bridged, Served
<1> QED
  BY <1>3, <1>6, <1>7 DEF Bridged

(* Every step keeps gates and readings bridged.                              *)
LEMMA NextBridged ==
    ASSUME IInv, IInv', Bridged, [Next]_vars
    PROVE  Bridged'
<1>0. TypeOK /\ TypeOK' /\ gate \subseteq Slices
  BY DEF IInv, TypeOK
<1>1. ASSUME NEW s \in Symbols, NEW t \in 1..MaxTime, NEW kind \in Kinds, NEW r \in Regimes,
             ReceiveQuote(s, t, kind, r)
      PROVE  Bridged'
  <2>1. t \in Nat /\ now <= t /\ now' = t /\ pend = {}
    BY <1>0, <1>1, HorizonAssumption DEF ReceiveQuote, Receive, TypeOK
  <2>2. /\ Schedule(t) /\ EngineCaches(s, t, kind) /\ Remember(s, t, kind) /\ gate' = gate
        /\ regime' = [regime EXCEPT ![s] = r]
    BY <1>1 DEF ReceiveQuote, SensorFanOut
  <2>3. \A q \in Symbols : regime[q] # None => regime'[q] # None
    BY <1>0, <2>2, HorizonAssumption DEF TypeOK
  <2> QED
    BY <1>0, <2>1, <2>2, <2>3, EventBridged DEF TypeOK
<1>2. ASSUME NEW s \in Symbols, NEW t \in 1..MaxTime, NEW kind \in Kinds, ReceiveTrade(s, t, kind)
      PROVE  Bridged'
  <2>1. t \in Nat /\ now <= t /\ now' = t /\ pend = {}
    BY <1>0, <1>2, HorizonAssumption DEF ReceiveTrade, Receive, TypeOK
  <2>2. /\ EngineCaches(s, t, kind) /\ Remember(s, t, kind) /\ gate' = gate /\ regime' = regime
        /\ regime[s] # None => Schedule(t)
        /\ regime[s] = None => UNCHANGED grid
    BY <1>2 DEF ReceiveTrade, SensorFanOut
  <2>3. CASE regime[s] # None
    BY <1>0, <2>1, <2>2, <2>3, EventBridged DEF TypeOK
  <2>4. CASE regime[s] = None
    <3>1. /\ \A q \in Symbols \ {s} : run'[q] = run[q]
          /\ \/ run'[s] = {}
             \/ kind = "none" /\ run'[s] = run[s]
             \/ kind = "warm" /\ run'[s] = run[s] \cup {t}
      BY <1>0, <2>2 DEF Remember, TypeOK, Kinds
    <3>2. RunCached' /\ RunPast'
      BY <1>0, <2>1, <2>2, <3>1, RunStep DEF Bridged, TypeOK
    <3>3. \A p \in gate : run'[p[2]] \subseteq run[p[2]]
      BY <1>0, <2>4, <3>1 DEF Bridged, GatesGridded, Slices
    <3> QED
      BY <1>0, <2>1, <2>2, <2>4, <3>2, <3>3, IdleBridged DEF grid
  <2> QED
    BY <2>3, <2>4
<1>3. ASSUME NEW s \in Symbols, NEW t \in 1..MaxTime, NEW kind \in Kinds, ReceiveHaltedTrade(s, t, kind)
      PROVE  Bridged'
  <2>1. t \in Nat /\ now <= t /\ now' = t /\ pend = {}
    BY <1>0, <1>3, HorizonAssumption DEF ReceiveHaltedTrade, Receive, TypeOK
  <2>2. /\ EngineCaches(s, t, kind) /\ gate' = gate /\ regime' = regime /\ UNCHANGED grid
        /\ run' = [run EXCEPT ![s] = {}]
    BY <1>3 DEF ReceiveHaltedTrade
  <2>3. run'[s] = {} /\ \A q \in Symbols \ {s} : run'[q] = run[q]
    BY <1>0, <2>2 DEF TypeOK
  <2>4. RunCached' /\ RunPast'
    BY <1>0, <2>1, <2>2, <2>3, RunStep DEF Bridged, TypeOK
  <2>5. \A p \in gate : run'[p[2]] \subseteq run[p[2]]
    BY <1>0, <2>3 DEF Slices
  <2> QED
    BY <1>0, <2>1, <2>2, <2>4, <2>5, IdleBridged DEF grid
<1>4. ASSUME NEW t \in 1..MaxTime, ReceiveBlockedQuote(t) PROVE Bridged'
  <2>1. t \in Nat /\ now \in Nat /\ now <= t /\ now' = t /\ pend = {}
    BY <1>0, <1>4, HorizonAssumption DEF ReceiveBlockedQuote, Receive, TypeOK
  <2>2. gate' = gate /\ regime' = regime /\ UNCHANGED grid /\ run' = run /\ cache' = cache
    BY <1>4 DEF ReceiveBlockedQuote, engine, history
  <2>3. RunCached' /\ RunPast'
    BY <1>0, <2>1, <2>2 DEF Bridged, RunCached, RunPast, TypeOK
  <2> QED
    BY <1>0, <2>1, <2>2, <2>3, IdleBridged DEF grid
<1>5. CASE Arbitrate
  <2>1. UNCHANGED <<now, anchor, lastTick, pend, snapAt, cache, regime, gate, run>>
    BY <1>5 DEF Arbitrate, grid, features, engine, history
  <2> QED
    BY <2>1 DEF Bridged, GridReached, OneGrid, RunCached, RunPast, GatesGridded, Served, Serves, Bound,
                BoundaryTime
<1>6. CASE UNCHANGED vars
  <2>1. UNCHANGED <<now, anchor, lastTick, pend, snapAt, cache, regime, gate, run>>
    BY <1>6 DEF vars, grid, features, engine, history
  <2> QED
    BY <2>1 DEF Bridged, GridReached, OneGrid, RunCached, RunPast, GatesGridded, Served, Serves, Bound,
                BoundaryTime
<1> QED
  BY <1>1, <1>2, <1>3, <1>4, <1>5, <1>6, TickBridged DEF Next

(* While its regime holds, a gate is closed for a missing binding only if no *)
(* reading of the unbroken warm run is at or before the boundary: two cached *)
(* readings are enough, for every grid (HorizonSignalEngine).                *)
THEOREM BindingTheorem == Spec => []BindingServed
<1>1. Init => Bridged /\ BindingServed
  BY DEF Init, Bridged, GridReached, OneGrid, RunCached, RunCachedAt, RunPast, GatesGridded, Served,
         BindingServed
<1>2. ASSUME IInv, Bridged, BindingServed, [Next]_vars PROVE BindingServed'
  <2>1. CASE announced' = {}
    BY <2>1 DEF BindingServed
  <2>2. ASSUME NEW h \in Horizons, NEW x \in Scopes, PublishTick(h, x) PROVE BindingServed'
    <3> DEFINE asof == BoundaryTime(h, x)
    <3>1. /\ <<h, x>> \in pend /\ regime' = regime /\ run' = run
          /\ announced' = Closing(h, Targets(h, x), asof)
      BY <2>2 DEF PublishTick, NextTick, Aggregate, Dispatch, history
    <3> SUFFICES ASSUME NEW p \in announced', regime[p[2]] \in {"on", "hold"}
                 PROVE  \E n \in made' : n.symbol = p[2] /\ \A y \in run[p[2]] : y > n.asof
      BY <3>1 DEF BindingServed
    <3>2. /\ p \in gate /\ AlphaHorizon[p[1]] = h /\ p[2] \in Targets(h, x)
          /\ GateFails(p[2], asof) \/ regime[p[2]] = "off"
      BY <3>1 DEF Closing, Dispatched
    <3>3. ~Bound(p[2], asof)
      BY <3>2, HorizonAssumption DEF GateFails
    <3>4. snapAt[h][p[2]] < lastTick[h][x] /\ p[2] \in Symbols
      BY <3>2 DEF Targets
    <3>5. Serves(p[2], asof)
      BY <1>2, <3>1, <3>2, <3>4 DEF Bridged, Served
    <3>6. asof \in Nat /\ \A y \in run[p[2]] : y \in Nat
      BY <1>2, <2>2, <3>4, TickFacts DEF IInv, TypeOK
    <3>7. \A y \in run[p[2]] : y > asof
      BY <3>3, <3>5, <3>6 DEF Serves
    <3> DEFINE n == Snapshot(h, p[2], lastTick[h][x], asof)
    <3>8. n \in made' /\ n.symbol = p[2] /\ n.asof = asof
      BY <1>2, <2>2, <3>2, TickFacts, SnapshotFacts
    <3> QED
      BY <3>7, <3>8
  <2>3. CASE UNCHANGED vars
    BY <1>2, <2>3 DEF BindingServed, vars, output, engine, history
  <2> QED
    BY <1>2, <2>1, <2>2, <2>3, StepKinds
<1>3. IInv /\ IInv' /\ Bridged /\ [Next]_vars => Bridged'
  BY NextBridged
<1> QED
  BY <1>1, <1>2, <1>3, InductiveInvariant, PTL DEF Spec

-----------------------------------------------------------------------------
(* What waits in the signal buffer while a quote is in process: a signal a   *)
(* trade left is fresh, and an entry of this quote has its gate ON and its   *)
(* slice done with the boundary, so no later tick of the quote closes it.    *)
BoundaryDone(p) ==
    \A y \in Scopes : lastTick[AlphaHorizon[p[1]]][y] <= snapAt[AlphaHorizon[p[1]]][p[2]]

FreshOrLive(g) ==
    IF g.carry
    THEN now - g.at <= AlphaHorizon[g.alpha]
    ELSE /\ g.at = now
         /\ g.dir = "ENTRY" => <<g.alpha, g.symbol>> \in gate /\ BoundaryDone(<<g.alpha, g.symbol>>)

Waiting == IF inQuote THEN \A g \in buffer : FreshOrLive(g) ELSE \A g \in buffer : g.carry

(* A signal is stamped with the time of the event and who sends it.          *)
LEMMA StampTime ==
    ASSUME TypeOK, NEW p \in Slices, NEW dir \in {"ENTRY", "FLAT"}
    PROVE  Stamp(p, dir).at = now /\ (Stamp(p, dir).carry <=> ~inQuote)
<1>1. PICK b \in BOOLEAN : b = ~inQuote
  OBVIOUS
<1>2. Stamp(p, dir) = [alpha |-> p[1], symbol |-> p[2], dir |-> dir, at |-> now, carry |-> b]
  BY <1>1, Zenon DEF Stamp
<1>3. Stamp(p, dir).at = now /\ Stamp(p, dir).carry = b
  BY <1>2
<1> QED
  BY <1>1, <1>3, Zenon

(* A tick adds entries of gates that are ON in slices it is done with, and   *)
(* closes no gate of an entry already waiting.                               *)
LEMMA TickWaiting ==
    ASSUME IInv, Bridged, Waiting, NEW h \in Horizons, NEW x \in Scopes, PublishTick(h, x)
    PROVE  Waiting'
<1> USE HorizonAssumption
<1> DEFINE todo == Targets(h, x)
           asof == BoundaryTime(h, x)
           closed == Closing(h, todo, asof)
<1>1. /\ now' = now /\ inQuote' = inQuote /\ lastTick' = lastTick
      /\ snapAt' = [snapAt EXCEPT ![h] =
             [s \in Symbols |-> IF s \in todo THEN lastTick[h][x] ELSE @[s]]]
      /\ Dispatch(h, todo, asof)
  BY DEF PublishTick, Aggregate
<1>2. PICK entries \in SUBSET {p \in Dispatched(h, todo) : p \in gate' /\ Ready(h, p[2], asof)} :
          PublishSignals(entries, {p \in closed : p[1] \notin Decoupled})
  BY <1>1 DEF Dispatch
<1>3. /\ gate' = (gate \ closed) \cup Arming(h, todo, asof)
      /\ entries \subseteq gate' /\ entries \subseteq Dispatched(h, todo)
  BY <1>1, <1>2 DEF Dispatch
<1>4. \A g \in buffer' : \/ g \in buffer
                         \/ \E p \in entries : g = Stamp(p, "ENTRY")
                         \/ \E p \in closed : g = Stamp(p, "FLAT")
  BY <1>2 DEF PublishSignals
<1>5. TypeOK
  BY DEF IInv
<1>6. closed \subseteq Slices /\ entries \subseteq Slices
      /\ \A p \in closed \cup entries : AlphaHorizon[p[1]] = h /\ p[2] \in todo
  BY <1>3 DEF Closing, Dispatched
<1>7. \A y \in Scopes : lastTick[h][y] = lastTick[h][x] /\ lastTick[h][x] \in Nat \cup {-1}
  BY <1>5 DEF TypeOK, Bridged, OneGrid
<1>8. \A p \in closed : ~BoundaryDone(p)
  <2> SUFFICES ASSUME NEW p \in closed, BoundaryDone(p) PROVE FALSE
    OBVIOUS
  <2>1. AlphaHorizon[p[1]] = h /\ snapAt[h][p[2]] < lastTick[h][x] /\ p[2] \in Symbols
    BY <1>6 DEF Targets, Slices
  <2>2. lastTick[h][x] <= snapAt[h][p[2]]
    BY <2>1 DEF BoundaryDone
  <2>3. snapAt[h][p[2]] \in Nat \cup {-1}
    BY <1>5, <2>1 DEF TypeOK
  <2> QED
    BY <1>7, <2>1, <2>2, <2>3
<1>9. \A p \in Slices : BoundaryDone(p) => BoundaryDone(p)'
  <2> SUFFICES ASSUME NEW p \in Slices, BoundaryDone(p), NEW y \in Scopes
               PROVE  lastTick[AlphaHorizon[p[1]]][y] <= snapAt'[AlphaHorizon[p[1]]][p[2]]
    BY <1>1 DEF BoundaryDone
  <2>1. p[2] \in Symbols /\ AlphaHorizon[p[1]] \in Horizons
    BY DEF Slices
  <2>2. PICK k \in Horizons : k = AlphaHorizon[p[1]]
    BY <2>1
  <2>3. snapAt'[k][p[2]] = IF k = h /\ p[2] \in todo THEN lastTick[h][x] ELSE snapAt[k][p[2]]
    BY <1>1, <1>5, <2>1 DEF TypeOK
  <2>4. lastTick[k][y] <= snapAt[k][p[2]]
    BY <2>2 DEF BoundaryDone
  <2> QED
    BY <1>7, <2>2, <2>3, <2>4
<1>10. \A p \in entries : BoundaryDone(p)'
  <2> SUFFICES ASSUME NEW p \in entries, NEW y \in Scopes
               PROVE  lastTick[h][y] <= snapAt'[h][p[2]]
    BY <1>1, <1>6 DEF BoundaryDone
  <2>1. p[2] \in Symbols /\ p[2] \in todo
    BY <1>6 DEF Slices
  <2>2. snapAt'[h][p[2]] = lastTick[h][x]
    BY <1>1, <1>5, <2>1 DEF TypeOK
  <2> QED
    BY <1>7, <2>2
<1> HIDE DEF todo, asof, closed
<1>11. ASSUME NEW p \in entries
       PROVE  LET g == Stamp(p, "ENTRY") IN
              /\ g.at = now /\ (g.carry <=> ~inQuote)
              /\ <<g.alpha, g.symbol>> = p
  <2>1. p \in Slices
    BY <1>6
  <2> QED
    BY <1>5, <2>1, StampTime, StampFacts DEF Slices
<1>12. ASSUME NEW p \in closed
       PROVE  LET g == Stamp(p, "FLAT") IN
              g.at = now /\ (g.carry <=> ~inQuote) /\ g.dir = "FLAT"
  <2>1. p \in Slices
    BY <1>6
  <2> QED
    BY <1>5, <2>1, StampTime, StampFacts
<1>13. CASE inQuote
  <2> SUFFICES ASSUME NEW g \in buffer' PROVE FreshOrLive(g)'
    BY <1>1, <1>13 DEF Waiting
  <2>1. CASE g \in buffer
    <3>1. FreshOrLive(g)
      BY <1>13, <2>1 DEF Waiting
    <3>2. CASE g.carry
      BY <1>1, <3>1, <3>2 DEF FreshOrLive
    <3>3. CASE ~g.carry /\ g.dir = "ENTRY"
      <4>1. PICK p \in Slices : p = <<g.alpha, g.symbol>>
        BY <1>5, <2>1 DEF TypeOK, Signal, Slices
      <4>2. p \in gate /\ BoundaryDone(p) /\ g.at = now
        BY <3>1, <3>3, <4>1 DEF FreshOrLive
      <4>3. p \in gate' /\ BoundaryDone(p)'
        BY <1>3, <1>8, <1>9, <4>2
      <4> QED
        BY <1>1, <3>3, <4>1, <4>2, <4>3 DEF FreshOrLive
    <3>4. CASE ~g.carry /\ g.dir # "ENTRY"
      BY <1>1, <3>1, <3>4 DEF FreshOrLive
    <3> QED
      BY <3>2, <3>3, <3>4
  <2>2. ASSUME NEW p \in entries, g = Stamp(p, "ENTRY") PROVE FreshOrLive(g)'
    <3>1. g.at = now /\ ~g.carry /\ <<g.alpha, g.symbol>> = p
      BY <1>11, <1>13, <2>2
    <3>2. p \in gate' /\ BoundaryDone(p)'
      BY <1>3, <1>10
    <3> QED
      BY <1>1, <3>1, <3>2 DEF FreshOrLive
  <2>3. ASSUME NEW p \in closed, g = Stamp(p, "FLAT") PROVE FreshOrLive(g)'
    BY <1>1, <1>12, <1>13, <2>3 DEF FreshOrLive
  <2> QED
    BY <1>4, <2>1, <2>2, <2>3
<1>14. CASE ~inQuote
  BY <1>1, <1>4, <1>11, <1>12, <1>14 DEF Waiting
<1> QED
  BY <1>13, <1>14

(* Every step keeps what waits in order.                                     *)
LEMMA NextWaiting ==
    ASSUME IInv, Bridged, Waiting, [Next]_vars
    PROVE  Waiting'
<1>1. ASSUME NEW s \in Symbols, NEW t \in 1..MaxTime, NEW kind \in Kinds, NEW r \in Regimes,
             ReceiveQuote(s, t, kind, r)
      PROVE  Waiting'
  BY <1>1 DEF ReceiveQuote, Receive, Carried, Waiting, FreshOrLive
<1>2. ASSUME NEW t \in 1..MaxTime, ReceiveBlockedQuote(t) PROVE Waiting'
  BY <1>2 DEF ReceiveBlockedQuote, Receive, Carried, Waiting
<1>3. ASSUME NEW s \in Symbols, NEW t \in 1..MaxTime, NEW kind \in Kinds,
             ReceiveTrade(s, t, kind) \/ ReceiveHaltedTrade(s, t, kind)
      PROVE  Waiting'
  BY <1>3 DEF ReceiveTrade, ReceiveHaltedTrade, Receive, kernel, Waiting
<1>4. CASE Arbitrate
  BY <1>4 DEF Arbitrate, Waiting
<1>5. CASE UNCHANGED vars
  <2>1. UNCHANGED <<now, inQuote, buffer, gate, lastTick, snapAt>>
    BY <1>5 DEF vars, grid, features, engine, kernel
  <2> QED
    BY <2>1 DEF Waiting, FreshOrLive, BoundaryDone
<1> QED
  BY <1>1, <1>2, <1>3, <1>4, <1>5, TickWaiting DEF Next

(* A position is opened only on an entry whose horizon has not passed, in a  *)
(* quote with no exit pending, and with the gate still ON unless a trade     *)
(* left the entry - whatever ticks of whatever grid the quote crossed        *)
(* (Orchestrator._select_signal after HorizonSignalEngine).                  *)
THEOREM OpensTheorem == Spec => OpensSafely
<1>1. Init => Bridged /\ Waiting
  BY DEF Init, Bridged, GridReached, OneGrid, RunCached, RunCachedAt, RunPast, GatesGridded, Served,
         Waiting
<1>2. IInv /\ IInv' /\ Bridged /\ [Next]_vars => Bridged'
  BY NextBridged
<1>3. IInv /\ Bridged /\ Waiting /\ [Next]_vars => Waiting'
  BY NextWaiting
<1> DEFINE Opened(s) ==
        /\ \A g \in buffer : g.dir = "FLAT" => ~Actionable(g)
        /\ \E g \in buffer :
              /\ g.dir = "ENTRY" /\ g.alpha = book'[s] /\ g.symbol = s
              /\ now - g.at <= AlphaHorizon[g.alpha]
              /\ g.carry \/ <<g.alpha, s>> \in gate
<1>4. ASSUME IInv, Waiting, [Next]_vars, NEW s \in Symbols, book[s] = None, book'[s] # None
      PROVE  Opened(s)
  <2>1. CASE book' = book
    BY <1>4, <2>1
  <2>2. CASE Arbitrate
    <3> DEFINE cands == {g \in buffer : Actionable(g)}
    <3>1. PICK win \in Winners(cands) :
             \/ UNCHANGED <<book, filled>>
             \/ book' = [book EXCEPT ![win.symbol] = None]
             \/ /\ win # None /\ win.dir = "ENTRY"
                /\ book' = [book EXCEPT ![win.symbol] = win.alpha]
      BY <2>2, Zenon DEF Arbitrate
    <3>2. book \in [Symbols -> Alphas \cup {None}] /\ buffer \subseteq Signal /\ inQuote
      BY <1>4, <2>2 DEF IInv, TypeOK, Arbitrate
    <3>3. /\ win # None /\ win.dir = "ENTRY" /\ s = win.symbol /\ book'[s] = win.alpha
      BY <1>4, <3>1, <3>2
    <3>4. win \in cands /\ \A g \in cands : g.dir # "FLAT"
      BY <3>3 DEF Winners
    <3>5. win \in buffer /\ FreshOrLive(win) /\ win \in Signal
      BY <1>4, <3>2, <3>4 DEF Waiting
    <3>6. /\ now - win.at <= AlphaHorizon[win.alpha]
          /\ win.carry \/ <<win.alpha, s>> \in gate
      <4>1. now \in Nat /\ win.at \in Nat /\ AlphaHorizon[win.alpha] \in Nat
        BY <1>4, <3>5, HorizonAssumption DEF IInv, TypeOK, Signal
      <4>2. CASE win.carry
        BY <3>5, <4>2 DEF FreshOrLive
      <4>3. CASE ~win.carry
        BY <3>3, <3>5, <4>1, <4>3 DEF FreshOrLive
      <4> QED
        BY <4>2, <4>3
    <3>7. \A g \in buffer : g.dir = "FLAT" => ~Actionable(g)
      BY <3>4
    <3> QED
      BY <3>3, <3>5, <3>6, <3>7
  <2>3. ASSUME NEW h \in Horizons, NEW x \in Scopes, PublishTick(h, x) PROVE book' = book
    BY <2>3 DEF PublishTick
  <2>4. ASSUME NEW r \in Symbols, NEW t \in 1..MaxTime, NEW kind \in Kinds,
               \/ \E q \in Regimes : ReceiveQuote(r, t, kind, q)
               \/ ReceiveTrade(r, t, kind)
               \/ ReceiveHaltedTrade(r, t, kind)
        PROVE  book' = book
    BY <2>4 DEF ReceiveQuote, ReceiveTrade, ReceiveHaltedTrade, kernel
  <2>5. ASSUME NEW t \in 1..MaxTime, ReceiveBlockedQuote(t) PROVE book' = book
    BY <2>5 DEF ReceiveBlockedQuote
  <2>6. ASSUME UNCHANGED vars PROVE book' = book
    BY <2>6 DEF vars, kernel
  <2> HIDE DEF Opened
  <2>7. Arbitrate \/ book' = book
    <3>1. Next \/ UNCHANGED vars
      BY <1>4
    <3> QED
      BY <2>3, <2>4, <2>5, <2>6, <3>1 DEF Next
  <2> QED
    BY <2>1, <2>2, <2>7
<1>5. IInv /\ Waiting /\ [Next]_vars =>
         [\A s \in Symbols : book[s] = None /\ book'[s] # None => Opened(s)]_vars
  BY <1>4
<1> QED
  BY <1>1, <1>2, <1>3, <1>5, InductiveInvariant, PTL DEF Spec, OpensSafely
=============================================================================
