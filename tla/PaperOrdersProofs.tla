------------------------- MODULE PaperOrdersProofs -------------------------
(***************************************************************************)
(* Proofs about PaperOrders, for every set of orders and every quantity:   *)
(*   NeverOverbooks, NoTerminalOrderTracked  under every combination of    *)
(*                  Situations                                             *)
(*   TrackersAgree  when only stale callbacks and executions reported on a *)
(*                  cancel disturb the session                             *)
(***************************************************************************)
EXTENDS PaperOrders, TLAPS

USE QtyAssumption, SituationsAssumption, MaxQueueAssumption

(***************************************************************************)
(* Sequences                                                               *)
(***************************************************************************)
\* What Tail keeps.
LEMMA TailFacts ==
    ASSUME NEW S, NEW s \in Seq(S), s # <<>>
    PROVE  /\ Len(s) \in Nat \ {0} /\ Head(s) = s[1] /\ Head(s) \in S
           /\ Tail(s) \in Seq(S) /\ Len(Tail(s)) = Len(s) - 1
           /\ \A i \in 1 .. Len(Tail(s)) : i + 1 \in 1 .. Len(s) /\ Tail(s)[i] = s[i + 1]
  OBVIOUS

\* What Append adds.
LEMMA AppendFacts ==
    ASSUME NEW S, NEW s \in Seq(S), NEW a \in S
    PROVE  /\ Append(s, a) \in Seq(S) /\ Len(Append(s, a)) = Len(s) + 1 /\ Len(s) \in Nat
           /\ \A i \in 1 .. Len(Append(s, a)) :
                 \/ i \in 1 .. Len(s) /\ Append(s, a)[i] = s[i]
                 \/ i = Len(s) + 1 /\ Append(s, a)[i] = a
  OBVIOUS

\* A queue of acks stays in order when its head leaves ...
LEMMA IncreasingTail ==
    ASSUME NEW s \in Seq(Acks), s # <<>>, Increasing(s)
    PROVE  Increasing(Tail(s)) /\ AllBefore(<<Head(s)>>, Tail(s))
  BY TailFacts DEF Increasing, AllBefore

\* ... and when an ack joins that comes after all of them.
LEMMA IncreasingAppend ==
    ASSUME NEW s \in Seq(Acks), NEW a \in Acks, Increasing(s), AllBefore(s, <<a>>)
    PROVE  Increasing(Append(s, a))
  BY AppendFacts DEF Increasing, AllBefore

\* What is before a list is before what is left of it.
LEMMA BeforeTail ==
    ASSUME NEW s \in Seq(Acks), NEW t \in Seq(Acks), t # <<>>, AllBefore(s, t)
    PROVE  AllBefore(s, Tail(t)) /\ AllBefore(s, <<Head(t)>>)
  BY TailFacts DEF AllBefore

\* What is before a list and before an ack is before both.
LEMMA BeforeAppend ==
    ASSUME NEW s \in Seq(Acks), NEW t \in Seq(Acks), NEW a \in Acks,
           AllBefore(s, t), AllBefore(s, <<a>>)
    PROVE  AllBefore(s, Append(t, a))
  BY AppendFacts DEF AllBefore

\* What is after a list and after an ack is after both.
LEMMA AppendBefore ==
    ASSUME NEW s \in Seq(Acks), NEW t \in Seq(Acks), NEW a \in Acks,
           AllBefore(s, t), AllBefore(<<a>>, t)
    PROVE  AllBefore(Append(s, a), t)
  BY AppendFacts DEF AllBefore

\* What is left of a list is before what the list is before.
LEMMA TailBefore ==
    ASSUME NEW s \in Seq(Acks), NEW t \in Seq(Acks), s # <<>>, AllBefore(s, t)
    PROVE  AllBefore(Tail(s), t) /\ AllBefore(<<Head(s)>>, t)
  BY TailFacts DEF AllBefore

\* The acks of a queue, its head and what is left of it.
LEMMA EachTail ==
    ASSUME NEW s \in Seq(Acks), s # <<>>, EachOK(s)
    PROVE  EachOK(Tail(s)) /\ FillAckOK(Head(s))
  BY TailFacts DEF EachOK

\* One more fill to take.
LEMMA EachAppend ==
    ASSUME NEW s \in Seq(Acks), NEW a \in Acks, EachOK(s), FillAckOK(a)
    PROVE  EachOK(Append(s, a))
  BY AppendFacts DEF EachOK

(***************************************************************************)
(* Types                                                                   *)
(***************************************************************************)
\* The order state machine stays inside its states.
LEMMA ApplyAckType ==
    ASSUME NEW s \in OrderState, NEW t \in OrderAckStatus
    PROVE  ApplyAck(s, t) \in OrderState
  BY DEF ApplyAck, Acknowledged, OrderState, OrderAckStatus, CanTransition

\* An ack the gateway sends.
LEMMA AckType ==
    ASSUME NEW o \in Orders, NEW st \in OrderAckStatus, NEW q \in Nat, NEW c \in Nat
    PROVE  Ack(o, st, q, c) \in Acks
  BY DEF Ack, Acks

\* An event the gateway queues.
LEMMA EventType ==
    ASSUME NEW o \in Orders, NEW st \in OrderStatuses \cup ErrorCodes, NEW c \in Nat
    PROVE  Event(o, st, c) \in FillEvents
  BY DEF Event, FillEvents

(***************************************************************************)
(* One lemma per step of the main thread                                   *)
(***************************************************************************)
LEMMA InitIInv == Init => IInv
  BY DEF Init, IInv, TypeOK, PhaseOK, CountersOK, EventsOK, EachOK, Increasing,
         AllBefore, OrderState, Phases

\* Acks in flight are untouched by a step that moves none of them and changes
\* no counter they are measured against.
LEMMA PipelineUnchanged ==
    ASSUME IInv,
           UNCHANGED <<inbox, batch, deferred, booked, meta, lastCum>>,
           submitted \subseteq submitted',
           executed' \in [Orders -> Nat], \A o \in Orders : executed[o] <= executed'[o]
    PROVE  /\ EachOK(inbox)' /\ EachOK(batch)' /\ EachOK(deferred)'
           /\ Increasing(inbox)' /\ Increasing(batch)' /\ Increasing(deferred)'
           /\ AllBefore(batch, inbox)' /\ AllBefore(deferred, inbox)'
  <1>. USE DEF IInv
  <1>1. \A b \in Acks : FillAckOK(b) => FillAckOK(b)'
    BY DEF TypeOK, FillAckOK, Acks
  <1>2. EachOK(inbox)' /\ EachOK(batch)' /\ EachOK(deferred)'
    BY <1>1 DEF EachOK, TypeOK
  <1>. QED BY <1>2 DEF Increasing, AllBefore

\* The kernel tracks an order.
LEMMA TrackIInv ==
    ASSUME IInv, NEW o \in Orders, TrackAndSubmit(o)
    PROVE  IInv'
  <1>. USE DEF IInv
  <1>. DEFINE a == Ack(o, "ACKNOWLEDGED", 0, 0)
  <1>0. a \in Acks /\ ~IsFill(a) /\ pendingAcks' = Append(pendingAcks, a)
    BY AckType DEF TrackAndSubmit, OrderAckStatus, Ack, IsFill, FillStatuses
  <1>. HIDE DEF a
  <1>a. /\ pendingAcks' \in Seq(Acks)
        /\ \A i \in 1 .. Len(pendingAcks') :
              \/ pendingAcks'[i] = a
              \/ i \in 1 .. Len(pendingAcks) /\ pendingAcks'[i] = pendingAcks[i]
    <2>1. pendingAcks \in Seq(Acks) /\ a \in Acks
      BY <1>0 DEF TypeOK
    <2>. HIDE DEF IInv
    <2>. QED BY <2>1, <1>0, AppendFacts
  <1>1. TypeOK'
    <2>1. ost' \in [Orders -> OrderState] /\ phase' \in Phases
      BY DEF TypeOK, TrackAndSubmit, OrderState, Phases
    <2>. QED BY <1>a, <2>1 DEF TypeOK, TrackAndSubmit, gwVars
  <1>2. PhaseOK'
    <2>1. \A i \in 1 .. Len(pendingAcks') : ~IsFill(pendingAcks'[i])
      BY <1>0, <1>a DEF PhaseOK
    <2>. QED BY <2>1 DEF TypeOK, PhaseOK, TrackAndSubmit, IsFill
  <1>3. CountersOK' /\ EventsOK'
    <2>1. EventsOK'
      BY DEF EventsOK, TrackAndSubmit, gwVars
    <2>2. o \notin submitted /\ submitted' = submitted \cup {o} /\ meta' = meta \cup {o}
          /\ UNCHANGED <<booked, lastCum, executed>>
      BY DEF TrackAndSubmit, gwVars
    <2>3. CountersOK'
      <3>. SUFFICES ASSUME NEW p \in Orders
                    PROVE  /\ p \in meta' => p \in submitted' /\ booked[p] <= lastCum[p]
                           /\ p \notin meta' => lastCum[p] = 0
                           /\ p \notin submitted' => booked[p] = 0
        BY <2>2 DEF CountersOK
      <3>1. /\ p \in meta => p \in submitted /\ booked[p] <= lastCum[p]
            /\ p \notin meta => lastCum[p] = 0
            /\ p \notin submitted => booked[p] = 0
        BY DEF CountersOK
      <3>. QED BY <2>2, <3>1
    <2>. QED BY <2>1, <2>3
  <1>4. ASSUME NEW b \in Acks, FillAckOK(b)
        PROVE  FillAckOK(b)'
    BY <1>4 DEF TypeOK, FillAckOK, Acks, TrackAndSubmit, gwVars
  <1>5. EachOK(inbox)' /\ EachOK(batch)' /\ EachOK(deferred)'
    BY <1>4 DEF TypeOK, EachOK, TrackAndSubmit
  <1>6. /\ Increasing(inbox)' /\ Increasing(batch)' /\ Increasing(deferred)'
        /\ AllBefore(batch, inbox)' /\ AllBefore(deferred, inbox)'
    BY DEF AllBefore, Increasing, TrackAndSubmit
  <1>. QED BY <1>1, <1>2, <1>3, <1>5, <1>6

\* The router refuses to submit.
LEMMA SubmitFailsIInv ==
    ASSUME IInv, NEW o \in Orders, TrackAndSubmitFails(o)
    PROVE  IInv'
  <1>. USE DEF IInv, connVars, gwVars, settleVars, TrackAndSubmitFails, Live
  <1>1. TypeOK'
    BY DEF TypeOK, OrderState
  <1>2. PhaseOK' /\ EventsOK' /\ CountersOK'
    BY DEF TypeOK, PhaseOK, EventsOK, CountersOK, IsFill
  <1>3. executed' = executed /\ executed \in [Orders -> Nat]
    BY DEF TypeOK
  <1>. QED BY <1>1, <1>2, <1>3, PipelineUnchanged

\* The settle that any main-thread operation begins: the deferred acks come
\* first and keep their order; the pending ones book nothing.
LEMMA BeginSettleIInv ==
    ASSUME IInv, NEW ids \in SUBSET Orders, phase \in {"idle", "submit"},
           BeginSettle(ids), ost' \in [Orders -> OrderState],
           cancelQ' \subseteq Orders,
           UNCHANGED <<active, unpruned, booked, submitted, meta, lastCum, submitQ, fillQ, gwVars>>
    PROVE  IInv'
  <1>. USE DEF IInv, gwVars
  <1>0. /\ inbox = <<>> /\ batch = <<>> /\ done = 0
        /\ inbox' \in Seq(Acks)
        /\ Len(inbox') = Len(deferred) + Len(pendingAcks)
        /\ \A i \in 1 .. Len(inbox') :
              inbox'[i] = IF i <= Len(deferred) THEN deferred[i]
                          ELSE pendingAcks[i - Len(deferred)]
    BY DEF TypeOK, PhaseOK, BeginSettle
  <1>1. TypeOK'
    BY <1>0 DEF TypeOK, BeginSettle, Phases
  <1>2. PhaseOK'
    BY <1>0 DEF TypeOK, PhaseOK, BeginSettle
  <1>3. CountersOK' /\ EventsOK'
    BY DEF TypeOK, EventsOK, CountersOK
  <1>4. ASSUME NEW i \in 1 .. Len(inbox')
        PROVE  \/ i \in 1 .. Len(deferred) /\ inbox'[i] = deferred[i]
               \/ ~IsFill(inbox'[i])
    <2>1. CASE i <= Len(deferred)
      BY <2>1, <1>0 DEF TypeOK
    <2>2. CASE ~(i <= Len(deferred))
      <3>. DEFINE k == i - Len(deferred)
      <3>1. k \in 1 .. Len(pendingAcks) /\ inbox'[i] = pendingAcks[k]
        BY <2>2, <1>0 DEF TypeOK
      <3>. HIDE DEF k
      <3>. QED BY <3>1 DEF PhaseOK, IsFill
    <2>. QED BY <2>1, <2>2
  <1>5. EachOK(inbox)'
    <2>1. ASSUME NEW i \in 1 .. Len(inbox') PROVE FillAckOK(inbox[i])'
      <3>1. CASE i \in 1 .. Len(deferred) /\ inbox'[i] = deferred[i]
        BY <3>1 DEF EachOK, FillAckOK, IsFill
      <3>2. CASE ~IsFill(inbox'[i])
        BY <3>2 DEF FillAckOK, IsFill
      <3>. QED BY <1>4, <3>1, <3>2
    <2>. QED BY <2>1 DEF EachOK
  <1>6. Increasing(inbox)'
    <2>1. ASSUME NEW i \in 1 .. Len(inbox'), NEW j \in 1 .. Len(inbox'), i < j
          PROVE  Precedes(inbox[i], inbox[j])'
      <3>1. CASE /\ i \in 1 .. Len(deferred) /\ inbox'[i] = deferred[i]
                 /\ j \in 1 .. Len(deferred) /\ inbox'[j] = deferred[j]
        BY <2>1, <3>1 DEF Increasing, Precedes, IsFill
      <3>2. CASE ~IsFill(inbox'[i]) \/ ~IsFill(inbox'[j])
        BY <3>2 DEF Precedes, IsFill
      <3>. QED BY <1>4, <3>1, <3>2
    <2>. QED BY <2>1 DEF Increasing
  <1>7. /\ EachOK(batch)' /\ EachOK(deferred)' /\ Increasing(batch)' /\ Increasing(deferred)'
        /\ AllBefore(batch, inbox)' /\ AllBefore(deferred, inbox)'
    BY <1>0 DEF BeginSettle, EachOK, Increasing, AllBefore
  <1>. QED BY <1>1, <1>2, <1>3, <1>5, <1>6, <1>7

\* The settle moves on: nothing but the phase changes.
LEMMA PhaseStepIInv ==
    ASSUME IInv, PollDone \/ RouteDone \/ ApplyDone
    PROVE  IInv'
  <1>. USE DEF IInv, PollDone, RouteDone, ApplyDone, gwVars, connVars, routerVars
  <1>1. TypeOK'
    BY DEF TypeOK, Phases
  <1>2. PhaseOK'
    BY DEF TypeOK, PhaseOK, IsFill
  <1>3. CountersOK' /\ EventsOK'
    BY DEF EventsOK, CountersOK
  <1>4. executed' = executed /\ executed \in [Orders -> Nat]
    BY DEF TypeOK
  <1>. QED BY <1>1, <1>2, <1>3, <1>4, PipelineUnchanged

\* Converting a callback: the new ack lies above everything in flight of its
\* order, because _last_cumulative does.
LEMMA PollFillIInv ==
    ASSUME IInv, PollFill
    PROVE  IInv'
  <1>. USE DEF IInv
  <1>0. fillQ \in Seq(FillEvents) /\ fillQ # <<>> /\ fillQ' = Tail(fillQ)
    BY DEF TypeOK, PollFill
  <1>1. PICK ev \in FillEvents : ev = Head(fillQ)
    BY <1>0, TailFacts
  <1>2. ev.order \in Orders /\ ev.cum \in Nat /\ ev.status \in OrderStatuses \cup ErrorCodes
    BY DEF FillEvents
  <1>3. /\ 1 \in 1 .. Len(fillQ) /\ ev = fillQ[1] /\ fillQ' \in Seq(FillEvents)
        /\ \A i \in 1 .. Len(fillQ') : i + 1 \in 1 .. Len(fillQ) /\ fillQ'[i] = fillQ[i + 1]
    <2>. HIDE DEF IInv
    <2>. QED BY <1>0, <1>1, TailFacts
  <1>4. UNCHANGED <<ost, active, unpruned, booked, phase, expected, batch, done, deferred,
                    submitted, pendingAcks, submitQ, cancelQ, gw, executed, reported>>
        /\ phase = "poll"
    BY DEF PollFill, gwVars
  <1>5. EventsOK' /\ ev.cum <= executed[ev.order]
    BY <1>3, <1>4 DEF EventsOK
  <1>6. CASE Dropped(ev)
    <2>0. UNCHANGED <<inbox, meta, lastCum>>
      BY <1>1, <1>6 DEF PollFill
    <2>1. TypeOK'
      BY <1>3, <1>4, <2>0 DEF TypeOK
    <2>2. PhaseOK' /\ CountersOK'
      BY <1>4, <2>0 DEF TypeOK, PhaseOK, CountersOK, IsFill
    <2>3. executed' = executed /\ executed \in [Orders -> Nat]
      BY <1>4 DEF TypeOK
    <2>. QED BY <1>4, <1>5, <2>0, <2>1, <2>2, <2>3, PipelineUnchanged
  <1>7. CASE ~Dropped(ev)
    <2>0. FillToAck(ev)
      BY <1>1, <1>7 DEF PollFill
    <2>1. ev.order \in meta /\ ev.order \in submitted
      BY <1>2, <1>7 DEF Dropped, CountersOK
    <2>2. PICK status \in OrderAckStatus : status = Downgraded(ev)
      BY <1>2 DEF Downgraded, StatusToAck, OrderAckStatus
    <2>3. PICK cum \in Nat :
             cum = IF ev.status \in ErrorCodes THEN lastCum[ev.order] ELSE ev.cum
      BY <1>2 DEF TypeOK
    <2>4. PICK d \in Nat : d = Delta(ev) /\ lastCum[ev.order] + d <= cum
      <3>1. lastCum[ev.order] \in Nat
        BY <1>2 DEF TypeOK
      <3>2. CASE ev.status \in ErrorCodes
        BY <2>3, <3>1, <3>2 DEF Delta
      <3>3. CASE ev.status \notin ErrorCodes
        <4>1. lastCum[ev.order] <= ev.cum
          BY <1>2, <1>7, <3>1, <3>3 DEF Dropped
        <4>. QED BY <1>2, <2>3, <3>1, <3>3, <4>1 DEF Delta
      <3>. QED BY <3>2, <3>3
    <2>5. cum <= executed[ev.order]
      BY <1>2, <1>5, <2>3 DEF TypeOK, CountersOK
    <2>6. PICK a \in Acks : a = Ack(ev.order, status, d, cum)
      BY <1>2, AckType
    <2>7. a.order = ev.order /\ a.status = status /\ a.qty = d /\ a.cum = cum
      BY <2>6 DEF Ack
    <2>8. inbox' = Append(inbox, a)
      BY <2>0, <2>2, <2>3, <2>4, <2>6 DEF FillToAck
    <2>9. \/ meta' = meta \ {ev.order} /\ lastCum' = [lastCum EXCEPT ![ev.order] = 0]
          \/ meta' = meta /\ lastCum' = [lastCum EXCEPT ![ev.order] = cum]
      <3>1. ev.status \in ErrorCodes => status \in TerminalOrderStates
        BY <1>2, <1>7, <2>2 DEF Downgraded, StatusToAck, ErrorCodes, TerminalOrderStates,
                                Dropped, Suppressed, OrderStatuses
      <3>. QED BY <2>0, <2>2, <2>3, <3>1 DEF FillToAck
    <2>10. QED
      <3>. DEFINE o == ev.order
      <3>0. o \in Orders /\ a.order = o /\ a.qty = d /\ a.cum = cum /\ lastCum[o] + d <= cum
            /\ cum <= executed[o] /\ o \in meta /\ o \in submitted
            /\ (\/ meta' = meta \ {o} /\ lastCum' = [lastCum EXCEPT ![o] = 0]
                \/ meta' = meta /\ lastCum' = [lastCum EXCEPT ![o] = cum])
        BY <1>2, <2>1, <2>4, <2>5, <2>7, <2>9
      <3>. HIDE DEF o
      <3>1. inbox \in Seq(Acks) /\ batch \in Seq(Acks) /\ deferred \in Seq(Acks)
            /\ lastCum \in [Orders -> Nat] /\ executed \in [Orders -> Nat] /\ booked \in [Orders -> Nat]
            /\ meta \subseteq Orders
        BY DEF TypeOK
      <3>2. lastCum' \in [Orders -> Nat] /\ meta' \subseteq Orders /\ inbox' \in Seq(Acks)
        <4>. HIDE DEF IInv
        <4>1. lastCum' \in [Orders -> Nat] /\ meta' \subseteq Orders
          <5>1. CASE meta' = meta \ {o} /\ lastCum' = [lastCum EXCEPT ![o] = 0]
            BY <3>1, <5>1
          <5>2. CASE meta' = meta /\ lastCum' = [lastCum EXCEPT ![o] = cum]
            BY <3>1, <5>2
          <5>. QED BY <3>0, <5>1, <5>2
        <4>2. inbox' \in Seq(Acks)
          BY <2>8, <3>1, AppendFacts
        <4>. QED BY <4>1, <4>2
      <3>3. TypeOK'
        BY <1>3, <1>4, <3>2 DEF TypeOK
      <3>4. PhaseOK'
        BY <1>4 DEF TypeOK, PhaseOK, IsFill
      <3>5. CountersOK'
        <4>. SUFFICES ASSUME NEW p \in Orders
                      PROVE  /\ lastCum'[p] <= executed[p]
                             /\ p \in meta' => p \in submitted /\ booked[p] <= lastCum'[p]
                             /\ p \notin meta' => lastCum'[p] = 0
          BY <1>4 DEF CountersOK
        <4>1. /\ lastCum[p] <= executed[p]
              /\ p \in meta => p \in submitted /\ booked[p] <= lastCum[p]
              /\ p \notin meta => lastCum[p] = 0
          BY DEF CountersOK
        <4>. HIDE DEF IInv
        <4>2. CASE p # o
          <5>1. lastCum'[p] = lastCum[p]
            BY <3>0, <3>1, <4>2
          <5>2. p \in meta' <=> p \in meta
            BY <3>0, <4>2
          <5>. QED BY <4>1, <5>1, <5>2
        <4>3. CASE p = o
          BY <3>0, <3>1, <4>1, <4>3
        <4>. QED BY <4>2, <4>3
      <3>6. ASSUME NEW b \in Acks, FillAckOK(b)
            PROVE  FillAckOK(b)' /\ Precedes(b, a)
        <4>0. b.order \in Orders /\ b.cum \in Nat /\ b.qty \in Nat
          BY DEF Acks
        <4>. HIDE DEF IInv
        <4>1. b.order \in meta' => b.order \in meta /\ lastCum[b.order] <= lastCum'[b.order]
          <5>0. lastCum[b.order] \in Nat /\ lastCum[o] \in Nat
            BY <3>0, <3>1, <4>0
          <5>1. CASE meta' = meta \ {o} /\ lastCum' = [lastCum EXCEPT ![o] = 0]
            BY <3>1, <4>0, <5>0, <5>1
          <5>2. CASE meta' = meta /\ lastCum' = [lastCum EXCEPT ![o] = cum]
            BY <3>0, <3>1, <4>0, <5>0, <5>2
          <5>. QED BY <3>0, <5>1, <5>2
        <4>2. b.order \in meta' => lastCum[b.order] \in Nat /\ lastCum'[b.order] \in Nat
          BY <3>1, <3>2, <4>0
        <4>3. FillAckOK(b)'
          BY <1>4, <3>6, <4>0, <4>1, <4>2 DEF FillAckOK, IsFill
        <4>4. Precedes(b, a)
          BY <3>0, <3>1, <3>6, <4>0 DEF FillAckOK, Precedes
        <4>. QED BY <4>3, <4>4
      <3>7. FillAckOK(a)'
        <4>1. booked[o] <= lastCum[o]
          BY <3>0 DEF CountersOK
        <4>. HIDE DEF IInv
        <4>2. o \in meta' => cum <= lastCum'[o]
          BY <3>0, <3>1
        <4>3. booked[o] + d <= cum
          BY <3>0, <3>1, <4>1
        <4>. QED BY <1>4, <3>0, <4>2, <4>3 DEF FillAckOK, IsFill
      <3>8. EachOK(batch)' /\ EachOK(deferred)'
        BY <1>4, <3>1, <3>6 DEF EachOK
      <3>9. EachOK(inbox)'
        <4>1. ASSUME NEW i \in 1 .. Len(inbox') PROVE FillAckOK(inbox[i])'
          <5>1. \/ i \in 1 .. Len(inbox) /\ inbox'[i] = inbox[i]
                \/ inbox'[i] = a
            <6>. HIDE DEF IInv
            <6>. QED BY <2>8, <3>1, AppendFacts
          <5>2. CASE i \in 1 .. Len(inbox) /\ inbox'[i] = inbox[i]
            <6>1. PICK b \in Acks : b = inbox[i] /\ FillAckOK(b)
              BY <3>1, <5>2 DEF EachOK
            <6>. HIDE DEF IInv
            <6>2. FillAckOK(b)' /\ inbox'[i] = b
              BY <3>6, <5>2, <6>1
            <6>. QED BY <6>2 DEF FillAckOK, IsFill
          <5>3. CASE inbox'[i] = a
            BY <3>7, <5>3 DEF FillAckOK, IsFill
          <5>. QED BY <5>1, <5>2, <5>3
        <4>. QED BY <4>1 DEF EachOK
      <3>10. AllBefore(inbox, <<a>>) /\ AllBefore(batch, <<a>>) /\ AllBefore(deferred, <<a>>)
        <4>1. ASSUME NEW s \in Seq(Acks), EachOK(s)
              PROVE  AllBefore(s, <<a>>)
          <5>1. ASSUME NEW i \in 1 .. Len(s) PROVE Precedes(s[i], a)
            <6>1. s[i] \in Acks /\ FillAckOK(s[i])
              BY <4>1 DEF EachOK
            <6>. QED BY <3>6, <6>1
          <5>. QED BY <5>1 DEF AllBefore
        <4>. QED BY <3>1, <4>1
      <3>11. Increasing(inbox)' /\ Increasing(batch)' /\ Increasing(deferred)'
        BY <1>4, <2>8, <3>1, <3>10, IncreasingAppend DEF Increasing, Precedes, IsFill
      <3>12. AllBefore(batch, inbox)' /\ AllBefore(deferred, inbox)'
        BY <1>4, <2>8, <3>1, <3>10, BeforeAppend DEF AllBefore, Precedes, IsFill
      <3>. QED BY <1>5, <3>3, <3>4, <3>5, <3>8, <3>9, <3>11, <3>12
  <1>. QED BY <1>6, <1>7

\* Handing an ack over, or keeping it for a later settle, moves the head of
\* one queue to the end of another that lies wholly before it.
LEMMA RouteAckIInv ==
    ASSUME IInv, RouteAck
    PROVE  IInv'
  <1>. USE DEF IInv
  <1>0. /\ inbox \in Seq(Acks) /\ inbox # <<>> /\ inbox' = Tail(inbox)
        /\ batch \in Seq(Acks) /\ deferred \in Seq(Acks) /\ phase = "route"
    BY DEF TypeOK, RouteAck
  <1>1. PICK h \in Acks : h = Head(inbox)
    BY <1>0, TailFacts
  <1>2. UNCHANGED <<ost, active, unpruned, booked, phase, expected, done, submitted, meta, lastCum,
                    pendingAcks, submitQ, cancelQ, fillQ, gw, executed, reported>>
    BY DEF RouteAck, routerVars, connVars, gwVars
  <1>3. /\ Tail(inbox) \in Seq(Acks) /\ EachOK(Tail(inbox)) /\ FillAckOK(h)
        /\ Increasing(Tail(inbox)) /\ AllBefore(<<h>>, Tail(inbox))
    BY <1>0, <1>1, EachTail, IncreasingTail, TailFacts
  <1>4. /\ AllBefore(batch, Tail(inbox)) /\ AllBefore(batch, <<h>>)
        /\ AllBefore(deferred, Tail(inbox)) /\ AllBefore(deferred, <<h>>)
    BY <1>0, <1>1, BeforeTail
  <1>5. CountersOK' /\ EventsOK'
    BY <1>2 DEF CountersOK, EventsOK
  <1>6. CASE h.order \in expected
    <2>0. batch' = Append(batch, h) /\ deferred' = deferred
      BY <1>1, <1>6 DEF RouteAck
    <2>1. /\ EachOK(Append(batch, h)) /\ Increasing(Append(batch, h))
          /\ AllBefore(Append(batch, h), Tail(inbox)) /\ AllBefore(deferred, Tail(inbox))
      BY <1>0, <1>3, <1>4, EachAppend, IncreasingAppend, AppendBefore
    <2>2. /\ Append(batch, h) \in Seq(Acks) /\ Len(batch') = Len(batch) + 1 /\ Len(batch) \in Nat
          /\ \A i \in 1 .. Len(batch') :
                \/ i \in 1 .. Len(batch) /\ batch'[i] = batch[i]
                \/ batch'[i] = h
      <3>. HIDE DEF IInv
      <3>. QED BY <1>0, <2>0, AppendFacts
    <2>3. TypeOK'
      BY <1>0, <1>2, <1>3, <2>0, <2>2 DEF TypeOK
    <2>4. PhaseOK'
      BY <1>0, <1>2, <1>6, <2>0, <2>2 DEF PhaseOK, IsFill
    <2>5. EachOK(inbox)' /\ EachOK(batch)' /\ EachOK(deferred)'
      BY <1>0, <1>2, <1>3, <2>0, <2>1 DEF EachOK, FillAckOK, IsFill
    <2>6. /\ Increasing(inbox)' /\ Increasing(batch)' /\ Increasing(deferred)'
          /\ AllBefore(batch, inbox)' /\ AllBefore(deferred, inbox)'
      BY <1>0, <1>3, <2>0, <2>1 DEF Increasing, AllBefore, Precedes, IsFill
    <2>. QED BY <1>5, <2>3, <2>4, <2>5, <2>6
  <1>7. CASE h.order \notin expected
    <2>0. deferred' = Append(deferred, h) /\ batch' = batch
      BY <1>1, <1>7 DEF RouteAck
    <2>1. /\ EachOK(Append(deferred, h)) /\ Increasing(Append(deferred, h))
          /\ AllBefore(Append(deferred, h), Tail(inbox)) /\ AllBefore(batch, Tail(inbox))
      BY <1>0, <1>3, <1>4, EachAppend, IncreasingAppend, AppendBefore
    <2>2. /\ Append(deferred, h) \in Seq(Acks)
          /\ \A i \in 1 .. Len(deferred') :
                \/ i \in 1 .. Len(deferred) /\ deferred'[i] = deferred[i]
                \/ deferred'[i] = h
      <3>. HIDE DEF IInv
      <3>. QED BY <1>0, <2>0, AppendFacts
    <2>3. TypeOK'
      BY <1>0, <1>2, <1>3, <2>0, <2>2 DEF TypeOK
    <2>4. PhaseOK'
      BY <1>0, <1>2, <1>7, <2>0, <2>2 DEF PhaseOK, IsFill
    <2>5. EachOK(inbox)' /\ EachOK(batch)' /\ EachOK(deferred)'
      BY <1>0, <1>2, <1>3, <2>0, <2>1 DEF EachOK, FillAckOK, IsFill
    <2>6. /\ Increasing(inbox)' /\ Increasing(batch)' /\ Increasing(deferred)'
          /\ AllBefore(batch, inbox)' /\ AllBefore(deferred, inbox)'
      BY <1>0, <1>3, <2>0, <2>1 DEF Increasing, AllBefore, Precedes, IsFill
    <2>. QED BY <1>5, <2>3, <2>4, <2>5, <2>6
  <1>. QED BY <1>6, <1>7

\* Applying an ack to its order, forcing an order terminal, pruning and the
\* shutdown change nothing that a fill is measured against.
LEMMA ApplyAckIInv ==
    ASSUME IInv, ApplyAckToOrder
    PROVE  IInv'
  <1>. USE DEF IInv, ApplyAckToOrder, routerVars, connVars, gwVars
  <1>1. PICK a \in Acks : a = batch[done + 1]
    BY DEF TypeOK
  <1>2. a.order \in Orders /\ a.status \in OrderAckStatus /\ ost[a.order] \in OrderState
    BY DEF Acks, TypeOK
  <1>3. ost' \in [Orders -> OrderState]
    <2>1. ApplyAck(ost[a.order], a.status) \in OrderState
      BY <1>2, ApplyAckType
    <2>. QED BY <1>1, <1>2, <2>1 DEF TypeOK
  <1>4. done' \in 0 .. Len(batch')
    BY DEF TypeOK
  <1>5. TypeOK'
    BY <1>3, <1>4 DEF TypeOK
  <1>6. PhaseOK' /\ CountersOK' /\ EventsOK'
    BY DEF PhaseOK, CountersOK, EventsOK, IsFill
  <1>7. executed' = executed /\ executed \in [Orders -> Nat]
    BY DEF TypeOK
  <1>. QED BY <1>5, <1>6, <1>7, PipelineUnchanged

\* All acks of a poll are settled.
LEMMA FinishSettleIInv ==
    ASSUME IInv, FinishSettle
    PROVE  IInv'
  <1>. USE DEF IInv, FinishSettle, Live, routerVars, connVars, gwVars
  <1>1. TypeOK'
    BY DEF TypeOK, Phases
  <1>2. PhaseOK' /\ CountersOK' /\ EventsOK'
    BY DEF PhaseOK, CountersOK, EventsOK, IsFill, TypeOK
  <1>3. executed' = executed /\ executed \in [Orders -> Nat]
    BY DEF TypeOK
  <1>. QED BY <1>1, <1>2, <1>3, PipelineUnchanged

\* Shutdown.
LEMMA ShutdownIInv ==
    ASSUME IInv, Shutdown
    PROVE  IInv'
  <1>. USE DEF IInv, Shutdown, Live, routerVars, connVars, gwVars
  <1>1. TypeOK'
    BY DEF TypeOK, Phases, OrderState
  <1>2. PhaseOK' /\ CountersOK' /\ EventsOK'
    BY DEF PhaseOK, CountersOK, EventsOK, IsFill, TypeOK
  <1>3. executed' = executed /\ executed \in [Orders -> Nat]
    BY DEF TypeOK
  <1>. QED BY <1>1, <1>2, <1>3, PipelineUnchanged

\* A settle is abandoned: the acks of its batch are in flight no more.
LEMMA AbandonIInv ==
    ASSUME IInv, Abandon, phase \in {"idle", "submit", "apply", "book"},
           ost' \in [Orders -> OrderState], active' \subseteq Orders, unpruned' \subseteq Orders,
           submitted \subseteq submitted', submitted' \subseteq Orders,
           UNCHANGED <<meta, lastCum, pendingAcks, connVars, gwVars>>
    PROVE  IInv'
  <1>. USE DEF IInv, Abandon, connVars, gwVars
  <1>1. TypeOK'
    BY DEF TypeOK, Phases
  <1>2. PhaseOK' /\ CountersOK' /\ EventsOK'
    BY DEF PhaseOK, CountersOK, EventsOK, IsFill, TypeOK
  <1>3. EachOK(inbox)' /\ EachOK(batch)' /\ EachOK(deferred)'
    BY DEF EachOK, FillAckOK, IsFill
  <1>4. /\ Increasing(inbox)' /\ Increasing(batch)' /\ Increasing(deferred)'
        /\ AllBefore(batch, inbox)' /\ AllBefore(deferred, inbox)'
    BY DEF Increasing, AllBefore
  <1>. QED BY <1>1, <1>2, <1>3, <1>4

\* An exception in a settle or before it.
LEMMA RaisesIInv ==
    ASSUME IInv, SettleRaises \/ \E o \in Orders : TrackRaises(o)
    PROVE  IInv'
  <1>1. /\ ost \in [Orders -> OrderState] /\ active \subseteq Orders /\ unpruned \subseteq Orders
        /\ submitted \subseteq Orders /\ expected \subseteq Orders /\ batch \in Seq(Acks)
        /\ done \in 0 .. Len(batch)
    BY DEF IInv, TypeOK
  <1>2. CASE SettleRaises
    <2>1. ost' \in [Orders -> OrderState]
      <3>1. CASE UNCHANGED ost
        BY <1>1, <3>1
      <3>2. CASE ~UNCHANGED ost
        <4>1. done < Len(batch) /\ ost' = [ost EXCEPT ![batch[done + 1].order] = Acknowledged(@)]
          BY <1>2, <3>2 DEF SettleRaises
        <4>2. PICK a \in Acks : a = batch[done + 1]
          BY <1>1, <4>1
        <4>3. a.order \in Orders
          BY DEF Acks
        <4>4. Acknowledged(ost[a.order]) \in OrderState
          BY <1>1, <4>3 DEF Acknowledged, OrderState
        <4>. QED BY <1>1, <4>1, <4>2, <4>3, <4>4
      <3>. QED BY <3>1, <3>2
    <2>. QED BY <1>1, <1>2, <2>1, AbandonIInv DEF SettleRaises, routerVars
  <1>3. ASSUME NEW o \in Orders, TrackRaises(o) PROVE IInv'
    <2>1. ost' \in [Orders -> OrderState]
      BY <1>1, <1>3 DEF TrackRaises, OrderState
    <2>. QED BY <1>1, <1>3, <2>1, AbandonIInv DEF TrackRaises
  <1>. QED BY <1>2, <1>3

\* An emergency exit fails.
LEMMA PipelineErrorIInv ==
    ASSUME IInv, NEW o \in Orders, PipelineError(o)
    PROVE  IInv'
  <1>. USE DEF IInv, PipelineError, Live, routerVars, connVars, gwVars
  <1>1. ForceTerminal(ost[o]) \in OrderState /\ ost \in [Orders -> OrderState]
    BY DEF ForceTerminal, OrderState, TypeOK
  <1>2. ost' \in [Orders -> OrderState] /\ active' \subseteq Orders
    BY <1>1 DEF TypeOK
  <1>. QED BY <1>2, AbandonIInv DEF TypeOK

\* Booking the head of the batch keeps every other ack above what is booked:
\* those of its order come later, and the deferred acks are of other orders.
LEMMA ReconcileFillIInv ==
    ASSUME IInv, ReconcileFill
    PROVE  IInv'
  <1>. USE DEF IInv
  <1>0. /\ batch \in Seq(Acks) /\ batch # <<>> /\ batch' = Tail(batch) /\ phase = "book"
        /\ inbox = <<>> /\ deferred \in Seq(Acks) /\ done = 0
        /\ UNCHANGED <<ost, active, unpruned, phase, expected, inbox, done, deferred, submitted, meta,
                       lastCum, pendingAcks, submitQ, cancelQ, fillQ, gw, executed, reported>>
    BY DEF TypeOK, PhaseOK, ReconcileFill, routerVars, connVars, gwVars
  <1>1. PICK h \in Acks : h = Head(batch)
    BY <1>0, TailFacts
  <1>2. /\ h.order \in Orders /\ h.qty \in Nat /\ h.cum \in Nat
        /\ booked \in [Orders -> Nat] /\ executed \in [Orders -> Nat] /\ lastCum \in [Orders -> Nat]
    BY DEF Acks, TypeOK
  <1>3. PICK n \in Nat : n = BookedBy(h) /\ (~IsFill(h) => n = 0) /\ n <= h.qty
    BY <1>2 DEF BookedBy, IsFill
  <1>4. booked' = [booked EXCEPT ![h.order] = @ + n]
    BY <1>1, <1>3 DEF ReconcileFill
  <1>5. /\ Tail(batch) \in Seq(Acks) /\ EachOK(Tail(batch)) /\ FillAckOK(h)
        /\ Increasing(Tail(batch)) /\ AllBefore(<<h>>, Tail(batch))
    BY <1>0, <1>1, EachTail, IncreasingTail, TailFacts
  <1>6. /\ h.order \in expected
        /\ \A i \in 1 .. Len(Tail(batch)) : Tail(batch)[i].order \in expected
        /\ Len(Tail(batch)) \in Nat
    <2>1. /\ 1 \in 1 .. Len(batch) /\ h = batch[1] /\ Len(Tail(batch)) \in Nat
          /\ \A i \in 1 .. Len(Tail(batch)) : i + 1 \in 1 .. Len(batch) /\ Tail(batch)[i] = batch[i + 1]
      <3>. HIDE DEF IInv
      <3>. QED BY <1>0, <1>1, TailFacts
    <2>. QED BY <2>1 DEF PhaseOK
  <1>7. booked' \in [Orders -> Nat]
    BY <1>2, <1>4
  <1>8. TypeOK'
    BY <1>0, <1>5, <1>6, <1>7, SMTT(20) DEF TypeOK
  <1>9. PhaseOK'
    BY <1>0, <1>6 DEF PhaseOK, IsFill
  <1>10. EventsOK'
    BY <1>0 DEF EventsOK
  <1>11. CountersOK'
    <2>. SUFFICES ASSUME NEW p \in Orders
                  PROVE  /\ booked'[p] <= executed[p]
                         /\ p \in meta => booked'[p] <= lastCum[p]
                         /\ p \notin submitted => booked'[p] = 0
      BY <1>0 DEF CountersOK
    <2>1. /\ booked[p] <= executed[p] /\ booked[p] \in Nat
          /\ p \in meta => booked[p] <= lastCum[p]
          /\ p \notin submitted => booked[p] = 0
      BY DEF CountersOK, TypeOK
    <2>. HIDE DEF IInv
    <2>2. CASE p # h.order \/ n = 0
      <3>1. booked'[p] = booked[p]
        BY <1>2, <1>4, <2>2
      <3>. QED BY <2>1, <3>1
    <2>3. CASE p = h.order /\ n # 0
      <3>1. /\ p \in submitted /\ h.cum <= executed[p] /\ booked[p] + h.qty <= h.cum
            /\ p \in meta => h.cum <= lastCum[p]
        BY <1>3, <1>5, <2>3 DEF FillAckOK
      <3>2. booked'[p] = booked[p] + n
        BY <1>2, <1>4, <2>3
      <3>. QED BY <1>2, <1>3, <2>1, <3>1, <3>2
    <2>. QED BY <2>2, <2>3
  <1>12. ASSUME NEW b \in Acks, FillAckOK(b), b.order # h.order \/ Precedes(h, b)
         PROVE  FillAckOK(b)'
    <2>0. b.order \in Orders /\ b.qty \in Nat /\ b.cum \in Nat
      BY DEF Acks
    <2>. HIDE DEF IInv
    <2>1. CASE b.order # h.order \/ n = 0
      <3>1. booked'[b.order] = booked[b.order]
        BY <1>2, <1>4, <2>0, <2>1
      <3>. QED BY <1>0, <1>12, <3>1 DEF FillAckOK, IsFill
    <2>2. CASE b.order = h.order /\ n # 0
      <3>. SUFFICES ASSUME IsFill(b) PROVE booked'[b.order] + b.qty <= b.cum
        BY <1>0, <1>12 DEF FillAckOK, IsFill
      <3>1. booked[h.order] + h.qty <= h.cum /\ h.cum + b.qty <= b.cum
        BY <1>3, <1>5, <1>12, <2>2 DEF FillAckOK, Precedes
      <3>2. booked'[b.order] = booked[h.order] + n /\ booked[h.order] \in Nat
        BY <1>2, <1>4, <2>2
      <3>. QED BY <1>2, <1>3, <2>0, <3>1, <3>2
    <2>. QED BY <2>1, <2>2
  <1>13. EachOK(batch)'
    <2>1. ASSUME NEW i \in 1 .. Len(batch') PROVE FillAckOK(batch[i])'
      <3>1. PICK b \in Acks : b = batch'[i] /\ FillAckOK(b) /\ Precedes(h, b)
        <4>. HIDE DEF IInv
        <4>1. batch'[i] \in Acks /\ FillAckOK(batch'[i])
          <5>1. PICK t \in Seq(Acks) : t = Tail(batch) /\ EachOK(t)
            BY <1>5
          <5>2. i \in 1 .. Len(t) /\ batch'[i] = t[i]
            BY <1>0, <5>1
          <5>. QED BY <5>1, <5>2 DEF EachOK
        <4>2. Precedes(h, batch'[i])
          BY <1>0, <1>5 DEF AllBefore
        <4>. QED BY <4>1, <4>2
      <3>. HIDE DEF IInv
      <3>2. FillAckOK(b)'
        BY <1>12, <3>1
      <3>. QED BY <3>1, <3>2 DEF FillAckOK, IsFill
    <2>. QED BY <2>1 DEF EachOK
  <1>14. EachOK(deferred)'
    <2>1. ASSUME NEW i \in 1 .. Len(deferred') PROVE FillAckOK(deferred[i])'
      <3>1. PICK b \in Acks : b = deferred'[i] /\ FillAckOK(b) /\ b.order # h.order
        BY <1>0, <1>6 DEF EachOK, PhaseOK
      <3>. HIDE DEF IInv
      <3>2. FillAckOK(b)'
        BY <1>12, <3>1
      <3>. QED BY <3>1, <3>2 DEF FillAckOK, IsFill
    <2>. QED BY <2>1 DEF EachOK
  <1>15. /\ EachOK(inbox)' /\ Increasing(inbox)' /\ Increasing(batch)' /\ Increasing(deferred)'
         /\ AllBefore(batch, inbox)' /\ AllBefore(deferred, inbox)'
    <2>1. inbox' = <<>> /\ deferred' = deferred
      BY <1>0
    <2>2. EachOK(inbox)' /\ AllBefore(batch, inbox)' /\ AllBefore(deferred, inbox)'
      BY <2>1 DEF EachOK, AllBefore
    <2>3. Increasing(inbox)' /\ Increasing(deferred)'
      BY <2>1 DEF Increasing, Precedes, IsFill
    <2>4. Increasing(batch)'
      BY <1>0, <1>5 DEF Increasing, Precedes, IsFill
    <2>. QED BY <2>2, <2>3, <2>4
  <1>. QED BY <1>8, <1>9, <1>10, <1>11, <1>13, <1>14, <1>15

(***************************************************************************)
(* The other threads                                                       *)
(***************************************************************************)
\* A callback joins _fill_queue; its quantity has been traded.
LEMMA DeliverFacts ==
    ASSUME TypeOK, NEW ev \in FillEvents, Deliver(ev)
    PROVE  /\ fillQ' \in Seq(FillEvents)
           /\ \A i \in 1 .. Len(fillQ') :
                 \/ i \in 1 .. Len(fillQ) /\ fillQ'[i] = fillQ[i]
                 \/ fillQ'[i] = ev
  <1>1. fillQ \in Seq(FillEvents) /\ fillQ' = Append(fillQ, ev)
    BY DEF TypeOK, Deliver
  <1>. QED BY <1>1, AppendFacts

\* A step of the writer or the gateway: shares are traded, callbacks queued.
LEMMA OtherThreadIInv ==
    ASSUME IInv, UNCHANGED <<kernelVars, routerVars>>,
           submitQ' \subseteq Orders, cancelQ' \subseteq Orders,
           gw' \in [Orders -> {"none", "working", "closed"}],
           executed' \in [Orders -> Nat], reported' \in [Orders -> Nat],
           \A o \in Orders : executed[o] <= executed'[o] /\ executed'[o] <= Qty[o],
           \/ UNCHANGED fillQ
           \/ \E ev \in FillEvents : Deliver(ev) /\ ev.cum <= executed'[ev.order]
    PROVE  IInv'
  <1>. USE DEF IInv
  <1>0. UNCHANGED <<ost, active, unpruned, booked, phase, expected, inbox, batch, done, deferred,
                    submitted, meta, lastCum, pendingAcks>>
    BY DEF kernelVars, settleVars, routerVars
  <1>1. fillQ' \in Seq(FillEvents) /\ EventsOK'
    <2>0. \A o \in Orders : executed[o] \in Nat /\ executed'[o] \in Nat
      BY DEF TypeOK
    <2>1. ASSUME NEW e \in FillEvents, e.cum <= executed[e.order]
          PROVE  e.cum <= executed'[e.order]
      <3>1. e.order \in Orders /\ e.cum \in Nat
        BY DEF FillEvents
      <3>2. executed[e.order] <= executed'[e.order]
        BY <3>1
      <3>. HIDE DEF IInv
      <3>. QED BY <2>0, <2>1, <3>1, <3>2
    <2>2. fillQ \in Seq(FillEvents)
      BY DEF TypeOK
    <2>3. CASE UNCHANGED fillQ
      <3>1. ASSUME NEW i \in 1 .. Len(fillQ) PROVE fillQ[i].cum <= executed'[fillQ[i].order]
        <4>1. fillQ[i] \in FillEvents /\ fillQ[i].cum <= executed[fillQ[i].order]
          BY <2>2 DEF EventsOK
        <4>. HIDE DEF IInv
        <4>. QED BY <2>1, <4>1
      <3>. QED BY <2>2, <2>3, <3>1 DEF EventsOK
    <2>4. ASSUME NEW ev \in FillEvents, Deliver(ev), ev.cum <= executed'[ev.order]
          PROVE  fillQ' \in Seq(FillEvents) /\ EventsOK'
      <3>1. /\ fillQ' \in Seq(FillEvents)
            /\ \A i \in 1 .. Len(fillQ') :
                 \/ i \in 1 .. Len(fillQ) /\ fillQ'[i] = fillQ[i]
                 \/ fillQ'[i] = ev
        BY <2>4, DeliverFacts
      <3>2. ASSUME NEW i \in 1 .. Len(fillQ') PROVE fillQ'[i].cum <= executed'[fillQ'[i].order]
        <4>1. CASE i \in 1 .. Len(fillQ) /\ fillQ'[i] = fillQ[i]
          <5>1. fillQ[i] \in FillEvents /\ fillQ[i].cum <= executed[fillQ[i].order]
            BY <2>2, <4>1 DEF EventsOK
          <5>. HIDE DEF IInv
          <5>. QED BY <2>1, <4>1, <5>1
        <4>2. CASE fillQ'[i] = ev
          BY <2>4, <4>2
        <4>. QED BY <3>1, <4>1, <4>2
      <3>. QED BY <3>1, <3>2 DEF EventsOK
    <2>. QED BY <2>3, <2>4
  <1>2. TypeOK'
    BY <1>0, <1>1 DEF TypeOK
  <1>3. PhaseOK'
    BY <1>0 DEF PhaseOK, IsFill
  <1>4. CountersOK'
    <2>. SUFFICES ASSUME NEW o \in Orders
                  PROVE  booked[o] <= executed'[o] /\ lastCum[o] <= executed'[o]
      BY <1>0 DEF CountersOK
    <2>1. /\ booked[o] \in Nat /\ lastCum[o] \in Nat /\ executed[o] \in Nat /\ executed'[o] \in Nat
          /\ booked[o] <= executed[o] /\ lastCum[o] <= executed[o] /\ executed[o] <= executed'[o]
      BY DEF TypeOK, CountersOK
    <2>. HIDE DEF IInv
    <2>. QED BY <2>1
  <1>. QED BY <1>0, <1>1, <1>2, <1>3, <1>4, PipelineUnchanged

\* The steps of the gateway's writer.
LEMMA WriterIInv ==
    ASSUME IInv, NEW o \in Orders, Writer(o)
    PROVE  IInv'
  <1>. USE DEF IInv
  <1>0. /\ submitQ \subseteq Orders /\ cancelQ \subseteq Orders /\ reported \in [Orders -> Nat]
        /\ executed \in [Orders -> Nat] /\ gw \in [Orders -> {"none", "working", "closed"}]
        /\ \A p \in Orders : executed[p] <= Qty[p] /\ executed[p] <= executed[p]
    BY DEF TypeOK, CountersOK
  <1>1. PICK ev \in FillEvents : ev = Event(o, "otherCode", 0) /\ ev.cum <= executed[ev.order]
    <2>1. Event(o, "otherCode", 0) \in FillEvents
      BY EventType DEF ErrorCodes
    <2>. QED BY <1>0, <2>1 DEF Event
  <1>2. /\ UNCHANGED <<kernelVars, routerVars, executed, reported>>
        /\ submitQ' \subseteq Orders /\ cancelQ' \subseteq Orders
        /\ gw' \in [Orders -> {"none", "working", "closed"}]
        /\ UNCHANGED fillQ \/ Deliver(ev)
    <2>. HIDE DEF IInv
    <2>1. CASE WriterPlaceOrder(o)
      BY <1>0, <2>1 DEF WriterPlaceOrder
    <2>2. CASE WriterPlaceOrderFails(o)
      BY <1>0, <1>1, <2>2 DEF WriterPlaceOrderFails
    <2>3. CASE WriterCancelOrder(o)
      BY <1>0, <1>1, <2>3 DEF WriterCancelOrder, gwVars
    <2>. QED BY <2>1, <2>2, <2>3 DEF Writer
  <1>3. ev.cum <= executed'[ev.order]
    BY <1>1, <1>2
  <1>4. \A p \in Orders : executed[p] <= executed'[p] /\ executed'[p] <= Qty[p]
    BY <1>0, <1>2
  <1>. HIDE DEF IInv
  <1>. QED BY <1>0, <1>2, <1>3, <1>4, OtherThreadIInv

\* The steps of the gateway.
LEMMA GatewayIInv ==
    ASSUME IInv, NEW o \in Orders, Gateway(o)
    PROVE  IInv'
  <1>0. /\ submitQ \subseteq Orders /\ cancelQ \subseteq Orders /\ reported \in [Orders -> Nat]
        /\ executed \in [Orders -> Nat] /\ gw \in [Orders -> {"none", "working", "closed"}]
        /\ \A p \in Orders : executed[p] <= Qty[p]
        /\ Qty[o] \in Nat
    BY DEF IInv, TypeOK, CountersOK
  <1>1. ASSUME NEW n \in 1 .. Qty[o], GatewayExecute(o, n)
        PROVE  IInv'
    <2>1. executed' = [executed EXCEPT ![o] = @ + n] /\ executed[o] + n <= Qty[o] /\ n \in Nat
      BY <1>0, <1>1 DEF GatewayExecute
    <2>2. executed' \in [Orders -> Nat]
      BY <1>0, <2>1
    <2>3. \A p \in Orders : executed[p] <= executed'[p] /\ executed'[p] <= Qty[p]
      <3>. TAKE p \in Orders
      <3>1. executed[p] \in Nat /\ executed[o] \in Nat /\ executed[p] <= Qty[p]
        BY <1>0
      <3>2. CASE p = o
        BY <1>0, <2>1, <3>1, <3>2
      <3>3. CASE p # o
        BY <1>0, <2>1, <3>1, <3>3
      <3>. QED BY <3>2, <3>3
    <2>4. Event(o, "Filled", Qty[o]) \in FillEvents
      BY <1>0, EventType DEF OrderStatuses
    <2>5. PICK ev \in FillEvents : ev = Event(o, "Filled", Qty[o])
      BY <2>4
    <2>6. ev.cum = Qty[o] /\ ev.order = o
      BY <2>5 DEF Event
    <2>7. CASE executed[o] + n = Qty[o]
      <3>1. /\ UNCHANGED <<kernelVars, routerVars, submitQ, cancelQ>> /\ Deliver(ev)
            /\ gw' \in [Orders -> {"none", "working", "closed"}] /\ reported' \in [Orders -> Nat]
        BY <1>0, <1>1, <2>5, <2>7 DEF GatewayExecute
      <3>2. ev.cum <= executed'[ev.order]
        BY <1>0, <2>1, <2>6, <2>7
      <3>. QED BY <1>0, <2>2, <2>3, <3>1, <3>2, OtherThreadIInv
    <2>8. CASE executed[o] + n # Qty[o]
      <3>1. /\ UNCHANGED <<kernelVars, routerVars, submitQ, cancelQ, gw, reported, fillQ>>
        BY <1>1, <2>8 DEF GatewayExecute
      <3>. QED BY <1>0, <2>2, <2>3, <3>1, OtherThreadIInv
    <2>. QED BY <2>7, <2>8
  <1>2. ASSUME NEW st \in OrderStatuses \cup ErrorCodes, NEW c \in Nat, c <= executed[o],
               Deliver(Event(o, st, c)), reported' \in [Orders -> Nat],
               gw' \in [Orders -> {"none", "working", "closed"}],
               UNCHANGED <<kernelVars, routerVars, submitQ, cancelQ, executed>>
        PROVE  IInv'
    <2>1. PICK ev \in FillEvents : ev = Event(o, st, c)
      BY EventType
    <2>2. Deliver(ev) /\ ev.cum <= executed'[ev.order]
      BY <1>2, <2>1 DEF Event
    <2>3. \A p \in Orders : executed[p] <= executed'[p] /\ executed'[p] <= Qty[p]
      BY <1>0, <1>2
    <2>. QED BY <1>0, <1>2, <2>2, <2>3, OtherThreadIInv
  <1>3. ASSUME NEW s \in OrderStatuses \cup ErrorCodes, NEW n \in 1 .. Qty[o], GatewayReport(o, s, n)
        PROVE  IInv'
    <2>1. n \in Nat /\ n <= executed[o]
      BY <1>0, <1>3 DEF GatewayReport
    <2>2. /\ Deliver(Event(o, s, n)) /\ UNCHANGED <<kernelVars, routerVars, submitQ, cancelQ, gw, executed>>
          /\ reported' = [reported EXCEPT ![o] =
                            IF s \in {"PartiallyFilled", "Filled"} /\ n > @ THEN n ELSE @]
      BY <1>3 DEF GatewayReport
    <2>3. reported' \in [Orders -> Nat]
      BY <1>0, <2>1, <2>2
    <2>. QED BY <1>0, <1>2, <2>1, <2>2, <2>3
  <1>4. ASSUME NEW s \in OrderStatuses \cup ErrorCodes, GatewayEnd(o, s)
        PROVE  IInv'
    <2>1. PICK c \in Nat : c = (IF s \in ErrorCodes THEN 0 ELSE executed[o]) /\ c <= executed[o]
      BY <1>0
    <2>2. Deliver(Event(o, s, c)) /\ UNCHANGED <<kernelVars, routerVars, submitQ, cancelQ, executed, reported>>
          /\ gw' = [gw EXCEPT ![o] = "closed"]
      BY <1>4, <2>1 DEF GatewayEnd
    <2>. QED BY <1>0, <1>2, <2>1, <2>2
  <1>5. CASE GatewayWarning(o)
    <2>1. Deliver(Event(o, "otherCode", 0)) /\ UNCHANGED <<kernelVars, routerVars, submitQ, cancelQ, gw, executed, reported>>
      BY <1>5 DEF GatewayWarning, gwVars
    <2>2. "otherCode" \in OrderStatuses \cup ErrorCodes /\ 0 <= executed[o]
      BY <1>0 DEF ErrorCodes
    <2>. QED BY <1>0, <1>2, <2>1, <2>2
  <1>. QED BY <1>1, <1>3, <1>4, <1>5 DEF Gateway

(***************************************************************************)
(* The theorems                                                            *)
(***************************************************************************)
LEMMA MainThreadIInv ==
    ASSUME IInv, MainThread
    PROVE  IInv'
  <1>0. ost \in [Orders -> OrderState] /\ cancelQ \subseteq Orders /\ expected \subseteq Orders
    BY DEF IInv, TypeOK
  <1>1. CASE SettleSubmitted
    BY <1>0, <1>1, BeginSettleIInv DEF SettleSubmitted, connVars
  <1>2. CASE DrainAsyncFills
    BY <1>0, <1>2, BeginSettleIInv DEF DrainAsyncFills, connVars
  <1>3. ASSUME NEW S \in SUBSET Orders, CancelResting(S) PROVE IInv'
    <2>1. cancelQ' \subseteq Orders
      BY <1>0, <1>3 DEF CancelResting
    <2>. QED BY <1>0, <1>3, <2>1, BeginSettleIInv DEF CancelResting
  <1>4. ASSUME NEW o \in Orders, CancelOrder(o) PROVE IInv'
    <2>1. ost' \in [Orders -> OrderState] /\ cancelQ' \subseteq Orders /\ {o} \in SUBSET Orders
      BY <1>0, <1>4 DEF CancelOrder, OrderState
    <2>. QED BY <1>4, <2>1, BeginSettleIInv DEF CancelOrder
  <1>5. ASSUME NEW o \in Orders, TrackAndSubmit(o) \/ TrackAndSubmitFails(o) \/ PipelineError(o)
        PROVE  IInv'
    BY <1>5, TrackIInv, SubmitFailsIInv, PipelineErrorIInv
  <1>6. CASE PollFill \/ PollDone \/ RouteAck \/ RouteDone \/ ApplyAckToOrder \/ ApplyDone
    BY <1>6, PollFillIInv, PhaseStepIInv, RouteAckIInv, ApplyAckIInv
  <1>7. CASE ReconcileFill \/ FinishSettle \/ Shutdown
    BY <1>7, ReconcileFillIInv, FinishSettleIInv, ShutdownIInv
  <1>8. CASE SettleRaises \/ \E o \in Orders : TrackRaises(o)
    BY <1>8, RaisesIInv
  <1>. QED BY <1>1, <1>2, <1>3, <1>4, <1>5, <1>6, <1>7, <1>8 DEF MainThread, Settle

\* A step that changes nothing.
LEMMA StutterIInv == IInv /\ UNCHANGED vars => IInv'
  <1>. SUFFICES ASSUME IInv, UNCHANGED vars PROVE IInv'
    OBVIOUS
  <1>. USE DEF IInv, vars, kernelVars, settleVars, routerVars, connVars, gwVars
  <1>1. TypeOK' /\ CountersOK' /\ EventsOK'
    BY DEF TypeOK, CountersOK, EventsOK
  <1>2. PhaseOK'
    BY DEF PhaseOK, IsFill
  <1>3. executed' = executed /\ executed \in [Orders -> Nat]
    BY DEF TypeOK
  <1>. QED BY <1>1, <1>2, <1>3, PipelineUnchanged

\* The acks in flight of every order cover disjoint ranges of its shares, in
\* increasing order, above what is booked and below what is traded.
THEOREM InductiveInvariant == Spec => []IInv
  <1>1. Init => IInv
    BY InitIInv
  <1>2. IInv /\ [Next]_vars => IInv'
    <2>1. ASSUME IInv, Next PROVE IInv'
      BY <2>1, MainThreadIInv, WriterIInv, GatewayIInv DEF Next
    <2>. QED BY <2>1, StutterIInv
  <1>. QED BY <1>1, <1>2, PTL DEF Spec

\* Type correctness of the order path.
THEOREM TypeCorrect == Spec => []TypeOK
  <1>1. IInv => TypeOK
    BY DEF IInv
  <1>. QED BY <1>1, InductiveInvariant, PTL

\* The position never holds a share the gateway has not traded, for any
\* number of orders, any quantities and every combination of Situations.
THEOREM NeverOverbooksTheorem == Spec => []NeverOverbooks
  <1>1. IInv => NeverOverbooks
    BY DEF IInv, CountersOK, NeverOverbooks
  <1>. QED BY <1>1, InductiveInvariant, PTL

(***************************************************************************)
(* No finished order is tracked between two settles.                       *)
(***************************************************************************)
\* An order is tracked once it is submitted; a tracked order that is terminal is
\* one the running settle is for, or one that a settle which raised was for.
PrunedOK ==
    /\ active \subseteq submitted
    /\ "pipeline" \notin Situations => unpruned = {}
    /\ \A o \in active : ost[o] \in TerminalOrderStates =>
          o \in unpruned \/ (phase \in {"poll", "route", "apply", "book"} /\ o \in expected)

\* Every step keeps it: an order enters active as SUBMITTED, acks are applied to
\* expected orders, and each way back to "idle" prunes or remembers for whom.
LEMMA PrunedStep == IInv /\ PrunedOK /\ [Next]_vars => PrunedOK'
  <1>. SUFFICES ASSUME IInv, PrunedOK, [Next]_vars PROVE PrunedOK'
    OBVIOUS
  <1>. USE DEF PrunedOK, settleVars, kernelVars, routerVars, connVars, gwVars
  <1>1. /\ active \subseteq Orders /\ ost \in [Orders -> OrderState] /\ batch \in Seq(Acks)
        /\ done \in 0 .. Len(batch) /\ \A i \in 1 .. Len(batch) : batch[i].order \in expected
    BY DEF IInv, TypeOK, PhaseOK
  <1>2. ASSUME UNCHANGED <<ost, active, unpruned, submitted, phase, expected>> PROVE PrunedOK'
    BY <1>2
  <1>3. ASSUME UNCHANGED <<ost, active, unpruned, submitted>>,
               phase' \in {"poll", "route", "apply", "book"},
               phase \in {"idle", "submit"} \/ expected' = expected
        PROVE  PrunedOK'
    BY <1>3
  <1>4. ASSUME NEW o \in Orders, TrackAndSubmit(o) PROVE PrunedOK'
    BY <1>1, <1>4 DEF TrackAndSubmit, TerminalOrderStates
  <1>5. ASSUME NEW o \in Orders, TrackAndSubmitFails(o) PROVE PrunedOK'
    BY <1>1, <1>5 DEF TrackAndSubmitFails, Live
  <1>6. ASSUME NEW o \in Orders, CancelOrder(o) PROVE PrunedOK'
    BY <1>1, <1>6 DEF CancelOrder, BeginSettle, TerminalOrderStates
  <1>7. ASSUME NEW o \in Orders, PipelineError(o) PROVE PrunedOK'
    <2>. DEFINE forced == [ost EXCEPT ![o] = ForceTerminal(@)]
    <2>. HIDE DEF forced
    <2>1. /\ ost' = forced /\ active' = Live(forced)
          /\ submitted' = submitted /\ unpruned' = {}
      BY <1>7 DEF PipelineError, forced
    <2>. QED BY <2>1 DEF Live
  <1>8. CASE FinishSettle
    BY <1>8 DEF FinishSettle, Live
  <1>9. CASE Shutdown
    <2>. DEFINE states == ost'
    <2>. HIDE DEF states
    <2>1. /\ ost' = states /\ active' = Live(states)
          /\ submitted' = submitted /\ unpruned' = {}
      BY <1>9 DEF Shutdown, states
    <2>. QED BY <2>1 DEF Live
  <1>10. CASE ApplyAckToOrder
    <2>1. phase = "apply" /\ done < Len(batch) /\ UNCHANGED <<active, unpruned, submitted, phase, expected>>
      BY <1>10 DEF ApplyAckToOrder
    <2>2. batch[done + 1].order \in expected
      BY <1>1, <2>1
    <2>3. \A o \in Orders : o # batch[done + 1].order => ost'[o] = ost[o]
      BY <1>1, <1>10 DEF ApplyAckToOrder
    <2>. QED BY <1>1, <2>1, <2>2, <2>3
  <1>11. CASE Settle
    BY <1>2, <1>3, <1>8, <1>10, <1>11
       DEF Settle, SettleSubmitted, BeginSettle, PollFill, PollDone, RouteAck, RouteDone, ApplyDone, ReconcileFill
  <1>12. CASE SettleRaises
    <2>1. /\ "pipeline" \in Situations /\ unpruned' = unpruned \cup expected
          /\ UNCHANGED <<active, submitted>>
      BY <1>12 DEF SettleRaises
    <2>2. \A o \in active : ost'[o] \in TerminalOrderStates => ost[o] \in TerminalOrderStates
      BY <1>1, <1>12 DEF SettleRaises, Acknowledged, TerminalOrderStates
    <2>. QED BY <2>1, <2>2
  <1>13. ASSUME NEW o \in Orders, TrackRaises(o) PROVE PrunedOK'
    <2>1. /\ "pipeline" \in Situations /\ unpruned' = unpruned \cup expected
          /\ active' = active \cup {o} /\ submitted' = submitted \cup {o}
      BY <1>13 DEF TrackRaises
    <2>2. \A p \in active' : ost'[p] \in TerminalOrderStates => p \in active /\ ost[p] \in TerminalOrderStates
      BY <1>1, <1>13, <2>1 DEF TrackRaises, TerminalOrderStates
    <2>. QED BY <2>1, <2>2
  <1>14. CASE MainThread
    BY <1>3, <1>4, <1>5, <1>6, <1>7, <1>9, <1>11, <1>12, <1>13, <1>14
       DEF MainThread, DrainAsyncFills, CancelResting, BeginSettle
  <1>15. ASSUME NEW o \in Orders, Writer(o) \/ Gateway(o) PROVE PrunedOK'
    BY <1>2, <1>15 DEF Writer, WriterPlaceOrder, WriterPlaceOrderFails, WriterCancelOrder, Gateway,
                       GatewayExecute, GatewayReport, GatewayEnd, GatewayWarning
  <1>16. CASE UNCHANGED vars
    BY <1>2, <1>16 DEF vars
  <1>. QED BY <1>14, <1>15, <1>16 DEF Next

\* It holds throughout.
LEMMA Pruned == Spec => []PrunedOK
  <1>1. Init => PrunedOK
    BY DEF Init, PrunedOK
  <1>. QED BY <1>1, PrunedStep, InductiveInvariant, PTL DEF Spec

\* Between two settles the kernel tracks no finished order but those of a settle
\* that raised and has not been followed by one that prunes, for every
\* combination of Situations (_settle_router_acks, _prune_terminal_orders).
THEOREM NoTerminalOrderTrackedTheorem == Spec => []NoTerminalOrderTracked
  <1>1. PrunedOK => NoTerminalOrderTracked
    BY DEF PrunedOK, NoTerminalOrderTracked
  <1>. QED BY <1>1, Pruned, PTL

(***************************************************************************)
(* The trackers, when nothing but stale callbacks and executions on a      *)
(* cancel disturb the session.                                             *)
(***************************************************************************)
Undisturbed == Situations \subseteq {"stale", "cancelFill"}

Terminal(a) == a.status \in TerminalOrderStates

\* The acks that wait to be applied.
Waiting ==
    {inbox[i] : i \in 1 .. Len(inbox)} \cup {deferred[i] : i \in 1 .. Len(deferred)}
    \cup {pendingAcks[i] : i \in 1 .. Len(pendingAcks)}
    \cup (IF phase = "book" THEN {} ELSE {batch[i] : i \in done + 1 .. Len(batch)})

\* An order works at the gateway from when the writer places it until it is
\* over, and all that time the router knows it.
GatewayOK ==
    /\ meta \subseteq submitted /\ submitQ \subseteq meta
    /\ \A o \in Orders :
          /\ gw[o] = "none" => executed[o] = 0
          /\ o \in submitQ \/ o \notin submitted => gw[o] = "none"
          /\ gw[o] = "working" => o \in meta
          /\ executed[o] = Qty[o] => gw[o] = "closed"

\* A callback that ends an order comes from a gateway that has ended it.
EndOK(ev) ==
    /\ StatusToAck[ev.status] \in TerminalOrderStates \ {"FILLED"} => gw[ev.order] = "closed"
    /\ StatusToAck[ev.status] = "REJECTED" => executed[ev.order] = 0

EndsOK == \A i \in 1 .. Len(fillQ) : EndOK(fillQ[i])

AckOK(a) ==
    /\ a.order \in active
    /\ Terminal(a) => a.order \notin meta
    /\ a.status = "REJECTED" => executed[a.order] = 0
    /\ a.status = "PARTIALLY_FILLED" => executed[a.order] > 0

AcksOK == \A a \in Waiting : AckOK(a)

\* What a terminal ack of an order leaves behind it in a queue.
Ends(s) == \A i, j \in 1 .. Len(s) : i < j /\ s[i].order = s[j].order => ~Terminal(s[i])

EndsBefore(s, t) ==
    \A i \in 1 .. Len(s), j \in 1 .. Len(t) : s[i].order = t[j].order => ~Terminal(s[i])

OrderedOK ==
    /\ Ends(inbox) /\ Ends(batch) /\ Ends(deferred)
    /\ EndsBefore(batch, inbox) /\ EndsBefore(deferred, inbox)
    /\ phase # "submit" => pendingAcks = <<>>
    /\ \A i \in 1 .. Len(pendingAcks) : pendingAcks[i].order \in meta

\* A tracked order is one the router knows and the kernel has not finished, or
\* one the kernel has finished or is told to finish.
StatesOK ==
    /\ meta \subseteq active
    /\ \A o \in meta : ost[o] \notin TerminalOrderStates
    /\ \A o \in active :
          /\ ost[o] \notin {"CREATED", "CANCEL_REQUESTED"}
          /\ ost[o] = "PARTIALLY_FILLED" => executed[o] > 0
          /\ ost[o] \in TerminalOrderStates => \A a \in Waiting : a.order # o
          /\ o \notin meta /\ ost[o] \notin TerminalOrderStates =>
                \E a \in Waiting : a.order = o /\ Terminal(a)

TrackingIInv ==
    IF phase = "stopped" THEN deferred = <<>>
    ELSE GatewayOK /\ EndsOK /\ AcksOK /\ OrderedOK /\ StatesOK

Kernel == AcksOK /\ OrderedOK /\ StatesOK

\* What the types say of the queues.
LEMMA QueueTypes ==
    ASSUME IInv
    PROVE  /\ inbox \in Seq(Acks) /\ batch \in Seq(Acks) /\ deferred \in Seq(Acks)
           /\ pendingAcks \in Seq(Acks) /\ fillQ \in Seq(FillEvents)
           /\ ost \in [Orders -> OrderState] /\ executed \in [Orders -> Nat] /\ lastCum \in [Orders -> Nat]
           /\ active \in SUBSET Orders /\ meta \in SUBSET Orders /\ submitted \in SUBSET Orders
           /\ submitQ \in SUBSET Orders
           /\ done \in 0 .. Len(batch) /\ Len(batch) \in Nat
           /\ gw \in [Orders -> {"none", "working", "closed"}]
           /\ \A o \in Orders : Qty[o] \in Nat \ {0} /\ executed[o] <= Qty[o] /\ executed[o] \in Nat
  BY DEF IInv, TypeOK, CountersOK

\* An order at work, or one without an ack on its way, can trade on: what the
\* kernel holds stays right (GatewayExecute, and the threads that move no ack).
LEMMA KernelStays ==
    ASSUME IInv, Kernel, UNCHANGED <<kernelVars, routerVars>>,
           \A o \in Orders : executed[o] <= executed'[o] /\ executed'[o] \in Nat,
           \A o \in Orders : o \notin meta => executed'[o] = executed[o]
    PROVE  Kernel'
  <1>. USE DEF kernelVars, routerVars, settleVars
  <1>1. Waiting' = Waiting
    BY DEF Waiting
  <1>2. \A a \in Waiting : a.order \in Orders
    BY QueueTypes DEF Kernel, AcksOK, AckOK
  <1>3. ASSUME NEW a \in Waiting PROVE AckOK(a)'
    <2>1. AckOK(a) /\ a.order \in Orders /\ executed[a.order] \in Nat
      BY <1>2, QueueTypes DEF Kernel, AcksOK
    <2>2. a.status = "REJECTED" => Terminal(a)
      BY DEF Terminal, TerminalOrderStates
    <2>. QED BY <2>1, <2>2 DEF AckOK, Terminal
  <1>4. AcksOK'
    BY <1>1, <1>3 DEF AcksOK
  <1>5. OrderedOK'
    BY DEF Kernel, OrderedOK, Ends, EndsBefore, Terminal
  <1>6. StatesOK'
    <2>1. \A o \in active : o \in Orders /\ executed[o] \in Nat
      BY QueueTypes
    <2>2. \A o \in active : executed[o] > 0 => executed'[o] > 0
      BY <2>1
    <2>. QED BY <1>1, <2>2 DEF Kernel, StatesOK, Terminal
  <1>. QED BY <1>4, <1>5, <1>6 DEF Kernel

\* The gateway's word for the end of an order stays true, and a new one is.
LEMMA EndsDelivered ==
    ASSUME IInv, EndsOK, NEW ev \in FillEvents, EndOK(ev)',
           fillQ' = Append(fillQ, ev) \/ fillQ' = fillQ,
           \A o \in Orders : gw[o] = "closed" => gw'[o] = "closed" /\ executed'[o] = executed[o]
    PROVE  EndsOK'
  <1>1. fillQ \in Seq(FillEvents)
    BY QueueTypes
  <1>2. ASSUME NEW i \in 1 .. Len(fillQ) PROVE EndOK(fillQ[i])'
    <2>. DEFINE e == fillQ[i]
    <2>1. e \in FillEvents /\ EndOK(e)
      BY <1>1 DEF EndsOK
    <2>2. e.order \in Orders
      BY <2>1 DEF FillEvents
    <2>3. fillQ'[i] = e
      BY <1>1 DEF EndsOK
    <2>4. StatusToAck[e.status] = "REJECTED" => StatusToAck[e.status] \in TerminalOrderStates \ {"FILLED"}
      BY DEF TerminalOrderStates
    <2>. HIDE DEF e
    <2>. QED BY <2>1, <2>2, <2>3, <2>4 DEF EndOK
  <1>3. ASSUME NEW i \in 1 .. Len(fillQ') PROVE EndOK(fillQ[i])'
    <2>1. \/ fillQ'[i] = ev
          \/ i \in 1 .. Len(fillQ) /\ fillQ'[i] = fillQ[i]
      BY <1>1, AppendFacts
    <2>. QED BY <1>2, <2>1
  <1>. QED BY <1>3 DEF EndsOK

\* The writer places an order the router knows, and a placeOrder that raises ends
\* one of which nothing was traded (_writer_loop).
LEMMA WriterTracking ==
    ASSUME IInv, GatewayOK, EndsOK, Kernel, "overtake" \notin Situations, NEW o \in Orders, Writer(o)
    PROVE  GatewayOK' /\ EndsOK' /\ Kernel'
  <1>. USE DEF gwVars, routerVars
  <1>1. /\ UNCHANGED <<kernelVars, routerVars, executed>>
        /\ \A p \in Orders : executed[p] \in Nat /\ Qty[p] \in Nat \ {0}
    BY QueueTypes DEF Writer, WriterPlaceOrder, WriterPlaceOrderFails, WriterCancelOrder
  <1>2. Kernel'
    BY <1>1, KernelStays
  <1>3. submitted' = submitted /\ meta' = meta
    BY <1>1
  <1>4. CASE WriterPlaceOrder(o)
    <2>1. /\ o \in submitQ /\ submitQ' = submitQ \ {o} /\ gw' = [gw EXCEPT ![o] = "working"]
          /\ fillQ' = fillQ
      BY <1>4 DEF WriterPlaceOrder
    <2>2. o \in meta /\ gw[o] = "none" /\ executed[o] = 0
      BY <2>1 DEF GatewayOK
    <2>3. gw'[o] = "working" /\ \A p \in Orders : p # o => gw'[p] = gw[p]
      BY <2>1, QueueTypes
    <2>4. GatewayOK'
      <3>1. o \in submitted
        BY <2>2 DEF GatewayOK
      <3>. QED BY <1>1, <1>3, <2>1, <2>2, <2>3, <3>1 DEF GatewayOK
    <2>5. EndsOK'
      BY <1>1, <2>1, <2>2, <2>3, QueueTypes, SMTT(20) DEF EndsOK, EndOK, FillEvents
    <2>. QED BY <1>2, <2>4, <2>5
  <1>5. CASE WriterPlaceOrderFails(o)
    <2>. DEFINE ev == Event(o, "otherCode", 0)
    <2>1. /\ o \in submitQ /\ submitQ' = submitQ \ {o} /\ gw' = [gw EXCEPT ![o] = "closed"]
          /\ fillQ' = Append(fillQ, ev)
      BY <1>5 DEF WriterPlaceOrderFails, Deliver
    <2>2. o \in meta /\ gw[o] = "none" /\ executed[o] = 0
      BY <2>1 DEF GatewayOK
    <2>3. gw'[o] = "closed" /\ \A p \in Orders : p # o => gw'[p] = gw[p]
      BY <2>1, QueueTypes
    <2>4. GatewayOK'
      <3>1. o \in submitted
        BY <2>2 DEF GatewayOK
      <3>. QED BY <1>1, <1>3, <2>1, <2>2, <2>3, <3>1 DEF GatewayOK
    <2>5. ev \in FillEvents /\ ev.order = o
      BY EventType DEF ErrorCodes, Event
    <2>. HIDE DEF ev
    <2>6. EndOK(ev)'
      BY <1>1, <2>2, <2>3, <2>5 DEF EndOK
    <2>7. \A p \in Orders : gw[p] = "closed" => gw'[p] = "closed" /\ executed'[p] = executed[p]
      BY <1>1, <2>3
    <2>8. EndsOK'
      BY <2>1, <2>5, <2>6, <2>7, EndsDelivered
    <2>. QED BY <1>2, <2>4, <2>8
  <1>6. CASE WriterCancelOrder(o)
    <2>1. UNCHANGED <<submitQ, gw, fillQ>>
      BY <1>6 DEF WriterCancelOrder
    <2>2. GatewayOK' /\ EndsOK'
      BY <1>1, <1>3, <2>1 DEF GatewayOK, EndsOK, EndOK
    <2>. QED BY <1>2, <2>2
  <1>. QED BY <1>4, <1>5, <1>6 DEF Writer

\* The gateway ends only orders at work; what it trades and reports moves no ack.
LEMMA GatewayTracking ==
    ASSUME IInv, GatewayOK, EndsOK, Kernel, "warning" \notin Situations, NEW o \in Orders, Gateway(o)
    PROVE  GatewayOK' /\ EndsOK' /\ Kernel'
  <1>. USE DEF routerVars
  <1>1. UNCHANGED <<kernelVars, routerVars, submitQ>>
    BY DEF Gateway, GatewayExecute, GatewayReport, GatewayEnd, GatewayWarning
  <1>2. submitted' = submitted /\ meta' = meta
    BY <1>1
  <1>3. ASSUME NEW n \in 1 .. Qty[o], GatewayExecute(o, n)
        PROVE  GatewayOK' /\ EndsOK' /\ Kernel'
    <2>. DEFINE ev == Event(o, "Filled", Qty[o])
    <2>1. /\ gw[o] = "working" /\ executed' = [executed EXCEPT ![o] = executed[o] + n]
          /\ executed[o] + n <= Qty[o]
          /\ \/ /\ executed[o] + n = Qty[o] /\ gw' = [gw EXCEPT ![o] = "closed"]
                /\ fillQ' = Append(fillQ, ev)
             \/ executed[o] + n # Qty[o] /\ gw' = gw /\ fillQ' = fillQ
      BY <1>3 DEF GatewayExecute, Deliver
    <2>2. /\ \A p \in Orders : executed[p] \in Nat /\ Qty[p] \in Nat \ {0}
          /\ executed'[o] = executed[o] + n /\ n \in Nat \ {0}
          /\ \A p \in Orders : p # o => executed'[p] = executed[p] /\ gw'[p] = gw[p]
          /\ executed[o] + n = Qty[o] => gw'[o] = "closed"
          /\ executed[o] + n # Qty[o] => gw'[o] = "working"
      BY <2>1, QueueTypes
    <2>3. o \in meta
      BY <2>1 DEF GatewayOK
    <2>4. Kernel'
      <3>1. \A p \in Orders : executed[p] <= executed'[p] /\ executed'[p] \in Nat
        BY <2>2
      <3>2. \A p \in Orders : p \notin meta => executed'[p] = executed[p]
        BY <2>2, <2>3
      <3>. QED BY <1>1, <3>1, <3>2, KernelStays
    <2>5. GatewayOK'
      BY <1>1, <1>2, <2>1, <2>2 DEF GatewayOK
    <2>6. ev \in FillEvents /\ EndOK(ev)'
      BY EventType, QueueTypes DEF EndOK, Event, StatusToAck, TerminalOrderStates, OrderStatuses
    <2>. HIDE DEF ev
    <2>7. \A p \in Orders : gw[p] = "closed" => gw'[p] = "closed" /\ executed'[p] = executed[p]
      BY <2>1, <2>2
    <2>8. EndsOK'
      BY <2>1, <2>6, <2>7, EndsDelivered
    <2>. QED BY <2>4, <2>5, <2>8
  <1>4. ASSUME NEW s \in OrderStatuses \cup ErrorCodes, NEW n \in 1 .. Qty[o], GatewayReport(o, s, n)
        PROVE  GatewayOK' /\ EndsOK' /\ Kernel'
    <2>. DEFINE ev == Event(o, s, n)
    <2>1. /\ UNCHANGED <<gw, executed>> /\ fillQ' = Append(fillQ, ev)
          /\ s \in {"PartiallyFilled", "Filled", "Submitted", "Unrecognised", "connectivity"}
      BY <1>4 DEF GatewayReport, Deliver
    <2>2. n \in Nat
      BY QueueTypes
    <2>3. ev \in FillEvents
      BY <2>2, EventType
    <2>4. StatusToAck[s] \notin TerminalOrderStates \ {"FILLED"} /\ StatusToAck[s] # "REJECTED"
      BY <2>1 DEF StatusToAck, TerminalOrderStates, OrderStatuses, ErrorCodes
    <2>5. EndOK(ev)'
      BY <2>4 DEF EndOK, Event
    <2>. HIDE DEF ev
    <2>6. EndsOK'
      BY <2>1, <2>3, <2>5, EndsDelivered
    <2>7. GatewayOK'
      BY <1>1, <1>2, <2>1 DEF GatewayOK
    <2>8. Kernel'
      BY <1>1, <2>1, KernelStays, QueueTypes
    <2>. QED BY <2>6, <2>7, <2>8
  <1>5. ASSUME NEW s \in OrderStatuses \cup ErrorCodes, GatewayEnd(o, s)
        PROVE  GatewayOK' /\ EndsOK' /\ Kernel'
    <2>3. (IF s \in ErrorCodes THEN 0 ELSE executed[o]) \in Nat
      BY QueueTypes
    <2>4. PICK ev \in FillEvents : ev = Event(o, s, IF s \in ErrorCodes THEN 0 ELSE executed[o])
      BY <2>3, EventType
    <2>10. ev.order = o /\ ev.status = s
      BY <2>4 DEF Event
    <2>1. /\ gw[o] = "working" /\ gw' = [gw EXCEPT ![o] = "closed"] /\ executed' = executed
          /\ fillQ' = Append(fillQ, ev)
          /\ s \in {"Cancelled", "cancel202", "Expired", "Inactive", "reject201"}
          /\ s \in {"Inactive", "reject201"} => executed[o] = 0
      BY <1>5, <2>4 DEF GatewayEnd, Deliver
    <2>2. gw'[o] = "closed" /\ \A p \in Orders : p # o => gw'[p] = gw[p]
      BY <2>1, QueueTypes
    <2>5. StatusToAck[s] = "REJECTED" => s \in {"Inactive", "reject201"}
      BY <2>1 DEF StatusToAck, OrderStatuses, ErrorCodes
    <2>6. EndOK(ev)'
      BY <2>1, <2>2, <2>10, <2>5 DEF EndOK
    <2>7. EndsOK'
      BY <2>1, <2>2, <2>4, <2>6, EndsDelivered
    <2>8. GatewayOK'
      BY <1>1, <1>2, <2>1, <2>2, QueueTypes DEF GatewayOK
    <2>9. Kernel'
      BY <1>1, <2>1, KernelStays, QueueTypes
    <2>. QED BY <2>7, <2>8, <2>9
  <1>. QED BY <1>3, <1>4, <1>5 DEF Gateway, GatewayWarning

Tracking == GatewayOK /\ EndsOK /\ Kernel

\* A submitted order is tracked, known to the router and acknowledged at once.
LEMMA TrackTracking ==
    ASSUME IInv, PrunedOK, Tracking, NEW o \in Orders, TrackAndSubmit(o)
    PROVE  Tracking'
  <1>. USE DEF gwVars
  <1>. DEFINE a == Ack(o, "ACKNOWLEDGED", 0, 0)
  <1>1. /\ phase' = "submit" /\ o \notin submitted
        /\ ost' = [ost EXCEPT ![o] = "SUBMITTED"] /\ active' = active \cup {o}
        /\ submitted' = submitted \cup {o} /\ meta' = meta \cup {o} /\ submitQ' = submitQ \cup {o}
        /\ pendingAcks' = Append(pendingAcks, a)
        /\ UNCHANGED <<inbox, batch, deferred, done, fillQ, gw, executed>>
        /\ phase \in {"idle", "submit"}
    BY DEF TrackAndSubmit
  <1>2. a \in Acks /\ a.order = o /\ a.status = "ACKNOWLEDGED"
    BY AckType DEF Ack, OrderAckStatus
  <1>. HIDE DEF a
  <1>3. /\ pendingAcks \in Seq(Acks) /\ Len(pendingAcks') = Len(pendingAcks) + 1 /\ Len(pendingAcks) \in Nat
        /\ pendingAcks'[Len(pendingAcks) + 1] = a
        /\ \A i \in 1 .. Len(pendingAcks) : pendingAcks'[i] = pendingAcks[i]
    BY <1>1, <1>2, QueueTypes
  <1>4. Waiting' = Waiting \cup {a}
    <2>1. {pendingAcks'[i] : i \in 1 .. Len(pendingAcks')} =
             {pendingAcks[i] : i \in 1 .. Len(pendingAcks)} \cup {a}
      BY <1>3
    <2>2. phase # "book" /\ phase' # "book"
      BY <1>1
    <2>. QED BY <1>1, <2>1, <2>2 DEF Waiting
  <1>5. o \notin active /\ o \notin meta /\ o \notin submitQ /\ gw[o] = "none"
    BY <1>1 DEF PrunedOK, Tracking, GatewayOK
  <1>6. /\ ost'[o] = "SUBMITTED" /\ \A p \in Orders : p # o => ost'[p] = ost[p]
        /\ active \subseteq Orders /\ meta \subseteq Orders
    BY <1>1, QueueTypes
  <1>7. GatewayOK'
    BY <1>1, <1>5 DEF Tracking, GatewayOK
  <1>8. EndsOK'
    BY <1>1 DEF Tracking, EndsOK, EndOK
  <1>9. AcksOK'
    <2>1. ASSUME NEW b \in Waiting PROVE AckOK(b)'
      <3>1. AckOK(b) /\ b.order # o
        BY <1>5 DEF Tracking, Kernel, AcksOK, AckOK
      <3>. QED BY <1>1, <3>1 DEF AckOK, Terminal
    <2>2. AckOK(a)'
      BY <1>1, <1>2 DEF AckOK, Terminal, TerminalOrderStates
    <2>. QED BY <1>4, <2>1, <2>2 DEF AcksOK
  <1>10. OrderedOK'
    <2>1. \A i \in 1 .. Len(pendingAcks') : pendingAcks'[i].order \in meta'
      BY <1>1, <1>2, <1>3 DEF Tracking, Kernel, OrderedOK
    <2>. QED BY <1>1, <2>1 DEF Tracking, Kernel, OrderedOK, Ends, EndsBefore, Terminal
  <1>11. StatesOK'
    <2>. USE DEF Tracking, Kernel, StatesOK
    <2>1. meta' \subseteq active' /\ \A p \in meta' : ost'[p] \notin TerminalOrderStates
      BY <1>1, <1>6 DEF TerminalOrderStates
    <2>2. ASSUME NEW p \in active'
          PROVE  /\ ost'[p] \notin {"CREATED", "CANCEL_REQUESTED"}
                 /\ ost'[p] = "PARTIALLY_FILLED" => executed'[p] > 0
                 /\ ost'[p] \in TerminalOrderStates => \A b \in Waiting' : b.order # p
                 /\ p \notin meta' /\ ost'[p] \notin TerminalOrderStates =>
                       \E b \in Waiting' : b.order = p /\ Terminal(b)'
      <3>1. CASE p = o
        BY <1>1, <1>6, <3>1 DEF TerminalOrderStates
      <3>2. CASE p # o
        BY <1>1, <1>2, <1>4, <1>6, <3>2 DEF Terminal
      <3>. QED BY <3>1, <3>2
    <2>. QED BY <2>1, <2>2
  <1>. QED BY <1>7, <1>8, <1>9, <1>10, <1>11 DEF Tracking, Kernel

\* An order whose submit raised is neither tracked nor known to the router.
LEMMA SubmitFailsTracking ==
    ASSUME IInv, PrunedOK, Tracking, "pipeline" \notin Situations,
           NEW o \in Orders, TrackAndSubmitFails(o)
    PROVE  Tracking'
  <1>. USE DEF gwVars, connVars, settleVars
  <1>0. active' = active
    <2>1. \A p \in active : ost[p] \notin TerminalOrderStates
      BY DEF TrackAndSubmitFails, PrunedOK
    <2>2. o \notin active
      BY DEF TrackAndSubmitFails, PrunedOK
    <2>3. \A p \in active : ost'[p] = ost[p]
      BY <2>2, QueueTypes DEF TrackAndSubmitFails
    <2>. QED BY <2>1, <2>3 DEF TrackAndSubmitFails, Live
  <1>1. /\ o \notin submitted /\ ost' = [ost EXCEPT ![o] = "REJECTED"] /\ submitted' = submitted \cup {o}
        /\ UNCHANGED <<active, meta, submitQ, phase, inbox, batch, deferred, done, pendingAcks, fillQ,
                       gw, executed>>
    BY <1>0 DEF TrackAndSubmitFails
  <1>2. o \notin active /\ o \notin meta
    BY <1>1 DEF PrunedOK, Tracking, GatewayOK
  <1>3. \A p \in Orders : p # o => ost'[p] = ost[p]
    BY <1>1, QueueTypes
  <1>4. Waiting' = Waiting
    BY <1>1 DEF Waiting
  <1>5. GatewayOK'
    BY <1>1 DEF Tracking, GatewayOK
  <1>6. EndsOK' /\ AcksOK'
    BY <1>1, <1>4 DEF Tracking, Kernel, EndsOK, EndOK, AcksOK, AckOK, Terminal
  <1>7. OrderedOK'
    BY <1>1 DEF Tracking, Kernel, OrderedOK, Ends, EndsBefore, Terminal
  <1>8. StatesOK'
    BY <1>1, <1>2, <1>3, <1>4, QueueTypes DEF Tracking, Kernel, StatesOK, Terminal
  <1>. QED BY <1>5, <1>6, <1>7, <1>8 DEF Tracking, Kernel

\* A settle begins with the deferred acks, then the pending ones, which are of
\* orders the router still knows (_settle_router_acks).
LEMMA BeginTracking ==
    ASSUME IInv, Tracking, NEW ids, phase \in {"idle", "submit"}, BeginSettle(ids),
           UNCHANGED <<ost, active, submitted, meta, submitQ, fillQ, gwVars>>
    PROVE  Tracking'
  <1>. USE DEF gwVars
  <1>0. inbox = <<>> /\ batch = <<>> /\ done = 0
    BY DEF IInv, PhaseOK
  <1>1. /\ phase' = "poll" /\ inbox' = deferred \o pendingAcks /\ deferred' = <<>> /\ pendingAcks' = <<>>
        /\ batch' = <<>> /\ done' = 0
    BY <1>0 DEF BeginSettle
  <1>2. /\ deferred \in Seq(Acks) /\ pendingAcks \in Seq(Acks)
        /\ Len(deferred) \in Nat /\ Len(pendingAcks) \in Nat
    BY QueueTypes
  <1>3. /\ Len(inbox') = Len(deferred) + Len(pendingAcks)
        /\ \A i \in 1 .. Len(deferred) : inbox'[i] = deferred[i]
        /\ \A i \in 1 .. Len(pendingAcks) : inbox'[Len(deferred) + i] = pendingAcks[i]
        /\ \A i \in 1 .. Len(inbox') :
              \/ i \in 1 .. Len(deferred)
              \/ i - Len(deferred) \in 1 .. Len(pendingAcks) /\ inbox'[i] = pendingAcks[i - Len(deferred)]
    BY <1>1, <1>2
  <1>4. Waiting = {deferred[i] : i \in 1 .. Len(deferred)} \cup {pendingAcks[i] : i \in 1 .. Len(pendingAcks)}
    BY <1>0 DEF Waiting
  <1>5. Waiting' = {inbox'[i] : i \in 1 .. Len(inbox')}
    BY <1>1 DEF Waiting
  <1>6. {inbox'[i] : i \in 1 .. Len(inbox')} =
           {deferred[i] : i \in 1 .. Len(deferred)} \cup {pendingAcks[i] : i \in 1 .. Len(pendingAcks)}
    <2>1. \A i \in 1 .. Len(deferred) : i \in 1 .. Len(inbox')
      BY <1>2, <1>3
    <2>2. \A i \in 1 .. Len(pendingAcks) : Len(deferred) + i \in 1 .. Len(inbox')
      BY <1>2, <1>3
    <2>. DEFINE I == {inbox'[i] : i \in 1 .. Len(inbox')}
                D == {deferred[i] : i \in 1 .. Len(deferred)}
                P == {pendingAcks[i] : i \in 1 .. Len(pendingAcks)}
    <2>3. D \subseteq I
      BY <1>3, <2>1
    <2>4. P \subseteq I
      BY <1>3, <2>2
    <2>5. ASSUME NEW i \in 1 .. Len(inbox') PROVE inbox'[i] \in D \cup P
      BY <1>3
    <2>6. I \subseteq D \cup P
      BY <2>5
    <2>. QED BY <2>3, <2>4, <2>6
  <1>7. Waiting' = Waiting
    BY <1>4, <1>5, <1>6
  <1>8. GatewayOK' /\ EndsOK'
    BY DEF Tracking, GatewayOK, EndsOK, EndOK
  <1>9. AcksOK'
    BY <1>7 DEF Tracking, Kernel, AcksOK, AckOK, Terminal
  <1>14. StatesOK'
    BY <1>7 DEF Tracking, Kernel, StatesOK, Terminal
  <1>10. \A i \in 1 .. Len(deferred), j \in 1 .. Len(pendingAcks) :
            deferred[i].order = pendingAcks[j].order => ~Terminal(deferred[i])
    BY <1>4 DEF Tracking, Kernel, OrderedOK, AcksOK, AckOK
  <1>11. \A i \in 1 .. Len(pendingAcks) : ~Terminal(pendingAcks[i])
    BY <1>4 DEF Tracking, Kernel, OrderedOK, AcksOK, AckOK
  <1>12. \A i, j \in 1 .. Len(inbox') : i < j /\ inbox'[i].order = inbox'[j].order => inbox'[i].status \notin TerminalOrderStates
    <2>. SUFFICES ASSUME NEW i \in 1 .. Len(inbox'), NEW j \in 1 .. Len(inbox'), i < j,
                         inbox'[i].order = inbox'[j].order
                  PROVE  inbox'[i].status \notin TerminalOrderStates
      OBVIOUS
    <2>1. CASE i \in 1 .. Len(deferred) /\ j \in 1 .. Len(deferred)
      BY <1>3, <2>1 DEF Tracking, Kernel, OrderedOK, Ends, Terminal
    <2>2. CASE i \in 1 .. Len(deferred) /\ j \notin 1 .. Len(deferred)
      BY <1>3, <1>10, <2>2 DEF Terminal
    <2>3. CASE i \notin 1 .. Len(deferred)
      BY <1>3, <1>11, <2>3 DEF Terminal
    <2>. QED BY <2>1, <2>2, <2>3
  <1>13. OrderedOK'
    BY <1>1, <1>12 DEF OrderedOK, Ends, EndsBefore, Terminal
  <1>. QED BY <1>8, <1>9, <1>13, <1>14 DEF Tracking, Kernel

\* A callback that becomes a terminal ack comes from an order the gateway has ended
\* and makes the router forget it: no later callback of it becomes an ack
\* (_fill_to_ack, _prune_ib_order).
LEMMA PollTracking ==
    ASSUME IInv, Tracking, PollFill
    PROVE  Tracking'
  <1>. USE DEF gwVars
  <1>1. /\ phase = "poll" /\ fillQ # <<>> /\ fillQ' = Tail(fillQ)
        /\ UNCHANGED <<ost, active, phase, batch, done, deferred, submitted, pendingAcks, submitQ, gw,
                       executed>>
    BY DEF PollFill
  <1>2. batch = <<>> /\ done = 0 /\ pendingAcks = <<>> /\ inbox \in Seq(Acks)
    BY <1>1, QueueTypes DEF IInv, PhaseOK, Tracking, Kernel, OrderedOK
  <1>3. fillQ \in Seq(FillEvents)
    BY QueueTypes
  <1>4. PICK ev \in FillEvents : ev = Head(fillQ)
    BY <1>1, <1>3, TailFacts
  <1>5. /\ ev = fillQ[1] /\ 1 \in 1 .. Len(fillQ)
        /\ \A i \in 1 .. Len(fillQ') : i + 1 \in 1 .. Len(fillQ) /\ fillQ'[i] = fillQ[i + 1]
    BY <1>1, <1>3, <1>4, TailFacts
  <1>6. EndsOK' /\ EndOK(ev)
    BY <1>1, <1>5 DEF Tracking, EndsOK, EndOK
  <1>7. CASE Dropped(ev)
    <2>1. UNCHANGED <<inbox, meta>>
      BY <1>4, <1>7 DEF PollFill
    <2>2. Waiting' = Waiting
      BY <1>1, <2>1 DEF Waiting
    <2>3. GatewayOK' /\ AcksOK'
      BY <1>1, <2>1, <2>2 DEF Tracking, Kernel, GatewayOK, AcksOK, AckOK, Terminal
    <2>4. OrderedOK'
      BY <1>1, <2>1 DEF Tracking, Kernel, OrderedOK, Ends, EndsBefore, Terminal
    <2>5. StatesOK'
      BY <1>1, <2>1, <2>2 DEF Tracking, Kernel, StatesOK, Terminal
    <2>. QED BY <1>6, <2>3, <2>4, <2>5 DEF Tracking, Kernel
  <1>8. CASE ~Dropped(ev)
    <2>. DEFINE o == ev.order
    <2>1. ev.order \in Orders /\ ev.cum \in Nat /\ ev.status \in OrderStatuses \cup ErrorCodes
      BY DEF FillEvents
    <2>2. PICK status : status = Downgraded(ev)
      OBVIOUS
    <2>3. PICK a : /\ a = Ack(ev.order, status, Delta(ev), IF ev.status \in ErrorCodes THEN lastCum[ev.order] ELSE ev.cum)
      OBVIOUS
    <2>4. a.order = o /\ a.status = status
      BY <2>3 DEF Ack
    <2>5. /\ inbox' = Append(inbox, a)
          /\ IF status \in TerminalOrderStates THEN meta' = meta \ {o} ELSE meta' = meta
      BY <1>4, <1>8, <2>2, <2>3 DEF PollFill, FillToAck
    <2>6. o \in meta /\ ev.status \notin Suppressed
      BY <1>8 DEF Dropped
    <2>7. /\ Qty[o] \in Nat \ {0} /\ executed[o] \in Nat /\ executed[o] <= Qty[o] /\ ev.cum <= executed[o]
          /\ lastCum[o] \in Nat
      BY <1>5, <2>1, QueueTypes DEF IInv, EventsOK
    \* The gateway has ended an order that the ack ends.
    <2>8. status \in TerminalOrderStates => gw[o] = "closed"
      <3>1. CASE status = "FILLED"
        <4>1. ev.status = "Filled" /\ ~(ev.cum < Qty[o])
          BY <2>1, <2>2, <3>1 DEF Downgraded, StatusToAck, OrderStatuses, ErrorCodes
        <4>2. executed[o] = Qty[o]
          BY <2>1, <2>7, <4>1
        <4>. QED BY <2>1, <4>2 DEF Tracking, GatewayOK
      <3>2. CASE status \in TerminalOrderStates \ {"FILLED"}
        <4>1. StatusToAck[ev.status] = status
          BY <2>2, <3>2 DEF Downgraded, TerminalOrderStates
        <4>. QED BY <1>6, <3>2, <4>1 DEF EndOK
      <3>. QED BY <3>1, <3>2
    <2>9. status = "REJECTED" => executed[o] = 0
      BY <1>6, <2>2 DEF Downgraded, EndOK
    <2>10. status = "PARTIALLY_FILLED" => executed[o] > 0
      <3>. SUFFICES ASSUME status = "PARTIALLY_FILLED" PROVE executed[o] > 0
        OBVIOUS
      <3>1. ev.status \in {"PartiallyFilled", "Filled"}
        BY <2>1, <2>2 DEF Downgraded, StatusToAck, OrderStatuses, ErrorCodes
      <3>2. ev.status \notin ErrorCodes /\ StatusToAck[ev.status] \in FillStatuses
        BY <3>1 DEF StatusToAck, FillStatuses, ErrorCodes, OrderStatuses
      <3>3. ~(ev.cum < lastCum[o]) /\ ev.cum # lastCum[o]
        BY <1>8, <3>2 DEF Dropped
      <3>. QED BY <2>1, <2>7, <3>3
    <2>11. a \in Acks
      <3>1. status \in OrderAckStatus
        BY <2>1, <2>2 DEF Downgraded, StatusToAck, OrderAckStatus
      <3>2. ev.status \notin ErrorCodes => ev.cum - lastCum[o] \in Nat
        BY <1>8, <2>1, <2>7 DEF Dropped
      <3>3. Delta(ev) \in Nat
        BY <2>1, <3>2 DEF Delta
      <3>4. (IF ev.status \in ErrorCodes THEN lastCum[ev.order] ELSE ev.cum) \in Nat
        BY <2>1, <2>7
      <3>. QED BY <2>1, <2>3, <3>1, <3>3, <3>4, AckType
    <2>12. o \in submitted /\ o \in active /\ ost[o] \notin TerminalOrderStates
      BY <2>6 DEF Tracking, Kernel, GatewayOK, StatesOK
    <2>13. /\ Len(inbox') = Len(inbox) + 1 /\ Len(inbox) \in Nat
           /\ inbox'[Len(inbox) + 1] = a
           /\ \A i \in 1 .. Len(inbox) : inbox'[i] = inbox[i]
      BY <1>2, <2>5, <2>11
    <2>. HIDE DEF o
    <2>14. {inbox'[i] : i \in 1 .. Len(inbox')} = {inbox[i] : i \in 1 .. Len(inbox)} \cup {a}
      BY <2>13
    <2>15. Waiting' = Waiting \cup {a}
      BY <1>1, <2>14 DEF Waiting
    <2>16. GatewayOK'
      <3>1. o \in submitQ => status \notin TerminalOrderStates
        BY <2>1, <2>8 DEF Tracking, GatewayOK, o
      <3>. QED BY <1>1, <2>5, <2>8, <3>1 DEF Tracking, GatewayOK
    <2>17. AcksOK'
      <3>1. ASSUME NEW b \in Waiting PROVE AckOK(b)'
        BY <1>1, <2>5, <3>1 DEF Tracking, Kernel, AcksOK, AckOK, Terminal
      <3>2. AckOK(a)'
        BY <1>1, <2>4, <2>5, <2>9, <2>10, <2>12 DEF AckOK, Terminal
      <3>. QED BY <2>15, <3>1, <3>2 DEF AcksOK
    <2>18. OrderedOK'
      <3>1. \A b \in Waiting : b.order = o => ~Terminal(b)
        BY <2>6 DEF Tracking, Kernel, AcksOK, AckOK
      <3>2. \A i \in 1 .. Len(inbox) : inbox[i] \in Waiting
        BY DEF Waiting
      <3>3. \A i \in 1 .. Len(deferred) : deferred[i] \in Waiting
        BY DEF Waiting
      <3>4. \A i, j \in 1 .. Len(inbox') :
               i < j /\ inbox'[i].order = inbox'[j].order => inbox'[i].status \notin TerminalOrderStates
        <4>. SUFFICES ASSUME NEW i \in 1 .. Len(inbox'), NEW j \in 1 .. Len(inbox'), i < j,
                             inbox'[i].order = inbox'[j].order
                      PROVE  inbox'[i].status \notin TerminalOrderStates
          OBVIOUS
        <4>1. i \in 1 .. Len(inbox) /\ inbox'[i] = inbox[i]
          BY <2>13
        <4>2. CASE j \in 1 .. Len(inbox)
          BY <2>13, <4>1, <4>2 DEF Tracking, Kernel, OrderedOK, Ends, Terminal
        <4>3. CASE j = Len(inbox) + 1
          BY <2>4, <2>13, <3>1, <3>2, <4>1, <4>3 DEF Terminal
        <4>. QED BY <2>13, <4>2, <4>3
      <3>5. Ends(inbox)'
        BY <3>4 DEF Ends, Terminal
      <3>6. EndsBefore(deferred, inbox)'
        <4>. SUFFICES ASSUME NEW i \in 1 .. Len(deferred), NEW j \in 1 .. Len(inbox'),
                             deferred[i].order = inbox'[j].order
                      PROVE  deferred[i].status \notin TerminalOrderStates
          BY <1>1 DEF EndsBefore, Terminal
        <4>1. CASE j \in 1 .. Len(inbox)
          BY <2>13, <4>1 DEF Tracking, Kernel, OrderedOK, EndsBefore, Terminal
        <4>2. CASE j = Len(inbox) + 1
          BY <2>4, <2>13, <3>1, <3>3, <4>2 DEF Terminal
        <4>. QED BY <2>13, <4>1, <4>2
      <3>7. EndsBefore(batch, inbox)'
        BY <1>1, <1>2 DEF EndsBefore
      <3>8. Ends(batch)' /\ Ends(deferred)'
        BY <1>1 DEF Tracking, Kernel, OrderedOK, Ends, Terminal
      <3>. QED BY <1>1, <1>2, <3>5, <3>6, <3>7, <3>8 DEF OrderedOK
    <2>19. StatesOK'
      <3>. USE DEF Tracking, Kernel, StatesOK
      <3>1. meta' \subseteq active' /\ \A p \in meta' : ost'[p] \notin TerminalOrderStates
        BY <1>1, <2>5
      <3>2. ASSUME NEW p \in active'
            PROVE  /\ ost'[p] \notin {"CREATED", "CANCEL_REQUESTED"}
                   /\ ost'[p] = "PARTIALLY_FILLED" => executed'[p] > 0
                   /\ ost'[p] \in TerminalOrderStates => \A b \in Waiting' : b.order # p
                   /\ p \notin meta' /\ ost'[p] \notin TerminalOrderStates =>
                         \E b \in Waiting' : b.order = p /\ Terminal(b)'
        <4>1. CASE p = o
          BY <1>1, <2>4, <2>5, <2>6, <2>12, <2>15, <4>1 DEF Terminal, o
        <4>2. CASE p # o
          BY <1>1, <2>4, <2>5, <2>15, <4>2 DEF Terminal
        <4>. QED BY <4>1, <4>2
      <3>. QED BY <3>1, <3>2
    <2>. QED BY <1>6, <2>16, <2>17, <2>18, <2>19 DEF Tracking, Kernel
  <1>. QED BY <1>7, <1>8

\* What a step that moves no ack and changes neither tracker nor gateway keeps.
LEMMA SameTracking ==
    ASSUME IInv, Tracking, Waiting' = Waiting,
           UNCHANGED <<ost, active, submitted, meta, submitQ, fillQ, gwVars>>, OrderedOK'
    PROVE  Tracking'
  <1>. USE DEF gwVars
  <1>1. GatewayOK' /\ EndsOK'
    BY DEF Tracking, GatewayOK, EndsOK, EndOK
  <1>2. AcksOK'
    BY DEF Tracking, Kernel, AcksOK, AckOK, Terminal
  <1>3. StatesOK'
    BY DEF Tracking, Kernel, StatesOK, Terminal
  <1>. QED BY <1>1, <1>2, <1>3 DEF Tracking, Kernel

\* The acks of a queue, and of the queue with an ack moved to or from an end.
AcksOf(s) == {s[i] : i \in 1 .. Len(s)}

\* Append adds the ack, Tail takes the head away.
LEMMA AcksOfFacts ==
    ASSUME NEW s \in Seq(Acks)
    PROVE  /\ \A a \in Acks : AcksOf(Append(s, a)) = AcksOf(s) \cup {a}
           /\ s # <<>> => AcksOf(s) = AcksOf(Tail(s)) \cup {Head(s)}
  <1>1. ASSUME NEW a \in Acks PROVE AcksOf(Append(s, a)) = AcksOf(s) \cup {a}
    <2>. DEFINE t == Append(s, a)
    <2>1. /\ Len(t) = Len(s) + 1 /\ Len(s) \in Nat /\ t[Len(s) + 1] = a
          /\ \A i \in 1 .. Len(s) : t[i] = s[i]
      OBVIOUS
    <2>. HIDE DEF t
    <2>2. \A i \in 1 .. Len(t) : i \in 1 .. Len(s) \/ i = Len(s) + 1
      BY <2>1
    <2>3. Len(s) + 1 \in 1 .. Len(t) /\ \A i \in 1 .. Len(s) : i \in 1 .. Len(t)
      BY <2>1
    <2>4. AcksOf(t) \subseteq AcksOf(s) \cup {a}
      BY <2>1, <2>2 DEF AcksOf
    <2>5. AcksOf(s) \cup {a} \subseteq AcksOf(t)
      BY <2>1, <2>3 DEF AcksOf
    <2>6. AcksOf(t) = AcksOf(s) \cup {a}
      BY <2>4, <2>5
    <2>. QED BY <2>6 DEF t
  <1>2. ASSUME s # <<>> PROVE AcksOf(s) = AcksOf(Tail(s)) \cup {Head(s)}
    <2>. DEFINE t == Tail(s)  h == Head(s)
    <2>1. /\ Len(t) = Len(s) - 1 /\ Len(s) \in Nat /\ h = s[1] /\ Len(s) > 0
          /\ \A i \in 1 .. Len(t) : t[i] = s[i + 1]
      BY <1>2
    <2>. HIDE DEF t, h
    <2>2. \A i \in 1 .. Len(s) : i = 1 \/ (i - 1 \in 1 .. Len(t) /\ s[i] = t[i - 1])
      <3>. SUFFICES ASSUME NEW i \in 1 .. Len(s), i # 1 PROVE i - 1 \in 1 .. Len(t) /\ s[i] = t[i - 1]
        OBVIOUS
      <3>1. i - 1 \in 1 .. Len(t) /\ (i - 1) + 1 = i
        BY <2>1
      <3>2. t[i - 1] = s[(i - 1) + 1]
        BY <2>1, <3>1
      <3>. QED BY <3>1, <3>2
    <2>3. \A i \in 1 .. Len(t) : i + 1 \in 1 .. Len(s)
      BY <2>1
    <2>4. AcksOf(s) \subseteq AcksOf(t) \cup {h}
      BY <2>1, <2>2 DEF AcksOf
    <2>5. AcksOf(t) \cup {h} \subseteq AcksOf(s)
      <3>1. 1 \in 1 .. Len(s)
        BY <2>1
      <3>. QED BY <2>1, <2>3, <3>1 DEF AcksOf
    <2>. QED BY <2>4, <2>5 DEF t, h
  <1>. QED BY <1>1, <1>2

\* Appending an ack that no earlier terminal ack of its order precedes.
LEMMA EndsAppend ==
    ASSUME NEW s \in Seq(Acks), NEW a \in Acks, Ends(s),
           \A i \in 1 .. Len(s) : s[i].order = a.order => ~Terminal(s[i])
    PROVE  Ends(Append(s, a))
  <1>. DEFINE t == Append(s, a)
  <1>1. /\ Len(t) = Len(s) + 1 /\ Len(s) \in Nat /\ t[Len(s) + 1] = a
        /\ \A i \in 1 .. Len(s) : t[i] = s[i]
    OBVIOUS
  <1>. HIDE DEF t
  <1>2. \A i \in 1 .. Len(t) : i \in 1 .. Len(s) \/ i = Len(s) + 1
    BY <1>1
  <1>3. ASSUME NEW i \in 1 .. Len(t), NEW j \in 1 .. Len(t), i < j, t[i].order = t[j].order
        PROVE  ~Terminal(t[i])
    <2>1. i \in 1 .. Len(s) /\ t[i] = s[i]
      BY <1>1, <1>2, <1>3
    <2>2. CASE j \in 1 .. Len(s)
      BY <1>1, <1>3, <2>1, <2>2 DEF Ends
    <2>3. CASE j = Len(s) + 1
      BY <1>1, <1>3, <2>1, <2>3
    <2>. QED BY <1>2, <2>2, <2>3
  <1>4. Ends(t)
    BY <1>3 DEF Ends
  <1>. QED BY <1>4 DEF t

\* What the ends of a queue say of its tail.
LEMMA EndsTail ==
    ASSUME NEW s \in Seq(Acks), s # <<>>, Ends(s)
    PROVE  /\ Ends(Tail(s))
           /\ Terminal(Head(s)) => \A i \in 1 .. Len(Tail(s)) : Tail(s)[i].order # Head(s).order
  <1>. DEFINE t == Tail(s)  h == Head(s)
  <1>1. /\ Len(t) = Len(s) - 1 /\ Len(s) \in Nat /\ h = s[1] /\ Len(s) > 0
        /\ \A i \in 1 .. Len(t) : t[i] = s[i + 1] /\ i + 1 \in 1 .. Len(s) /\ 1 < i + 1
        /\ 1 \in 1 .. Len(s)
    OBVIOUS
  <1>. HIDE DEF t, h
  <1>2. Ends(t)
    <2>1. ASSUME NEW i \in 1 .. Len(t), NEW j \in 1 .. Len(t), i < j, t[i].order = t[j].order
          PROVE  ~Terminal(t[i])
      BY <1>1, <2>1 DEF Ends
    <2>. QED BY <2>1 DEF Ends
  <1>3. Terminal(h) => \A i \in 1 .. Len(t) : t[i].order # h.order
    BY <1>1 DEF Ends
  <1>. QED BY <1>2, <1>3 DEF t, h

\* Routing an ack leaves the acks that wait, and the order of each order's acks.
LEMMA RouteTracking ==
    ASSUME IInv, Tracking, RouteAck
    PROVE  Tracking'
  <1>. USE DEF routerVars, connVars, gwVars
  <1>1. /\ phase = "route" /\ inbox # <<>> /\ inbox' = Tail(inbox)
        /\ UNCHANGED <<ost, active, phase, done, expected, submitted, meta, pendingAcks, submitQ, fillQ, gwVars>>
    BY DEF RouteAck
  <1>2. inbox \in Seq(Acks) /\ batch \in Seq(Acks) /\ deferred \in Seq(Acks) /\ done = 0 /\ pendingAcks = <<>>
    BY <1>1, QueueTypes DEF IInv, PhaseOK, Tracking, Kernel, OrderedOK
  <1>3. PICK h \in Acks : h = Head(inbox)
    BY <1>1, <1>2, TailFacts
  <1>4. PICK t \in Seq(Acks) : t = Tail(inbox)
    BY <1>1, <1>2, TailFacts
  <1>5. AcksOf(inbox) = AcksOf(t) \cup {h}
    BY <1>1, <1>2, <1>3, <1>4, AcksOfFacts
  <1>6. Ends(t) /\ (Terminal(h) => \A i \in 1 .. Len(t) : t[i].order # h.order)
    BY <1>1, <1>2, <1>3, <1>4, EndsTail DEF Tracking, Kernel, OrderedOK
  <1>7. /\ 1 \in 1 .. Len(inbox) /\ h = inbox[1]
        /\ \A i \in 1 .. Len(t) : i + 1 \in 1 .. Len(inbox) /\ t[i] = inbox[i + 1]
    BY <1>1, <1>2, <1>3, <1>4, TailFacts
  <1>8. /\ Ends(batch) /\ Ends(deferred) /\ EndsBefore(batch, t) /\ EndsBefore(deferred, t)
        /\ \A i \in 1 .. Len(batch) : batch[i].order = h.order => ~Terminal(batch[i])
        /\ \A i \in 1 .. Len(deferred) : deferred[i].order = h.order => ~Terminal(deferred[i])
    BY <1>7 DEF Tracking, Kernel, OrderedOK, EndsBefore
  <1>9. Waiting = AcksOf(inbox) \cup AcksOf(deferred) \cup AcksOf(batch) \cup AcksOf(pendingAcks)
    BY <1>1, <1>2 DEF Waiting, AcksOf
  <1>10. Waiting' = AcksOf(inbox') \cup AcksOf(deferred') \cup AcksOf(batch') \cup AcksOf(pendingAcks)
    BY <1>1, <1>2 DEF Waiting, AcksOf
  <1>11. CASE h.order \in expected
    <2>1. batch' = Append(batch, h) /\ deferred' = deferred
      BY <1>3, <1>11 DEF RouteAck
    <2>2. AcksOf(batch') = AcksOf(batch) \cup {h}
      BY <1>2, <2>1, AcksOfFacts
    <2>3. Waiting' = Waiting
      BY <1>1, <1>4, <1>5, <1>9, <1>10, <2>1, <2>2
    <2>4. Ends(Append(batch, h))
      BY <1>2, <1>8, EndsAppend
    <2>5. EndsBefore(Append(batch, h), t)
      <3>1. \A i \in 1 .. Len(batch') : \/ i \in 1 .. Len(batch) /\ batch'[i] = batch[i]
                                        \/ batch'[i] = h
        BY <1>2, <2>1, AppendFacts
      <3>. QED BY <1>6, <1>8, <2>1, <3>1 DEF EndsBefore
    <2>6. OrderedOK'
      BY <1>1, <1>2, <1>4, <1>6, <1>8, <2>1, <2>4, <2>5 DEF OrderedOK, Ends, EndsBefore, Terminal
    <2>. QED BY <1>1, <2>3, <2>6, SameTracking
  <1>12. CASE h.order \notin expected
    <2>1. deferred' = Append(deferred, h) /\ batch' = batch
      BY <1>3, <1>12 DEF RouteAck
    <2>2. AcksOf(deferred') = AcksOf(deferred) \cup {h}
      BY <1>2, <2>1, AcksOfFacts
    <2>3. Waiting' = Waiting
      BY <1>1, <1>4, <1>5, <1>9, <1>10, <2>1, <2>2
    <2>4. Ends(Append(deferred, h))
      BY <1>2, <1>8, EndsAppend
    <2>5. EndsBefore(Append(deferred, h), t)
      <3>1. \A i \in 1 .. Len(deferred') : \/ i \in 1 .. Len(deferred) /\ deferred'[i] = deferred[i]
                                           \/ deferred'[i] = h
        BY <1>2, <2>1, AppendFacts
      <3>. QED BY <1>6, <1>8, <2>1, <3>1 DEF EndsBefore
    <2>6. OrderedOK'
      BY <1>1, <1>2, <1>4, <1>6, <1>8, <2>1, <2>4, <2>5 DEF OrderedOK, Ends, EndsBefore, Terminal
    <2>. QED BY <1>1, <2>3, <2>6, SameTracking
  <1>. QED BY <1>11, <1>12

\* The phases of a settle follow each other with no ack lost between them.
LEMMA PhaseTracking ==
    ASSUME IInv, Tracking, PollDone \/ RouteDone \/ ApplyDone
    PROVE  Tracking'
  <1>. USE DEF routerVars, connVars, gwVars
  <1>1. /\ phase \in {"poll", "route", "apply"} /\ phase' \in {"route", "apply", "book"}
        /\ UNCHANGED <<ost, active, inbox, batch, deferred, pendingAcks, submitted, meta, submitQ, fillQ, gwVars>>
    BY DEF PollDone, RouteDone, ApplyDone
  <1>2. Waiting' = Waiting
    <2>1. CASE PollDone \/ RouteDone
      BY <2>1 DEF PollDone, RouteDone, Waiting
    <2>2. CASE ApplyDone
      <3>1. phase = "apply" /\ phase' = "book" /\ done = Len(batch)
        BY <2>2 DEF ApplyDone
      <3>2. {batch[i] : i \in done + 1 .. Len(batch)} = {}
        BY <3>1, QueueTypes
      <3>. QED BY <1>1, <3>1, <3>2 DEF Waiting
    <2>. QED BY <2>1, <2>2
  <1>3. OrderedOK'
    BY <1>1 DEF Tracking, Kernel, OrderedOK, Ends, EndsBefore, Terminal
  <1>. QED BY <1>1, <1>2, <1>3, SameTracking

\* What an ack does to an order at work: a terminal one ends it, except a
\* REJECTED that reaches a partially filled order.
LEMMA ApplyAckFacts ==
    ASSUME NEW s \in {"SUBMITTED", "ACKNOWLEDGED", "PARTIALLY_FILLED"}, NEW status \in OrderAckStatus
    PROVE  /\ ApplyAck(s, status) \notin {"CREATED", "CANCEL_REQUESTED"}
           /\ ApplyAck(s, status) = "PARTIALLY_FILLED" => "PARTIALLY_FILLED" \in {s, status}
           /\ ApplyAck(s, status) \in TerminalOrderStates => status \in TerminalOrderStates
           /\ status \in TerminalOrderStates /\ ~(status = "REJECTED" /\ s = "PARTIALLY_FILLED") =>
                 ApplyAck(s, status) \in TerminalOrderStates
  <1>1. /\ OrderTransitions["SUBMITTED"] = {"ACKNOWLEDGED", "REJECTED"}
        /\ OrderTransitions["ACKNOWLEDGED"] = {"PARTIALLY_FILLED", "FILLED", "CANCEL_REQUESTED",
                                               "CANCELLED", "EXPIRED", "REJECTED"}
        /\ OrderTransitions["PARTIALLY_FILLED"] = {"PARTIALLY_FILLED", "FILLED", "CANCEL_REQUESTED",
                                                   "CANCELLED", "EXPIRED"}
    BY DEF OrderTransitions, OrderState
  <1>2. CASE s = "SUBMITTED"
    BY <1>1, <1>2 DEF ApplyAck, CanTransition, Acknowledged, OrderAckStatus, TerminalOrderStates
  <1>3. CASE s = "ACKNOWLEDGED"
    BY <1>1, <1>3 DEF ApplyAck, CanTransition, Acknowledged, OrderAckStatus, TerminalOrderStates
  <1>4. CASE s = "PARTIALLY_FILLED"
    BY <1>1, <1>4 DEF ApplyAck, CanTransition, Acknowledged, OrderAckStatus, TerminalOrderStates
  <1>. QED BY <1>2, <1>3, <1>4

\* The last ack of an order the router has forgotten ends it: it cannot be a
\* REJECTED of an order that has traded (_publish_and_apply_order_acks).
LEMMA ApplyTracking ==
    ASSUME IInv, Tracking, ApplyAckToOrder
    PROVE  Tracking'
  <1>. USE DEF routerVars, connVars, gwVars
  <1>1. /\ phase = "apply" /\ done < Len(batch) /\ done' = done + 1
        /\ UNCHANGED <<active, phase, inbox, batch, deferred, pendingAcks, expected, submitted, meta,
                       submitQ, fillQ, gw, executed>>
    BY DEF ApplyAckToOrder
  <1>2. /\ batch \in Seq(Acks) /\ done \in Nat /\ Len(batch) \in Nat /\ inbox = <<>> /\ pendingAcks = <<>>
        /\ \A i \in 1 .. Len(batch) : batch[i].order \in expected
        /\ \A i \in 1 .. Len(deferred) : deferred[i].order \notin expected
    BY <1>1, QueueTypes DEF IInv, PhaseOK, Tracking, Kernel, OrderedOK
  <1>3. PICK k \in Nat : k = done + 1
    BY <1>2
  <1>4. k \in 1 .. Len(batch)
    BY <1>1, <1>2, <1>3
  <1>5. PICK a \in Acks : a = batch[k]
    BY <1>2, <1>4
  <1>6. PICK o \in Orders : o = a.order
    BY DEF Acks
  <1>7. a.status \in OrderAckStatus
    BY DEF Acks
  <1>. DEFINE Later(n) == {batch[i] : i \in n .. Len(batch)}
  <1>8. Later(k) = Later(k + 1) \cup {a}
    <2>1. \A i \in k .. Len(batch) : i = k \/ i \in k + 1 .. Len(batch)
      BY <1>2
    <2>2. \A i \in k + 1 .. Len(batch) : i \in k .. Len(batch)
      BY <1>2
    <2>3. k \in k .. Len(batch)
      BY <1>4
    <2>4. Later(k) \subseteq Later(k + 1) \cup {a}
      BY <1>5, <2>1
    <2>5. Later(k + 1) \cup {a} \subseteq Later(k)
      BY <1>5, <2>2, <2>3
    <2>. QED BY <2>4, <2>5
  <1>. DEFINE D == {deferred[i] : i \in 1 .. Len(deferred)}
  <1>9. Waiting = D \cup Later(k)
    BY <1>1, <1>2, <1>3 DEF Waiting
  <1>10. Waiting' = D \cup Later(k + 1)
    BY <1>1, <1>2, <1>3 DEF Waiting
  <1>11. Waiting = Waiting' \cup {a}
    BY <1>8, <1>9, <1>10
  <1>12. o \in active /\ AckOK(a)
    BY <1>6, <1>11 DEF Tracking, Kernel, AcksOK, AckOK
  <1>13. ost'[o] = ApplyAck(ost[o], a.status) /\ \A p \in Orders : p # o => ost'[p] = ost[p]
    BY <1>3, <1>5, <1>6, <1>12, QueueTypes DEF ApplyAckToOrder
  <1>14. ost[o] \in {"SUBMITTED", "ACKNOWLEDGED", "PARTIALLY_FILLED"}
    <2>1. ost[o] \notin TerminalOrderStates
      BY <1>6, <1>11, <1>12 DEF Tracking, Kernel, StatesOK
    <2>2. ost[o] \notin {"CREATED", "CANCEL_REQUESTED"}
      BY <1>12 DEF Tracking, Kernel, StatesOK
    <2>. QED BY <2>1, <2>2, QueueTypes DEF OrderState, TerminalOrderStates
  \* A terminal ack is the last of its order.
  <1>15. Terminal(a) => \A b \in Waiting' : b.order # o
    <2>. SUFFICES ASSUME Terminal(a), NEW b \in Waiting' PROVE b.order # o
      OBVIOUS
    <2>1. CASE b \in D
      BY <1>2, <1>4, <1>5, <1>6, <2>1
    <2>2. CASE b \in Later(k + 1)
      <3>1. PICK j \in k + 1 .. Len(batch) : b = batch[j]
        BY <2>2
      <3>2. j \in 1 .. Len(batch) /\ k < j
        BY <1>2
      <3>. QED BY <1>4, <1>5, <1>6, <3>1, <3>2 DEF Tracking, Kernel, OrderedOK, Ends
    <2>. QED BY <1>10, <2>1, <2>2
  <1>. HIDE DEF D, Later
  <1>16. /\ ost'[o] \notin {"CREATED", "CANCEL_REQUESTED"}
         /\ ost'[o] = "PARTIALLY_FILLED" => "PARTIALLY_FILLED" \in {ost[o], a.status}
         /\ ost'[o] \in TerminalOrderStates <=> Terminal(a)
    <2>1. ~(a.status = "REJECTED" /\ ost[o] = "PARTIALLY_FILLED")
      BY <1>6, <1>12, QueueTypes DEF AckOK, Tracking, Kernel, StatesOK
    <2>. QED BY <1>7, <1>13, <1>14, <2>1, ApplyAckFacts DEF Terminal
  <1>17. GatewayOK' /\ EndsOK'
    BY <1>1 DEF Tracking, GatewayOK, EndsOK, EndOK
  <1>18. AcksOK'
    BY <1>1, <1>11 DEF Tracking, Kernel, AcksOK, AckOK, Terminal
  <1>19. OrderedOK'
    BY <1>1 DEF Tracking, Kernel, OrderedOK, Ends, EndsBefore, Terminal
  <1>20. StatesOK'
    <2>. USE DEF Tracking, Kernel, StatesOK
    <2>1. meta' \subseteq active'
      BY <1>1
    <2>2. ASSUME NEW p \in meta' PROVE ost'[p] \notin TerminalOrderStates
      <3>1. CASE p = o
        BY <1>1, <1>6, <1>12, <1>16, <3>1 DEF AckOK
      <3>2. CASE p # o
        BY <1>1, <1>13, <3>2, QueueTypes
      <3>. QED BY <3>1, <3>2
    <2>3. ASSUME NEW p \in active'
          PROVE  /\ ost'[p] \notin {"CREATED", "CANCEL_REQUESTED"}
                 /\ ost'[p] = "PARTIALLY_FILLED" => executed'[p] > 0
                 /\ ost'[p] \in TerminalOrderStates => \A b \in Waiting' : b.order # p
                 /\ p \notin meta' /\ ost'[p] \notin TerminalOrderStates =>
                       \E b \in Waiting' : b.order = p /\ Terminal(b)'
      <3>1. CASE p = o
        <4>1. ost'[p] = "PARTIALLY_FILLED" => executed'[p] > 0
          BY <1>1, <1>6, <1>12, <1>16, <3>1 DEF AckOK
        <4>2. p \notin meta' /\ ost'[p] \notin TerminalOrderStates =>
                 \E b \in Waiting' : b.order = p /\ Terminal(b)'
          <5>. SUFFICES ASSUME p \notin meta', ost'[p] \notin TerminalOrderStates
                        PROVE  \E b \in Waiting' : b.order = p /\ Terminal(b)'
            OBVIOUS
          <5>1. PICK b \in Waiting : b.order = p /\ Terminal(b)
            BY <1>1, <1>12, <1>14, <3>1 DEF TerminalOrderStates
          <5>2. b # a
            BY <1>16, <3>1, <5>1
          <5>. QED BY <1>11, <5>1, <5>2 DEF Terminal
        <4>. QED BY <1>15, <1>16, <3>1, <4>1, <4>2
      <3>2. CASE p # o
        <4>1. p \in active /\ ost'[p] = ost[p] /\ executed'[p] = executed[p] /\ meta' = meta
          BY <1>1, <1>13, <3>2, QueueTypes
        <4>2. p \notin meta' /\ ost'[p] \notin TerminalOrderStates =>
                 \E b \in Waiting' : b.order = p /\ Terminal(b)'
          BY <1>6, <1>11, <3>2, <4>1 DEF Terminal
        <4>. QED BY <1>11, <4>1, <4>2
      <3>. QED BY <3>1, <3>2
    <2>. QED BY <2>1, <2>2, <2>3
  <1>. QED BY <1>17, <1>18, <1>19, <1>20 DEF Tracking, Kernel

\* Booking an ack takes it off the batch and moves no tracker (_reconcile_fills).
LEMMA ReconcileTracking ==
    ASSUME IInv, Tracking, ReconcileFill
    PROVE  Tracking'
  <1>. USE DEF routerVars, connVars, gwVars
  <1>1. /\ phase = "book" /\ batch # <<>> /\ batch' = Tail(batch)
        /\ UNCHANGED <<ost, active, phase, inbox, done, deferred, pendingAcks, submitted, meta, submitQ,
                       fillQ, gwVars>>
    BY DEF ReconcileFill
  <1>2. batch \in Seq(Acks) /\ inbox = <<>> /\ pendingAcks = <<>>
    BY <1>1, QueueTypes DEF IInv, PhaseOK, Tracking, Kernel, OrderedOK
  <1>3. Waiting' = Waiting
    BY <1>1 DEF Waiting
  <1>4. Ends(Tail(batch))
    BY <1>1, <1>2, EndsTail DEF Tracking, Kernel, OrderedOK
  <1>5. OrderedOK'
    BY <1>1, <1>2, <1>4 DEF Tracking, Kernel, OrderedOK, Ends, EndsBefore, Terminal
  <1>. QED BY <1>1, <1>3, <1>5, SameTracking

\* The orders pruned at the end of a settle are finished: the router has
\* forgotten them and none of their acks waits (_prune_terminal_orders).
LEMMA FinishTracking ==
    ASSUME IInv, Tracking, FinishSettle
    PROVE  Tracking'
  <1>. USE DEF routerVars, connVars, gwVars
  <1>1. /\ phase = "book" /\ batch = <<>> /\ phase' = "idle"
        /\ active' = {o \in active : ost[o] \notin TerminalOrderStates}
        /\ UNCHANGED <<ost, inbox, batch, done, deferred, pendingAcks, submitted, meta, submitQ,
                       fillQ, gw, executed>>
    BY DEF FinishSettle, Live
  <1>2. done = 0
    BY <1>1 DEF IInv, PhaseOK
  <1>3. {batch[i] : i \in done + 1 .. Len(batch)} = {}
    BY <1>1, <1>2
  <1>4. Waiting' = Waiting
    BY <1>1, <1>3 DEF Waiting
  <1>5. GatewayOK' /\ EndsOK'
    BY <1>1 DEF Tracking, GatewayOK, EndsOK, EndOK
  <1>6. AcksOK'
    <2>1. \A a \in Waiting : AckOK(a) /\ ost[a.order] \notin TerminalOrderStates
      BY DEF Tracking, Kernel, AcksOK, AckOK, StatesOK
    <2>. QED BY <1>1, <1>4, <2>1 DEF AcksOK, AckOK, Terminal
  <1>7. OrderedOK'
    BY <1>1 DEF Tracking, Kernel, OrderedOK, Ends, EndsBefore, Terminal
  <1>8. StatesOK'
    BY <1>1, <1>4 DEF Tracking, Kernel, StatesOK, Terminal
  <1>. QED BY <1>5, <1>6, <1>7, <1>8 DEF Tracking, Kernel

\* One step of the main thread.
LEMMA MainThreadTracking ==
    ASSUME IInv, PrunedOK, Tracking, "operator" \notin Situations, "pipeline" \notin Situations,
           MainThread, ~Shutdown
    PROVE  Tracking'
  <1>1. CASE Settle
    <2>1. CASE SettleSubmitted
      <3>1. phase \in {"idle", "submit"} /\ BeginSettle(expected)
            /\ UNCHANGED <<ost, active, submitted, meta, submitQ, fillQ, gwVars>>
        BY <2>1 DEF SettleSubmitted, connVars
      <3>. QED BY <3>1, BeginTracking
    <2>. QED BY <1>1, <2>1, PollTracking, PhaseTracking, RouteTracking, ApplyTracking,
                ReconcileTracking, FinishTracking DEF Settle
  <1>2. CASE DrainAsyncFills
    <2>1. phase \in {"idle", "submit"} /\ BeginSettle(Orders)
          /\ UNCHANGED <<ost, active, submitted, meta, submitQ, fillQ, gwVars>>
      BY <1>2 DEF DrainAsyncFills, connVars
    <2>. QED BY <2>1, BeginTracking
  <1>3. ASSUME NEW S \in SUBSET Orders, CancelResting(S) PROVE Tracking'
    <2>1. phase \in {"idle", "submit"} /\ BeginSettle(S)
          /\ UNCHANGED <<ost, active, submitted, meta, submitQ, fillQ, gwVars>>
      BY <1>3 DEF CancelResting
    <2>. QED BY <2>1, BeginTracking
  <1>4. ASSUME NEW o \in Orders, TrackAndSubmit(o) \/ TrackAndSubmitFails(o) PROVE Tracking'
    BY <1>4, TrackTracking, SubmitFailsTracking
  <1>. QED BY <1>1, <1>2, <1>3, <1>4 DEF MainThread, CancelOrder, PipelineError, SettleRaises, TrackRaises

\* After the shutdown the main thread does nothing.
LEMMA StoppedStays ==
    ASSUME phase = "stopped", [Next]_vars
    PROVE  phase' = phase /\ deferred' = deferred
  <1>. USE DEF settleVars, kernelVars
  <1>1. ~MainThread
    BY DEF MainThread, Settle, SettleSubmitted, PollFill, PollDone, RouteAck, RouteDone, ApplyAckToOrder,
           ApplyDone, ReconcileFill, FinishSettle, DrainAsyncFills, Shutdown, CancelResting, TrackAndSubmit,
           TrackAndSubmitFails, CancelOrder, PipelineError, SettleRaises, TrackRaises
  <1>2. ASSUME NEW o \in Orders, Writer(o) \/ Gateway(o) PROVE phase' = phase /\ deferred' = deferred
    BY <1>2 DEF Writer, WriterPlaceOrder, WriterPlaceOrderFails, WriterCancelOrder, Gateway,
                GatewayExecute, GatewayReport, GatewayEnd, GatewayWarning
  <1>. QED BY <1>1, <1>2 DEF Next, vars

\* Every step keeps the trackers' invariant.
LEMMA TrackingStep == Undisturbed /\ IInv /\ PrunedOK /\ TrackingIInv /\ [Next]_vars => TrackingIInv'
  <1>. SUFFICES ASSUME Undisturbed, IInv, PrunedOK, TrackingIInv, [Next]_vars PROVE TrackingIInv'
    OBVIOUS
  <1>1. Situations \cap {"overtake", "warning", "operator", "pipeline"} = {}
    BY DEF Undisturbed
  <1>2. CASE phase = "stopped"
    BY <1>2, StoppedStays DEF TrackingIInv
  <1>3. CASE phase # "stopped"
    <2>1. Tracking
      BY <1>3 DEF TrackingIInv, Tracking, Kernel
    <2>2. CASE Shutdown
      BY <2>2 DEF Shutdown, TrackingIInv
    <2>3. CASE MainThread /\ ~Shutdown
      <3>1. Tracking'
        BY <1>1, <2>1, <2>3, MainThreadTracking
      <3>2. phase' # "stopped"
        <4>1. CASE Settle
          BY <1>3, <4>1 DEF Settle, SettleSubmitted, PollFill, PollDone, RouteAck, RouteDone, BeginSettle,
                            ApplyAckToOrder, ApplyDone, ReconcileFill, FinishSettle
        <4>2. CASE SettleRaises \/ DrainAsyncFills \/ \E S \in SUBSET Orders : CancelResting(S)
          BY <4>2 DEF SettleRaises, Abandon, DrainAsyncFills, CancelResting, BeginSettle
        <4>3. ASSUME NEW o \in Orders,
                     \/ TrackAndSubmit(o) \/ TrackAndSubmitFails(o) \/ CancelOrder(o)
                     \/ PipelineError(o) \/ TrackRaises(o)
              PROVE  phase' # "stopped"
          BY <1>3, <4>3 DEF TrackAndSubmit, TrackAndSubmitFails, CancelOrder, BeginSettle, PipelineError,
                            TrackRaises, Abandon, settleVars
        <4>. QED BY <2>3, <4>1, <4>2, <4>3 DEF MainThread
      <3>. QED BY <3>1, <3>2 DEF TrackingIInv, Tracking, Kernel
    <2>4. ASSUME NEW o \in Orders, Writer(o) \/ Gateway(o) PROVE TrackingIInv'
      <3>1. GatewayOK' /\ EndsOK' /\ Kernel'
        BY <1>1, <2>1, <2>4, WriterTracking, GatewayTracking DEF Tracking
      <3>2. phase' = phase
        BY <2>4 DEF Writer, WriterPlaceOrder, WriterPlaceOrderFails, WriterCancelOrder, Gateway,
                    GatewayExecute, GatewayReport, GatewayEnd, GatewayWarning, kernelVars, settleVars
      <3>. QED BY <1>3, <3>1, <3>2 DEF TrackingIInv, Kernel
    <2>5. CASE UNCHANGED vars
      <3>1. Waiting' = Waiting
        BY <2>5 DEF vars, kernelVars, settleVars, routerVars, Waiting
      <3>2. UNCHANGED <<ost, active, submitted, meta, submitQ, fillQ, gwVars, phase, inbox, batch, deferred,
                        pendingAcks>>
        BY <2>5 DEF vars, kernelVars, settleVars, routerVars, connVars
      <3>3. OrderedOK'
        BY <2>1, <3>2 DEF Tracking, Kernel, OrderedOK, Ends, EndsBefore, Terminal
      <3>4. Tracking'
        BY <2>1, <3>1, <3>2, <3>3, SameTracking
      <3>. QED BY <1>3, <3>2, <3>4 DEF TrackingIInv, Tracking, Kernel
    <2>. QED BY <2>2, <2>3, <2>4, <2>5 DEF Next
  <1>. QED BY <1>2, <1>3

\* Kernel, router and gateway track the same orders, for every set of orders and
\* quantities, when callbacks may be stale and a cancel may report executions
\* (_track_order, _fill_to_ack, _prune_ib_order, _prune_terminal_orders).  An
\* overtaken placeOrder, a warning code, an operator's cancel and an error while
\* a settle applies its acks make router and kernel forget at different times.
THEOREM TrackersAgreeTheorem == Undisturbed => (Spec => []TrackersAgree)
  <1>1. Init => TrackingIInv
    <2>. SUFFICES ASSUME Init PROVE TrackingIInv
      OBVIOUS
    <2>. USE DEF Init
    <2>1. Waiting = {}
      BY DEF Waiting
    <2>2. GatewayOK /\ EndsOK
      BY DEF GatewayOK, EndsOK
    <2>3. AcksOK /\ OrderedOK
      BY <2>1 DEF AcksOK, OrderedOK, Ends, EndsBefore
    <2>4. StatesOK
      BY DEF StatesOK
    <2>. QED BY <2>2, <2>3, <2>4 DEF TrackingIInv
  <1>2. Undisturbed /\ IInv /\ PrunedOK /\ TrackingIInv => TrackersAgree
    <2>. SUFFICES ASSUME Undisturbed, IInv, PrunedOK, TrackingIInv PROVE TrackersAgree
      OBVIOUS
    <2>1. CASE phase = "stopped"
      BY <2>1 DEF TrackingIInv, TrackersAgree, RouterOrdersTracked, KernelFollowsRouter, WorkingOrderTracked
    <2>2. CASE phase # "stopped"
      <3>. USE <2>2 DEF TrackingIInv
      <3>1. meta \subseteq active
        BY DEF StatesOK
      <3>2. RouterOrdersTracked
        BY <3>1 DEF RouterOrdersTracked, AcksOK, AckOK, Waiting
      <3>3. WorkingOrderTracked
        BY <3>1 DEF WorkingOrderTracked, GatewayOK
      <3>4. ASSUME phase = "idle", deferred = <<>> PROVE active \subseteq meta
        <4>1. inbox = <<>> /\ batch = <<>> /\ done = 0 /\ pendingAcks = <<>>
          BY <3>4 DEF IInv, PhaseOK, OrderedOK
        <4>2. Waiting = {}
          BY <3>4, <4>1 DEF Waiting
        <4>3. \A o \in active : ost[o] \notin TerminalOrderStates
          BY <3>4 DEF PrunedOK, Undisturbed
        <4>. QED BY <4>2, <4>3 DEF StatesOK
      <3>. QED BY <3>2, <3>3, <3>4 DEF TrackersAgree, KernelFollowsRouter
    <2>. QED BY <2>1, <2>2
  <1>3. Undisturbed /\ IInv /\ PrunedOK /\ TrackingIInv /\ [Next]_vars => TrackingIInv'
    BY TrackingStep
  <1>4. Spec => []IInv /\ []PrunedOK
    BY InductiveInvariant, Pruned, PTL
  <1>5. ASSUME Undisturbed PROVE Spec => []TrackersAgree
    <2>1. IInv /\ PrunedOK /\ TrackingIInv /\ [Next]_vars => TrackingIInv'
      BY <1>3, <1>5
    <2>2. IInv /\ PrunedOK /\ TrackingIInv => TrackersAgree
      BY <1>2, <1>5
    <2>. QED BY <1>1, <1>4, <2>1, <2>2, PTL DEF Spec
  <1>. QED BY <1>5
=============================================================================
