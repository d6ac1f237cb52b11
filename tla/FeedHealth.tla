----------------------------- MODULE FeedHealth -----------------------------
(***************************************************************************)
(* What the platform believes about a market data stream: the DataHealth   *)
(* machine of every (symbol, feed), the sequence cursor that moves it, and *)
(* the halt codebook.  The normalizer, the live feed, the event caches and *)
(* the kernel's data gate all use these operators.                         *)
(***************************************************************************)
EXTENDS Naturals, FiniteSets

DataHealth == {"HEALTHY", "GAP_DETECTED", "HALTED", "CORRUPTED"}

_DATA_TRANSITIONS ==
    [HEALTHY      |-> {"GAP_DETECTED", "HALTED", "CORRUPTED"},
     GAP_DETECTED |-> {"HEALTHY", "HALTED", "CORRUPTED"},
     HALTED       |-> {"HEALTHY", "CORRUPTED"},
     CORRUPTED    |-> {}]

can_transition(h, target) == target \in _DATA_TRANSITIONS[h]

_HEALTH_RANK == [HEALTHY |-> 0, GAP_DETECTED |-> 1, HALTED |-> 2, CORRUPTED |-> 3]

merge_worst_health(current, incoming) ==
    IF _HEALTH_RANK[incoming] > _HEALTH_RANK[current] THEN incoming ELSE current

\* The worst of a non-empty set of states (health, terminal_symbol_health_rows).
Worst(states) ==
    CHOOSE h \in states : \A g \in states : merge_worst_health(h, g) = h

\* A label read back from a manifest: absent means healthy, and a name the
\* enumeration does not know is the worst state.
parse_ingestion_health_label(label) ==
    IF label \in DataHealth THEN label
    ELSE IF label = "absent" THEN "HEALTHY" ELSE "CORRUPTED"

\* marks: the halt codes among a print's conditions.  A print that carries
\* both stays suspended.
classify_halt_status(marks) ==
    IF "on" \in marks THEN "HALT_ON"
    ELSE IF "off" \in marks THEN "HALT_OFF" ELSE "none"

(***************************************************************************)
(* The normalizer.  A wire record is [seq, body, price, time]: the vendor  *)
(* number (0: none), the fingerprint of its payload, whether its prices    *)
(* parse, and whether its timestamp is within the window around the wall   *)
(* clock.  The cursor of a feed is the number and the fingerprint of the   *)
(* last accepted record; a record is compared with that one only.          *)
(***************************************************************************)
NoCursor == [seq |-> 0, body |-> "none"]

_update_last_seen(m) == [seq |-> m.seq, body |-> m.body]

Reused(cursor, m) == m.seq # 0 /\ cursor.seq = m.seq

\* "repeat" is dropped, "corrupt" condemns both feeds of the symbol.
_reject_sequence_reuse(cursor, m) ==
    IF ~Reused(cursor, m) THEN "new"
    ELSE IF cursor.body = m.body THEN "repeat" ELSE "corrupt"

_safe_price(price, allow_zero) == price = "positive" \/ (price = "zero" /\ allow_zero)

_check_exchange_ts_in_range(m) == m.time = "near"

\* Everything that can raise comes before the first change of state.
_ws_quote(cursor, m) ==
    IF ~_check_exchange_ts_in_range(m) THEN "corrupt"
    ELSE IF Reused(cursor, m) THEN _reject_sequence_reuse(cursor, m)
    ELSE IF _safe_price(m.price, TRUE) THEN "event" ELSE "corrupt"

_ws_trade(cursor, m) ==
    IF ~_check_exchange_ts_in_range(m) THEN "corrupt"
    ELSE IF Reused(cursor, m) THEN _reject_sequence_reuse(cursor, m)
    ELSE IF _safe_price(m.price, FALSE) THEN "event" ELSE "corrupt"

\* A historical record need not be near the clock.
_rest_quote(cursor, m) ==
    IF Reused(cursor, m) THEN _reject_sequence_reuse(cursor, m)
    ELSE IF _safe_price(m.price, TRUE) THEN "event" ELSE "corrupt"

_rest_trade(cursor, m) ==
    IF Reused(cursor, m) THEN _reject_sequence_reuse(cursor, m)
    ELSE IF _safe_price(m.price, FALSE) THEN "event" ELSE "corrupt"

(***************************************************************************)
(* A move of the machine, by what asks for it: a number past the next one, *)
(* a lost connection or a dropped event (gap), the next number after a gap *)
(* (continuity), a payload that cannot be parsed or a number reused for    *)
(* another one (corrupted), a halt print.  The caller looks at the state   *)
(* first and asks in some of them only.                                    *)
(***************************************************************************)
TargetOf ==
    [gap |-> "GAP_DETECTED", continuity |-> "HEALTHY", corrupted |-> "CORRUPTED",
     HALT_ON |-> "HALTED", HALT_OFF |-> "HEALTHY"]

Asked(kind, h) ==
    \/ kind = "gap" /\ h = "HEALTHY"
    \/ kind = "continuity" /\ h = "GAP_DETECTED"
    \/ kind \notin {"gap", "continuity"} /\ can_transition(h, TargetOf[kind])

\* Asked and done by one thread.
Moved(kind, h) == IF Asked(kind, h) THEN TargetOf[kind] ELSE h

GapKind(seq, prev) ==
    IF seq = 0 \/ prev = 0 THEN "none"
    ELSE IF seq > prev + 1 THEN "gap"
    ELSE IF seq = prev + 1 THEN "continuity" ELSE "none"

_check_gap(h, seq, prev) ==
    IF GapKind(seq, prev) = "none" THEN h ELSE Moved(GapKind(seq, prev), h)
=============================================================================
