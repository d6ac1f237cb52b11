------------------------------- MODULE Ingestor -------------------------------
(***************************************************************************)
(* MassiveHistoricalIngestor.ingest: one call downloads several symbols in *)
(* turn; a symbol whose download completed is recorded in a checkpoint and *)
(* skipped when the call is made again after an interruption.  One symbol  *)
(* goes straight to the log; several are gathered in a scratch log that is *)
(* merged into it when the last one is in.                                 *)
(***************************************************************************)
EXTENDS Naturals, Sequences

CONSTANTS
    IngestCalls,   \* the sequences of symbols ingest may be called with
    MaxCalls       \* bound: calls of ingest

VARIABLES
    calling,       \* symbols of the call in progress that are still to do
    multi,         \* the call is for more than one symbol
    scratch,       \* symbols of the scratch log
    _event_log,    \* symbols of the destination log
    _checkpoint,   \* symbols marked done
    reported,      \* symbols_completed of a call
    returned,      \* the last call returned
    calls

ingestVars == <<calling, multi, scratch, _event_log, _checkpoint, reported, returned, calls>>

IngestInit ==
    /\ calling = <<>> /\ multi = FALSE /\ scratch = {} /\ _event_log = {} /\ _checkpoint = {}
    /\ reported = {} /\ returned = TRUE /\ calls = 0

Call ==
    /\ calling = <<>> /\ ~multi /\ calls < MaxCalls
    /\ \E symbols \in IngestCalls :
         calling' = symbols /\ multi' = (Len(symbols) > 1)
    /\ calls' = calls + 1
    /\ scratch' = {} /\ reported' = {} /\ returned' = FALSE
    /\ UNCHANGED <<_event_log, _checkpoint>>

SkipDone ==
    /\ calling # <<>> /\ Head(calling) \in _checkpoint
    /\ reported' = reported \cup {Head(calling)}
    /\ calling' = Tail(calling)
    /\ returned' = (Tail(calling) = <<>> /\ ~multi)
    /\ UNCHANGED <<multi, scratch, _event_log, _checkpoint, calls>>

\* Both downloads are complete: the symbol is normalised, appended, marked.
IngestSymbol ==
    /\ calling # <<>> /\ Head(calling) \notin _checkpoint
    /\ IF multi
         THEN scratch' = scratch \cup {Head(calling)} /\ UNCHANGED _event_log
         ELSE _event_log' = _event_log \cup {Head(calling)} /\ UNCHANGED scratch
    /\ _checkpoint' = _checkpoint \cup {Head(calling)}
    /\ reported' = reported \cup {Head(calling)}
    /\ calling' = Tail(calling)
    /\ returned' = (Tail(calling) = <<>> /\ ~multi)
    /\ UNCHANGED <<multi, calls>>

\* Mutant: the symbol is marked before its downloads are known to be complete.
BreaksOff_Marked ==
    /\ calling # <<>> /\ Head(calling) \notin _checkpoint
    /\ _checkpoint' = _checkpoint \cup {Head(calling)}
    /\ calling' = <<>> /\ multi' = FALSE /\ scratch' = {} /\ reported' = {}
    /\ UNCHANGED <<_event_log, returned, calls>>

\* A download breaks off: DataIntegrityError leaves the call.
BreaksOff ==
    /\ calling # <<>> /\ Head(calling) \notin _checkpoint
    /\ calling' = <<>> /\ multi' = FALSE /\ scratch' = {} /\ reported' = {}
    /\ UNCHANGED <<_event_log, _checkpoint, returned, calls>>

_finalize_multi_symbol_merge ==
    /\ multi /\ calling = <<>>
    /\ _event_log' = _event_log \cup scratch
    /\ multi' = FALSE /\ returned' = TRUE
    /\ UNCHANGED <<calling, scratch, _checkpoint, reported, calls>>

IngestNext == Call \/ SkipDone \/ IngestSymbol \/ BreaksOff \/ _finalize_multi_symbol_merge

IngestSpec == IngestInit /\ [][IngestNext]_ingestVars

\* What keeps it true while every call is for one symbol: what is marked done
\* is in the log.  A merge of several that breaks off loses what it marked.
OneAtATime ==
    \A symbols \in IngestCalls : Len(symbols) = 1 /\ symbols = <<symbols[1]>>

IngestIInv ==
    /\ ~multi /\ scratch = {}
    /\ calling # <<>> => calling = <<calling[1]>>
    /\ _checkpoint \subseteq _event_log /\ reported \subseteq _event_log

\* A call of ingest that returns has every symbol it reports complete in the
\* log, also when it resumes a call that was interrupted (ingest, mark_done).
CompletedIsHeld == returned => reported \subseteq _event_log
=============================================================================
