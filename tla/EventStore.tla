------------------------------ MODULE EventStore ------------------------------
(***************************************************************************)
(* Historical market data: download and normalisation of a (symbol, day),  *)
(* the disk cache, the merged event log and its replay, as one backtest    *)
(* walks through them (run_backtest_api).  Several backtests share one     *)
(* cache directory, write the same temporary names in it, and may be       *)
(* killed anywhere.                                                        *)
(***************************************************************************)
EXTENDS FeedHealth, Sequences, SequencesExt

CONSTANTS
    Backtests,    \* processes that use the cache directory
    StoreSymbols, \* the symbols, in the order of their names
    Days,         \* number of trading days of the range
    Tapes,        \* Tapes[k]: what the vendor may answer for the day k
    Requests,     \* what a backtest may be asked for: [symbols, offline, ...]
    RTH,          \* exchange times inside regular trading hours
    Schema,       \* the event schema of this build
    MaxCrashes    \* bound: processes killed

Keys == {<<StoreSymbols[i], d>> : i \in DOMAIN StoreSymbols, d \in 1..Days}

VARIABLES
    files,     \* files[k]: the data file, the manifest and their temporary names
    bt,        \* bt[p]: the state of backtest p
    crashes,
    fetched    \* history: fetched[k], the answers normalised by this build

storeVars == <<files, bt, crashes, fetched>>

(***************************************************************************)
(* Normalisation of one downloaded day.  A tape is a sequence of wire      *)
(* records [type, ts, ...]; it is sorted by (ts, type, vendor number)      *)
(* before the normalizer sees it.                                          *)
(***************************************************************************)
Rank(type) == IF type = "quote" THEN 0 ELSE 1

\* Lexicographic order on sequences of integers of equal length.
Precedes(a, b) ==
    \E i \in DOMAIN a : a[i] < b[i] /\ \A j \in 1..i - 1 : a[j] = b[j]

RawKey(r) == <<r.ts, Rank(r.type), r.seq>>

_download_raw(tape, symbol) == SelectSeq(tape, LAMBDA r : r.ticker \in {symbol, "none"})

Sorted(records) == SortSeq(records, LAMBDA a, b : Precedes(RawKey(a), RawKey(b)))

\* An ambiguous record is a quote; one without prices is not an event.
_parse_rest(cursors, r) ==
    IF r.type = "none" THEN "unrecognized"
    ELSE IF r.type = "quote" THEN _rest_quote(cursors["quote"], r)
    ELSE _rest_trade(cursors["trade"], r)

NewNormalizer ==
    [cursors |-> [t \in {"quote", "trade"} |-> NoCursor],
     health  |-> [t \in {"quote", "trade"} |-> "HEALTHY"],
     seen    |-> FALSE,
     events  |-> <<>>]

_apply_halt_status(h, marks) ==
    LET status == classify_halt_status(marks)
    IN IF status = "HALT_ON" /\ can_transition(h, "HALTED") THEN "HALTED"
       ELSE IF status = "HALT_OFF" /\ h = "HALTED" THEN "HEALTHY" ELSE h

\* One record through the normalizer.  The gap check is off unless configured.
NormalizeOne(n, r, symbol, gaps) ==
    LET verdict == _parse_rest(n.cursors, r)
        h == IF gaps THEN _check_gap(n.health[r.type], r.seq, n.cursors[r.type].seq)
             ELSE n.health[r.type]
    IN  CASE verdict = "event" ->
               [cursors |-> [n.cursors EXCEPT ![r.type] = _update_last_seen(r)],
                health  |-> [n.health EXCEPT ![r.type] =
                               IF r.type = "trade" THEN _apply_halt_status(h, r.marks) ELSE h],
                seen    |-> TRUE,
                events  |-> Append(n.events, [ts |-> r.ts, symbol |-> symbol, type |-> r.type,
                                              seq |-> Len(n.events)])]
          [] verdict = "corrupt" ->
               [n EXCEPT !.health = [t \in DOMAIN @ |-> Moved("corrupted", @[t])], !.seen = TRUE]
          [] OTHER -> n

\* Quotes and trades are downloaded in parallel; what either thread could not
\* complete refuses the day.
ingest_symbol_parallel(symbol, tape, gaps) ==
    FoldLeft(LAMBDA n, r : NormalizeOne(n, r, symbol, gaps), NewNormalizer,
             Sorted(_download_raw(tape, symbol)))

\* The label written to the manifest: a day without a message is UNKNOWN.
HealthLabel(n) ==
    IF ~n.seen THEN "UNKNOWN" ELSE Worst({n.health[t] : t \in DOMAIN n.health})

(***************************************************************************)
(* The merged log: sorted by (time, symbol, type, earlier number), then    *)
(* numbered from zero.                                                     *)
(***************************************************************************)
SymbolRank(s) == CHOOSE i \in DOMAIN StoreSymbols : StoreSymbols[i] = s

\* Mutant: the order of equal times is left to the order of concatenation.
event_merge_sort_key_TimeOnly(e) == <<e.ts, 0, 0, 0>>

event_merge_sort_key(e) == <<e.ts, SymbolRank(e.symbol), Rank(e.type), e.seq>>

InOrder(a, b) == ~Precedes(event_merge_sort_key(b), event_merge_sort_key(a))

\* Python's sort is stable: the position in the list breaks what ties are left.
StableSort(s) ==
    LET Before(i, j) == Precedes(event_merge_sort_key(s[i]) \o <<i>>,
                                 event_merge_sort_key(s[j]) \o <<j>>)
        order == SortSeq([i \in DOMAIN s |-> i], Before)
    IN  [i \in DOMAIN s |-> s[order[i]]]

resequence_event_list(events) ==
    LET sorted == StableSort(events)
    IN  [i \in DOMAIN sorted |-> [sorted[i] EXCEPT !.seq = i - 1]]

\* append_batch: stabilised, then each event checked against the one before it.
append_batch(log, batch) == log \o StableSort(batch)

_enforce_market_order(log) ==
    \A i \in 1..Len(log) - 1 : InOrder(log[i], log[i + 1])

(***************************************************************************)
(* The disk.  A file holds the bytes of one save, named by its writer and  *)
(* the answer saved, and is whole once closed; `open` is who still has a   *)
(* handle on it.  Opening a temporary file another writer has open leaves  *)
(* a mixture that matches no checksum; renaming moves the file and with it *)
(* the handles.                                                            *)
(***************************************************************************)
NoFile == [by |-> "none", whole |-> FALSE, open |-> {}, tape |-> 0, schema |-> "none",
           label |-> "absent"]

Opened(f, p, tape, label) ==
    IF f.open = {}
      THEN [by |-> p, whole |-> FALSE, open |-> {p}, tape |-> tape, schema |-> Schema,
            label |-> label]
      ELSE [f EXCEPT !.by = "mixed", !.whole = FALSE, !.open = @ \cup {p}]

\* The process closes its handle, or dies with it open.
Closed(f, p) ==
    IF p \notin f.open THEN f
    ELSE [f EXCEPT !.open = @ \ {p}, !.whole = f.by = p]

Abandoned(f, p) == [f EXCEPT !.open = @ \ {p}]

EmptyDay == [data |-> NoFile, dataTmp |-> NoFile, man |-> NoFile, manTmp |-> NoFile]

\* What an earlier run left: a day of another schema, a manifest without a
\* label, or the data file two savers have mixed beside a good manifest.
EarlierFile(tape, before, by) ==
    [by |-> by, whole |-> by = "earlier", open |-> {}, tape |-> tape,
     schema |-> IF before = "old schema" THEN "old" ELSE Schema,
     label |-> IF before = "unlabelled" THEN "absent" ELSE "HEALTHY"]

EarlierDay(tape, before) ==
    [data |-> EarlierFile(tape, before, IF before = "mixed" THEN "mixed" ELSE "earlier"),
     dataTmp |-> NoFile, man |-> EarlierFile(tape, before, "earlier"), manTmp |-> NoFile]

read_manifest(k) == IF files[k].man.whole THEN files[k].man ELSE NoFile

unusable_reason(k) ==
    IF files[k].data = NoFile THEN "no data file"
    ELSE IF read_manifest(k) = NoFile THEN "no manifest"
    ELSE IF read_manifest(k).schema # Schema THEN "schema" ELSE "none"

exists(k) == unusable_reason(k) = "none"

(***************************************************************************)
(* A backtest.  `got` are the days it has, in the order of the request.    *)
(***************************************************************************)
NoRequest == [symbols |-> <<>>, cached |-> FALSE, offline |-> FALSE, healthy |-> FALSE,
              rth |-> FALSE, gaps |-> FALSE, latency |-> 0]

NotStarted == [pc |-> "idle", ask |-> NoRequest, todo |-> <<>>, got |-> <<>>, man |-> NoFile,
         tape |-> 0, log |-> <<>>, at |-> 0, clock |-> 0, verdict |-> "none"]

StoreInit ==
    /\ \E before \in [Keys -> {"nothing", "old schema", "unlabelled", "mixed"}] :
         files = [k \in Keys |->
                    IF before[k] = "nothing" THEN EmptyDay
                    ELSE EarlierDay(Len(Tapes[k]), before[k])]
    /\ bt = [p \in Backtests |-> NotStarted]
    /\ crashes = 0
    /\ fetched = [k \in Keys |-> IF files[k].data.whole /\ files[k].data.schema = Schema
                                 THEN {files[k].data.tape} ELSE {}]

Goes(p, pc) == bt' = [bt EXCEPT ![p].pc = pc]
Fails(p, verdict) == bt' = [bt EXCEPT ![p].pc = "failed", ![p].verdict = verdict]

Day(p) == Head(bt[p].todo)

KeysOf(symbols) == FlattenSeq([i \in DOMAIN symbols |-> [d \in 1..Days |-> <<symbols[i], d>>]])

\* The configuration holds its symbols in a set, so no day is asked for twice.
ASSUME StoreAssumption ==
    /\ Schema # "old"
    /\ {"none", "mixed", "earlier"} \cap Backtests = {}
    /\ \A k \in Keys : Len(Tapes[k]) \in Nat \ {0} /\ DOMAIN Tapes[k] = 1..Len(Tapes[k])
    /\ \A r \in Requests :
          /\ r.gaps \in BOOLEAN
          /\ KeysOf(r.symbols) \in Seq(Keys) /\ IsInjective(KeysOf(r.symbols))

\* A backtest from the cache alone refuses a range of which a day is unusable.
Begin(p) ==
    /\ bt[p].pc = "idle"
    /\ \E ask \in Requests :
         IF ask.offline /\ \E i \in DOMAIN KeysOf(ask.symbols) : ~exists(KeysOf(ask.symbols)[i])
           THEN Fails(p, "unusable")
           ELSE bt' = [bt EXCEPT ![p] = [NotStarted EXCEPT !.pc = "day", !.ask = ask,
                                                     !.todo = KeysOf(ask.symbols)]]
    /\ UNCHANGED <<files, crashes, fetched>>

NextDay(p) ==
    /\ bt[p].pc = "day"
    /\ Goes(p, IF bt[p].todo = <<>> THEN "merge"
               ELSE IF bt[p].ask.offline \/ (bt[p].ask.cached /\ exists(Day(p))) THEN "load"
               ELSE "fetch")
    /\ UNCHANGED <<files, crashes, fetched>>

Miss(p) == IF bt[p].ask.offline THEN Fails(p, "unreadable") ELSE Goes(p, "fetch")

\* load reads the manifest, then the data file, which must be what the
\* manifest's checksum says.
load(p) ==
    /\ bt[p].pc = "load"
    /\ LET man == read_manifest(Day(p))
       IN IF man = NoFile \/ man.schema # Schema
            THEN Miss(p)
            ELSE bt' = [bt EXCEPT ![p].pc = "data", ![p].man = man]
    /\ UNCHANGED <<files, crashes, fetched>>

\* Mutant: the data file is taken as it is.
Matches_Unchecked(data, man) == TRUE

Matches(data, man) == data.whole /\ data.by = man.by

LoadData(p) ==
    /\ bt[p].pc = "data"
    /\ LET data == files[Day(p)].data
       IN IF ~Matches(data, bt[p].man)
            THEN Miss(p)
            ELSE bt' = [bt EXCEPT ![p].pc = "label",
                                  ![p].tape = IF data.whole THEN data.tape ELSE 0]
    /\ UNCHANGED <<files, crashes, fetched>>

Events(p, k, tape) == ingest_symbol_parallel(k[1], Tapes[k][tape], bt[p].ask.gaps).events

Got(p, source, label, labelBy) ==
    [key |-> Day(p), tape |-> bt[p].tape, source |-> source, label |-> label,
     raced |-> source = "cache" /\ labelBy # bt[p].man.by]

Keep(p, day) ==
    bt' = [bt EXCEPT ![p].pc = "day", ![p].got = Append(@, day), ![p].todo = Tail(@),
                     ![p].man = NoFile, ![p].tape = 0]

\* The label of the day is read from the manifest once more.
ReadLabel(p) ==
    /\ bt[p].pc = "label"
    /\ LET man == read_manifest(Day(p))
           label == IF man = NoFile THEN "absent" ELSE man.label
       IN IF bt[p].ask.offline /\ bt[p].ask.healthy /\ label # "HEALTHY"
            THEN Fails(p, "unhealthy")
            ELSE Keep(p, Got(p, "cache", label, man.by))
    /\ UNCHANGED <<files, crashes, fetched>>

\* The vendor answers, or a download breaks off and the run with it.
ingest(p) ==
    /\ bt[p].pc = "fetch"
    /\ \/ \E i \in DOMAIN Tapes[Day(p)] :
            /\ bt' = [bt EXCEPT ![p].pc = IF bt[p].ask.cached THEN "openData" ELSE "keep",
                                ![p].tape = i]
            /\ fetched' = [fetched EXCEPT ![Day(p)] = @ \cup {i}]
       \/ Fails(p, "download") /\ UNCHANGED fetched
    /\ UNCHANGED <<files, crashes>>

LabelOf(k, tape, gaps) == HealthLabel(ingest_symbol_parallel(k[1], Tapes[k][tape], gaps))

(***************************************************************************)
(* save: the data file, then the manifest, each written under a temporary  *)
(* name and renamed.                                                       *)
(***************************************************************************)
Saving(p, from, to) ==
    /\ bt[p].pc = from /\ Goes(p, to)
    /\ UNCHANGED <<crashes, fetched>>

OpenData(p) ==
    /\ Saving(p, "openData", "closeData")
    /\ files' = [files EXCEPT ![Day(p)].dataTmp = Opened(@, p, bt[p].tape, "absent")]

CloseData(p) ==
    /\ Saving(p, "closeData", "renameData")
    /\ files' = [files EXCEPT ![Day(p)].dataTmp = Closed(@, p), ![Day(p)].data = Closed(@, p)]

\* A temporary name somebody else renamed first: FileNotFoundError.
RenameData(p) ==
    /\ bt[p].pc = "renameData"
    /\ IF files[Day(p)].dataTmp = NoFile
         THEN Fails(p, "rename") /\ UNCHANGED files
         ELSE /\ Goes(p, "openMan")
              /\ files' = [files EXCEPT ![Day(p)].data = files[Day(p)].dataTmp,
                                        ![Day(p)].dataTmp = NoFile]
    /\ UNCHANGED <<crashes, fetched>>

OpenManifest(p) ==
    /\ Saving(p, "openMan", "closeMan")
    /\ files' = [files EXCEPT ![Day(p)].manTmp =
                   Opened(@, p, bt[p].tape, LabelOf(Day(p), bt[p].tape, bt[p].ask.gaps))]

CloseManifest(p) ==
    /\ Saving(p, "closeMan", "renameMan")
    /\ files' = [files EXCEPT ![Day(p)].manTmp = Closed(@, p), ![Day(p)].man = Closed(@, p)]

RenameManifest(p) ==
    /\ bt[p].pc = "renameMan"
    /\ IF files[Day(p)].manTmp = NoFile
         THEN Fails(p, "rename") /\ UNCHANGED files
         ELSE /\ Goes(p, "keep")
              /\ files' = [files EXCEPT ![Day(p)].man = files[Day(p)].manTmp,
                                        ![Day(p)].manTmp = NoFile]
    /\ UNCHANGED <<crashes, fetched>>

KeepDay(p) ==
    /\ bt[p].pc = "keep"
    /\ Keep(p, Got(p, "api", LabelOf(Day(p), bt[p].tape, bt[p].ask.gaps), p))
    /\ UNCHANGED <<files, crashes, fetched>>

(***************************************************************************)
(* From the days to the replay.                                            *)
(***************************************************************************)
Local(p) == UNCHANGED <<files, crashes, fetched>>

Merge(p) ==
    /\ bt[p].pc = "merge"
    /\ LET days == [i \in DOMAIN bt[p].got |-> Events(p, bt[p].got[i].key, bt[p].got[i].tape)]
           log == append_batch(<<>>, resequence_event_list(FlattenSeq(days)))
       IN IF _enforce_market_order(log)
            THEN bt' = [bt EXCEPT ![p].pc = "prepare", ![p].log = log]
            ELSE Fails(p, "causality")
    /\ Local(p)

\* The RTH filter; a run without quotes is refused.
prepare_backtest_event_log(p) ==
    /\ bt[p].pc = "prepare"
    /\ LET kept == IF bt[p].ask.rth THEN SelectSeq(bt[p].log, LAMBDA e : e.ts \in RTH)
                   ELSE bt[p].log
       IN IF \E i \in DOMAIN kept : kept[i].type = "quote"
            THEN bt' = [bt EXCEPT ![p].pc = "boot", ![p].log = kept]
            ELSE Fails(p, "no quotes")
    /\ Local(p)

\* Mutant: a day without a label passes for a healthy one.
_attach_disk_cache_health_rows_Lenient(got) ==
    {IF got[i].label = "absent" THEN "HEALTHY" ELSE got[i].label : i \in DOMAIN got}

\* The rows of the configuration: a day without a label is UNKNOWN.
_attach_disk_cache_health_rows(got) ==
    {IF got[i].label = "absent" THEN "UNKNOWN" ELSE got[i].label : i \in DOMAIN got}

_verify_data_integrity(p) ==
    /\ bt[p].pc = "boot"
    /\ IF bt[p].ask.healthy /\ _attach_disk_cache_health_rows(bt[p].got) # {"HEALTHY"}
         THEN Fails(p, "unhealthy")
         ELSE bt' = [bt EXCEPT ![p].pc = "replay", ![p].at = 1]
    /\ Local(p)

\* ReplayFeed: the order is checked once more, and the clock moved to the
\* time the event is visible at.
ReplayEvents(p) ==
    /\ bt[p].pc = "replay"
    /\ LET b == bt[p]
       IN IF b.at > Len(b.log) THEN Goes(p, "done")
          ELSE IF b.at > 1 /\ ~InOrder(b.log[b.at - 1], b.log[b.at]) THEN Fails(p, "causality")
          ELSE bt' = [bt EXCEPT ![p].at = @ + 1,
                                ![p].clock = IF b.log[b.at].ts + b.ask.latency > @
                                             THEN b.log[b.at].ts + b.ask.latency ELSE @]
    /\ Local(p)

Killed(p) ==
    /\ bt[p].pc \notin {"idle", "done", "failed"} /\ crashes < MaxCrashes
    /\ crashes' = crashes + 1
    /\ Fails(p, "killed")
    /\ files' = [k \in Keys |->
                   [data |-> Abandoned(files[k].data, p),
                    dataTmp |-> Abandoned(files[k].dataTmp, p),
                    man |-> Abandoned(files[k].man, p),
                    manTmp |-> Abandoned(files[k].manTmp, p)]]
    /\ UNCHANGED fetched

Step(p) ==
    \/ Begin(p) \/ NextDay(p) \/ load(p) \/ LoadData(p) \/ ReadLabel(p) \/ ingest(p)
    \/ OpenData(p) \/ CloseData(p) \/ RenameData(p)
    \/ OpenManifest(p) \/ CloseManifest(p) \/ RenameManifest(p) \/ KeepDay(p)
    \/ Merge(p) \/ prepare_backtest_event_log(p) \/ _verify_data_integrity(p) \/ ReplayEvents(p)

StoreNext == \E p \in Backtests : Step(p) \/ Killed(p)

StoreSpec == StoreInit /\ [][StoreNext]_storeVars

(***************************************************************************)
(* Properties.                                                             *)
(***************************************************************************)

\* Whatever processes crashed in the middle of a save, or saved the same day
\* at the same time, a day served from the cache is one complete answer of the
\* vendor, normalised under the current schema (DiskEventCache.save, load).
CacheServesWholeDays ==
    \A p \in Backtests : \A i \in DOMAIN bt[p].got :
        bt[p].got[i].tape \in fetched[bt[p].got[i].key]

\* Two backtests that read the same answers replay the same log, whatever the
\* order of their symbols and whichever days came from the cache
\* (event_merge_sort_key, resequence_event_list).
Answers(b) == {<<b.got[i].key, b.got[i].tape>> : i \in DOMAIN b.got}

LogsAgree ==
    \A p, q \in Backtests :
        (/\ bt[p].pc \in {"replay", "done"} /\ bt[q].pc \in {"replay", "done"}
         /\ Answers(bt[p]) = Answers(bt[q]) /\ bt[p].ask.rth = bt[q].ask.rth)
        => bt[p].log = bt[q].log

\* A backtest that requires healthy days replays only days normalised HEALTHY,
\* unless a concurrent save of the day replaced the manifest between its two
\* readings (_attach_disk_cache_health_rows, _verify_data_integrity).
OnlyHealthyReplayed ==
    \A p \in Backtests : (bt[p].pc \in {"replay", "done"} /\ bt[p].ask.healthy) =>
        \A i \in DOMAIN bt[p].got :
            LET day == bt[p].got[i]
            IN  day.raced \/ LabelOf(day.key, day.tape, bt[p].ask.gaps) = "HEALTHY"

(***************************************************************************)
(* The inductive invariant behind the first and the last of them.  The     *)
(* papers of a day are its four files and the manifests read by backtests  *)
(* that have not got the day yet.                                          *)
(***************************************************************************)
Saves     == {"openData", "closeData", "renameData", "openMan", "closeMan", "renameMan"}
Reads     == {"data", "label"}
AtADay    == {"load", "fetch", "keep"} \cup Reads \cup Saves
HasOpened == {"closeData", "renameData", "openMan", "closeMan", "renameMan", "keep", "failed"}
Phases    == {"idle", "day", "merge", "prepare", "boot", "replay", "done", "failed"} \cup AtADay

Labels == {"absent", "HEALTHY"} \cup
    UNION {{LabelOf(k, t, g) : t \in DOMAIN Tapes[k], g \in BOOLEAN} : k \in Keys}

FileRecords ==
    [by : Backtests \cup {"none", "mixed", "earlier"}, whole : BOOLEAN,
     open : SUBSET Backtests, tape : Nat, schema : {"none", "old", Schema}, label : Labels]

Directories ==
    [data : FileRecords, dataTmp : FileRecords, man : FileRecords, manTmp : FileRecords]

DayRecords ==
    [key : Keys, tape : Nat, source : {"cache", "api"}, label : Labels, raced : BOOLEAN]

BacktestTyped(b) ==
    b \in [pc : Phases, ask : Requests \cup {NoRequest}, todo : Seq(Keys),
           got : Seq(DayRecords), man : FileRecords, tape : Nat, log : {b.log},
           at : {b.at}, clock : {b.clock}, verdict : {b.verdict}]

BacktestOK(b) ==
    /\ BacktestTyped(b)
    /\ IsInjective(b.todo)
    /\ b.pc = "idle" => b = NotStarted
    /\ b.pc \in AtADay => b.todo # <<>>
    /\ b.pc \notin {"idle", "failed"} => b.ask \in Requests

StoreTypeOK ==
    /\ files \in [Keys -> Directories]
    /\ DOMAIN bt = Backtests /\ \A p \in Backtests : BacktestOK(bt[p])
    /\ DOMAIN fetched = Keys /\ \A k \in Keys : fetched[k] \subseteq DOMAIN Tapes[k]

\* A day p has still to save, if it saves it at all.
Unsaved(p, k) ==
    \/ bt[p].pc = "idle"
    \/ \E i \in DOMAIN bt[p].todo :
          bt[p].todo[i] = k /\ (i > 1 \/ bt[p].pc \notin HasOpened)

At(p, k, pcs) == bt[p].pc \in pcs /\ bt[p].todo # <<>> /\ Day(p) = k

Readers(k) == {p \in Backtests : At(p, k, Reads)}
Manifests(k) == {files[k].man, files[k].manTmp} \cup {bt[p].man : p \in Readers(k)}
Papers(k) == {files[k].data, files[k].dataTmp} \cup Manifests(k)

\* What a backtest has written of a day is one answer under this schema.
Honest(k, f) ==
    /\ f.whole => f.by \notin {"none", "mixed"}
    /\ f.by \in Backtests =>
          /\ f.schema = Schema /\ f.tape \in fetched[k]
          /\ ~Unsaved(f.by, k)
          /\ At(f.by, k, HasOpened) => f.tape = bt[f.by].tape
          /\ bt[f.by].ask \in Requests /\ bt[f.by].ask.cached

Labelled(k, m) == m.by \in Backtests => m.label = LabelOf(k, m.tape, bt[m.by].ask.gaps)

PapersOK ==
    \A k \in Keys :
       /\ \A f \in Papers(k) : Honest(k, f)
       /\ \A f, g \in Papers(k) : f.by = g.by /\ f.by \in Backtests => f.tape = g.tape
       /\ \A m \in Manifests(k) : Labelled(k, m)

\* What an earlier build left is not written again, and its label not vouched for.
EarlierOK ==
    \A k \in Keys :
       /\ files[k].dataTmp.by # "earlier" /\ files[k].manTmp.by # "earlier"
       /\ \A m \in Manifests(k) :
             (m.by = "earlier" /\ m.schema = Schema /\ files[k].data.by = "earlier") =>
                /\ files[k].data.tape \in fetched[k] /\ m.label = "absent"
       /\ \A m, n \in Manifests(k) :
             m.by = "earlier" /\ n.by = "earlier" => m.label = n.label

\* Where a backtest is with its day.
DayOK(b) ==
    /\ b.pc \in Saves => b.ask.cached
    /\ b.pc \in Saves \cup {"keep", "label"} => b.tape \in fetched[Head(b.todo)]
    /\ b.pc \in {"load"} \cup Reads => b.ask.cached \/ b.ask.offline
    /\ b.pc \in Reads => b.man.whole /\ b.man.schema = Schema
    /\ b.pc = "label" =>
          /\ b.man.by \in Backtests => b.man.tape = b.tape
          /\ b.man.by = "earlier" => b.man.label = "absent"

\* The backtests that use the cache check sequence gaps, or none of them does:
\* the label saved with a day does not say which.
GapsAgree ==
    \A r, s \in Requests :
       (r.cached \/ r.offline) /\ (s.cached \/ s.offline) => r.gaps = s.gaps

\* The label of a day it has got is that of the answer, but for the race.
LabelOK(b, g) ==
    GapsAgree /\ g.label = "HEALTHY" =>
       g.raced \/ LabelOf(g.key, g.tape, b.ask.gaps) = "HEALTHY"

GotOK(b) ==
    \A i \in DOMAIN b.got :
       /\ b.got[i].tape \in fetched[b.got[i].key]
       /\ LabelOK(b, b.got[i])

CheckedOK(b) ==
    b.pc \in {"replay", "done"} /\ b.ask.healthy =>
       \A i \in DOMAIN b.got : b.got[i].label = "HEALTHY"

BacktestsOK == \A p \in Backtests : DayOK(bt[p]) /\ GotOK(bt[p]) /\ CheckedOK(bt[p])

StoreIInv == StoreTypeOK /\ PapersOK /\ EarlierOK /\ BacktestsOK

\* What is replayed is a whole healthy day in one order, whichever backtest
\* fetched it and whoever died in between (disk_event_cache.py,
\* event_resequence.py, cache_replay.py).
ReplayFaithful == CacheServesWholeDays /\ LogsAgree /\ OnlyHealthyReplayed
=============================================================================
