----------------------------- MODULE IBSession -----------------------------
(***************************************************************************)
(* Order identity across crashes, restarts and reconnects: the durable     *)
(* submitted-order journal (storage/submitted_order_journal.py), the id    *)
(* allocation and the queues of broker/ib/connection.py and the duplicate  *)
(* guard of broker/ib/router.py, against an external gateway that outlives *)
(* the process.  Fills and quantities are PaperOrders' subject.            *)
(*                                                                         *)
(* The journal file is represented by what _replay would recover from it   *)
(* (onDisk, idOnDisk: the last record of an order wins, ids take the       *)
(* maximum) and by whether it ends in a line without its newline (torn):   *)
(* the next record written is glued to that line, and _parse_line throws   *)
(* both away.                                                              *)
(***************************************************************************)
EXTENDS Integers

CONSTANTS
    Orders,      \* platform order ids; a restarted kernel may derive one again
    Idle,        \* no order: what main holds between two calls
    Situations,  \* which of AllSituations can occur
    MaxRuns      \* bound on the number of process starts

(***************************************************************************)
(* "torn"       the process dies while it writes a journal record          *)
(* "reconnect"  disconnect_and_stop and connect_and_start in one process   *)
(* "warning"    the gateway sends an order-scoped error code that leaves   *)
(*              the order working                                          *)
(* "resubmit"   the kernel submits an order id twice in one process        *)
(* "reset"      the gateway's id sequence is reset between two processes   *)
(***************************************************************************)
AllSituations == {"torn", "reconnect", "warning", "resubmit", "reset"}

ASSUME IdleAssumption == Idle \notin Orders
ASSUME SessionSituationsAssumption == Situations \subseteq AllSituations
ASSUME MaxRunsAssumption == MaxRuns \in Nat

VARIABLES
    \* disk
    onDisk,     \* onDisk[o]: the SubmissionJournalState a replay recovers
    idOnDisk,   \* the ib_next_valid_id a replay recovers, 0 for None
    torn,       \* the file ends in a line without its newline
    \* process memory
    run,        \* number of this process start, 0 before the first
    conn,       \* see Connections
    journal,    \* _states of the journal
    idJournal,  \* its _ib_next_valid_id
    main,       \* the order main has journaled and not yet submitted, or Idle
    submitted,  \* the router's _submitted_order_ids
    meta,       \* the router's _meta, as a set of entries
    nextId,     \* _next_valid_id, 0 for None
    submitQ,    \* _submit_queue, as a set of entries
    fillQ,      \* ids in _fill_queue whose callback will end as REJECTED
    \* gateway (external)
    placed,     \* entries placeOrder has sent, in any process
    refused,    \* those that never worked: refused by the gateway
    gwNext      \* the nextValidId it sends

diskVars == <<onDisk, idOnDisk, torn>>
memVars  == <<journal, idJournal, submitted, meta, nextId, submitQ, fillQ>>
gwVars   == <<placed, refused, gwNext>>
vars     == <<diskVars, run, conn, main, memVars, gwVars>>

\* "off": no process; "new": not connected yet; "wait": connect_and_start waits
\* for nextValidId; "ready": it has returned; "closed": disconnected.
Connections == {"off", "new", "wait", "ready", "closed"}
Connected   == conn \in {"wait", "ready"}

JournalStates == {"ABSENT", "UNKNOWN", "REJECTED"}

\* An IB order id in use: the platform order it stands for, and the process
\* that allocated it (a history field).
Entries == [id: Nat \ {0}, order: Orders, run: Nat]

MaxOf(a, b) == IF a >= b THEN a ELSE b

Init ==
    /\ onDisk = [o \in Orders |-> "ABSENT"]
    /\ idOnDisk = 0
    /\ torn = FALSE
    /\ run = 0
    /\ conn = "off"
    /\ main = Idle
    /\ journal = [o \in Orders |-> "ABSENT"]
    /\ idJournal = 0
    /\ submitted = {}
    /\ meta = {}
    /\ nextId = 0
    /\ submitQ = {}
    /\ fillQ = {}
    /\ placed = {}
    /\ refused = {}
    /\ gwNext = 1

(***************************************************************************)
(* Journal records.  _append writes one line and fsyncs it; on a torn file *)
(* the record is lost to the next replay, and the file is whole again.     *)
(***************************************************************************)
AppendOutcome(o, state) ==
    /\ onDisk' = IF torn THEN onDisk ELSE [onDisk EXCEPT ![o] = state]
    /\ torn' = FALSE
    /\ journal' = [journal EXCEPT ![o] = state]
    /\ UNCHANGED <<idOnDisk, idJournal>>

\* record_ib_next_valid_id
AppendNextId(v) ==
    /\ idOnDisk' = IF torn THEN idOnDisk ELSE MaxOf(idOnDisk, v)
    /\ torn' = FALSE
    /\ idJournal' = MaxOf(idJournal, v)
    /\ UNCHANGED <<onDisk, journal>>

(***************************************************************************)
(* The process                                                             *)
(***************************************************************************)
\* bootstrap: a new router and connection, the journal replayed and bound.
\* bind_submitted_order_journal writes a recovered id back.
Start ==
    /\ conn = "off"
    /\ run < MaxRuns
    /\ run' = run + 1
    /\ conn' = "new"
    /\ journal' = onDisk
    /\ idJournal' = idOnDisk
    /\ nextId' = idOnDisk
    /\ torn' = (torn /\ idOnDisk = 0)
    /\ UNCHANGED <<onDisk, idOnDisk, main, submitted, meta, submitQ, fillQ, gwVars>>

\* What a process takes with it when it ends.
Dies ==
    /\ conn # "off"
    /\ conn' = "off"
    /\ main' = Idle
    /\ journal' = [o \in Orders |-> "ABSENT"]
    /\ idJournal' = 0
    /\ nextId' = 0
    /\ submitted' = {} /\ meta' = {} /\ submitQ' = {} /\ fillQ' = {}
    /\ gwNext' \in IF "reset" \in Situations THEN {1, gwNext} ELSE {gwNext}
    /\ UNCHANGED <<onDisk, idOnDisk, run, placed, refused>>

Crash == Dies /\ UNCHANGED torn

\* ... while _append writes: part of the line is on the disk.
CrashAppending ==
    /\ "torn" \in Situations
    /\ conn = "new" => idOnDisk # 0
    /\ Dies
    /\ torn' = TRUE

(***************************************************************************)
(* Connection, main thread                                                 *)
(***************************************************************************)
\* connect_and_start up to its wait.  The paper script connects once.
Connect ==
    /\ conn = "new" \/ (conn = "closed" /\ "reconnect" \in Situations)
    /\ main = Idle
    /\ conn' = "wait"
    /\ nextId' = 0
    /\ UNCHANGED <<diskVars, run, main, journal, idJournal, submitted, meta,
                   submitQ, fillQ, gwVars>>

\* disconnect_and_stop, when the session is over or the handshake fails.  The
\* queues keep what the writer has not taken.
Disconnect ==
    /\ Connected
    /\ main = Idle
    /\ conn' = "closed"
    /\ nextId' = 0
    /\ UNCHANGED <<diskVars, run, main, journal, idJournal, submitted, meta,
                   submitQ, fillQ, gwVars>>

\* Mutant: the message is not journaled.
NextValidIdUnjournaled ==
    /\ Connected
    /\ nextId' = MaxOf(nextId, MaxOf(gwNext, idJournal))
    /\ conn' = "ready"
    /\ UNCHANGED <<diskVars, journal, idJournal, run, main, submitted, meta, submitQ,
                   fillQ, gwVars>>

\* Mutant: the counter follows the gateway.
NextValidIdRegresses ==
    /\ Connected
    /\ nextId' = gwNext
    /\ AppendNextId(nextId')
    /\ conn' = "ready"
    /\ UNCHANGED <<run, main, submitted, meta, submitQ, fillQ, gwVars>>

\* nextValidId, on the message thread: the handshake, or sent again later.
NextValidId ==
    /\ Connected
    /\ nextId' = MaxOf(nextId, MaxOf(gwNext, idJournal))
    /\ AppendNextId(nextId')
    /\ conn' = "ready"
    /\ UNCHANGED <<run, main, submitted, meta, submitQ, fillQ, gwVars>>

(***************************************************************************)
(* Orders, main thread.  The kernel submits only in a session, after       *)
(* connect_and_start has returned; with "reconnect" also in between.       *)
(***************************************************************************)
InSession == conn = "ready" \/ (conn = "closed" /\ "reconnect" \in Situations)

\* Mutant: the order is submitted first and journaled when it is accepted.
JournalAttemptLater(o) ==
    /\ InSession
    /\ main = Idle
    /\ o \in submitted => "resubmit" \in Situations
    /\ journal[o] # "UNKNOWN"
    /\ main' = o
    /\ UNCHANGED <<diskVars, run, conn, memVars, gwVars>>

\* The submit wrapper of install_on: an order whose fate is unknown is refused,
\* any other attempt is on the disk before the router sees it.
JournalAttempt(o) ==
    /\ InSession
    /\ main = Idle
    /\ o \in submitted => "resubmit" \in Situations
    /\ journal[o] # "UNKNOWN"
    /\ AppendOutcome(o, "UNKNOWN")
    /\ main' = o
    /\ UNCHANGED <<run, conn, submitted, meta, nextId, submitQ, fillQ, gwVars>>

\* IBOrderRouter.submit: a duplicate only gets a REJECTED ack, which the poll
\* wrapper does not journal; without a valid id submit raises; otherwise the
\* order is registered and left to the writer.
RouterSubmit ==
    /\ main # Idle
    /\ main' = Idle
    /\ submitted' = submitted \cup {main}
    /\ IF main \in submitted \/ nextId = 0
       THEN UNCHANGED <<meta, nextId, submitQ>>
       ELSE LET e == [id |-> nextId, order |-> main, run |-> run]
            IN  /\ meta' = {m \in meta : m.id # nextId} \cup {e}
                /\ submitQ' = submitQ \cup {e}
                /\ nextId' = nextId + 1
    /\ UNCHANGED <<diskVars, run, conn, journal, idJournal, fillQ, gwVars>>

\* Mutant: the id of the callback is not looked up.
PollRejectAny(id, o) ==
    /\ main = Idle /\ InSession
    /\ id \in fillQ
    /\ fillQ' = fillQ \ {id}
    /\ \E e \in meta : e.order = o
    /\ AppendOutcome(o, "REJECTED")
    /\ meta' = {m \in meta : m.id # id}
    /\ UNCHANGED <<run, conn, main, submitted, nextId, submitQ, gwVars>>

\* poll_acks: the callback becomes a REJECTED ack, the router forgets the
\* order and the wrapper journals the outcome; unknown ids are dropped.
PollReject(id, o) ==
    /\ main = Idle /\ InSession
    /\ id \in fillQ
    /\ fillQ' = fillQ \ {id}
    /\ \E e \in meta : e.id = id /\ e.order = o
    /\ AppendOutcome(o, "REJECTED")
    /\ meta' = {m \in meta : m.id # id}
    /\ UNCHANGED <<run, conn, main, submitted, nextId, submitQ, gwVars>>

PollUnknown(id) ==
    /\ main = Idle /\ InSession
    /\ id \in fillQ
    /\ \A e \in meta : e.id # id
    /\ fillQ' = fillQ \ {id}
    /\ UNCHANGED <<diskVars, run, conn, main, journal, idJournal, submitted, meta,
                   nextId, submitQ, gwVars>>

(***************************************************************************)
(* ib-writer, ib-msg and the gateway                                       *)
(***************************************************************************)
\* _writer_place_order.  The writer runs from connect_and_start on.  The id
\* sequence of the gateway moves past every id it has seen.
WriterPlaceOrder(e) ==
    /\ Connected
    /\ e \in submitQ
    /\ submitQ' = submitQ \ {e}
    /\ placed' = placed \cup {e}
    /\ gwNext' = MaxOf(gwNext, e.id + 1)
    /\ UNCHANGED <<diskVars, run, conn, main, journal, idJournal, submitted, meta,
                   nextId, fillQ, refused>>

\* placeOrder raises, and the order never leaves: the writer's error callback.
WriterPlaceOrderFails(e) ==
    /\ Connected
    /\ e \in submitQ
    /\ submitQ' = submitQ \ {e}
    /\ fillQ' = fillQ \cup {e.id}
    /\ UNCHANGED <<diskVars, run, conn, main, journal, idJournal, submitted, meta,
                   nextId, gwVars>>

\* The gateway refuses an order; the callback is lost without a connection.
GatewayRefuse(e) ==
    /\ e \in placed \ refused
    /\ refused' = refused \cup {e}
    /\ fillQ' = IF Connected THEN fillQ \cup {e.id} ELSE fillQ
    /\ UNCHANGED <<diskVars, run, conn, main, journal, idJournal, submitted, meta,
                   nextId, submitQ, placed, gwNext>>

\* A code that leaves the order working: the router takes it for a reject.
GatewayWarning(e) ==
    /\ "warning" \in Situations
    /\ Connected
    /\ e \in placed \ refused
    /\ fillQ' = fillQ \cup {e.id}
    /\ UNCHANGED <<diskVars, run, conn, main, journal, idJournal, submitted, meta,
                   nextId, submitQ, gwVars>>

Main ==
    \/ Connect \/ Disconnect \/ RouterSubmit
    \/ \E o \in Orders : JournalAttempt(o)
    \/ \E id \in fillQ : PollUnknown(id) \/ \E o \in Orders : PollReject(id, o)

Next ==
    \/ Start \/ Crash \/ CrashAppending \/ Main
    \/ NextValidId
    \/ \E e \in submitQ : WriterPlaceOrder(e) \/ WriterPlaceOrderFails(e)
    \/ \E e \in placed : GatewayRefuse(e) \/ GatewayWarning(e)

Spec == Init /\ [][Next]_vars

(***************************************************************************)
(* Properties                                                              *)
(***************************************************************************)
\* Entries that are, or will be, at work at the gateway.
Alive == submitQ \cup (placed \ refused)

\* Entries somebody still knows by their id.
Known == placed \cup submitQ \cup meta

\* Type correctness of disk, process memory and gateway.
TypeOK ==
    /\ onDisk \in [Orders -> JournalStates]
    /\ idOnDisk \in Nat
    /\ torn \in BOOLEAN
    /\ run \in Nat
    /\ conn \in Connections
    /\ main \in Orders \cup {Idle}
    /\ journal \in [Orders -> JournalStates]
    /\ idJournal \in Nat
    /\ submitted \subseteq Orders
    /\ meta \subseteq Entries
    /\ nextId \in Nat
    /\ submitQ \subseteq Entries
    /\ fillQ \subseteq Nat
    /\ placed \subseteq Entries
    /\ refused \subseteq placed
    /\ gwNext \in Nat \ {0}

\* A platform order is at work at most once, through every crash, restart and
\* torn journal line: an order that may have reached the wire is not sent
\* again (record_attempt before submit, must_refuse).
NeverPlacedTwice == \A p, q \in Alive : p.order = q.order => p = q

\* Write before wire: whatever a crash leaves of the journal, its replay
\* answers UNKNOWN for every order that may be at work (the module's header).
WriteBeforeWire == \A e \in Alive : onDisk[e.order] = "UNKNOWN"

\* No order reaches the writer or the gateway without a record that survives
\* any crash, however often the connection is reopened, codes are misread and
\* ids start over (install_on's submit wrapper, fsync-per-record).
NothingSentUnrecorded ==
    \A e \in submitQ \cup placed : onDisk[e.order] # "ABSENT"

\* An IB id names one order for as long as the writer, the router or the
\* gateway knows it (nextValidId: in-flight ids are not reused).
IdsNeverReused == \A p, q \in Known : p.id = q.id => p = q

(***************************************************************************)
(* The inductive invariant behind the first three.                         *)
(***************************************************************************)
\* A running process knows what the disk knows of the orders at work.
Remembered == conn # "off" => \A e \in Alive : journal[e.order] = "UNKNOWN"

\* No order the router knows is at work under another id, and an order is
\* either queued or sent.
Owned ==
    /\ \A m \in meta, e \in Alive : m.order = e.order => m = e
    /\ \A e \in meta \cup submitQ : e.order \in submitted
    /\ submitQ \cap placed = {}

\* An id with a reject on its way is not one of an order at work.
NotAnswered == \A id \in fillQ, e \in Alive : e.id # id

\* The ids in use lie below the counters; and a session never runs on a torn
\* file, because the handshake's record is written first and takes the damage.
Counters ==
    /\ \A e \in placed : e.id < gwNext
    /\ conn = "ready" => /\ nextId # 0
                         /\ ~torn
                         /\ \A e \in Known : e.id < nextId
                         /\ \A id \in fillQ : id < nextId

\* Outside a session the main thread holds no order, and before it the router
\* and the queues are empty.
Outside ==
    /\ conn # "ready" => main = Idle
    /\ conn \in {"off", "new", "wait"} =>
           /\ meta = {} /\ submitQ = {} /\ submitted = {}
           /\ \A id \in fillQ : id < gwNext

\* The order between its journal record and its submission.
Underway ==
    main # Idle =>
        /\ onDisk[main] = "UNKNOWN" /\ journal[main] = "UNKNOWN"
        /\ main \notin submitted => \A e \in Alive : e.order # main

\* The journal, the router and the gateway agree on every order at work, and the
\* id counters lie above every id in use: kept by every step, crashes included.
IInv ==
    /\ TypeOK /\ NeverPlacedTwice /\ WriteBeforeWire /\ IdsNeverReused
    /\ Remembered /\ Owned /\ NotAnswered /\ Counters /\ Outside /\ Underway
=============================================================================
