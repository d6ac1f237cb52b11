---------------------------- MODULE MCIBSession ----------------------------
(***************************************************************************)
(* IBSession with two platform orders, which are interchangeable, twice:   *)
(* a regular installation, whose only faults are crashes and torn journal  *)
(* lines, and (Rough) one whose connection drops, whose gateway sends      *)
(* codes that only inform and may start its ids anew.  A behaviour         *)
(* explores one of them.                                                   *)
(***************************************************************************)
EXTENDS IBSession, TLC

CONSTANTS o1, o2, RoughSituations, RoughRuns

MCOrders == {o1, o2}
Symmetry == Permutations(MCOrders)

VARIABLES
    installation,
    rOnDisk, rIdOnDisk, rTorn, rRun, rConn, rJournal, rIdJournal, rMain, rSubmitted, rMeta,
    rNextId, rSubmitQ, rFillQ, rPlaced, rRefused, rGwNext

roughVars == <<rOnDisk, rIdOnDisk, rTorn, rRun, rConn, rJournal, rIdJournal, rMain, rSubmitted,
               rMeta, rNextId, rSubmitQ, rFillQ, rPlaced, rRefused, rGwNext>>

Rough == INSTANCE IBSession WITH
    Situations <- RoughSituations, MaxRuns <- RoughRuns,
    onDisk <- rOnDisk, idOnDisk <- rIdOnDisk, torn <- rTorn, run <- rRun, conn <- rConn,
    journal <- rJournal, idJournal <- rIdJournal, main <- rMain, submitted <- rSubmitted,
    meta <- rMeta, nextId <- rNextId, submitQ <- rSubmitQ, fillQ <- rFillQ,
    placed <- rPlaced, refused <- rRefused, gwNext <- rGwNext

MCInit == installation \in {"regular", "rough"} /\ Init /\ Rough!Init

MCNext ==
    /\ UNCHANGED installation
    /\ \/ installation = "regular" /\ Next /\ UNCHANGED roughVars
       \/ installation = "rough" /\ Rough!Next /\ UNCHANGED vars

MCSpec == MCInit /\ [][MCNext]_<<installation, vars, roughVars>>

(***************************************************************************)
(* Whatever the connection does and the gateway says, nothing is queued    *)
(* for the gateway or sent to it without a durable record of the attempt   *)
(* (storage/submitted_order_journal.py, JournaledOrderRouter.submit).      *)
(***************************************************************************)
RoughNothingSentUnrecorded == Rough!NothingSentUnrecorded
=============================================================================
