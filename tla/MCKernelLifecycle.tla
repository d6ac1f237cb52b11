------------------------- MODULE MCKernelLifecycle -------------------------
(***************************************************************************)
(* Three kinds of day for one kernel.  A calm day is what Situations and   *)
(* EdgeGate say: the latency kills and escalations of a paper session.  A  *)
(* rough day has every exception, kill and halt race of a running session, *)
(* with the priced edge gate off; an early day also calls halt() before    *)
(* the session runs.                                                       *)
(***************************************************************************)
EXTENDS KernelLifecycle

CONSTANTS Days, RoughSituations

VARIABLE day

Rough == INSTANCE KernelLifecycle WITH Situations <- RoughSituations, EdgeGate <- FALSE
Early == INSTANCE KernelLifecycle WITH
             Situations <- {"fault", "halt", "earlyHalt"}, EdgeGate <- FALSE

MCInit == day \in Days /\ Init

MCNext ==
    /\ UNCHANGED day
    /\ \/ day = "calm" /\ Next
       \/ day = "rough" /\ Rough!Next
       \/ day = "early" /\ Early!Next

\* The main thread runs on, and a timer that called halt() gets through it.
MCSpec ==
    /\ MCInit /\ [][MCNext]_<<day, vars>>
    /\ WF_vars(day = "rough" /\ Rough!Main) /\ WF_vars(day = "rough" /\ Rough!Halt)

(***************************************************************************)
(* On a calm day a locked kernel can be unlocked, no fill is dropped       *)
(* between its order and its position, and nothing opens exposure once the *)
(* kill switch is active (Orchestrator, _settle_router_acks,               *)
(* unlock_from_lockdown, _process_tick_inner).                             *)
(***************************************************************************)
CalmDayKeepsItsBook == day = "calm" => LockedCanBeUnlocked /\ NoFillDropped
CalmDayOpensSafely ==
    [][(day = "calm" /\ "open" \in live' \ live) => (~kill /\ macro = Mode)]_<<day, vars>>

(***************************************************************************)
(* A rough session makes progress: every quote's walk ends, through all    *)
(* flush, settle and escalation loops, and halt() ends the session         *)
(* (Orchestrator.process_tick, run_live, halt).                            *)
(***************************************************************************)
SessionProgress == (day = "rough") => (TickEnds /\ HaltEndsSession)
=============================================================================
