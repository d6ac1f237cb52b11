------------------------------- MODULE MCBook -------------------------------
(***************************************************************************)
(* Small sessions for TLC: two strategies and a portfolio that may each    *)
(* hold two shares, a platform limit of three.  A desk is the set of       *)
(* handlers of one session: each brings together participants that meet on *)
(* the same event.                                                         *)
(***************************************************************************)
EXTENDS Book

MCBudget == [s \in {"A", "B", "P"} |-> [position |-> 2, exposure |-> 3]]

MCSortedIds == <<"A", "B", "P", "__working_exit_fallback__", "degrade_flatten",
                 "emergency_flatten">>

\* Nothing stands in the way; equity has fallen by a third, the regime has
\* halved the limit and the edge no longer pays an entry.
MCCalm == [equity |-> 10, peak |-> 10, scale |-> 100, multiplier |-> 4, pdt |-> FALSE,
           closed |-> FALSE, drawnDown |-> {}, blackout |-> FALSE, flattenWindow |-> FALSE,
           ssr |-> FALSE, noLocate |-> FALSE, edge |-> TRUE, churn |-> FALSE]
MCTight == [MCCalm EXCEPT !.equity = 6, !.scale = 50, !.drawnDown = {"A"}, !.edge = FALSE]

MCEnvs == {MCCalm, MCTight}

MCDesks == {{"stop", "signal", "degrade", "A"},
            {"cap", "safety", "signal", "A", "B"},
            {"spike", "age", "portfolio", "signal", "A"},
            {"cap", "safety", "signal", "revoke", "A"}}
=============================================================================
