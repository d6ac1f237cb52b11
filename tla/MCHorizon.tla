------------------------------ MODULE MCHorizon ------------------------------
(* Two symbols, a standalone alpha and one that feeds a PORTFOLIO alpha on a *)
(* longer horizon.                                                           *)
EXTENDS Horizon, TLC

CONSTANTS s1, s2, a1, a2

MCSymbols == {s1, s2}
MCAlphas == {a1, a2}
MCAlphaHorizon == a1 :> 2 @@ a2 :> 2

Symmetry == Permutations(MCSymbols)
=============================================================================
