------------------------- MODULE MCSimulatedRouter -------------------------
(***************************************************************************)
(* SimulatedRouter for TLC.  The model is symmetric in the two sides, so   *)
(* the first order may as well be a BUY.                                   *)
(***************************************************************************)
EXTENDS SimulatedRouter

CONSTANTS o1, o2

MCQuantity == [o \in Orders |-> IF o = o1 THEN 2 ELSE 1]

MCRequests == [o \in Orders |-> IF o = o1 THEN {"BUY"} \X {"market", "limit"}
                                ELSE Sides \X {"limit", "moc"}]

MCSizes == [Sides -> {0}] \cup [Sides -> {1}]
=============================================================================
