--------------------------- MODULE RouterContract ---------------------------
(***************************************************************************)
(* What the kernel may rely on from any OrderRouter                        *)
(* (execution/backend.py), whatever market or broker is behind it, for its *)
(* acks to fit the life of an order (core/order_state.py): an order that   *)
(* was submitted is refused, or works and is filled by shares that never   *)
(* go back and never exceed its quantity; FILLED means complete and        *)
(* nothing is said of an order once it is filled or over.                  *)
(*                                                                         *)
(* One call of the router may answer several orders, and may take one      *)
(* order through several answers, so a step moves every order at most once *)
(* along the transitive closure of its life.                               *)
(***************************************************************************)
EXTENDS Naturals

CONSTANTS Orders, Quantity

VARIABLES phase, shares

cvars == <<phase, shares>>

Phases == {"new", "working", "filled", "over"}

Init ==
    /\ phase = [o \in Orders |-> "new"]
    /\ shares = [o \in Orders |-> 0]

Work(o) ==
    /\ phase[o] \in {"new", "working"}
    /\ phase'[o] = "working"
    /\ shares[o] <= shares'[o]
    /\ shares'[o] < Quantity[o]

Complete(o) ==
    /\ phase[o] \in {"new", "working"}
    /\ phase'[o] = "filled"
    /\ shares'[o] = Quantity[o]

\* Refused, cancelled or expired: what had been filled stays filled.
End(o) ==
    /\ phase[o] \in {"new", "working"}
    /\ phase'[o] = "over"
    /\ shares'[o] = shares[o]

Rest(o) == phase'[o] = phase[o] /\ shares'[o] = shares[o]

Next == \A o \in Orders : Work(o) \/ Complete(o) \/ End(o) \/ Rest(o)

Spec == Init /\ [][Next]_cvars
=============================================================================
