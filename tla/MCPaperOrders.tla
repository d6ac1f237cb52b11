---------------------------- MODULE MCPaperOrders ----------------------------
\* Instances of PaperOrders for TLC: two orders.  Three shares let a partial
\* fill be overtaken by a later one; two are enough for the other races.
EXTENDS PaperOrders, TLC

CONSTANTS o1, o2

MCOrders == {o1, o2}
ThreeAndOne == (o1 :> 3) @@ (o2 :> 1)
TwoAndOne == (o1 :> 2) @@ (o2 :> 1)

\* Routing, applying and booking touch variables that no other thread reads
\* or writes, and a further submission only adds to queues: steps of the other
\* threads commute with these and are taken while the main thread is idle,
\* polling or stopped.
MCNext ==
    \/ MainThread
    \/ /\ phase \in {"idle", "poll", "stopped"}
       /\ \E o \in Orders : Writer(o) \/ Gateway(o)

\* What distinguishes two states of paper_faulty: the final state of an order
\* no longer tracked, a callback that is dropped however late it is polled, the
\* cancel of an order already placed and, when late callbacks and unreported
\* shares are allowed anyway, what was reported are read by no guard.
MCView ==
    <<[o \in Orders |-> IF o \in active \/ o \notin submitted THEN ost[o] ELSE "CREATED"],
      active, unpruned \cap active, booked, settleVars, routerVars,
      submitQ, cancelQ \cap submitQ,
      [i \in DOMAIN fillQ |-> IF Dropped(fillQ[i]) THEN <<>> ELSE <<fillQ[i]>>],
      gw, executed, IF {"stale", "cancelFill"} \subseteq Situations THEN {} ELSE reported>>

MCSpec == Init /\ [][MCNext]_vars
MCFairSpec == MCSpec /\ Fairness
=============================================================================
