----------------------------- MODULE Positions -----------------------------
(***************************************************************************)
(* The arithmetic of the books a fill is entered in: a position with the   *)
(* time its open episode started, and the split of one fill over the       *)
(* strategies that hold the symbol.  Quantities are signed; prices, fees   *)
(* and profit are left out.                                                *)
(***************************************************************************)
EXTENDS Planner, SequencesExt

\* No time: the position is flat, or nothing has happened yet.
Never == -1
Flat == [qty |-> 0, opened |-> Never]

\* An episode starts when a flat position opens and when a fill takes it
\* through zero; it ends when the position is flat again.
UpdatePosition(p, delta, at) ==
    LET qty == p.qty + delta
    IN  [qty |-> qty,
         opened |-> IF qty = 0 THEN Never
                    ELSE IF Sign(p.qty) # Sign(qty) THEN at ELSE p.opened]

SumOf(seq) == FoldLeft(+, 0, seq)

(***************************************************************************)
(* Shares of a whole in proportion to weights: round each down, then hand  *)
(* the units left over to the largest remainders, the earlier one first.   *)
(***************************************************************************)
\* Nobody gets the units left over.
RoundedDownSplit(total, weights) ==
    [i \in DOMAIN weights |-> (total * weights[i]) \div SumOf(weights)]

\* Where nobody weighs anything the shares are even.
EvenSplit(total, weights) ==
    LET n == Len(weights)
    IN  [i \in DOMAIN weights |-> total \div n + IF i <= total % n THEN 1 ELSE 0]

RemainderSplit(total, weights) ==
    LET whole == SumOf(weights)
        Down(i) == (total * weights[i]) \div whole
        Rest(i) == (total * weights[i]) % whole
        deficit == total - SumOf([i \in DOMAIN weights |-> Down(i)])
        Ahead(i) == {j \in DOMAIN weights :
                        \/ Rest(j) > Rest(i)
                        \/ Rest(j) = Rest(i) /\ j < i}
    IN  [i \in DOMAIN weights |->
            Down(i) + IF Cardinality(Ahead(i)) < deficit THEN 1 ELSE 0]

LargestRemainderSplit(total, weights) ==
    IF SumOf(weights) = 0 THEN EvenSplit(total, weights) ELSE RemainderSplit(total, weights)

(***************************************************************************)
(* The split of a symbol-net fill: over the slices it closes, or else over *)
(* all that hold the symbol.  A slice that takes no part weighs nothing,   *)
(* and what weighs nothing is given nothing, not even a unit left over.    *)
(* `order` is the order the strategy ids sort in.                          *)
(***************************************************************************)
FillWeights(slices, order, signed) ==
    LET Closes(i) == slices[order[i]].qty * signed < 0
    IN  [i \in DOMAIN order |->
            IF Closes(i) \/ ~\E j \in DOMAIN order : Closes(j) THEN Abs(slices[order[i]].qty)
            ELSE 0]

FillShares(slices, order, signed) ==
    LET weights == FillWeights(slices, order, signed)
    IN  IF \A i \in DOMAIN order : weights[i] = 0 THEN weights
        ELSE LargestRemainderSplit(Abs(signed), weights)

DistributeFill(slices, order, signed, at) ==
    LET shares == FillShares(slices, order, signed)
        Share(s) == Sign(signed) * shares[CHOOSE i \in DOMAIN order : order[i] = s]
    IN  [s \in DOMAIN slices |->
            IF Share(s) = 0 THEN slices[s] ELSE UpdatePosition(slices[s], Share(s), at)]
=============================================================================
