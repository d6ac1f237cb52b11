----------------------------- MODULE BookProofs -----------------------------
(***************************************************************************)
(* Proofs about Book, for every list of strategies, budget, session and    *)
(* desk: what the strategies hold adds up to what the symbol holds.  The   *)
(* sums and splits are those of AccountsProofs.  The first part says what  *)
(* every operation of the order path leaves of a book (Sound): an order    *)
(* that may be booked at a later time names the slice it is for, and a     *)
(* fill split over the slices is booked while it is sent, when some slice  *)
(* still holds the symbol.  The second goes through the controllers, the   *)
(* portfolio and the signals, which only submit through those operations.  *)
(***************************************************************************)
EXTENDS Book, AccountsProofs, FiniteSetTheorems, TLAPS

(***************************************************************************)
(* A fill shared over the slices.                                          *)
(***************************************************************************)
Position == [qty : Int, opened : Int]
Slices == [Ids -> Position]

HeldBy(stores) == [i \in DOMAIN SortedIds |-> stores[SortedIds[i]].qty]

\* The ids a slice may have are listed once each.
IdsListed == /\ SortedIds \in Seq(Ids)
             /\ \A i, j \in DOMAIN SortedIds : SortedIds[i] = SortedIds[j] => i = j

\* What the slices hold, in the order their ids sort, is a list of numbers.
LEMMA HeldType ==
    ASSUME IdsListed, NEW stores \in Slices
    PROVE  /\ DOMAIN SortedIds = 1 .. Len(SortedIds) /\ Len(SortedIds) \in Nat
           /\ HeldBy(stores) \in [1 .. Len(SortedIds) -> Int]
           /\ \A i \in 1 .. Len(SortedIds) :
                 SortedIds[i] \in Ids /\ HeldBy(stores)[i] = stores[SortedIds[i]].qty
           /\ \A s \in Ids : \E i \in 1 .. Len(SortedIds) : SortedIds[i] = s
  <1>1. DOMAIN SortedIds = 1 .. Len(SortedIds) /\ Len(SortedIds) \in Nat
    BY DEF IdsListed
  <1>2. \A i \in 1 .. Len(SortedIds) : SortedIds[i] \in Ids
    BY DEF IdsListed
  <1>3. \A s \in Ids : \E i \in 1 .. Len(SortedIds) : SortedIds[i] = s
    BY <1>1 DEF Ids, Range
  <1>4. \A i \in 1 .. Len(SortedIds) : HeldBy(stores)[i] = stores[SortedIds[i]].qty
    BY <1>1 DEF HeldBy
  <1>5. \A s \in Ids : stores[s].qty \in Int
    BY DEF Slices, Position
  <1>6. HeldBy(stores) \in [1 .. Len(SortedIds) -> Int]
    BY <1>1, <1>2, <1>5 DEF HeldBy
  <1>. QED BY <1>1, <1>2, <1>3, <1>4, <1>6

\* A slice that takes a fill of its own moves the total by it.
LEMMA OneSliceMoves ==
    ASSUME IdsListed, NEW stores \in Slices, NEW after \in Slices, NEW s \in Ids, NEW d \in Int,
           after[s].qty = stores[s].qty + d, \A u \in Ids \ {s} : after[u] = stores[u]
    PROVE  SumOf(HeldBy(after)) = SumOf(HeldBy(stores)) + d
  <1>1. PICK j \in 1 .. Len(SortedIds) : SortedIds[j] = s
    BY HeldType
  <1>2. \A i \in 1 .. Len(SortedIds) : i # j => HeldBy(after)[i] = HeldBy(stores)[i]
    <2>. SUFFICES ASSUME NEW i \in 1 .. Len(SortedIds), i # j
                  PROVE  HeldBy(after)[i] = HeldBy(stores)[i]
      OBVIOUS
    <2>1. SortedIds[i] \in Ids \ {s}
      BY <1>1, HeldType DEF IdsListed
    <2>. QED BY <2>1, HeldType
  <1>3. HeldBy(after)[j] = HeldBy(stores)[j] + d
    BY <1>1, HeldType
  <1>4. /\ HeldBy(stores) \in [1 .. Len(SortedIds) -> Int]
        /\ HeldBy(after) \in [1 .. Len(SortedIds) -> Int] /\ Len(SortedIds) \in Nat
    BY HeldType
  <1>5. SumOf(HeldBy(after)) = SumOf(HeldBy(stores)) + (HeldBy(after)[j] - HeldBy(stores)[j])
    BY <1>2, <1>4, SumMoves
  <1>6. HeldBy(after)[j] - HeldBy(stores)[j] = d
    BY <1>3, <1>4
  <1>. QED BY <1>5, <1>6

\* Some slice of the symbol is open.
Held(stores) == \E s \in Ids : stores[s].qty # 0

\* A symbol that is not flat is held by some slice.
LEMMA NetIsHeld ==
    ASSUME IdsListed, NEW stores \in Slices, SumOf(HeldBy(stores)) # 0
    PROVE  Held(stores)
  <1>1. SUFFICES ASSUME ~Held(stores) PROVE SumOf(HeldBy(stores)) = 0
    OBVIOUS
  <1>2. \A i \in 1 .. Len(SortedIds) : HeldBy(stores)[i] = 0
    BY <1>1, HeldType DEF Held
  <1>. DEFINE t == [k \in 0 .. Len(SortedIds) |-> 0]
  <1>3. Len(SortedIds) \in Nat /\ HeldBy(stores) \in [1 .. Len(SortedIds) -> Int]
    BY HeldType
  <1>4. t[0] = 0 /\ t[Len(SortedIds)] = 0
    BY <1>3
  <1>5. \A k \in 0 .. (Len(SortedIds) - 1) : t[k + 1] = t[k] + HeldBy(stores)[k + 1]
    BY <1>2, <1>3
  <1>. HIDE DEF t
  <1>6. SumOf(HeldBy(stores)) = t[Len(SortedIds)]
    BY <1>3, <1>4, <1>5, SumIs
  <1>. QED BY <1>4, <1>6

\* What a slice weighs in a split is a number of shares; where the symbol is
\* held something weighs.
LEMMA WeightsType ==
    ASSUME IdsListed, NEW stores \in Slices, NEW signed \in Int
    PROVE  /\ FillWeights(stores, SortedIds, signed) \in [1 .. Len(SortedIds) -> Nat]
           /\ signed # 0 /\ Held(stores) =>
                \E i \in 1 .. Len(SortedIds) : FillWeights(stores, SortedIds, signed)[i] # 0
  <1>. DEFINE n == Len(SortedIds)
              q(i) == stores[SortedIds[i]].qty
              Closes(i) == stores[SortedIds[i]].qty * signed < 0
              Some == \E j \in 1 .. n : Closes(j)
              w == FillWeights(stores, SortedIds, signed)
  <1>1. DOMAIN SortedIds = 1 .. n /\ \A i \in 1 .. n : q(i) \in Int
    BY HeldType DEF Slices, Position
  <1>2. w = [i \in 1 .. n |-> IF Closes(i) \/ ~Some THEN Abs(q(i)) ELSE 0]
    BY <1>1 DEF FillWeights
  <1>3. \A x \in Int : Abs(x) \in Nat /\ (x # 0 => Abs(x) # 0)
    BY DEF Abs
  <1>4. \A i \in 1 .. n : Closes(i) => q(i) # 0
    <2>1. \A x \in Int : x = 0 => ~(x * signed < 0)
      OBVIOUS
    <2>. QED BY <2>1, <1>1
  <1>. HIDE DEF w, Closes
  <1>5. w \in [1 .. n -> Nat]
    BY <1>1, <1>2, <1>3
  <1>6. ASSUME signed # 0, Held(stores) PROVE \E i \in 1 .. n : w[i] # 0
    <2>1. CASE Some
      <3>1. PICK j \in 1 .. n : Closes(j)
        BY <2>1
      <3>2. w[j] = Abs(q(j)) /\ q(j) \in Int /\ q(j) # 0
        BY <3>1, <1>1, <1>2, <1>4
      <3>. QED BY <3>2, <1>3
    <2>2. CASE ~Some
      <3>1. PICK s \in Ids : stores[s].qty # 0
        BY <1>6 DEF Held
      <3>2. PICK j \in 1 .. n : SortedIds[j] = s
        BY HeldType
      <3>3. w[j] = Abs(q(j)) /\ q(j) \in Int /\ q(j) # 0
        BY <2>2, <3>1, <3>2, <1>1, <1>2
      <3>. QED BY <3>3, <1>3
    <2>. QED BY <2>1, <2>2
  <1>. QED BY <1>5, <1>6 DEF w

\* A split of a fill gives away exactly the fill.
LEMMA SharesAddUp ==
    ASSUME IdsListed, NEW stores \in Slices, NEW signed \in Int, signed = 0 \/ Held(stores)
    PROVE  /\ FillShares(stores, SortedIds, signed) \in [1 .. Len(SortedIds) -> Int]
           /\ SumOf(FillShares(stores, SortedIds, signed)) = Abs(signed)
  <1>. DEFINE n == Len(SortedIds)
              w == FillWeights(stores, SortedIds, signed)
              shares == FillShares(stores, SortedIds, signed)
  <1>1. n \in Nat /\ DOMAIN SortedIds = 1 .. n
    BY HeldType
  <1>2. w \in [1 .. n -> Nat] /\ (signed # 0 => \E i \in 1 .. n : w[i] # 0)
    BY WeightsType
  <1>3. w \in [1 .. n -> Int] /\ \A i \in 1 .. n : w[i] >= 0
    BY <1>2
  <1>4. Abs(signed) \in Nat /\ (signed = 0 => Abs(signed) = 0)
    BY DEF Abs
  <1>5. shares = IF \A i \in 1 .. n : w[i] = 0 THEN w ELSE LargestRemainderSplit(Abs(signed), w)
    BY <1>1 DEF FillShares
  <1>. HIDE DEF w, shares
  <1>6. SumOf(w) = 0 => \A i \in 1 .. n : w[i] = 0
    BY <1>1, <1>3, SumNonneg
  <1>7. CASE \A i \in 1 .. n : w[i] = 0
    <2>1. Abs(signed) = 0 /\ shares = w
      BY <1>2, <1>4, <1>5, <1>7
    <2>. DEFINE t == [k \in 0 .. n |-> 0]
    <2>2. t[0] = 0 /\ t[n] = 0
      BY <1>1
    <2>3. \A k \in 0 .. (n - 1) : t[k + 1] = t[k] + w[k + 1]
      BY <1>1, <1>7
    <2>. HIDE DEF t
    <2>4. SumOf(w) = t[n]
      BY <1>1, <1>3, <2>2, <2>3, SumIs
    <2>. QED BY <2>1, <2>2, <2>4, <1>3 DEF shares
  <1>8. CASE ~\A i \in 1 .. n : w[i] = 0
    <2>1. SumOf(w) # 0
      BY <1>6, <1>8
    <2>2. shares = RemainderSplit(Abs(signed), w)
      BY <1>5, <1>8, <2>1 DEF LargestRemainderSplit
    <2>3. shares \in [1 .. n -> Int] /\ SumOf(shares) = Abs(signed)
      BY <2>1, <2>2, <1>1, <1>2, <1>4, RemainderSplitAddsUp
    <2>. QED BY <2>3 DEF shares
  <1>. QED BY <1>7, <1>8

\* A fill moves a position by its signed quantity.
LEMMA UpdateMoves ==
    ASSUME NEW x \in Position, NEW d \in Int, NEW at \in Int
    PROVE  /\ UpdatePosition(x, d, at) \in Position
           /\ UpdatePosition(x, d, at).qty = x.qty + d
  BY DEF UpdatePosition, Never, Position

\* A size with its sign is the signed quantity.
LEMMA SignedBack ==
    ASSUME NEW x \in Int
    PROVE  Abs(x) \in Nat /\ Sign(x) \in Int /\ Sign(x) * Abs(x) = x
  BY DEF Abs, Sign

\* A shared fill is entered whole, whatever it weighs.
LEMMA SharedFillKept ==
    ASSUME IdsListed, NEW stores \in Slices, NEW signed \in Int, NEW at \in Int,
           signed = 0 \/ Held(stores)
    PROVE  /\ DistributeFill(stores, SortedIds, signed, at) \in Slices
           /\ SumOf(HeldBy(DistributeFill(stores, SortedIds, signed, at))) =
                SumOf(HeldBy(stores)) + signed
  <1>. DEFINE n == Len(SortedIds)
              shares == FillShares(stores, SortedIds, signed)
              Place(s) == CHOOSE i \in DOMAIN SortedIds : SortedIds[i] = s
              Share(s) == Sign(signed) * shares[Place(s)]
              after == DistributeFill(stores, SortedIds, signed, at)
  <1>1. n \in Nat /\ DOMAIN SortedIds = 1 .. n /\ DOMAIN stores = Ids
    BY HeldType DEF Slices
  <1>2. shares \in [1 .. n -> Int] /\ SumOf(shares) = Abs(signed)
    BY SharesAddUp
  <1>3. \A s \in Ids : Place(s) \in 1 .. n /\ SortedIds[Place(s)] = s
    BY <1>1, HeldType
  <1>4. \A i \in 1 .. n : Place(SortedIds[i]) = i
    BY <1>1, <1>3, HeldType DEF IdsListed
  <1>5. after = [s \in Ids |-> IF Share(s) = 0 THEN stores[s] ELSE UpdatePosition(stores[s], Share(s), at)]
    BY <1>1 DEF DistributeFill
  <1>6. Sign(signed) \in Int /\ Sign(signed) * Abs(signed) = signed
    BY SignedBack
  <1>. HIDE DEF shares, Place, after
  <1>7. \A s \in Ids : Share(s) \in Int
    BY <1>2, <1>3, <1>6
  <1>8. ASSUME NEW s \in Ids
        PROVE  after[s] \in Position /\ after[s].qty = stores[s].qty + Share(s)
    <2>1. Share(s) \in Int /\ stores[s] \in Position
      BY <1>7 DEF Slices
    <2>2. after[s] = IF Share(s) = 0 THEN stores[s] ELSE UpdatePosition(stores[s], Share(s), at)
      BY <1>5
    <2>. HIDE DEF Share
    <2>3. CASE Share(s) = 0
      BY <2>1, <2>2, <2>3 DEF Position
    <2>4. CASE Share(s) # 0
      <3>1. after[s] = UpdatePosition(stores[s], Share(s), at)
        BY <2>2, <2>4
      <3>. QED BY <2>1, <3>1, UpdateMoves
    <2>. QED BY <2>3, <2>4
  <1>9. after \in Slices
    <2>1. DOMAIN after = Ids /\ after = [s \in Ids |-> after[s]]
      BY <1>5
    <2>. QED BY <2>1, <1>8 DEF Slices
  <1>. DEFINE scaled == [i \in 1 .. n |-> Sign(signed) * shares[i]]
  <1>10. scaled \in [1 .. n -> Int]
    BY <1>2, <1>6
  <1>11. SumOf(scaled) = Sign(signed) * SumOf(shares)
    <2>1. \A i \in 1 .. n : scaled[i] = Sign(signed) * shares[i]
      OBVIOUS
    <2>. HIDE DEF scaled
    <2>. QED BY <2>1, <1>1, <1>2, <1>6, <1>10, SumScales
  <1>12. HeldBy(stores) \in [1 .. n -> Int] /\ HeldBy(after) \in [1 .. n -> Int]
    BY <1>9, HeldType
  <1>13. \A i \in 1 .. n : HeldBy(after)[i] = HeldBy(stores)[i] + scaled[i]
    <2>. SUFFICES ASSUME NEW i \in 1 .. n PROVE HeldBy(after)[i] = HeldBy(stores)[i] + scaled[i]
      OBVIOUS
    <2>1. SortedIds[i] \in Ids /\ HeldBy(stores)[i] = stores[SortedIds[i]].qty
      BY HeldType
    <2>2. HeldBy(after)[i] = after[SortedIds[i]].qty
      BY <1>9, HeldType
    <2>3. Share(SortedIds[i]) = scaled[i]
      BY <1>4
    <2>. HIDE DEF Share, scaled
    <2>. QED BY <2>1, <2>2, <2>3, <1>8
  <1>. HIDE DEF scaled
  <1>14. SumOf(HeldBy(after)) = SumOf(HeldBy(stores)) + SumOf(scaled)
    BY <1>1, <1>10, <1>12, <1>13, SumAdds
  <1>. QED BY <1>2, <1>6, <1>9, <1>11, <1>14 DEF after

-----------------------------------------------------------------------------
(***************************************************************************)
(* The book: what every operation of the order path finds and leaves.      *)
(***************************************************************************)
Maps(V) == UNION {[S -> V] : S \in SUBSET Nat}
Reasons == RiskForced \cup {"ENTRY", "EXIT", "REVERSE_EXIT", "PORTFOLIO", "FORCE_FLATTEN",
                            "DATA_HEALTH", "WORKING_EXIT_FALLBACK"}
Statuses == {"FILLED", "PARTIALLY_FILLED", "CANCELLED", "REJECTED"}

Orders == [signed : Int, strategy : Ids \cup {""}, reason : Reasons]
Parked == [id : Nat, left : Int]
Answered == [id : Nat, status : Statuses, quantity : Int]

BookShape == [net : Position, slices : Slices, filledBy : SUBSET Signallers, active : Maps(Orders),
              resting : Seq(Parked), acks : Seq(Answered), fallback : Maps(Int),
              rejects : Int, overshot : SUBSET Reasons, flipped : SUBSET Decoupled,
              off : [Decoupled -> Int]]

AddsUp(b) == b.net.qty = SumOf(HeldBy(b.slices))

Tracked(b) == IsFiniteSet(DOMAIN b.active) /\ IsFiniteSet(DOMAIN b.fallback)

Fill(ack) == ack.status \in {"FILLED", "PARTIALLY_FILLED"}
Ended(ack) == ack.status \in {"FILLED", "CANCELLED", "REJECTED"}

\* An order that may be booked at any later time names the slice it is for.
AcksKnown(b) == \A i \in DOMAIN b.acks : b.acks[i].id \in DOMAIN b.active
AckOwned(b, i) == Fill(b.acks[i]) => OrderOwnsOneSlice(b.active[b.acks[i].id])
AcksOwned(b) == \A i \in DOMAIN b.acks : AckOwned(b, i)
RestOwned(b) == \A i \in DOMAIN b.resting :
                    /\ b.resting[i].id \in DOMAIN b.active
                    /\ OrderOwnsOneSlice(b.active[b.resting[i].id])
RestOnce(b) == \A i, j \in DOMAIN b.resting : b.resting[i].id = b.resting[j].id => i = j
RestOpen(b) == \A i \in DOMAIN b.acks, j \in DOMAIN b.resting :
                    Ended(b.acks[i]) => b.acks[i].id # b.resting[j].id

Rests(b) == RestOwned(b) /\ RestOnce(b) /\ RestOpen(b)
Sound(b) == b \in BookShape /\ AddsUp(b) /\ Tracked(b) /\ AcksKnown(b) /\ AcksOwned(b) /\ Rests(b)

\* The ids are listed once each.
LEMMA Listed == IdsListed
  BY BookAssumption DEF IdsListed

\* A map is a function on some ids.
LEMMA MapsAre ==
    ASSUME NEW V, NEW f
    PROVE  f \in Maps(V) <=> DOMAIN f \subseteq Nat /\ f \in [DOMAIN f -> V]
  <1>1. ASSUME f \in Maps(V) PROVE DOMAIN f \subseteq Nat /\ f \in [DOMAIN f -> V]
    <2>1. PICK S \in SUBSET Nat : f \in [S -> V]
      BY <1>1 DEF Maps
    <2>. QED BY <2>1
  <1>2. ASSUME DOMAIN f \subseteq Nat, f \in [DOMAIN f -> V] PROVE f \in Maps(V)
    BY <1>2 DEF Maps
  <1>. QED BY <1>1, <1>2

\* A map with one more id in it.
LEMMA Tracks ==
    ASSUME NEW V, NEW f \in Maps(V), NEW id \in Nat, NEW o \in V
    PROVE  /\ With(f, id, o) \in Maps(V)
           /\ DOMAIN With(f, id, o) = DOMAIN f \cup {id}
           /\ With(f, id, o)[id] = o
           /\ \A x \in DOMAIN f \ {id} : With(f, id, o)[x] = f[x]
  <1>. DEFINE g == With(f, id, o)
  <1>1. g = [x \in DOMAIN f \cup {id} |-> IF x = id THEN o ELSE f[x]]
    BY DEF With
  <1>2. DOMAIN f \subseteq Nat /\ f \in [DOMAIN f -> V]
    BY MapsAre
  <1>. HIDE DEF g
  <1>3. DOMAIN g = DOMAIN f \cup {id} /\ g[id] = o /\ \A x \in DOMAIN f \ {id} : g[x] = f[x]
    BY <1>1
  <1>4. DOMAIN g \subseteq Nat /\ g \in [DOMAIN g -> V]
    BY <1>1, <1>2
  <1>5. g \in Maps(V)
    BY <1>4, MapsAre
  <1>. QED BY <1>3, <1>5 DEF g

\* The same for what the working exits filled.
LEMMA TracksNumber ==
    ASSUME NEW f \in Maps(Int), NEW id \in Nat, NEW o \in Int
    PROVE  With(f, id, o) \in Maps(Int) /\ DOMAIN With(f, id, o) = DOMAIN f \cup {id}
  <1>. DEFINE g == With(f, id, o)
  <1>1. g = [x \in DOMAIN f \cup {id} |-> IF x = id THEN o ELSE f[x]]
    BY DEF With
  <1>2. DOMAIN f \subseteq Nat /\ f \in [DOMAIN f -> Int]
    BY MapsAre
  <1>. HIDE DEF g
  <1>3. DOMAIN g = DOMAIN f \cup {id} /\ DOMAIN g \subseteq Nat /\ g \in [DOMAIN g -> Int]
    BY <1>1, <1>2
  <1>4. g \in Maps(Int)
    BY <1>3, MapsAre
  <1>. QED BY <1>3, <1>4 DEF g

\* A map without some of its ids.
LEMMA Restricts ==
    ASSUME NEW V, NEW f \in Maps(V), NEW S, S \subseteq DOMAIN f
    PROVE  /\ Restrict(f, S) \in Maps(V) /\ DOMAIN Restrict(f, S) = S
           /\ \A x \in S : Restrict(f, S)[x] = f[x]
  <1>1. DOMAIN f \subseteq Nat /\ f \in [DOMAIN f -> V]
    BY MapsAre
  <1>2. Restrict(f, S) = [x \in S |-> f[x]]
    BY DEF Restrict
  <1>3. DOMAIN Restrict(f, S) \subseteq Nat /\ Restrict(f, S) \in [DOMAIN Restrict(f, S) -> V]
    BY <1>1, <1>2
  <1>4. Restrict(f, S) \in Maps(V)
    BY <1>3, MapsAre
  <1>. QED BY <1>2, <1>4

\* A fresh id is in use nowhere.
LEMMA Fresh ==
    ASSUME NEW b, Sound(b)
    PROVE  /\ FreshId(b) \in Nat /\ FreshId(b) \notin DOMAIN b.active
           /\ FreshId(b) \notin DOMAIN b.fallback
  <1>. DEFINE taken == DOMAIN b.active \cup DOMAIN b.fallback \cup {b.acks[i].id : i \in DOMAIN b.acks}
              Free(m) == m \notin taken /\ \A k \in 1 .. (m - 1) : k \in taken
              S == {m \in 1 .. (Cardinality(taken) + 1) : m \notin taken}
  <1>1. FreshId(b) = CHOOSE m \in 1 .. (Cardinality(taken) + 1) : Free(m)
    BY DEF FreshId
  <1>2. taken = DOMAIN b.active \cup DOMAIN b.fallback
    BY DEF Sound, AcksKnown
  <1>3. IsFiniteSet(taken)
    BY <1>2, FS_Union DEF Sound, Tracked
  <1>4. Cardinality(taken) \in Nat
    BY <1>3, FS_CardinalityType
  <1>. HIDE DEF taken
  <1>5. S # {}
    <2>1. SUFFICES ASSUME S = {} PROVE FALSE
      OBVIOUS
    <2>2. 1 .. (Cardinality(taken) + 1) \in SUBSET taken
      BY <2>1
    <2>3. Cardinality(1 .. (Cardinality(taken) + 1)) = Cardinality(taken) + 1
      BY <1>4, FS_Interval
    <2>4. Cardinality(1 .. (Cardinality(taken) + 1)) <= Cardinality(taken)
      BY <1>3, <2>2, FS_Subset
    <2>. QED BY <1>4, <2>3, <2>4
  <1>6. PICK m \in S : \A k \in S : m <= k
    <2>1. S \in SUBSET Nat
      BY <1>4
    <2>. HIDE DEF S
    <2>. QED BY <1>5, <2>1, Sums!Least
  <1>7. m \in 1 .. (Cardinality(taken) + 1) /\ Free(m)
    <2>1. m \in 1 .. (Cardinality(taken) + 1) /\ m \notin taken
      OBVIOUS
    <2>2. ASSUME NEW k \in 1 .. (m - 1), k \notin taken PROVE FALSE
      <3>1. k \in S /\ k < m /\ k \in Int /\ m \in Int
        BY <2>1, <2>2, <1>4
      <3>. QED BY <3>1, <1>6
    <2>. QED BY <2>1, <2>2
  <1>8. FreshId(b) \in 1 .. (Cardinality(taken) + 1) /\ Free(FreshId(b))
    BY <1>1, <1>7, Zenon
  <1>9. FreshId(b) \notin taken
    BY <1>8
  <1>. QED BY <1>2, <1>4, <1>8, <1>9

\* An order goes to the router under a fresh id.
LEMMA Sends ==
    ASSUME NEW b, Sound(b), NEW o \in Orders
    PROVE  LET id == FreshId(b)
               t == TrackOrder(b, id, o)
           IN  /\ t = [b EXCEPT !.active = With(b.active, id, o)] /\ t \in BookShape
               /\ DOMAIN t.active = DOMAIN b.active \cup {id} /\ t.active[id] = o
               /\ \A x \in DOMAIN b.active : t.active[x] = b.active[x]
               /\ IsFiniteSet(DOMAIN t.active)
  <1>. DEFINE id == FreshId(b)
              f == With(b.active, id, o)
              t == TrackOrder(b, id, o)
  <1>1. b \in BookShape /\ b.active \in Maps(Orders) /\ IsFiniteSet(DOMAIN b.active)
    BY DEF Sound, Tracked, BookShape
  <1>2. id \in Nat /\ id \notin DOMAIN b.active
    BY Fresh
  <1>. HIDE DEF id
  <1>3. /\ f \in Maps(Orders) /\ DOMAIN f = DOMAIN b.active \cup {id} /\ f[id] = o
        /\ \A x \in DOMAIN b.active \ {id} : f[x] = b.active[x]
    <2>. DEFINE m == b.active
    <2>1. m \in Maps(Orders) /\ f = With(m, id, o)
      BY <1>1
    <2>. HIDE DEF m, f, t
    <2>2. /\ f \in Maps(Orders) /\ DOMAIN f = DOMAIN m \cup {id} /\ f[id] = o
          /\ \A x \in DOMAIN m \ {id} : f[x] = m[x]
      BY <2>1, <1>2, Tracks
    <2>. QED BY <2>2 DEF m
  <1>4. IsFiniteSet(DOMAIN f)
    BY <1>1, <1>3, FS_AddElement
  <1>5. t = [b EXCEPT !.active = f]
    BY DEF TrackOrder
  <1>. HIDE DEF f, t
  <1>6. t.active = f /\ t \in BookShape
    BY <1>1, <1>3, <1>5 DEF BookShape
  <1>7. \A x \in DOMAIN b.active : t.active[x] = b.active[x]
    BY <1>2, <1>3, <1>6
  <1>. QED BY <1>3, <1>4, <1>5, <1>6, <1>7 DEF id, f, t

\* A market order is tracked under a fresh id and answered at once.
LEMMA MarketIs ==
    ASSUME NEW b, Sound(b), NEW o \in Orders, NEW filled
    PROVE  \E t, id, ack :
               LET c == SubmitMarket(b, o, filled)
               IN  /\ id = FreshId(b) /\ id \in Nat /\ id \notin DOMAIN b.active
                   /\ c \in BookShape /\ c.net = b.net /\ c.slices = b.slices
                   /\ c.resting = b.resting /\ c.fallback = b.fallback
                   /\ DOMAIN c.active = DOMAIN b.active \cup {id} /\ c.active[id] = o
                   /\ \A x \in DOMAIN b.active : c.active[x] = b.active[x]
                   /\ IsFiniteSet(DOMAIN c.active)
                   /\ ack \in Answered /\ ack.id = id /\ c.acks = Append(b.acks, ack)
  <1>. DEFINE id == FreshId(b)
              t == TrackOrder(b, id, o)
              c == SubmitMarket(b, o, filled)
              yes == Ack(id, "FILLED", Abs(o.signed))
              no == Ack(id, "REJECTED", 0)
  <1>1. /\ t = [b EXCEPT !.active = With(b.active, id, o)] /\ t \in BookShape
        /\ DOMAIN t.active = DOMAIN b.active \cup {id} /\ t.active[id] = o
        /\ \A x \in DOMAIN b.active : t.active[x] = b.active[x]
        /\ IsFiniteSet(DOMAIN t.active)
    BY Sends
  <1>2. id \in Nat /\ id \notin DOMAIN b.active
    BY Fresh
  <1>3. yes \in Answered /\ no \in Answered /\ yes.id = id /\ no.id = id
    <2>. HIDE DEF id, t, c
    <2>1. o.signed \in Int
      BY DEF Orders
    <2>2. Abs(o.signed) \in Int
      BY <2>1, SignedBack
    <2>. QED BY <2>2, <1>2 DEF Ack, Answered, Statuses
  <1>4. b \in BookShape
    BY DEF Sound
  <1>5. /\ t.net = b.net /\ t.slices = b.slices /\ t.resting = b.resting
        /\ t.fallback = b.fallback /\ t.acks = b.acks
    <2>. HIDE DEF t, id
    <2>. QED BY <1>1, <1>4 DEF BookShape
  <1>6. c = IF filled THEN [t EXCEPT !.acks = Append(t.acks, yes)]
            ELSE [t EXCEPT !.acks = Append(t.acks, no), !.rejects = t.rejects + 1]
    BY DEF SubmitMarket
  <1>. HIDE DEF id, t, c, yes, no
  <1>7. Append(t.acks, yes) \in Seq(Answered) /\ Append(t.acks, no) \in Seq(Answered)
    BY <1>1, <1>3 DEF BookShape
  <1>8. PICK ack \in {yes, no} :
           /\ c \in BookShape /\ c.net = t.net /\ c.slices = t.slices /\ c.resting = t.resting
           /\ c.fallback = t.fallback /\ c.active = t.active /\ c.acks = Append(t.acks, ack)
    <2>1. CASE filled
      <3>1. c = [t EXCEPT !.acks = Append(t.acks, yes)]
        BY <2>1, <1>6
      <3>. QED BY <3>1, <1>1, <1>7 DEF BookShape
    <2>2. CASE ~filled
      <3>1. c = [t EXCEPT !.acks = Append(t.acks, no), !.rejects = t.rejects + 1]
        BY <2>2, <1>6
      <3>a. t \in BookShape
        BY <1>1
      <3>b. t.rejects \in Int
        BY <3>a DEF BookShape
      <3>2. t.rejects + 1 \in Int
        BY <3>b
      <3>. DEFINE u == [t EXCEPT !.acks = Append(t.acks, no)]
      <3>3. /\ u \in BookShape /\ u.net = t.net /\ u.slices = t.slices /\ u.resting = t.resting
            /\ u.fallback = t.fallback /\ u.active = t.active /\ u.acks = Append(t.acks, no)
        BY <1>1, <1>7 DEF BookShape
      <3>4. c = [u EXCEPT !.rejects = t.rejects + 1]
        BY <3>1, <1>1 DEF BookShape
      <3>. HIDE DEF u
      <3>. QED BY <3>2, <3>3, <3>4 DEF BookShape
    <2>. QED BY <2>1, <2>2
  <1>9. ack \in Answered /\ ack.id = id
    BY <1>3
  <1>. QED BY <1>1, <1>2, <1>5, <1>8, <1>9, ZenonT(20) DEF id, c

\* What a submission leaves sound: the answer waits, its order is not booked.
LEMMA MarketSound ==
    ASSUME NEW b, Sound(b), NEW o \in Orders, NEW filled
    PROVE  LET c == SubmitMarket(b, o, filled)
               id == FreshId(b)
           IN  /\ c \in BookShape /\ AddsUp(c) /\ Tracked(c) /\ AcksKnown(c) /\ Rests(c)
               /\ id \in DOMAIN c.active /\ c.active[id] = o /\ c.slices = b.slices
               /\ \A i \in DOMAIN c.acks : c.acks[i].id = id => i = Len(c.acks)
               /\ \A i \in DOMAIN c.acks : c.acks[i].id # id => AckOwned(c, i)
               /\ OrderOwnsOneSlice(o) => Sound(c)
  <1>. DEFINE c == SubmitMarket(b, o, filled)
  <1>1. PICK t, id, ack :
           /\ id = FreshId(b) /\ id \in Nat /\ id \notin DOMAIN b.active
           /\ c \in BookShape /\ c.net = b.net /\ c.slices = b.slices
           /\ c.resting = b.resting /\ c.fallback = b.fallback
           /\ DOMAIN c.active = DOMAIN b.active \cup {id} /\ c.active[id] = o
           /\ \A x \in DOMAIN b.active : c.active[x] = b.active[x]
           /\ IsFiniteSet(DOMAIN c.active)
           /\ ack \in Answered /\ ack.id = id /\ c.acks = Append(b.acks, ack)
    BY MarketIs
  <1>. HIDE DEF c
  <1>2. b.acks \in Seq(Answered) /\ b.resting \in Seq(Parked)
    BY DEF Sound, BookShape
  <1>3. /\ DOMAIN c.acks = 1 .. (Len(b.acks) + 1) /\ Len(c.acks) = Len(b.acks) + 1
        /\ DOMAIN b.acks = 1 .. Len(b.acks) /\ Len(b.acks) \in Nat
        /\ \A i \in 1 .. Len(b.acks) : c.acks[i] = b.acks[i]
        /\ c.acks[Len(b.acks) + 1].id = id
    BY <1>1, <1>2
  <1>4. \A i \in 1 .. Len(b.acks) : b.acks[i].id \in DOMAIN b.active /\ AckOwned(b, i)
    BY <1>3 DEF Sound, AcksKnown, AcksOwned
  <1>5. AddsUp(c) /\ Tracked(c)
    BY <1>1 DEF AddsUp, Tracked, Sound
  <1>6. AcksKnown(c)
    BY <1>1, <1>3, <1>4 DEF AcksKnown
  <1>7. \A i \in 1 .. Len(b.acks) : c.acks[i].id # id /\ AckOwned(c, i)
    BY <1>1, <1>3, <1>4 DEF AckOwned
  <1>8. Rests(c)
    <2>1. RestOwned(c)
      BY <1>1 DEF Sound, Rests, RestOwned
    <2>2. RestOnce(c)
      BY <1>1 DEF Sound, Rests, RestOnce
    <2>3. RestOpen(c)
      <3>. SUFFICES ASSUME NEW i \in DOMAIN c.acks, NEW j \in DOMAIN c.resting, Ended(c.acks[i])
                    PROVE  c.acks[i].id # c.resting[j].id
        BY DEF RestOpen
      <3>1. c.resting[j].id \in DOMAIN b.active
        BY <1>1 DEF Sound, Rests, RestOwned
      <3>2. CASE i = Len(b.acks) + 1
        BY <3>1, <3>2, <1>1, <1>3
      <3>3. CASE i \in 1 .. Len(b.acks)
        BY <3>3, <1>1, <1>3 DEF Sound, Rests, RestOpen
      <3>. QED BY <3>2, <3>3, <1>3
    <2>. QED BY <2>1, <2>2, <2>3 DEF Rests
  <1>9. \A i \in DOMAIN c.acks : c.acks[i].id = id => i = Len(c.acks)
    BY <1>3, <1>7
  <1>10. \A i \in DOMAIN c.acks : c.acks[i].id # id => AckOwned(c, i)
    BY <1>3, <1>7
  <1>11. ASSUME OrderOwnsOneSlice(o) PROVE AcksOwned(c)
    <2>1. \A i \in DOMAIN c.acks : c.acks[i].id = id => AckOwned(c, i)
      BY <1>1, <1>11 DEF AckOwned
    <2>. QED BY <2>1, <1>10 DEF AcksOwned
  <1>. QED BY <1>1, <1>5, <1>6, <1>8, <1>9, <1>10, <1>11 DEF Sound, c

\* A fill moves the slices by what it moves the net: one slice it names, or
\* those it is split over.
LEMMA Charged ==
    ASSUME now \in Int, NEW x \in BookShape, NEW o \in Orders, NEW signed \in Int,
           OrderOwnsOneSlice(o) \/ Held(x.slices)
    PROVE  /\ ChargedSlices(x, o, signed) \in Slices
           /\ SumOf(HeldBy(ChargedSlices(x, o, signed))) = SumOf(HeldBy(x.slices)) + signed
  <1>1. x.slices \in Slices
    BY DEF BookShape
  <1>2. CASE OrderOwnsOneSlice(o)
    <2>. DEFINE old == x.slices[o.strategy]
                new == UpdatePosition(old, signed, now)
                after == [x.slices EXCEPT ![o.strategy] = new]
    <2>1. o.strategy \in Ids
      BY <1>2 DEF OrderOwnsOneSlice, Orders
    <2>2. old \in Position
      BY <1>1, <2>1 DEF Slices
    <2>3. new \in Position /\ new.qty = old.qty + signed
      <3>. HIDE DEF old
      <3>. QED BY <2>2, UpdateMoves
    <2>4. ChargedSlices(x, o, signed) = after
      BY <1>2 DEF ChargedSlices
    <2>. HIDE DEF new
    <2>5. after \in Slices /\ after[o.strategy] = new /\ \A u \in Ids \ {o.strategy} : after[u] = x.slices[u]
      BY <1>1, <2>1, <2>3 DEF Slices
    <2>. HIDE DEF after
    <2>6. SumOf(HeldBy(after)) = SumOf(HeldBy(x.slices)) + signed
      BY <1>1, <2>1, <2>3, <2>5, Listed, OneSliceMoves
    <2>. QED BY <2>4, <2>5, <2>6
  <1>3. CASE ~OrderOwnsOneSlice(o)
    <2>1. ChargedSlices(x, o, signed) = DistributeFill(x.slices, SortedIds, signed, now)
      BY <1>3 DEF ChargedSlices
    <2>2. Held(x.slices)
      BY <1>3
    <2>. QED BY <1>1, <2>1, <2>2, Listed, SharedFillKept
  <1>. QED BY <1>2, <1>3

\* Booking a fill changes the net and the slices, and no answer, order or rest.
LEMMA Entered ==
    ASSUME now \in Int, NEW x \in BookShape, NEW ack \in Answered, NEW o \in Orders,
           NEW signed \in Int, NEW stores \in Slices
    PROVE  LET r == EnterFill(x, ack, o, signed, stores)
           IN  /\ r \in BookShape /\ r.slices = stores /\ r.net.qty = x.net.qty + signed
               /\ r.active = x.active /\ r.resting = x.resting /\ r.acks = x.acks
               /\ DOMAIN r.fallback = DOMAIN x.fallback
  <1>. DEFINE r == EnterFill(x, ack, o, signed, stores)
              held == UpdatePosition(x.net, signed, now)
              off == [s \in Decoupled |-> IF stores[s].qty = 0 THEN Never ELSE x.off[s]]
              flipped == {s \in Decoupled :
                            /\ x.off[s] # Never /\ stores[s].qty # 0
                            /\ s \in x.flipped \/ x.slices[s].qty * stores[s].qty < 0}
              overshot == x.overshot \cup IF Overshoots(x, o, signed) THEN {o.reason} ELSE {}
              fallback == IF ack.id \in DOMAIN x.fallback
                          THEN With(x.fallback, ack.id, x.fallback[ack.id] + ack.quantity)
                          ELSE x.fallback
              filledBy == x.filledBy \cup ({o.strategy} \cap Signallers)
  <1>1. r = [x EXCEPT !.net = held, !.slices = stores, !.off = off, !.flipped = flipped,
                      !.overshot = overshot, !.fallback = fallback, !.filledBy = filledBy]
    BY DEF EnterFill
  <1>2. x.net \in Position /\ x.off \in [Decoupled -> Int] /\ x.overshot \in SUBSET Reasons
        /\ x.fallback \in Maps(Int) /\ x.filledBy \in SUBSET Signallers
    BY DEF BookShape
  <1>3. held \in Position /\ held.qty = x.net.qty + signed
    BY <1>2, UpdateMoves
  <1>4. off \in [Decoupled -> Int]
    BY <1>2 DEF Never
  <1>5. flipped \in SUBSET Decoupled /\ filledBy \in SUBSET Signallers
    BY <1>2
  <1>6. overshot \in SUBSET Reasons
    BY <1>2 DEF Orders
  <1>7. fallback \in Maps(Int) /\ DOMAIN fallback = DOMAIN x.fallback
    <2>1. DOMAIN x.fallback \subseteq Nat /\ x.fallback \in [DOMAIN x.fallback -> Int]
      BY <1>2, MapsAre
    <2>2. CASE ack.id \in DOMAIN x.fallback
      <3>1. ack.id \in Nat /\ ack.quantity \in Int /\ x.fallback[ack.id] \in Int
        BY <2>1, <2>2 DEF Answered
      <3>2. fallback = With(x.fallback, ack.id, x.fallback[ack.id] + ack.quantity)
        BY <2>2
      <3>. HIDE DEF fallback
      <3>3. x.fallback[ack.id] + ack.quantity \in Int
        BY <3>1
      <3>. DEFINE m == x.fallback
                  id == ack.id
                  v == x.fallback[ack.id] + ack.quantity
      <3>4. m \in Maps(Int) /\ id \in Nat /\ v \in Int /\ fallback = With(m, id, v)
        BY <3>1, <3>2, <3>3, <1>2
      <3>. HIDE DEF m, id, v
      <3>5. fallback \in Maps(Int) /\ DOMAIN fallback = DOMAIN m \cup {id}
        BY <3>4, TracksNumber
      <3>6. DOMAIN m \cup {id} = DOMAIN x.fallback
        BY <2>2 DEF m, id
      <3>. QED BY <3>5, <3>6
    <2>3. CASE ack.id \notin DOMAIN x.fallback
      BY <2>3, <1>2
    <2>. QED BY <2>2, <2>3
  <1>. HIDE DEF r, held, off, flipped, overshot, fallback, filledBy
  <1>8. r \in BookShape
    BY <1>1, <1>3, <1>4, <1>5, <1>6, <1>7 DEF BookShape
  <1>9. /\ r.slices = stores /\ r.net = held /\ r.active = x.active /\ r.resting = x.resting
        /\ r.acks = x.acks /\ r.fallback = fallback
    BY <1>1 DEF BookShape
  <1>. QED BY <1>3, <1>7, <1>8, <1>9 DEF r

\* One fill is entered in the symbol's position and in the slices alike.
LEMMA FillBooked ==
    ASSUME now \in Int, NEW x \in BookShape, AddsUp(x), NEW ack \in Answered,
           ack.id \in DOMAIN x.active,
           OrderOwnsOneSlice(x.active[ack.id]) \/ Held(x.slices)
    PROVE  LET r == ReconcileFill(x, ack)
           IN  /\ r \in BookShape /\ AddsUp(r) /\ r.active = x.active /\ r.resting = x.resting
               /\ r.acks = x.acks /\ DOMAIN r.fallback = DOMAIN x.fallback
  <1>. DEFINE o == x.active[ack.id]
              signed == Sign(o.signed) * ack.quantity
              stores == ChargedSlices(x, o, signed)
              r == ReconcileFill(x, ack)
  <1>1. o \in Orders
    <2>1. x.active \in Maps(Orders)
      BY DEF BookShape
    <2>2. x.active \in [DOMAIN x.active -> Orders]
      BY <2>1, MapsAre
    <2>. QED BY <2>2
  <1>2. r = EnterFill(x, ack, o, signed, stores)
    BY DEF ReconcileFill
  <1>a. OrderOwnsOneSlice(o) \/ Held(x.slices)
    OBVIOUS
  <1>. HIDE DEF o, r
  <1>3. signed \in Int
    <2>1. o.signed \in Int /\ ack.quantity \in Int
      BY <1>1 DEF Orders, Answered
    <2>. QED BY <2>1, SignedBack
  <1>. HIDE DEF signed
  <1>4. stores \in Slices /\ SumOf(HeldBy(stores)) = SumOf(HeldBy(x.slices)) + signed
    BY <1>1, <1>3, <1>a, Charged
  <1>. HIDE DEF stores
  <1>5. /\ r \in BookShape /\ r.slices = stores /\ r.net.qty = x.net.qty + signed
        /\ r.active = x.active /\ r.resting = x.resting /\ r.acks = x.acks
        /\ DOMAIN r.fallback = DOMAIN x.fallback
    BY <1>1, <1>2, <1>3, <1>4, Entered
  <1>6. AddsUp(r)
    BY <1>4, <1>5 DEF AddsUp
  <1>. QED BY <1>5, <1>6 DEF r

-----------------------------------------------------------------------------
(***************************************************************************)
(* A poll books its answers one after the other.                           *)
(***************************************************************************)
\* The answers left for the next poll are some of those there were.
Unsettled(b, ids, x) ==
    \A i \in DOMAIN x.acks : \E j \in DOMAIN b.acks :
        x.acks[i] = b.acks[j] /\ b.acks[j].id \notin ids

Settling(d, k, x) ==
    /\ x \in BookShape /\ AddsUp(x)
    /\ x.active = d.b.active /\ x.resting = d.b.resting
    /\ DOMAIN x.fallback = DOMAIN d.b.fallback
    /\ Unsettled(d.b, d.ids, x)
    /\ (\A j \in 1 .. k : d.b.acks[j].id \notin d.ids) => x.slices = d.b.slices

Settle == INSTANCE FoldTheorems WITH Step <- SettleAck, Good <- Settling

\* An answer may be booked: its order names its slice, or it is the first to
\* be booked and finds the symbol held.
Bookable(b, ids) ==
    \A k \in DOMAIN b.acks : b.acks[k].id \in ids =>
        \/ AckOwned(b, k)
        \/ Held(b.slices) /\ \A j \in 1 .. (k - 1) : b.acks[j].id \notin ids

\* One answer booked leaves the books agreeing and the others as they were.
LEMMA SettleStep ==
    ASSUME now \in Int, NEW b, NEW ids, b \in BookShape, AcksKnown(b), Bookable(b, ids),
           NEW k \in 0 .. (Len(b.acks) - 1), NEW x, Settling([b |-> b, ids |-> ids], k, x)
    PROVE  Settling([b |-> b, ids |-> ids], k + 1, SettleAck(ids, x, b.acks[k + 1]))
  <1>. DEFINE d == [b |-> b, ids |-> ids]
              ack == b.acks[k + 1]
              r == SettleAck(ids, x, ack)
  <1>. SUFFICES Settling(d, k + 1, r)
    OBVIOUS
  <1>1. b.acks \in Seq(Answered) /\ k + 1 \in DOMAIN b.acks
    BY DEF BookShape
  <1>2. ack \in Answered /\ ack.id \in DOMAIN b.active /\ k \in Int
    BY <1>1 DEF AcksKnown
  <1>3. /\ x \in BookShape /\ AddsUp(x) /\ x.active = b.active /\ x.resting = b.resting
        /\ DOMAIN x.fallback = DOMAIN b.fallback /\ Unsettled(b, ids, x)
        /\ (\A j \in 1 .. k : b.acks[j].id \notin ids) => x.slices = b.slices
    BY DEF Settling
  <1>4. ASSUME r \in BookShape, AddsUp(r), r.active = b.active, r.resting = b.resting,
               DOMAIN r.fallback = DOMAIN b.fallback, Unsettled(b, ids, r),
               ack.id \notin ids => r.slices = x.slices
        PROVE  Settling(d, k + 1, r)
    <2>1. ASSUME \A j \in 1 .. (k + 1) : b.acks[j].id \notin ids PROVE r.slices = b.slices
      <3>1. k + 1 \in 1 .. (k + 1) /\ \A j \in 1 .. k : j \in 1 .. (k + 1)
        OBVIOUS
      <3>2. ack.id \notin ids /\ \A j \in 1 .. k : b.acks[j].id \notin ids
        BY <2>1, <3>1
      <3>. QED BY <3>2, <1>3, <1>4
    <2>. QED BY <1>4, <2>1 DEF Settling
  <1>. HIDE DEF r
  <1>5. CASE ack.id \notin ids
    <2>1. r = [x EXCEPT !.acks = Append(x.acks, ack)]
      BY <1>5 DEF SettleAck, r
    <2>. HIDE DEF ack
    <2>2. x.acks \in Seq(Answered) /\ Append(x.acks, ack) \in Seq(Answered)
      BY <1>2, <1>3 DEF BookShape
    <2>3. /\ r \in BookShape /\ r.active = x.active /\ r.resting = x.resting /\ r.net = x.net
          /\ r.fallback = x.fallback /\ r.slices = x.slices /\ r.acks = Append(x.acks, ack)
      BY <2>1, <2>2, <1>3 DEF BookShape
    <2>4. Unsettled(b, ids, r)
      <3>. SUFFICES ASSUME NEW i \in DOMAIN r.acks
                    PROVE  \E j \in DOMAIN b.acks : r.acks[i] = b.acks[j] /\ b.acks[j].id \notin ids
        BY DEF Unsettled
      <3>1. CASE i \in DOMAIN x.acks
        <4>1. r.acks[i] = x.acks[i]
          BY <3>1, <2>2, <2>3
        <4>. QED BY <4>1, <3>1, <1>3 DEF Unsettled
      <3>2. CASE i \notin DOMAIN x.acks
        <4>1. r.acks[i] = ack
          BY <3>2, <2>2, <2>3
        <4>. QED BY <4>1, <1>1, <1>5 DEF ack
      <3>. QED BY <3>1, <3>2
    <2>5. AddsUp(r)
      BY <2>3, <1>3 DEF AddsUp
    <2>. QED BY <2>3, <2>4, <2>5, <1>3, <1>4
  <1>6. CASE ack.id \in ids /\ Fill(ack)
    <2>1. r = ReconcileFill(x, ack)
      BY <1>6 DEF SettleAck, r, Fill
    <2>2. OrderOwnsOneSlice(b.active[ack.id]) \/ Held(x.slices)
      <3>1. CASE AckOwned(b, k + 1)
        BY <3>1, <1>6 DEF AckOwned
      <3>2. CASE Held(b.slices) /\ \A j \in 1 .. ((k + 1) - 1) : b.acks[j].id \notin ids
        <4>1. (k + 1) - 1 = k
          BY <1>2
        <4>2. \A j \in 1 .. k : b.acks[j].id \notin ids
          BY <3>2, <4>1
        <4>. QED BY <3>2, <4>2, <1>3
      <3>. QED BY <3>1, <3>2, <1>1, <1>6 DEF Bookable
    <2>. HIDE DEF ack
    <2>3. ack.id \in DOMAIN x.active /\ (OrderOwnsOneSlice(x.active[ack.id]) \/ Held(x.slices))
      BY <2>2, <1>2, <1>3
    <2>4. /\ r \in BookShape /\ AddsUp(r) /\ r.active = x.active /\ r.resting = x.resting
          /\ r.acks = x.acks /\ DOMAIN r.fallback = DOMAIN x.fallback
      BY <2>1, <2>3, <1>2, <1>3, FillBooked
    <2>5. Unsettled(b, ids, r)
      BY <2>4, <1>3 DEF Unsettled
    <2>. QED BY <2>4, <2>5, <1>3, <1>4, <1>6
  <1>7. CASE ack.id \in ids /\ ~Fill(ack)
    <2>1. r = x
      BY <1>7 DEF SettleAck, r, Fill
    <2>. QED BY <2>1, <1>3, <1>4, <1>7
  <1>. QED BY <1>5, <1>6, <1>7

\* The orders a poll ends.
Closed(b, ids) == {a.id : a \in {m \in Range(b.acks) : m.id \in ids /\ m.status \in Terminal}}

\* A poll books its answers and leaves those to other ids.
LEMMA Polled ==
    ASSUME now \in Int, NEW b, NEW ids, b \in BookShape, AddsUp(b), AcksKnown(b), Bookable(b, ids)
    PROVE  \E x : /\ Settling([b |-> b, ids |-> ids], Len(b.acks), x)
                  /\ SettleAcks(b, ids) =
                        [x EXCEPT !.active = Restrict(x.active, DOMAIN x.active \ Closed(b, ids))]
  <1>. DEFINE d == [b |-> b, ids |-> ids]
              base == [b EXCEPT !.acks = <<>>]
              x == Settle!Fold(ids, base, b.acks)
  <1>1. b.acks \in Seq(Answered)
    BY DEF BookShape
  <1>2. Settling(d, 0, base)
    <2>1. /\ base \in BookShape /\ base.acks = <<>> /\ base.net = b.net /\ base.slices = b.slices
          /\ base.active = b.active /\ base.resting = b.resting /\ base.fallback = b.fallback
      <3>1. <<>> \in Seq(Answered)
        OBVIOUS
      <3>. QED BY <3>1 DEF BookShape
    <2>2. AddsUp(base)
      BY <2>1 DEF AddsUp
    <2>3. Unsettled(b, ids, base)
      BY <2>1 DEF Unsettled
    <2>. HIDE DEF base
    <2>. QED BY <2>1, <2>2, <2>3 DEF Settling
  <1>3. \A k \in 0 .. (Len(b.acks) - 1) : \A y :
            Settling(d, k, y) => Settling(d, k + 1, SettleAck(ids, y, b.acks[k + 1]))
    BY SettleStep
  <1>4. Settling(d, Len(b.acks), x)
    <2>1. \A c, e, z, T : \A seq \in Seq(T) :
             /\ Settling(e, 0, z)
             /\ \A k \in 0 .. (Len(seq) - 1) : \A y :
                   Settling(e, k, y) => Settling(e, k + 1, SettleAck(c, y, seq[k + 1]))
             => Settling(e, Len(seq), Settle!Fold(c, z, seq))
      BY Settle!Keeps
    <2>. HIDE DEF d, base
    <2>. QED BY <2>1, <1>1, <1>2, <1>3
  <1>5. SettleAcks(b, ids) = [x EXCEPT !.active = Restrict(x.active, DOMAIN x.active \ Closed(b, ids))]
    BY DEF SettleAcks, Closed, FoldLeft, MapThenFoldSet, Max, Settle!Fold, Settle!FoldLeft,
           Settle!MapThenFoldSet, Settle!Max
  <1>. QED BY <1>4, <1>5

\* Pruning the orders that ended orphans no answer and no resting order.
LEMMA Settled ==
    ASSUME now \in Int, NEW b, NEW ids, b \in BookShape, AddsUp(b), Tracked(b), AcksKnown(b),
           Rests(b), Bookable(b, ids),
           \A i \in DOMAIN b.acks : b.acks[i].id \notin ids => AckOwned(b, i)
    PROVE  Sound(SettleAcks(b, ids))
  <1>. DEFINE r == SettleAcks(b, ids)
              ended == {m \in Range(b.acks) : m.id \in ids /\ m.status \in Terminal}
              done == {a.id : a \in ended}
  <1>1. PICK x : /\ Settling([b |-> b, ids |-> ids], Len(b.acks), x)
                 /\ r = [x EXCEPT !.active = Restrict(x.active, DOMAIN x.active \ done)]
    <2>1. \E x : /\ Settling([b |-> b, ids |-> ids], Len(b.acks), x)
                 /\ SettleAcks(b, ids) =
                      [x EXCEPT !.active = Restrict(x.active, DOMAIN x.active \ Closed(b, ids))]
      BY Polled
    <2>. QED BY <2>1 DEF Closed
  <1>2. /\ x \in BookShape /\ AddsUp(x) /\ x.active = b.active /\ x.resting = b.resting
        /\ DOMAIN x.fallback = DOMAIN b.fallback /\ Unsettled(b, ids, x)
    BY <1>1 DEF Settling
  <1>. DEFINE kept == DOMAIN b.active \ done
              f == Restrict(b.active, kept)
  <1>3. f \in Maps(Orders) /\ DOMAIN f = kept /\ \A i \in kept : f[i] = b.active[i]
    <2>1. b.active \in Maps(Orders)
      BY DEF BookShape
    <2>2. kept \subseteq DOMAIN b.active
      OBVIOUS
    <2>. HIDE DEF kept
    <2>. QED BY <2>1, <2>2, Restricts
  <1>4. r = [x EXCEPT !.active = f]
    BY <1>1, <1>2
  <1>5. \A i \in DOMAIN b.acks : b.acks[i].id \in done => b.acks[i].id \in ids
    BY DEF Range
  <1>6. \A j \in DOMAIN b.resting : b.resting[j].id \in kept
    <2>. SUFFICES ASSUME NEW j \in DOMAIN b.resting, b.resting[j].id \in done PROVE FALSE
      BY DEF Rests, RestOwned
    <2>1. PICK m \in ended : m.id = b.resting[j].id
      OBVIOUS
    <2>2. PICK i \in DOMAIN b.acks : m = b.acks[i]
      BY DEF Range
    <2>3. Ended(b.acks[i])
      BY <2>1, <2>2 DEF Ended, Terminal
    <2>. QED BY <2>1, <2>2, <2>3 DEF Rests, RestOpen
  <1>a. IsFiniteSet(kept)
    BY FS_Difference DEF Tracked
  <1>7. ASSUME NEW i \in done PROVE i \in ids
    OBVIOUS
  <1>. HIDE DEF f, r, done
  <1>8. /\ r \in BookShape /\ r.active = f /\ r.net = x.net /\ r.slices = x.slices
        /\ r.resting = x.resting /\ r.acks = x.acks /\ r.fallback = x.fallback
    BY <1>2, <1>3, <1>4 DEF BookShape
  <1>9. AddsUp(r) /\ Tracked(r)
    BY <1>2, <1>3, <1>8, <1>a DEF AddsUp, Tracked
  <1>10. ASSUME NEW i \in DOMAIN r.acks
         PROVE  /\ \E j \in DOMAIN b.acks : r.acks[i] = b.acks[j] /\ b.acks[j].id \notin ids
                /\ r.acks[i].id \in kept /\ AckOwned(r, i)
    <2>1. PICK j \in DOMAIN b.acks : r.acks[i] = b.acks[j] /\ b.acks[j].id \notin ids
      BY <1>2, <1>8 DEF Unsettled
    <2>2. b.acks[j].id \in kept
      BY <2>1, <1>7 DEF AcksKnown
    <2>3. AckOwned(b, j)
      BY <2>1
    <2>4. AckOwned(r, i)
      BY <2>1, <2>2, <2>3, <1>3, <1>8 DEF AckOwned
    <2>. QED BY <2>1, <2>2, <2>4
  <1>11. AcksKnown(r) /\ AcksOwned(r)
    BY <1>10, <1>3, <1>8 DEF AcksKnown, AcksOwned
  <1>12. RestOwned(r)
    BY <1>2, <1>3, <1>6, <1>8 DEF Rests, RestOwned
  <1>13. RestOnce(r)
    BY <1>2, <1>8 DEF Rests, RestOnce
  <1>14. RestOpen(r)
    BY <1>2, <1>8, <1>10 DEF Rests, RestOpen
  <1>. QED BY <1>8, <1>9, <1>11, <1>12, <1>13, <1>14 DEF Sound, Rests, r

-----------------------------------------------------------------------------
(***************************************************************************)
(* The operations of the order path leave a sound book sound.              *)
(***************************************************************************)
LEMMA Forgotten ==
    ASSUME NEW b, Sound(b)
    PROVE  Sound(Forget(b))
  <1>. DEFINE f == Restrict(b.fallback, DOMAIN b.fallback \cap DOMAIN b.active)
              r == Forget(b)
  <1>1. b \in BookShape /\ b.fallback \in Maps(Int) /\ IsFiniteSet(DOMAIN b.fallback)
    BY DEF Sound, Tracked, BookShape
  <1>2. f \in Maps(Int) /\ DOMAIN f = DOMAIN b.fallback \cap DOMAIN b.active
    <2>. DEFINE S == DOMAIN b.fallback \cap DOMAIN b.active
                m == b.fallback
    <2>1. S \subseteq DOMAIN m /\ m \in Maps(Int) /\ f = Restrict(m, S)
      BY <1>1
    <2>. HIDE DEF S, m, f
    <2>2. f \in Maps(Int) /\ DOMAIN f = S
      BY <2>1, Restricts
    <2>. QED BY <2>2 DEF S
  <1>3. IsFiniteSet(DOMAIN f)
    BY <1>1, <1>2, FS_Intersection
  <1>4. r = [b EXCEPT !.fallback = f]
    BY DEF Forget
  <1>. HIDE DEF f, r
  <1>5. /\ r \in BookShape /\ r.active = b.active /\ r.net = b.net /\ r.slices = b.slices
        /\ r.resting = b.resting /\ r.acks = b.acks /\ r.fallback = f
    BY <1>1, <1>2, <1>4 DEF BookShape
  <1>6. AddsUp(r) /\ Tracked(r) /\ AcksKnown(r) /\ Rests(r)
    BY <1>3, <1>5 DEF Sound, AddsUp, Tracked, AcksKnown, Rests, RestOwned, RestOnce, RestOpen
  <1>7. AcksOwned(r)
    BY <1>5 DEF Sound, AcksOwned, AckOwned
  <1>. QED BY <1>5, <1>6, <1>7 DEF Sound, r

\* A poll for any ids leaves a sound book sound.
LEMMA SoundSettled ==
    ASSUME now \in Int, NEW b, Sound(b), NEW ids
    PROVE  Sound(SettleAcks(b, ids))
  BY Settled DEF Sound, AcksOwned, Bookable

\* An order sent to market and polled for at once is booked before anything
\* else is.
LEMMA SubmittedAndSettled ==
    ASSUME now \in Int, NEW b, Sound(b), NEW o \in Orders, NEW filled,
           OrderOwnsOneSlice(o) \/ Held(b.slices)
    PROVE  Sound(SubmitAndSettle(b, o, filled))
  <1>. DEFINE c == SubmitMarket(b, o, filled)
              id == FreshId(b)
  <1>1. /\ c \in BookShape /\ AddsUp(c) /\ Tracked(c) /\ AcksKnown(c) /\ Rests(c)
        /\ id \in DOMAIN c.active /\ c.active[id] = o /\ c.slices = b.slices
        /\ \A i \in DOMAIN c.acks : c.acks[i].id = id => i = Len(c.acks)
        /\ \A i \in DOMAIN c.acks : c.acks[i].id # id => AckOwned(c, i)
    BY MarketSound
  <1>2. SubmitAndSettle(b, o, filled) = Forget(SettleAcks(c, {id}))
    BY DEF SubmitAndSettle
  <1>. HIDE DEF c, id
  <1>3. Bookable(c, {id})
    <2>. SUFFICES ASSUME NEW k \in DOMAIN c.acks, c.acks[k].id = id
                  PROVE  \/ AckOwned(c, k)
                         \/ Held(c.slices) /\ \A j \in 1 .. (k - 1) : c.acks[j].id \notin {id}
      BY DEF Bookable
    <2>1. CASE OrderOwnsOneSlice(o)
      BY <2>1, <1>1 DEF AckOwned
    <2>2. CASE Held(b.slices)
      <3>1. c.acks \in Seq(Answered)
        BY <1>1 DEF BookShape
      <3>2. k = Len(c.acks) /\ Len(c.acks) \in Nat /\ DOMAIN c.acks = 1 .. Len(c.acks)
        BY <3>1, <1>1
      <3>3. ASSUME NEW j \in 1 .. (k - 1) PROVE c.acks[j].id # id
        <4>1. j \in DOMAIN c.acks /\ j # Len(c.acks)
          BY <3>2
        <4>. QED BY <4>1, <1>1
      <3>. QED BY <2>2, <3>3, <1>1
    <2>. QED BY <2>1, <2>2
  <1>4. Sound(SettleAcks(c, {id}))
    <2>1. \A i \in DOMAIN c.acks : c.acks[i].id \notin {id} => AckOwned(c, i)
      BY <1>1
    <2>. QED BY <2>1, <1>1, <1>3, Settled
  <1>. QED BY <1>2, <1>4, Forgotten

\* A resting order names its slice, for it may fill at any later time.
LEMMA PassiveSound ==
    ASSUME NEW b, Sound(b), NEW o \in Orders, OrderOwnsOneSlice(o)
    PROVE  Sound(SubmitPassive(b, o))
  <1>. DEFINE id == FreshId(b)
              t == TrackOrder(b, id, o)
              rest == [id |-> id, left |-> Abs(o.signed)]
              c == SubmitPassive(b, o)
  <1>1. /\ t = [b EXCEPT !.active = With(b.active, id, o)] /\ t \in BookShape
        /\ DOMAIN t.active = DOMAIN b.active \cup {id} /\ t.active[id] = o
        /\ \A x \in DOMAIN b.active : t.active[x] = b.active[x]
        /\ IsFiniteSet(DOMAIN t.active)
    BY Sends
  <1>2. id \in Nat /\ id \notin DOMAIN b.active
    BY Fresh
  <1>3. c = [t EXCEPT !.resting = Append(t.resting, rest)]
    BY DEF SubmitPassive
  <1>. HIDE DEF c, t, id
  <1>4. /\ t.net = b.net /\ t.slices = b.slices /\ t.resting = b.resting
        /\ t.fallback = b.fallback /\ t.acks = b.acks
    BY <1>1 DEF Sound, BookShape
  <1>5. rest \in Parked /\ rest.id = id
    <2>1. o.signed \in Int
      BY DEF Orders
    <2>. QED BY <2>1, <1>2, SignedBack DEF Parked
  <1>. HIDE DEF rest
  <1>6. b.resting \in Seq(Parked) /\ Append(b.resting, rest) \in Seq(Parked)
    BY <1>5 DEF Sound, BookShape
  <1>7. /\ c \in BookShape /\ c.net = b.net /\ c.slices = b.slices /\ c.active = t.active
        /\ c.fallback = b.fallback /\ c.acks = b.acks /\ c.resting = Append(b.resting, rest)
    BY <1>1, <1>3, <1>4, <1>6 DEF BookShape
  <1>8. /\ DOMAIN c.resting = 1 .. (Len(b.resting) + 1) /\ Len(b.resting) \in Nat
        /\ DOMAIN b.resting = 1 .. Len(b.resting)
        /\ \A i \in 1 .. Len(b.resting) : c.resting[i] = b.resting[i]
        /\ c.resting[Len(b.resting) + 1] = rest
    BY <1>6, <1>7
  <1>9. \A i \in 1 .. Len(b.resting) : /\ b.resting[i].id \in DOMAIN b.active
                                       /\ OrderOwnsOneSlice(b.active[b.resting[i].id])
    BY <1>8 DEF Sound, Rests, RestOwned
  <1>10. AddsUp(c) /\ Tracked(c)
    BY <1>1, <1>7 DEF Sound, AddsUp, Tracked
  <1>11. AcksKnown(c) /\ AcksOwned(c)
    <2>1. ASSUME NEW i \in DOMAIN c.acks PROVE c.acks[i].id \in DOMAIN c.active /\ AckOwned(c, i)
      <3>1. b.acks[i].id \in DOMAIN b.active /\ AckOwned(b, i) /\ c.acks[i] = b.acks[i]
        BY <1>7 DEF Sound, AcksKnown, AcksOwned
      <3>. QED BY <3>1, <1>1, <1>7 DEF AckOwned
    <2>. QED BY <2>1 DEF AcksKnown, AcksOwned
  <1>12. RestOwned(c)
    <2>. SUFFICES ASSUME NEW i \in DOMAIN c.resting
                  PROVE  c.resting[i].id \in DOMAIN c.active /\ OrderOwnsOneSlice(c.active[c.resting[i].id])
      BY DEF RestOwned
    <2>1. CASE i \in 1 .. Len(b.resting)
      BY <2>1, <1>1, <1>7, <1>8, <1>9
    <2>2. CASE i = Len(b.resting) + 1
      BY <2>2, <1>1, <1>5, <1>7, <1>8
    <2>. QED BY <2>1, <2>2, <1>8
  <1>13. RestOnce(c)
    <2>1. \A i, j \in 1 .. Len(b.resting) : b.resting[i].id = b.resting[j].id => i = j
      BY <1>8 DEF Sound, Rests, RestOnce
    <2>2. \A i \in 1 .. Len(b.resting) : c.resting[i].id # id
      BY <1>2, <1>8, <1>9
    <2>. SUFFICES ASSUME NEW i \in DOMAIN c.resting, NEW j \in DOMAIN c.resting,
                         c.resting[i].id = c.resting[j].id
                  PROVE  i = j
      BY DEF RestOnce
    <2>3. CASE i \in 1 .. Len(b.resting) /\ j \in 1 .. Len(b.resting)
      BY <2>1, <2>3, <1>8
    <2>4. CASE i = Len(b.resting) + 1 /\ j \in 1 .. Len(b.resting)
      BY <2>2, <2>4, <1>5, <1>8
    <2>5. CASE i \in 1 .. Len(b.resting) /\ j = Len(b.resting) + 1
      BY <2>2, <2>5, <1>5, <1>8
    <2>6. CASE i = Len(b.resting) + 1 /\ j = Len(b.resting) + 1
      BY <2>6
    <2>. QED BY <2>3, <2>4, <2>5, <2>6, <1>8
  <1>14. RestOpen(c)
    <2>. SUFFICES ASSUME NEW i \in DOMAIN c.acks, NEW j \in DOMAIN c.resting, Ended(c.acks[i])
                  PROVE  c.acks[i].id # c.resting[j].id
      BY DEF RestOpen
    <2>1. CASE j \in 1 .. Len(b.resting)
      BY <2>1, <1>7, <1>8 DEF Sound, Rests, RestOpen
    <2>2. CASE j = Len(b.resting) + 1
      BY <2>2, <1>2, <1>5, <1>7, <1>8 DEF Sound, AcksKnown
    <2>. QED BY <2>1, <2>2, <1>8
  <1>. QED BY <1>7, <1>10, <1>11, <1>12, <1>13, <1>14 DEF Sound, Rests, c

\* An entry rests or goes to market under its own slice.
LEMMA EntrySound ==
    ASSUME NEW b, Sound(b), NEW o \in Orders, OrderOwnsOneSlice(o), NEW rests, NEW filled
    PROVE  Sound(EntryOrder(b, o, rests, filled))
  <1>1. Sound(SubmitPassive(b, o))
    BY PassiveSound
  <1>2. Sound(SubmitMarket(b, o, filled))
    BY MarketSound
  <1>. QED BY <1>1, <1>2 DEF EntryOrder

\* A poll for what a reversal sent.
LEMMA NewSettled ==
    ASSUME now \in Int, NEW b, Sound(b), NEW known
    PROVE  Sound(SettleNew(b, known))
  BY SoundSettled, Forgotten DEF SettleNew

\* Two sequences, one after the other.
LEMMA Joined ==
    ASSUME NEW T, NEW p \in Seq(T), NEW q \in Seq(T)
    PROVE  /\ Len(p \o q) = Len(p) + Len(q) /\ Len(p) \in Nat /\ DOMAIN p = 1 .. Len(p)
           /\ DOMAIN (p \o q) = 1 .. Len(p \o q)
  OBVIOUS

\* A cancelled order is answered, and the book is settled with it.
LEMMA CancelSound ==
    ASSUME now \in Int, NEW b, Sound(b)
    PROVE  Sound(CancelResting(b))
  <1>. DEFINE n == Len(b.resting)
              gone == [i \in DOMAIN b.resting |-> Ack(b.resting[i].id, "CANCELLED", 0)]
              c == [b EXCEPT !.resting = <<>>, !.acks = b.acks \o gone]
  <1>1. /\ b \in BookShape /\ b.acks \in Seq(Answered) /\ b.resting \in Seq(Parked)
        /\ n \in Nat /\ DOMAIN b.resting = 1 .. n
    BY DEF Sound, BookShape
  <1>2. gone \in Seq(Answered) /\ Len(gone) = n
        /\ \A i \in 1 .. n : gone[i].id = b.resting[i].id /\ gone[i].status = "CANCELLED"
    <2>1. \A i \in 1 .. n : b.resting[i].id \in Nat
      <3>1. \A i \in 1 .. n : b.resting[i] \in Parked
        BY <1>1
      <3>. QED BY <3>1 DEF Parked
    <2>2. ASSUME NEW i \in 1 .. n
          PROVE /\ gone[i] \in Answered /\ gone[i].id = b.resting[i].id
                /\ gone[i].status = "CANCELLED"
      <3>1. gone[i] = Ack(b.resting[i].id, "CANCELLED", 0)
        BY <1>1
      <3>. HIDE DEF gone
      <3>. QED BY <3>1, <2>1 DEF Ack, Answered, Statuses
    <2>3. gone \in [1 .. n -> Answered]
      BY <2>2, <1>1
    <2>. HIDE DEF gone
    <2>. QED BY <2>2, <2>3, <1>1
  <1>3. CancelResting(b) = Forget(SettleAcks(c, DOMAIN b.active))
    BY DEF CancelResting
  <1>. HIDE DEF gone
  <1>4. /\ c \in BookShape /\ c.net = b.net /\ c.slices = b.slices /\ c.active = b.active
        /\ c.fallback = b.fallback /\ c.acks = b.acks \o gone /\ c.resting = <<>>
    <2>1. b.acks \o gone \in Seq(Answered) /\ <<>> \in Seq(Parked)
      BY <1>1, <1>2
    <2>. QED BY <2>1, <1>1 DEF BookShape
  <1>. HIDE DEF c
  <1>5. ASSUME NEW i \in DOMAIN c.acks PROVE c.acks[i].id \in DOMAIN c.active /\ AckOwned(c, i)
    <2>1. /\ Len(b.acks) \in Nat /\ DOMAIN b.acks = 1 .. Len(b.acks)
          /\ i \in 1 .. (Len(b.acks) + n)
      <3>. DEFINE p == b.acks
                  q == c.acks
      <3>1. p \in Seq(Answered) /\ gone \in Seq(Answered) /\ q = p \o gone /\ Len(gone) = n
        BY <1>1, <1>2, <1>4
      <3>. HIDE DEF p, q, n
      <3>2. Len(q) = Len(p) + n /\ DOMAIN q = 1 .. Len(q) /\ DOMAIN p = 1 .. Len(p) /\ Len(p) \in Nat
        BY <3>1, Joined
      <3>. QED BY <3>2 DEF p, q
    <2>2. CASE i \in 1 .. Len(b.acks)
      <3>1. c.acks[i] = b.acks[i] /\ i \in DOMAIN b.acks
        BY <2>1, <2>2, <1>1, <1>2, <1>4
      <3>2. b.acks[i].id \in DOMAIN b.active /\ AckOwned(b, i)
        BY <3>1 DEF Sound, AcksKnown, AcksOwned
      <3>. QED BY <3>1, <3>2, <1>4 DEF AckOwned
    <2>3. CASE i \notin 1 .. Len(b.acks)
      <3>1. i - Len(b.acks) \in 1 .. n /\ c.acks[i] = gone[i - Len(b.acks)]
        BY <2>1, <2>3, <1>1, <1>2, <1>4
      <3>2. PICK j \in 1 .. n : c.acks[i] = gone[j]
        BY <3>1
      <3>3. c.acks[i].id = b.resting[j].id /\ c.acks[i].status = "CANCELLED"
        BY <3>2, <1>2
      <3>4. b.resting[j].id \in DOMAIN b.active
        BY <1>1 DEF Sound, Rests, RestOwned
      <3>. QED BY <3>3, <3>4, <1>4 DEF AckOwned, Fill
    <2>. QED BY <2>2, <2>3
  <1>6. AddsUp(c) /\ Tracked(c) /\ AcksKnown(c) /\ AcksOwned(c)
    BY <1>4, <1>5 DEF Sound, AddsUp, Tracked, AcksKnown, AcksOwned
  <1>7. Rests(c)
    BY <1>4 DEF Rests, RestOwned, RestOnce, RestOpen
  <1>8. Sound(c)
    BY <1>4, <1>6, <1>7 DEF Sound
  <1>. QED BY <1>3, <1>8, SoundSettled, Forgotten

-----------------------------------------------------------------------------
(***************************************************************************)
(* What a quote decides at the router.                                     *)
(***************************************************************************)
Deciding(d, k, x) ==
    /\ x \in BookShape /\ x.net = d.net /\ x.slices = d.slices
    /\ x.active = d.active /\ x.fallback = d.fallback
    /\ AcksKnown(x) /\ AcksOwned(x) /\ RestOnce(x)
    /\ \A i \in DOMAIN x.resting : \E j \in 1 .. k : x.resting[i].id = d.resting[j].id
    /\ \A i \in DOMAIN x.acks : Ended(x.acks[i]) =>
          /\ \A j \in DOMAIN x.resting : x.acks[i].id # x.resting[j].id
          /\ \A j \in (k + 1) .. Len(d.resting) : x.acks[i].id # d.resting[j].id

Decide == INSTANCE FoldTheorems WITH Step <- Answer, Good <- Deciding

Answering(x, ack) == [x EXCEPT !.acks = Append(x.acks, ack)]
Keeping(y, r) == [y EXCEPT !.resting = Append(y.resting, r)]

\* A sequence with one more element.
LEMMA Longer ==
    ASSUME NEW T, NEW s \in Seq(T), NEW e \in T
    PROVE  /\ Append(s, e) \in Seq(T) /\ Len(s) \in Nat /\ DOMAIN s = 1 .. Len(s)
           /\ DOMAIN Append(s, e) = 1 .. (Len(s) + 1)
           /\ \A i \in 1 .. Len(s) : Append(s, e)[i] = s[i]
           /\ Append(s, e)[Len(s) + 1] = e
  OBVIOUS

\* An answer for the order under decision.
Heard(d, k, x, ack, y) ==
    /\ y \in BookShape /\ y.net = d.net /\ y.slices = d.slices /\ y.resting = x.resting
    /\ y.active = d.active /\ y.fallback = d.fallback
    /\ AcksKnown(y) /\ AcksOwned(y)
    /\ \A i \in DOMAIN y.acks : Ended(y.acks[i]) =>
          /\ \A j \in DOMAIN x.resting : y.acks[i].id # x.resting[j].id
          /\ \A j \in (k + 2) .. Len(d.resting) : y.acks[i].id # d.resting[j].id
    /\ ~Ended(ack) =>
          \A i \in DOMAIN y.acks : Ended(y.acks[i]) => y.acks[i].id # d.resting[k + 1].id

\* An answer to a resting order is kept with the order it is for.
LEMMA AnswerAdded ==
    ASSUME NEW d, Sound(d), NEW k \in 0 .. (Len(d.resting) - 1), NEW x, Deciding(d, k, x),
           NEW ack \in Answered, ack.id = d.resting[k + 1].id, NEW y,
           y = Answering(x, ack)
    PROVE  Heard(d, k, x, ack, y)
  <1>1. /\ x \in BookShape /\ x.net = d.net /\ x.slices = d.slices
        /\ x.active = d.active /\ x.fallback = d.fallback
        /\ AcksKnown(x) /\ AcksOwned(x)
        /\ \A i \in DOMAIN x.resting : \E j \in 1 .. k : x.resting[i].id = d.resting[j].id
        /\ \A i \in DOMAIN x.acks : Ended(x.acks[i]) =>
              /\ \A j \in DOMAIN x.resting : x.acks[i].id # x.resting[j].id
              /\ \A j \in (k + 1) .. Len(d.resting) : x.acks[i].id # d.resting[j].id
    BY DEF Deciding
  <1>2. d.resting \in Seq(Parked)
    BY DEF Sound, BookShape
  <1>3. PICK n \in Nat : n = Len(d.resting) /\ DOMAIN d.resting = 1 .. n
    BY <1>2
  <1>4. k \in Nat /\ k + 1 \in 1 .. n /\ k <= n - 1
    BY <1>3
  <1>5. ack.id \in DOMAIN d.active /\ OrderOwnsOneSlice(d.active[ack.id])
    BY <1>3, <1>4 DEF Sound, Rests, RestOwned
  <1>6. x.acks \in Seq(Answered)
    BY <1>1 DEF BookShape
  <1>7. /\ Append(x.acks, ack) \in Seq(Answered) /\ Len(x.acks) \in Nat
        /\ DOMAIN x.acks = 1 .. Len(x.acks) /\ DOMAIN Append(x.acks, ack) = 1 .. (Len(x.acks) + 1)
        /\ \A i \in 1 .. Len(x.acks) : Append(x.acks, ack)[i] = x.acks[i]
        /\ Append(x.acks, ack)[Len(x.acks) + 1] = ack
    BY <1>6, Longer
  <1>8. /\ y \in BookShape /\ y.net = x.net /\ y.slices = x.slices /\ y.resting = x.resting
        /\ y.active = x.active /\ y.fallback = x.fallback /\ y.acks = Append(x.acks, ack)
    BY <1>1, <1>7 DEF BookShape, Answering
  <1>9. \A i \in 1 .. Len(x.acks) : y.acks[i].id \in DOMAIN y.active /\ AckOwned(y, i)
    BY <1>1, <1>7, <1>8 DEF AcksKnown, AcksOwned, AckOwned
  <1>10. AcksKnown(y) /\ AcksOwned(y)
    <2>1. DOMAIN y.acks = 1 .. (Len(x.acks) + 1) /\ y.acks[Len(x.acks) + 1] = ack
      BY <1>7, <1>8
    <2>2. ASSUME NEW i \in DOMAIN y.acks PROVE y.acks[i].id \in DOMAIN y.active /\ AckOwned(y, i)
      <3>1. CASE i \in 1 .. Len(x.acks)
        BY <3>1, <1>9
      <3>2. CASE i = Len(x.acks) + 1
        BY <3>2, <2>1, <1>1, <1>5, <1>8 DEF AckOwned
      <3>. QED BY <3>1, <3>2, <2>1, <1>7
    <2>. QED BY <2>2 DEF AcksKnown, AcksOwned
  <1>11. \A i, j \in DOMAIN d.resting : d.resting[i].id = d.resting[j].id => i = j
    BY DEF Sound, Rests, RestOnce
  <1>12. \A j \in DOMAIN x.resting : ack.id # x.resting[j].id
    <2>. SUFFICES ASSUME NEW j \in DOMAIN x.resting, ack.id = x.resting[j].id PROVE FALSE
      OBVIOUS
    <2>1. PICK i \in 1 .. k : x.resting[j].id = d.resting[i].id
      BY <1>1
    <2>2. i \in 1 .. n /\ i # k + 1
      BY <1>4
    <2>. QED BY <2>1, <2>2, <1>3, <1>4, <1>11
  <1>13. \A j \in (k + 2) .. n : ack.id # d.resting[j].id
    <2>. SUFFICES ASSUME NEW j \in (k + 2) .. n, ack.id = d.resting[j].id PROVE FALSE
      OBVIOUS
    <2>1. j \in 1 .. n /\ j # k + 1
      BY <1>4
    <2>. QED BY <2>1, <1>3, <1>4, <1>11
  <1>14. \A j \in (k + 2) .. n : j \in (k + 1) .. n
    BY <1>4
  <1>15. ASSUME NEW i \in DOMAIN y.acks, Ended(y.acks[i])
         PROVE  /\ \A j \in DOMAIN x.resting : y.acks[i].id # x.resting[j].id
                /\ \A j \in (k + 2) .. n : y.acks[i].id # d.resting[j].id
                /\ ~Ended(ack) => y.acks[i].id # d.resting[k + 1].id
    <2>1. CASE i \in 1 .. Len(x.acks)
      <3>1. y.acks[i] = x.acks[i] /\ i \in DOMAIN x.acks /\ Ended(x.acks[i]) /\ k + 1 \in (k + 1) .. n
        BY <2>1, <1>4, <1>7, <1>8, <1>15
      <3>. QED BY <3>1, <1>1, <1>3, <1>14
    <2>2. CASE i = Len(x.acks) + 1
      <3>1. y.acks[i] = ack
        BY <2>2, <1>7, <1>8
      <3>. QED BY <3>1, <1>12, <1>13, <1>15
    <2>. QED BY <2>1, <2>2, <1>7, <1>8
  <1>. QED BY <1>1, <1>3, <1>8, <1>10, <1>15 DEF Heard

\* The order under decision stays at the router.
LEMMA RestKept ==
    ASSUME NEW d, Sound(d), NEW k \in 0 .. (Len(d.resting) - 1), NEW x, Deciding(d, k, x),
           NEW y \in BookShape, y.net = d.net, y.slices = d.slices, y.resting = x.resting,
           y.active = d.active, y.fallback = d.fallback, AcksKnown(y), AcksOwned(y),
           \A i \in DOMAIN y.acks : Ended(y.acks[i]) =>
              /\ \A j \in DOMAIN x.resting : y.acks[i].id # x.resting[j].id
              /\ \A j \in (k + 2) .. Len(d.resting) : y.acks[i].id # d.resting[j].id
              /\ y.acks[i].id # d.resting[k + 1].id,
           NEW r \in Parked, r.id = d.resting[k + 1].id, NEW z,
           z = Keeping(y, r)
    PROVE  Deciding(d, k + 1, z)
  <1>1. /\ x \in BookShape /\ RestOnce(x)
        /\ \A i \in DOMAIN x.resting : \E j \in 1 .. k : x.resting[i].id = d.resting[j].id
    BY DEF Deciding
  <1>2. d.resting \in Seq(Parked) /\ y.resting \in Seq(Parked)
    BY DEF Sound, BookShape
  <1>3. PICK n \in Nat : n = Len(d.resting) /\ DOMAIN d.resting = 1 .. n
    BY <1>2
  <1>4. k \in Nat /\ k + 1 \in 1 .. n /\ k <= n - 1 /\ (k + 1) + 1 = k + 2
    BY <1>3
  <1>. DEFINE m == Len(y.resting)
  <1>5. /\ Append(y.resting, r) \in Seq(Parked) /\ m \in Nat
        /\ DOMAIN y.resting = 1 .. m /\ DOMAIN Append(y.resting, r) = 1 .. (m + 1)
        /\ \A i \in 1 .. m : Append(y.resting, r)[i] = y.resting[i]
        /\ Append(y.resting, r)[m + 1] = r
    BY <1>2, Longer
  <1>. HIDE DEF m
  <1>6. /\ z \in BookShape /\ z.net = y.net /\ z.slices = y.slices /\ z.acks = y.acks
        /\ z.active = y.active /\ z.fallback = y.fallback /\ z.resting = Append(y.resting, r)
    BY <1>5 DEF BookShape, Keeping
  <1>7. AcksKnown(z) /\ AcksOwned(z)
    BY <1>6 DEF AcksKnown, AcksOwned, AckOwned
  <1>8. \A i, j \in DOMAIN d.resting : d.resting[i].id = d.resting[j].id => i = j
    BY DEF Sound, Rests, RestOnce
  <1>9. \A i \in 1 .. m : z.resting[i] = x.resting[i] /\ i \in DOMAIN x.resting
    BY <1>5, <1>6
  <1>10. \A i \in 1 .. m : z.resting[i].id # r.id
    <2>. SUFFICES ASSUME NEW i \in 1 .. m, z.resting[i].id = r.id PROVE FALSE
      OBVIOUS
    <2>1. PICK j \in 1 .. k : x.resting[i].id = d.resting[j].id
      BY <1>1, <1>9
    <2>2. j \in 1 .. n /\ j # k + 1
      BY <1>4
    <2>. QED BY <2>1, <2>2, <1>3, <1>4, <1>8, <1>9
  <1>11. DOMAIN z.resting = 1 .. (m + 1) /\ z.resting[m + 1] = r
    BY <1>5, <1>6
  <1>12. RestOnce(z)
    <2>. SUFFICES ASSUME NEW i \in 1 .. (m + 1), NEW j \in 1 .. (m + 1),
                         z.resting[i].id = z.resting[j].id
                  PROVE  i = j
      BY <1>11 DEF RestOnce
    <2>1. CASE i \in 1 .. m /\ j \in 1 .. m
      BY <2>1, <1>1, <1>9 DEF RestOnce
    <2>2. CASE i = m + 1 /\ j = m + 1
      BY <2>2
    <2>3. CASE i \in 1 .. m /\ j = m + 1
      BY <2>3, <1>10, <1>11
    <2>4. CASE i = m + 1 /\ j \in 1 .. m
      BY <2>4, <1>10, <1>11
    <2>. QED BY <2>1, <2>2, <2>3, <2>4, <1>5
  <1>13. ASSUME NEW i \in DOMAIN z.resting
         PROVE  \E j \in 1 .. (k + 1) : z.resting[i].id = d.resting[j].id
    <2>1. CASE i \in 1 .. m
      <3>1. PICK j \in 1 .. k : x.resting[i].id = d.resting[j].id
        BY <2>1, <1>1, <1>9
      <3>2. j \in 1 .. (k + 1)
        BY <1>4
      <3>. QED BY <3>1, <3>2, <2>1, <1>9
    <2>2. CASE i = m + 1
      <3>1. k + 1 \in 1 .. (k + 1)
        BY <1>4
      <3>. QED BY <3>1, <2>2, <1>11
    <2>. QED BY <2>1, <2>2, <1>5, <1>11
  <1>14. ASSUME NEW i \in DOMAIN z.acks, Ended(z.acks[i])
         PROVE  /\ \A j \in DOMAIN z.resting : z.acks[i].id # z.resting[j].id
                /\ \A j \in ((k + 1) + 1) .. Len(d.resting) : z.acks[i].id # d.resting[j].id
    <2>1. \A j \in 1 .. m : z.acks[i].id # z.resting[j].id
      BY <1>6, <1>9, <1>14
    <2>2. z.acks[i].id # z.resting[m + 1].id
      BY <1>6, <1>11, <1>14
    <2>3. \A j \in (k + 2) .. Len(d.resting) : z.acks[i].id # d.resting[j].id
      BY <1>6, <1>14
    <2>4. \A j \in ((k + 1) + 1) .. Len(d.resting) : z.acks[i].id # d.resting[j].id
      BY <2>3, <1>4
    <2>5. \A j \in DOMAIN z.resting : z.acks[i].id # z.resting[j].id
      BY <2>1, <2>2, <1>5, <1>11
    <2>. QED BY <2>4, <2>5
  <1>. QED BY <1>6, <1>7, <1>12, <1>13, <1>14 DEF Deciding

\* The router decides one resting order.
LEMMA DecideStep ==
    ASSUME NEW d, Sound(d), NEW fate, NEW k \in 0 .. (Len(d.resting) - 1), NEW x, Deciding(d, k, x)
    PROVE  Deciding(d, k + 1, Answer(fate, x, d.resting[k + 1]))
  <1>. DEFINE r == d.resting[k + 1]
              y == Answer(fate, x, r)
  <1>1. d.resting \in Seq(Parked)
    BY DEF Sound, BookShape
  <1>2. r \in Parked /\ k \in Nat /\ k + 1 <= Len(d.resting) /\ (k + 1) + 1 = k + 2
    BY <1>1
  <1>3. r.id \in Nat /\ r.left \in Int
    BY <1>2 DEF Parked
  <1>4. x \in BookShape /\ RestOnce(x) /\ x.resting \in Seq(Parked) /\ x.acks \in Seq(Answered)
        /\ \A i \in DOMAIN x.resting : \E j \in 1 .. k : x.resting[i].id = d.resting[j].id
    BY DEF Deciding, BookShape
  <1>5. \A j \in 1 .. k : j \in 1 .. (k + 1)
    BY <1>2
  <1>6. ASSUME NEW ack \in Answered, ack.id = r.id, NEW z, z = Answering(x, ack)
        PROVE  Deciding(d, k + 1, z)
    <2>1. /\ z \in BookShape /\ z.net = d.net /\ z.slices = d.slices /\ z.resting = x.resting
          /\ z.active = d.active /\ z.fallback = d.fallback
          /\ AcksKnown(z) /\ AcksOwned(z)
          /\ \A i \in DOMAIN z.acks : Ended(z.acks[i]) =>
                /\ \A j \in DOMAIN x.resting : z.acks[i].id # x.resting[j].id
                /\ \A j \in (k + 2) .. Len(d.resting) : z.acks[i].id # d.resting[j].id
      <3>1. ack.id = d.resting[k + 1].id
        BY <1>6
      <3>. HIDE DEF r, y
      <3>2. Heard(d, k, x, ack, z)
        BY <3>1, <1>6, AnswerAdded
      <3>. QED BY <3>2 DEF Heard
    <2>2. RestOnce(z)
      BY <2>1, <1>4 DEF RestOnce
    <2>3. \A i \in DOMAIN z.resting : \E j \in 1 .. (k + 1) : z.resting[i].id = d.resting[j].id
      BY <2>1, <1>4, <1>5
    <2>. QED BY <2>1, <2>2, <2>3, <1>2 DEF Deciding
  <1>. SUFFICES Deciding(d, k + 1, y)
    OBVIOUS
  <1>7. CASE fate = "fills"
    <2>. DEFINE ack == Ack(r.id, "FILLED", r.left)
    <2>1. y = Answering(x, ack)
      BY <1>7 DEF Answer, Answering
    <2>. HIDE DEF r, y
    <2>2. ack \in Answered /\ ack.id = r.id
      BY <1>3 DEF Ack, Answered, Statuses
    <2>. HIDE DEF ack
    <2>. QED BY <2>1, <2>2, <1>6
  <1>8. CASE fate = "expires"
    <2>. DEFINE ack == Ack(r.id, "CANCELLED", 0)
    <2>1. y = Answering(x, ack)
      BY <1>8 DEF Answer, Answering
    <2>. HIDE DEF r, y
    <2>2. ack \in Answered /\ ack.id = r.id
      BY <1>3 DEF Ack, Answered, Statuses
    <2>. HIDE DEF ack
    <2>. QED BY <2>1, <2>2, <1>6
  <1>9. CASE fate \notin {"fills", "expires"} /\ r.left = 1
    <2>1. y = Keeping(x, r)
      BY <1>9 DEF Answer, Keeping
    <2>2. k + 1 \in (k + 1) .. Len(d.resting) /\ \A j \in (k + 2) .. Len(d.resting) : j \in (k + 1) .. Len(d.resting)
      BY <1>1, <1>2
    <2>3. \A i \in DOMAIN x.acks : Ended(x.acks[i]) =>
              /\ \A j \in DOMAIN x.resting : x.acks[i].id # x.resting[j].id
              /\ \A j \in (k + 2) .. Len(d.resting) : x.acks[i].id # d.resting[j].id
              /\ x.acks[i].id # r.id
      BY <2>2 DEF Deciding
    <2>4. /\ x.net = d.net /\ x.slices = d.slices
          /\ x.active = d.active /\ x.fallback = d.fallback /\ AcksKnown(x) /\ AcksOwned(x)
      BY DEF Deciding
    <2>. HIDE DEF y
    <2>. QED BY <2>1, <2>3, <2>4, <1>2, <1>4, RestKept
  <1>10. CASE fate \notin {"fills", "expires"} /\ r.left # 1
    <2>. DEFINE ack == Ack(r.id, "PARTIALLY_FILLED", 1)
                z == Answering(x, ack)
                s == [r EXCEPT !.left = r.left - 1]
    <2>1. y = Keeping(z, s)
      <3>. DEFINE w == [x EXCEPT !.acks = Append(x.acks, ack), !.resting = Append(x.resting, s)]
      <3>1. y = w
        BY <1>10 DEF Answer
      <3>. HIDE DEF ack, s, r, y
      <3>2. w = Keeping(z, s)
        BY <1>4 DEF BookShape, Answering, Keeping
      <3>. QED BY <3>1, <3>2
    <2>2. ack \in Answered /\ ack.id = r.id /\ ~Ended(ack)
      <3>. HIDE DEF r, y
      <3>. QED BY <1>3 DEF Ack, Answered, Statuses, Ended
    <2>3. s \in Parked /\ s.id = r.id
      <3>. HIDE DEF r, y
      <3>. QED BY <1>2, <1>3 DEF Parked
    <2>4. z = Answering(x, ack)
      OBVIOUS
    <2>. HIDE DEF ack, z, s, y
    <2>5. /\ z \in BookShape /\ z.net = d.net /\ z.slices = d.slices /\ z.resting = x.resting
          /\ z.active = d.active /\ z.fallback = d.fallback
          /\ AcksKnown(z) /\ AcksOwned(z)
          /\ \A i \in DOMAIN z.acks : Ended(z.acks[i]) =>
                /\ \A j \in DOMAIN x.resting : z.acks[i].id # x.resting[j].id
                /\ \A j \in (k + 2) .. Len(d.resting) : z.acks[i].id # d.resting[j].id
          /\ ~Ended(ack) =>
                \A i \in DOMAIN z.acks : Ended(z.acks[i]) => z.acks[i].id # d.resting[k + 1].id
      <3>1. ack.id = d.resting[k + 1].id
        BY <2>2
      <3>. HIDE DEF r
      <3>2. Heard(d, k, x, ack, z)
        BY <3>1, <2>2, <2>4, AnswerAdded
      <3>. QED BY <3>2 DEF Heard
    <2>6. \A i \in DOMAIN z.acks : Ended(z.acks[i]) =>
              /\ \A j \in DOMAIN x.resting : z.acks[i].id # x.resting[j].id
              /\ \A j \in (k + 2) .. Len(d.resting) : z.acks[i].id # d.resting[j].id
              /\ z.acks[i].id # d.resting[k + 1].id
      BY <2>2, <2>5
    <2>7. s.id = d.resting[k + 1].id
      BY <2>3
    <2>. HIDE DEF r
    <2>. QED BY <2>1, <2>3, <2>5, <2>6, <2>7, RestKept
  <1>. QED BY <1>7, <1>8, <1>9, <1>10

\* The router answers what rests, on any quote.
LEMMA QuoteSound ==
    ASSUME NEW b, Sound(b), NEW fate
    PROVE  Sound(RouterOnQuote(b, fate))
  <1>. DEFINE base == [b EXCEPT !.resting = <<>>]
              x == Decide!Fold(fate, base, b.resting)
  <1>1. b.resting \in Seq(Parked) /\ b \in BookShape /\ DOMAIN b.resting = 1 .. Len(b.resting)
        /\ Len(b.resting) \in Nat
    BY DEF Sound, BookShape
  <1>2. Deciding(b, 0, base)
    <2>1. /\ base \in BookShape /\ base.net = b.net /\ base.slices = b.slices /\ base.acks = b.acks
          /\ base.active = b.active /\ base.fallback = b.fallback /\ base.resting = <<>>
      <3>1. <<>> \in Seq(Parked)
        OBVIOUS
      <3>. QED BY <3>1, <1>1 DEF BookShape
    <2>2. AcksKnown(base) /\ AcksOwned(base) /\ RestOnce(base)
      BY <2>1 DEF Sound, AcksKnown, AcksOwned, AckOwned, RestOnce
    <2>3. \A i \in DOMAIN base.acks : Ended(base.acks[i]) =>
             \A j \in (0 + 1) .. Len(b.resting) : base.acks[i].id # b.resting[j].id
      <3>1. \A j \in (0 + 1) .. Len(b.resting) : j \in DOMAIN b.resting
        BY <1>1
      <3>. QED BY <3>1, <2>1 DEF Sound, Rests, RestOpen
    <2>. HIDE DEF base
    <2>. QED BY <2>1, <2>2, <2>3 DEF Deciding
  <1>3. Deciding(b, Len(b.resting), x)
    <2>1. \A c, e, z, T : \A seq \in Seq(T) :
             /\ Deciding(e, 0, z)
             /\ \A k \in 0 .. (Len(seq) - 1) : \A y :
                   Deciding(e, k, y) => Deciding(e, k + 1, Answer(c, y, seq[k + 1]))
             => Deciding(e, Len(seq), Decide!Fold(c, z, seq))
      BY Decide!Keeps
    <2>2. \A k \in 0 .. (Len(b.resting) - 1) : \A y :
              Deciding(b, k, y) => Deciding(b, k + 1, Answer(fate, y, b.resting[k + 1]))
      BY DecideStep
    <2>. HIDE DEF base
    <2>. QED BY <2>1, <2>2, <1>1, <1>2
  <1>4. RouterOnQuote(b, fate) = IF fate = "stays" THEN b ELSE x
    BY DEF RouterOnQuote, FoldLeft, MapThenFoldSet, Max, Decide!Fold, Decide!FoldLeft,
           Decide!MapThenFoldSet, Decide!Max
  <1>. HIDE DEF x
  <1>5. /\ x \in BookShape /\ x.net = b.net /\ x.slices = b.slices
        /\ x.active = b.active /\ x.fallback = b.fallback
        /\ AcksKnown(x) /\ AcksOwned(x) /\ RestOnce(x) /\ RestOpen(x)
        /\ \A i \in DOMAIN x.resting : \E j \in 1 .. Len(b.resting) : x.resting[i].id = b.resting[j].id
    BY <1>3 DEF Deciding, RestOpen
  <1>6. RestOwned(x)
    BY <1>1, <1>5 DEF Sound, Rests, RestOwned
  <1>7. AddsUp(x) /\ Tracked(x)
    BY <1>5 DEF Sound, AddsUp, Tracked
  <1>8. Sound(x)
    BY <1>5, <1>6, <1>7 DEF Sound, Rests
  <1>. QED BY <1>4, <1>8

-----------------------------------------------------------------------------
(***************************************************************************)
(* Forced exits and the controllers that ask for them.                     *)
(***************************************************************************)
LEMMA Sizes == \A x, y \in Int : /\ Abs(x) \in Nat /\ Sign(x) \in Int /\ Sign(x) * y \in Int
                                 /\ Larger(x, y) \in Int /\ Smaller(x, y) \in Int
                                 /\ Closable(x, y) \in Nat /\ (Closable(x, y) # 0 => x # 0)
  BY DEF Abs, Sign, Larger, Smaller, Closable

\* Positions are whole shares.
LEMMA BookTypes ==
    ASSUME NEW b, Sound(b)
    PROVE  /\ b.net.qty \in Int /\ \A s \in Ids : b.slices[s].qty \in Int
           /\ \A s : SliceQty(b, s) \in Int /\ (SliceQty(b, s) # 0 => Held(b.slices))
           /\ b.net.qty # 0 => Held(b.slices)
  <1>1. b.net \in Position /\ b.slices \in Slices /\ b.net.qty = SumOf(HeldBy(b.slices))
    BY DEF Sound, BookShape, AddsUp
  <1>2. b.net.qty \in Int /\ \A s \in Ids : b.slices[s].qty \in Int
    BY <1>1 DEF Position, Slices
  <1>3. \A s : SliceQty(b, s) \in Int /\ (SliceQty(b, s) # 0 => Held(b.slices))
    BY <1>2 DEF SliceQty, Held
  <1>4. b.net.qty # 0 => Held(b.slices)
    BY <1>1, Listed, NetIsHeld
  <1>. QED BY <1>2, <1>3, <1>4

\* What a forced exit without a slice of its own closes, some slice holds.
LEMMA ClosableHeld ==
    ASSUME NEW b, Sound(b), NEW o \in Orders
    PROVE  /\ ForcedExitClosable(b, o) \in Int
           /\ ForcedExitClosable(b, o) # 0 => Held(b.slices)
  <1>. DEFINE held == Closable(b.net.qty, o.signed)
              slice == Closable(SliceQty(b, o.strategy), o.signed)
              room == IF o.reason \in SliceScoped THEN Larger(held, slice) ELSE held
  <1>1. ForcedExitClosable(b, o) = Smaller(Abs(o.signed), room)
    BY DEF ForcedExitClosable
  <1>2. o.signed \in Int /\ b.net.qty \in Int /\ SliceQty(b, o.strategy) \in Int
    BY BookTypes DEF Orders
  <1>3. held \in Nat /\ slice \in Nat /\ (held # 0 => b.net.qty # 0) /\ (slice # 0 => SliceQty(b, o.strategy) # 0)
    BY <1>2, Sizes
  <1>4. (held # 0 => Held(b.slices)) /\ (slice # 0 => Held(b.slices))
    BY <1>3, BookTypes
  <1>5. Abs(o.signed) \in Nat
    BY <1>2, Sizes
  <1>. HIDE DEF held, slice
  <1>6. room \in Nat /\ (room # 0 => held # 0 \/ slice # 0)
    BY <1>3 DEF Larger
  <1>. HIDE DEF room
  <1>7. \A x, y \in Nat : Smaller(x, y) \in Int /\ (Smaller(x, y) # 0 => y # 0)
    BY DEF Smaller
  <1>. QED BY <1>1, <1>4, <1>5, <1>6, <1>7

\* An order of whole shares for a listed id or none.
LEMMA OrderTyped ==
    ASSUME NEW q \in Int, NEW s \in Ids \cup {""}, NEW r \in Reasons
    PROVE  /\ Order(q, s, r) \in Orders /\ Order(q, s, r).signed = q
           /\ s # "" /\ r \notin RiskForced => OrderOwnsOneSlice(Order(q, s, r))
  BY DEF Order, Orders, OrderOwnsOneSlice

\* A forced exit is clamped to what is held when it is sent.
LEMMA ForcedSound ==
    ASSUME now \in Int, NEW b, Sound(b), NEW o \in Orders, NEW filled
    PROVE  Sound(SubmitForcedExit(b, o, filled))
  <1>. DEFINE q == ForcedExitClosable(b, o)
              e == [o EXCEPT !.signed = Sign(o.signed) * q]
  <1>1. q \in Int /\ (q # 0 => Held(b.slices))
    BY ClosableHeld
  <1>2. SubmitForcedExit(b, o, filled) = IF q = 0 THEN b ELSE SubmitAndSettle(b, e, filled)
    BY DEF SubmitForcedExit
  <1>. HIDE DEF q
  <1>3. e \in Orders
    <2>1. Sign(o.signed) * q \in Int
      BY <1>1, Sizes DEF Orders
    <2>. QED BY <2>1 DEF Orders
  <1>. HIDE DEF e
  <1>4. q # 0 => Sound(SubmitAndSettle(b, e, filled))
    BY <1>1, <1>3, SubmittedAndSettled
  <1>. QED BY <1>2, <1>4

\* A controller's requirement, after the cancel that goes before it.
LEMMA ForcedExitSound ==
    ASSUME now \in Int, NEW b, Sound(b), NEW o \in Orders, NEW filled
    PROVE  Sound(OnDeRiskRequirement(b, o, filled))
  <1>1. Sound(CancelledFirst(b))
    BY CancelSound DEF CancelledFirst
  <1>2. Sound(SubmitForcedExit(CancelledFirst(b), o, filled))
    BY <1>1, ForcedSound
  <1>. QED BY <1>2 DEF OnDeRiskRequirement

\* The stop controller.
LEMMA StopSound ==
    ASSUME now \in Int, NEW b, Sound(b), NEW g, NEW triggered, NEW filled
    PROVE  Sound(StopExit(b, g, triggered, "STOP_EXIT", filled)[1])
  <1>. DEFINE o == Order(-b.net.qty, "", "STOP_EXIT")
  <1>1. o \in Orders
    <2>1. -b.net.qty \in Int
      BY BookTypes
    <2>. QED BY <2>1, OrderTyped DEF Reasons, RiskForced
  <1>2. Sound(OnDeRiskRequirement(b, o, filled))
    BY <1>1, ForcedExitSound
  <1>. QED BY <1>2 DEF StopExit

\* The hazard controller, for one policy.
LEMMA HazardSound ==
    ASSUME now \in Int, NEW b, Sound(b), NEW g, NEW s \in Ids,
           NEW reason \in {"HAZARD_SPIKE", "HARD_EXIT_AGE"}, NEW repeat, NEW filled
    PROVE  Sound(HazardExit(b, g, s, reason, repeat, filled)[1])
  <1>. DEFINE o == Order(-b.net.qty, s, reason)
  <1>1. o \in Orders
    <2>1. -b.net.qty \in Int
      BY BookTypes
    <2>. QED BY <2>1, OrderTyped DEF Reasons, RiskForced
  <1>2. Sound(OnDeRiskRequirement(b, o, filled))
    BY <1>1, ForcedExitSound
  <1>. QED BY <1>2 DEF HazardExit

\* The ids are visited in the order they sort.
LEMMA ListedIds == \A k \in 0 .. (Len(SortedIds) - 1) : SortedIds[k + 1] \in Ids
  <1>1. SortedIds \in Seq(Ids)
    BY BookAssumption
  <1>. QED BY <1>1

SoundFirst(d, k, acc) == Sound(acc[1])
Hazards == INSTANCE FoldTheorems WITH Step <- HazardOf, Good <- SoundFirst
Caps == INSTANCE FoldTheorems WITH Step <- CapOf, Good <- SoundFirst

\* The hazard controller, for the policies in the order their ids sort.
LEMMA HazardsSound ==
    ASSUME now \in Int, NEW b, Sound(b), NEW g,
           NEW reason \in {"HAZARD_SPIKE", "HARD_EXIT_AGE"}, NEW filled
    PROVE  Sound(HazardExits(b, g, reason, filled)[1])
  <1>. DEFINE event == [reason |-> reason, filled |-> filled]
              base == <<b, g, FALSE>>
  <1>1. HazardExits(b, g, reason, filled) = Hazards!Fold(event, base, SortedIds)
    BY DEF HazardExits, FoldLeft, MapThenFoldSet, Max, Hazards!Fold, Hazards!FoldLeft,
           Hazards!MapThenFoldSet, Hazards!Max
  <1>2. event.reason = reason /\ event.filled = filled /\ base[1] = b
    OBVIOUS
  <1>. HIDE DEF event, base
  <1>3. ASSUME NEW k \in 0 .. (Len(SortedIds) - 1), NEW acc, Sound(acc[1])
        PROVE  Sound(HazardOf(event, acc, SortedIds[k + 1])[1])
    <2>1. SortedIds[k + 1] \in Ids
      BY ListedIds
    <2>2. Sound(HazardExit(acc[1], acc[2], SortedIds[k + 1], reason, acc[3], filled)[1])
      BY <2>1, <1>3, HazardSound
    <2>. QED BY <2>2, <1>2, <1>3 DEF HazardOf
  <1>4. \A c, e, z, T : \A seq \in Seq(T) :
           /\ SoundFirst(e, 0, z)
           /\ \A k \in 0 .. (Len(seq) - 1) : \A y :
                 SoundFirst(e, k, y) => SoundFirst(e, k + 1, HazardOf(c, y, seq[k + 1]))
           => SoundFirst(e, Len(seq), Hazards!Fold(c, z, seq))
    BY Hazards!Keeps
  <1>5. SortedIds \in Seq(Ids)
    BY BookAssumption
  <1>6. \A k \in 0 .. (Len(SortedIds) - 1) : \A y :
           SoundFirst(0, k, y) => SoundFirst(0, k + 1, HazardOf(event, y, SortedIds[k + 1]))
    BY <1>3 DEF SoundFirst
  <1>7. SoundFirst(0, 0, base)
    BY <1>2 DEF SoundFirst
  <1>8. SoundFirst(0, Len(SortedIds), Hazards!Fold(event, base, SortedIds))
    BY <1>4, <1>5, <1>6, <1>7
  <1>. QED BY <1>1, <1>8 DEF SoundFirst

\* The composer closes a slice.
LEMMA FlattenSound ==
    ASSUME now \in Int, NEW b, Sound(b), NEW g, NEW s \in Ids,
           NEW reason \in {"SAFETY_FAIL_CLOSED", "DECOUPLING_REVOKED"}, NEW filled
    PROVE  Sound(EmitFlattenOrder(b, g, s, reason, filled)[1])
  <1>. DEFINE o == Order(-b.slices[s].qty, s, reason)
  <1>1. o \in Orders
    <2>1. -b.slices[s].qty \in Int
      BY BookTypes
    <2>. QED BY <2>1, OrderTyped DEF Reasons, RiskForced
  <1>2. Sound(OnDeRiskRequirement(b, o, filled))
    BY <1>1, ForcedExitSound
  <1>. QED BY <1>2 DEF EmitFlattenOrder

\* The composer hears of a change of safety.
LEMMA ComposerSound ==
    ASSUME now \in Int, NEW b, Sound(b), NEW g, NEW s \in Ids, NEW safety, NEW filled
    PROVE  Sound(ComposerOnSafety(b, g, s, safety, filled)[1])
  BY FlattenSound DEF ComposerOnSafety

\* The deferral cap, for one slice.
LEMMA CapSound ==
    ASSUME now \in Int, NEW b, Sound(b), NEW g, NEW s \in Ids, NEW filled
    PROVE  Sound(CapOnTrade(b, g, s, filled)[1])
  <1>. DEFINE reason == EpisodeDeadline(b.slices[s].opened, g.anchor[s][2])[2]
              o == Order(-b.slices[s].qty, s, reason)
  <1>1. reason \in Reasons
    BY DEF EpisodeDeadline, Reasons, RiskForced
  <1>2. o \in Orders
    <2>1. -b.slices[s].qty \in Int
      BY BookTypes
    <2>. HIDE DEF reason
    <2>. QED BY <2>1, <1>1, OrderTyped
  <1>. HIDE DEF o
  <1>3. Sound(OnDeRiskRequirement(b, o, filled))
    BY <1>2, ForcedExitSound
  <1>. QED BY <1>3 DEF CapOnTrade, o

\* The deferral cap, for the slices in the order their ids sort.
LEMMA CapsSound ==
    ASSUME now \in Int, NEW b, Sound(b), NEW g, NEW filled
    PROVE  Sound(CapsOnTrade(b, g, filled)[1])
  <1>. DEFINE base == <<b, g>>
  <1>1. CapsOnTrade(b, g, filled) = Caps!Fold(filled, base, SortedIds)
    BY DEF CapsOnTrade, FoldLeft, MapThenFoldSet, Max, Caps!Fold, Caps!FoldLeft,
           Caps!MapThenFoldSet, Caps!Max
  <1>2. base[1] = b
    OBVIOUS
  <1>. HIDE DEF base
  <1>3. ASSUME NEW k \in 0 .. (Len(SortedIds) - 1), NEW acc, Sound(acc[1])
        PROVE  Sound(CapOf(filled, acc, SortedIds[k + 1])[1])
    <2>1. SortedIds[k + 1] \in Ids
      BY ListedIds
    <2>2. Sound(CapOnTrade(acc[1], acc[2], SortedIds[k + 1], filled)[1])
      BY <2>1, <1>3, CapSound
    <2>. QED BY <2>2, <1>3 DEF CapOf
  <1>4. \A c, e, z, T : \A seq \in Seq(T) :
           /\ SoundFirst(e, 0, z)
           /\ \A k \in 0 .. (Len(seq) - 1) : \A y :
                 SoundFirst(e, k, y) => SoundFirst(e, k + 1, CapOf(c, y, seq[k + 1]))
           => SoundFirst(e, Len(seq), Caps!Fold(c, z, seq))
    BY Caps!Keeps
  <1>5. SortedIds \in Seq(Ids)
    BY BookAssumption
  <1>6. \A k \in 0 .. (Len(SortedIds) - 1) : \A y :
           SoundFirst(0, k, y) => SoundFirst(0, k + 1, CapOf(filled, y, SortedIds[k + 1]))
    BY <1>3 DEF SoundFirst
  <1>7. SoundFirst(0, 0, base)
    BY <1>2 DEF SoundFirst
  <1>8. SoundFirst(0, Len(SortedIds), Caps!Fold(filled, base, SortedIds))
    BY <1>4, <1>5, <1>6, <1>7
  <1>. QED BY <1>1, <1>8 DEF SoundFirst

\* A working exit's order that ended short of its size goes to market.
SoundAt(d, k, x) == Sound(x)
Escalations == INSTANCE FoldTheorems WITH Step <- Escalate, Good <- SoundAt

\* The market order behind a working exit names the fallback's own slice.
LEMMA EscalateSound ==
    ASSUME NEW polled, polled.active \in Maps(Orders), NEW x, Sound(x), NEW ack \in Answered,
           ack.id \in DOMAIN polled.active
    PROVE  Sound(Escalate(polled, x, ack))
  <1>. DEFINE o == polled.active[ack.id]
              residual == Abs(o.signed) - x.fallback[ack.id]
              short == Order(Sign(o.signed) * residual, "__working_exit_fallback__",
                             "WORKING_EXIT_FALLBACK")
  <1>1. o \in Orders
    <2>. DEFINE f == polled.active
    <2>1. f \in Maps(Orders) /\ ack.id \in DOMAIN f
      OBVIOUS
    <2>. HIDE DEF f
    <2>2. f[ack.id] \in Orders
      BY <2>1, MapsAre
    <2>. QED BY <2>2 DEF f
  <1>2. CASE ack.status = "CANCELLED" /\ ack.id \in DOMAIN x.fallback /\ residual > 0
    <2>1. x.fallback \in Maps(Int)
      BY DEF Sound, BookShape
    <2>2. x.fallback[ack.id] \in Int
      <3>. DEFINE f == x.fallback
      <3>1. f \in Maps(Int) /\ ack.id \in DOMAIN f
        BY <1>2, <2>1
      <3>. HIDE DEF f
      <3>2. PICK S \in SUBSET Nat : f \in [S -> Int]
        BY <3>1 DEF Maps
      <3>3. f[ack.id] \in Int
        BY <3>1, <3>2
      <3>. QED BY <3>3 DEF f
    <2>3. o.signed \in Int
      BY <1>1 DEF Orders
    <2>. HIDE DEF o
    <2>4. residual \in Int
      <3>1. Abs(o.signed) \in Nat
        BY <2>3, Sizes
      <3>. QED BY <2>2, <3>1
    <2>. HIDE DEF residual
    <2>4a. Sign(o.signed) * residual \in Int
      BY <2>3, <2>4, Sizes
    <2>5. /\ short \in Orders /\ short.strategy = "__working_exit_fallback__"
          /\ short.reason = "WORKING_EXIT_FALLBACK"
      BY <2>4, <2>4a, BookAssumption, OrderTyped DEF Reasons, Order
    <2>6. OrderOwnsOneSlice(short)
      BY <2>5 DEF OrderOwnsOneSlice, RiskForced
    <2>. HIDE DEF short
    <2>7. Sound(SubmitMarket(x, short, polled.filled))
      BY <2>5, <2>6, MarketSound
    <2>. QED BY <1>2, <2>7 DEF Escalate, residual, short, o
  <1>3. CASE ~(ack.status = "CANCELLED" /\ ack.id \in DOMAIN x.fallback /\ residual > 0)
    BY <1>3 DEF Escalate
  <1>. QED BY <1>2, <1>3

\* The drain books what came in late and escalates what ended short.
LEMMA DrainSound ==
    ASSUME now \in Int, NEW b, Sound(b), NEW filled
    PROVE  Sound(DrainAsyncFills(b, filled))
  <1>. DEFINE polled == [active |-> b.active, filled |-> filled]
              settled == SettleAcks(b, DOMAIN b.active)
  <1>1. EscalateUnfilledWorkingExits(b, b.acks, filled)
            = Forget(Escalations!Fold(polled, settled, b.acks))
    BY DEF EscalateUnfilledWorkingExits, FoldLeft, MapThenFoldSet, Max, Escalations!Fold,
           Escalations!FoldLeft, Escalations!MapThenFoldSet, Escalations!Max
  <1>2. polled.active = b.active /\ polled.active \in Maps(Orders)
    BY DEF Sound, BookShape
  <1>3. Sound(settled)
    BY SoundSettled
  <1>4. b.acks \in Seq(Answered) /\ DOMAIN b.acks = 1 .. Len(b.acks)
    BY DEF Sound, BookShape
  <1>. HIDE DEF polled, settled
  <1>5. ASSUME NEW k \in 0 .. (Len(b.acks) - 1), NEW x, SoundAt(0, k, x)
        PROVE  SoundAt(0, k + 1, Escalate(polled, x, b.acks[k + 1]))
    <2>1. k + 1 \in DOMAIN b.acks
      BY <1>4
    <2>2. b.acks[k + 1] \in Answered /\ b.acks[k + 1].id \in DOMAIN polled.active
      BY <1>2, <1>4, <2>1 DEF Sound, AcksKnown
    <2>. DEFINE ack == b.acks[k + 1]
    <2>3. ack \in Answered /\ ack.id \in DOMAIN polled.active
      BY <2>2
    <2>. HIDE DEF ack
    <2>4. Sound(Escalate(polled, x, ack))
      BY <1>2, <1>5, <2>3, EscalateSound DEF SoundAt
    <2>. QED BY <2>4 DEF ack, SoundAt
  <1>6. \A c, e, z, T : \A seq \in Seq(T) :
           /\ SoundAt(e, 0, z)
           /\ \A k \in 0 .. (Len(seq) - 1) : \A y :
                 SoundAt(e, k, y) => SoundAt(e, k + 1, Escalate(c, y, seq[k + 1]))
           => SoundAt(e, Len(seq), Escalations!Fold(c, z, seq))
    BY Escalations!Keeps
  <1>7. SoundAt(0, 0, settled)
    BY <1>3 DEF SoundAt
  <1>8. SoundAt(0, Len(b.acks), Escalations!Fold(polled, settled, b.acks))
    BY <1>4, <1>5, <1>6, <1>7
  <1>9. Sound(Forget(Escalations!Fold(polled, settled, b.acks)))
    BY <1>8, Forgotten DEF SoundAt
  <1>. QED BY <1>1, <1>9 DEF DrainAsyncFills

\* The flatten on a degraded feed and the emergency flatten close what the
\* symbol holds, whoever holds it.
LEMMA NetHeld ==
    ASSUME NEW b, Sound(b), b.net.qty # 0
    PROVE  Held(b.slices)
  <1>1. b.slices \in Slices /\ SumOf(HeldBy(b.slices)) # 0
    BY DEF Sound, BookShape, AddsUp
  <1>. QED BY <1>1, Listed, NetIsHeld

\* The flatten on a degraded feed and the emergency flatten.
LEMMA FlattenNetSound ==
    ASSUME now \in Int, NEW b, Sound(b), NEW filled,
           NEW strategy \in Ids, NEW reason \in {"DATA_HEALTH", "FORCE_FLATTEN"}
    PROVE  Sound(FlattenNet(b, strategy, reason, filled))
  <1>1. CASE b.net.qty # 0
    <2>. DEFINE o == Order(-b.net.qty, strategy, reason)
    <2>1. o \in Orders
      <3>1. -b.net.qty \in Int
        BY BookTypes
      <3>. QED BY <3>1, OrderTyped DEF Reasons
    <2>. HIDE DEF o
    <2>2. Sound(SubmitAndSettle(b, o, filled))
      BY <1>1, <2>1, NetHeld, SubmittedAndSettled
    <2>. QED BY <1>1, <2>2 DEF FlattenNet, o
  <1>2. CASE b.net.qty = 0
    BY <1>2 DEF FlattenNet
  <1>. QED BY <1>1, <1>2

-----------------------------------------------------------------------------
(***************************************************************************)
(* A standalone signal: what the planner and the risk engine hand over are *)
(* numbers, and every order it sends names the slice it is for.            *)
(***************************************************************************)
\* What a plan trades is the quantity of its one leg, or of its two.
LEMMA LegsCounted ==
    /\ TotalQuantity(<< >>) = 0
    /\ \A l : TotalQuantity(<<l>>) = l.quantity
    /\ \A l, m : TotalQuantity(<<l, m>>) = l.quantity + m.quantity
  <1>1. ASSUME NEW l PROVE TotalQuantity(<<l>>) = l.quantity
    <2>1. Len(<<l>>) = 1 /\ <<l>>[1] = l
      OBVIOUS
    <2>. QED BY <2>1 DEF TotalQuantity
  <1>2. ASSUME NEW l, NEW m PROVE TotalQuantity(<<l, m>>) = l.quantity + m.quantity
    <2>1. Len(<<l, m>>) = 2 /\ <<l, m>>[1] = l /\ <<l, m>>[2] = m
      OBVIOUS
    <2>. QED BY <2>1 DEF TotalQuantity
  <1>3. TotalQuantity(<< >>) = 0
    <2>1. Len(<< >>) = 0
      OBVIOUS
    <2>. QED BY <2>1 DEF TotalQuantity
  <1>. QED BY <1>1, <1>2, <1>3

Legs(plan, held, eff, d) ==
    \E n1, n2, s1, s2, y1, y2 :
        \/ plan = << >>
        \/ plan = << Leg(n1, s1, Abs(held), y1), Leg(n2, s2, Abs(eff), y2) >>
        \/ plan = << Leg(n1, s1, Abs(held), y1) >>
        \/ plan = << Leg(n1, s1, Abs(eff - held), y1) >>
        \/ plan = << Leg(n1, s1, Abs(held) - Abs(d), y1) >>

\* The legs of a plan are whole shares of what is held and what is wanted.
LEMMA PlanIs ==
    ASSUME NEW desired, NEW d, NEW held, NEW eff, NEW churn, NEW plan,
           d = desired.qty, eff = Effective(desired, held),
           plan = TargetPlan(desired, held, churn, TRUE)
    PROVE  Legs(plan, held, eff, d)
  <1>1. CASE Shrinks(desired, held)
    <2>1. plan = << >> \/ plan = << Leg("TRIM", SideOf(-held), Abs(held) - Abs(d), "PASSIVE") >>
      BY <1>1 DEF TargetPlan
    <2>. QED BY <2>1 DEF Legs
  <1>2. CASE ~Shrinks(desired, held)
    <2>1. plan = LegacyPlan(desired, held)
      BY <1>2 DEF TargetPlan
    <2>2. \/ plan = << >>
          \/ plan = << Leg("REVERSE_EXIT", SideOf(eff), Abs(held), "MARKET"),
                       Leg("REVERSE_ENTRY", SideOf(eff), Abs(eff), "PASSIVE") >>
          \/ plan = << Leg("EXIT", SideOf(-held), Abs(held), "MARKET") >>
          \/ plan = << Leg(IF held = 0 THEN "ENTRY" ELSE "SCALE_UP",
                           SideOf(eff - held), Abs(eff - held), "PASSIVE") >>
      BY <2>1 DEF LegacyPlan, ReversePlan
    <2>. QED BY <2>2 DEF Legs
  <1>. QED BY <1>1, <1>2

\* A plan trades whole shares.
LEMMA PlanTyped ==
    ASSUME NEW dir \in Directions, NEW held \in Int, NEW tgt \in Nat, NEW churn
    PROVE  TotalQuantity(PlanForSignal(dir, held, tgt, churn, TRUE)) \in Int
  <1>. DEFINE desired == DesiredFromSignal(dir, tgt)
              d == desired.qty
              eff == Effective(desired, held)
              plan == PlanForSignal(dir, held, tgt, churn, TRUE)
  <1>1. d \in Int
    BY DEF Directions, DesiredFromSignal
  <1>2. plan = TargetPlan(desired, held, churn, TRUE)
    BY DEF PlanForSignal
  <1>3. eff = Effective(desired, held) /\ d = desired.qty
    OBVIOUS
  <1>. HIDE DEF desired, d, plan, eff
  <1>4. Abs(d) \in Int /\ Abs(held) \in Int
    BY <1>1, Sizes
  <1>5. eff \in Int
    <2>1. eff = Larger(held, Abs(d)) \/ eff = Smaller(held, -Abs(d)) \/ eff = 0
      BY <1>3 DEF Effective
    <2>2. Larger(held, Abs(d)) \in Int /\ Smaller(held, -Abs(d)) \in Int
      BY <1>4 DEF Larger, Smaller
    <2>. QED BY <2>1, <2>2
  <1>6. Abs(eff) \in Int /\ Abs(eff - held) \in Int
    BY <1>5 DEF Abs
  <1>7. Legs(plan, held, eff, d)
    BY <1>2, <1>3, PlanIs
  <1>8. \A n, s, q, y : Leg(n, s, q, y).quantity = q
    BY DEF Leg
  <1>9. TotalQuantity(plan) \in
            {0, Abs(held) + Abs(eff), Abs(held), Abs(eff - held), Abs(held) - Abs(d)}
    <2>1. PICK n1, n2, s1, s2, y1, y2 :
               \/ plan = << >>
               \/ plan = << Leg(n1, s1, Abs(held), y1), Leg(n2, s2, Abs(eff), y2) >>
               \/ plan = << Leg(n1, s1, Abs(held), y1) >>
               \/ plan = << Leg(n1, s1, Abs(eff - held), y1) >>
               \/ plan = << Leg(n1, s1, Abs(held) - Abs(d), y1) >>
      BY <1>7 DEF Legs
    <2>. QED BY <2>1, <1>8, LegsCounted
  <1>10. TotalQuantity(plan) \in Int
    BY <1>4, <1>6, <1>9
  <1>. QED BY <1>10 DEF plan

\* Scaled sizes are rounded to whole shares.
LEMMA RoundingTyped ==
    /\ \A x \in Int : RoundHalfEven(x) \in Int /\ RoundHalfUp(x) \in Int
    /\ \A base, f, g \in Int : ComposeScaledQuantity(base, f, g) \in Int
  <1>1. \A x \in Int : RoundHalfEven(x) \in Int /\ RoundHalfUp(x) \in Int
    BY DEF RoundHalfEven, RoundHalfUp
  <1>2. ASSUME NEW base \in Int, NEW f \in Int, NEW g \in Int
        PROVE  ComposeScaledQuantity(base, f, g) \in Int
    <2>. DEFINE q == base * Smaller(f, g)
    <2>1. q \in Int
      BY DEF Smaller
    <2>. HIDE DEF q
    <2>2. RoundHalfEven(q) \in Int
      BY <2>1, <1>1
    <2>. QED BY <2>2 DEF ComposeScaledQuantity, q
  <1>. QED BY <1>1, <1>2

\* Inside the band the scale divides by a positive width.
LEMMA BandTyped ==
    ASSUME NEW e \in Envs, NEW exposure \in Nat, e.equity > 0,
           exposure * 100 < e.equity * GrossPct
    PROVE  BandFactor(e, exposure) \in Int
  <1>. DEFINE limit == e.equity * GrossPct
              room == (limit - exposure * 100) * 10000
              band == limit * (100 - ThresholdPct)
  <1>1. e.equity \in Int /\ GrossPct \in Nat /\ ThresholdPct \in 0 .. 99
    BY BookAssumption, RiskAssumption
  <1>2. limit \in Int
    BY <1>1
  <1>3. limit > 0
    BY <1>1
  <1>. HIDE DEF limit
  <1>4. room \in Int
    BY <1>2
  <1>5. band \in Int /\ band > 0
    <2>1. \A x, y \in Int : x > 0 /\ y > 0 => x * y > 0
      OBVIOUS
    <2>2. 100 - ThresholdPct \in Int /\ 100 - ThresholdPct > 0
      BY <1>1
    <2>. QED BY <1>2, <1>3, <2>1, <2>2
  <1>6. BandFactor(e, exposure) = Larger(10, Smaller(100, room \div band))
    BY DEF BandFactor, limit
  <1>. HIDE DEF room, band
  <1>7. room \div band \in Int
    BY <1>4, <1>5
  <1>. QED BY <1>6, <1>7 DEF Larger, Smaller

\* A verdict's factor is a whole percentage.
LEMMA ChecksTyped ==
    ASSUME NEW e \in Envs, NEW exposure \in Nat, NEW grows
    PROVE  CheckExposureAndDrawdown(e, exposure, grows).factor \in Int
  <1>1. e.equity \in Int
    BY BookAssumption
  <1>2. CASE e.equity <= 0
    BY <1>2 DEF CheckExposureAndDrawdown, ForceFlatten, Verdict
  <1>3. CASE e.equity > 0 /\ exposure * 100 < e.equity * GrossPct
    <2>1. BandFactor(e, exposure) \in Int
      BY <1>3, BandTyped
    <2>. QED BY <2>1 DEF CheckExposureAndDrawdown, ForceFlatten, Reject, Allow, Verdict
  <1>4. CASE e.equity > 0 /\ exposure * 100 >= e.equity * GrossPct
    BY <1>4 DEF CheckExposureAndDrawdown, ForceFlatten, Reject, Allow, Verdict
  <1>5. GrossPct \in Nat /\ exposure * 100 \in Int /\ e.equity * GrossPct \in Int
    BY <1>1, RiskAssumption
  <1>. QED BY <1>1, <1>2, <1>3, <1>4, <1>5

\* The verdicts on a signal and on an order.
LEMMA VerdictsTyped ==
    ASSUME NEW e \in Envs, NEW held \in Int
    PROVE  /\ \A s, dir, slice : CheckSignal(s, dir, slice, held, e).factor \in Int
           /\ \A s, slice : \A signed \in Int : CheckOrder(s, signed, slice, held, e, 0).factor \in Int
  <1>1. Allow.factor \in Int /\ Reject.factor \in Int /\ ForceFlatten.factor \in Int
    BY DEF Allow, Reject, ForceFlatten, Verdict
  <1>2. ASSUME NEW s, NEW dir, NEW slice PROVE CheckSignal(s, dir, slice, held, e).factor \in Int
    <2>1. PlatformSignal(dir, held, e).factor \in Int
      <3>1. Abs(held) \in Nat
        BY Sizes
      <3>2. CheckExposureAndDrawdown(e, Abs(held), ~SignalReducesBook(held, dir)).factor \in Int
        BY <3>1, ChecksTyped
      <3>. QED BY <1>1, <3>2 DEF PlatformSignal
    <2>. QED BY <1>1, <2>1 DEF CheckSignal
  <1>3. ASSUME NEW s, NEW slice, NEW signed \in Int
        PROVE  CheckOrder(s, signed, slice, held, e, 0).factor \in Int
    <2>. DEFINE exposure == ProspectiveExposure(held, signed, 0)
    <2>1. exposure \in Nat
      BY Sizes DEF ProspectiveExposure
    <2>. HIDE DEF exposure
    <2>2. CheckExposureAndDrawdown(e, exposure, exposure > Abs(held)).factor \in Int
      BY <2>1, ChecksTyped
    <2>3. PlatformOrder(held, signed, e, 0).factor \in Int
      BY <1>1, <2>2 DEF PlatformOrder, exposure
    <2>. QED BY <1>1, <2>3 DEF CheckOrder
  <1>. QED BY <1>2, <1>3

\* A strategy's own entries and exits are booked in its own slice, now or later.
LEMMA OwnOrder ==
    ASSUME NEW q \in Int, NEW s \in Ids,
           NEW r \in {"ENTRY", "EXIT", "REVERSE_EXIT", "PORTFOLIO"}
    PROVE  Order(q, s, r) \in Orders /\ OrderOwnsOneSlice(Order(q, s, r))
  <1>1. s # "" /\ r \in Reasons /\ r \notin RiskForced
    BY BookAssumption DEF Reasons, RiskForced
  <1>. QED BY <1>1, OrderTyped

\* An entry is built or scaled to whole shares.
LEMMA EntryTyped ==
    ASSUME NEW raw \in Int, NEW size \in Int, NEW factor \in Int, NEW ev, ev.factor \in Int
    PROVE  EntrySize(raw, size, factor, ev) \in Int
  <1>. DEFINE f == ev.factor
  <1>1. ComposeScaledQuantity(raw, factor, f) \in Int
    <2>1. f \in Int
      OBVIOUS
    <2>. HIDE DEF f
    <2>. QED BY <2>1, RoundingTyped
  <1>. QED BY <1>1 DEF EntrySize

\* The entry of a reversal, sized on the position after its close.
LEMMA ReverseTyped ==
    ASSUME env \in Envs, NEW b, Sound(b), NEW s \in Ids, NEW i, NEW v,
           i.target \in Int, i.current \in Int, v.factor \in Int
    PROVE  ReverseEntry(b, s, i, v) \in Int
  <1>. DEFINE current == i.current
              held == b.net.qty - current
              factor == v.factor
              raw == i.target - Abs(current)
              size == RoundHalfEven(raw * factor)
              signed == Sign(-current) * size
              ev == CheckOrder(s, signed, SliceQty(b, s), held, env, 0)
  <1>1. current \in Int /\ factor \in Int /\ held \in Int
    BY BookTypes
  <1>2. raw \in Int
    <2>1. i.target \in Int
      OBVIOUS
    <2>. HIDE DEF current
    <2>2. Abs(current) \in Int
      BY <1>1, Sizes
    <2>. QED BY <2>1, <2>2
  <1>3. ReverseEntry(b, s, i, v) = EntrySize(raw, size, factor, ev)
    BY DEF ReverseEntry
  <1>. HIDE DEF raw, factor, held, current
  <1>4. size \in Int
    <2>1. raw * factor \in Int
      BY <1>1, <1>2
    <2>. QED BY <2>1, RoundingTyped
  <1>. HIDE DEF size
  <1>5. signed \in Int
    <2>1. -current \in Int
      BY <1>1
    <2>. QED BY <2>1, <1>4, Sizes
  <1>. HIDE DEF signed
  <1>6. ev.factor \in Int
    BY <1>1, <1>5, VerdictsTyped
  <1>. HIDE DEF ev
  <1>. QED BY <1>1, <1>2, <1>3, <1>4, <1>6, EntryTyped

\* The two legs of a reversal.
LEMMA LegsSound ==
    ASSUME NEW c, Sound(c), NEW s \in Ids, NEW exit \in Int, NEW entry \in Int,
           NEW rests, NEW filled
    PROVE  Sound(ReverseLegs(c, s, exit, entry, rests, filled))
  <1>. DEFINE close == Order(exit, s, "REVERSE_EXIT")
              open == Order(Sign(exit) * entry, s, "ENTRY")
              out == SubmitMarket(c, close, filled)
  <1>1. close \in Orders /\ OrderOwnsOneSlice(close)
    BY OwnOrder
  <1>2. open \in Orders /\ OrderOwnsOneSlice(open)
    <2>1. Sign(exit) * entry \in Int
      BY Sizes
    <2>. QED BY <2>1, OwnOrder
  <1>3. ReverseLegs(c, s, exit, entry, rests, filled)
            = IF entry = 0 THEN out ELSE EntryOrder(out, open, rests, filled)
    BY DEF ReverseLegs
  <1>. HIDE DEF close, open
  <1>4. Sound(out)
    BY <1>1, MarketSound
  <1>. HIDE DEF out
  <1>5. Sound(EntryOrder(out, open, rests, filled))
    BY <1>2, <1>4, EntrySound
  <1>. QED BY <1>3, <1>4, <1>5

\* A reversal: cancel, close, enter, poll.
LEMMA ReverseSound ==
    ASSUME now \in Int, env \in Envs, NEW b, Sound(b), NEW s \in Ids, NEW i, NEW v,
           i.target \in Int, i.current \in Int, v.factor \in Int, NEW rests, NEW filled
    PROVE  Sound(ExecuteReverse(b, s, i, v, rests, filled))
  <1>. DEFINE c == CancelResting(b)
              entry == ReverseEntry(c, s, i, v)
              exit == -i.current
              out == ReverseLegs(c, s, exit, entry, rests, filled)
  <1>1. Sound(c)
    BY CancelSound
  <1>2. ExecuteReverse(b, s, i, v, rests, filled) = SettleNew(out, DOMAIN c.active)
    BY DEF ExecuteReverse
  <1>. HIDE DEF c
  <1>3. entry \in Int /\ exit \in Int
    BY <1>1, ReverseTyped
  <1>. HIDE DEF entry, exit
  <1>4. Sound(out)
    BY <1>1, <1>3, LegsSound
  <1>. HIDE DEF out
  <1>5. Sound(SettleNew(out, DOMAIN c.active))
    BY <1>4, NewSettled
  <1>. QED BY <1>2, <1>5

\* A trim that rests is watched until it ends.
LEMMA WatchedSound ==
    ASSUME NEW b, Sound(b), NEW id \in Nat
    PROVE  Sound([b EXCEPT !.fallback = With(@, id, 0)])
  <1>. DEFINE f == With(b.fallback, id, 0)
              c == [b EXCEPT !.fallback = f]
  <1>1. b \in BookShape /\ b.fallback \in Maps(Int) /\ IsFiniteSet(DOMAIN b.fallback)
    BY DEF Sound, Tracked, BookShape
  <1>2. f \in Maps(Int) /\ DOMAIN f = DOMAIN b.fallback \cup {id}
    <2>. DEFINE m == b.fallback
                none == 0
    <2>1. m \in Maps(Int) /\ none \in Int /\ f = With(m, id, none)
      BY <1>1
    <2>. HIDE DEF m, none, f
    <2>2. f \in Maps(Int) /\ DOMAIN f = DOMAIN m \cup {id}
      BY <2>1, TracksNumber
    <2>. QED BY <2>2 DEF m
  <1>3. IsFiniteSet(DOMAIN f)
    BY <1>1, <1>2, FS_AddElement
  <1>. HIDE DEF f
  <1>4. /\ c \in BookShape /\ c.fallback = f /\ c.net = b.net /\ c.slices = b.slices
        /\ c.active = b.active /\ c.acks = b.acks /\ c.resting = b.resting
    BY <1>1, <1>2 DEF BookShape
  <1>. HIDE DEF c
  <1>5. AddsUp(c) /\ Tracked(c)
    BY <1>3, <1>4 DEF Sound, AddsUp, Tracked
  <1>6. AcksKnown(c) /\ AcksOwned(c)
    BY <1>4 DEF Sound, AcksKnown, AcksOwned, AckOwned
  <1>7. Rests(c)
    BY <1>4 DEF Sound, Rests, RestOwned, RestOnce, RestOpen
  <1>8. Sound(c)
    BY <1>4, <1>5, <1>6, <1>7 DEF Sound
  <1>. QED BY <1>8 DEF c, f

\* What the book records about a slice is not what it holds.
LEMMA RecordedSound ==
    ASSUME NEW b, Sound(b), NEW off \in [Decoupled -> Int], NEW flipped \in SUBSET Decoupled
    PROVE  Sound([b EXCEPT !.off = off, !.flipped = flipped])
  <1>. DEFINE c == [b EXCEPT !.off = off, !.flipped = flipped]
  <1>1. /\ c \in BookShape /\ c.fallback = b.fallback /\ c.net = b.net /\ c.slices = b.slices
        /\ c.active = b.active /\ c.acks = b.acks /\ c.resting = b.resting
    BY DEF Sound, BookShape
  <1>. HIDE DEF c
  <1>2. AddsUp(c) /\ Tracked(c)
    BY <1>1 DEF Sound, AddsUp, Tracked
  <1>3. AcksKnown(c) /\ AcksOwned(c)
    BY <1>1 DEF Sound, AcksKnown, AcksOwned, AckOwned
  <1>4. Rests(c)
    BY <1>1 DEF Sound, Rests, RestOwned, RestOnce, RestOpen
  <1>5. Sound(c)
    BY <1>1, <1>2, <1>3, <1>4 DEF Sound
  <1>. QED BY <1>5 DEF c

\* An intent is built into whole shares of one side.
LEMMA BuiltTyped ==
    ASSUME NEW i, NEW v, i.target \in Int, v.factor \in Int
    PROVE  TryBuildOrder(i, v) \in Int /\ IntentDelta(i) \in Int
  <1>. DEFINE target == i.target
              factor == v.factor
  <1>1. target \in Int /\ factor \in Int
    OBVIOUS
  <1>2. IntentDelta(i) = Signed(SideForIntent(i), target)
    BY DEF IntentDelta
  <1>3. TryBuildOrder(i, v) \in {0, target, RoundHalfEven(target * factor)}
    BY DEF TryBuildOrder
  <1>. HIDE DEF target, factor
  <1>4. RoundHalfEven(target * factor) \in Int
    <2>1. target * factor \in Int
      BY <1>1
    <2>. QED BY <2>1, RoundingTyped
  <1>5. IntentDelta(i) \in Int
    BY <1>1, <1>2 DEF Signed
  <1>. QED BY <1>1, <1>3, <1>4, <1>5

\* An intent built, gated and submitted; a trim that rests is not polled for.
LEMMA BuildSound ==
    ASSUME now \in Int, env \in Envs, NEW b, Sound(b), NEW s \in Ids, NEW i, NEW v,
           i.target \in Int, v.factor \in Int, NEW trim, NEW rests, NEW filled
    PROVE  Sound(BuildAndSubmit(b, s, i, v, trim, rests, filled))
  <1>. DEFINE isExit == i.intent = "EXIT"
              built == TryBuildOrder(i, v)
              side == Sign(IntentDelta(i))
              signed == side * built
              slice == SliceQty(b, s)
              held == b.net.qty
              ov == CheckOrder(s, signed, slice, held, env, 0)
              size == IF isExit \/ ov.action # "SCALE_DOWN" THEN built
                      ELSE ComposeScaledQuantity(i.target, v.factor, ov.factor)
              q == side * size
              o == Order(q, s, IF isExit THEN "EXIT" ELSE "ENTRY")
              t == EntryOrder(b, o, rests /\ (trim \/ ~isExit), filled)
              id == FreshId(b)
              watched == [t EXCEPT !.fallback = With(@, id, 0)]
              settled == Forget(SettleAcks(t, {id}))
  <1>1. BuildAndSubmit(b, s, i, v, trim, rests, filled) \in {b, watched, settled}
    BY DEF BuildAndSubmit
  <1>2. built \in Int /\ side \in Int
    <2>. DEFINE delta == IntentDelta(i)
    <2>1. built \in Int /\ delta \in Int
      BY BuiltTyped
    <2>. HIDE DEF delta
    <2>2. Sign(delta) \in Int
      BY <2>1, Sizes
    <2>. QED BY <2>1, <2>2 DEF delta
  <1>3. held \in Int
    BY BookTypes
  <1>. HIDE DEF built, side, held, slice
  <1>4. signed \in Int
    BY <1>2
  <1>. HIDE DEF signed
  <1>5. ov.factor \in Int
    BY <1>3, <1>4, VerdictsTyped
  <1>. HIDE DEF ov
  <1>6. size \in Int
    <2>. DEFINE base == i.target
                f == v.factor
                g == ov.factor
    <2>1. base \in Int /\ f \in Int /\ g \in Int
      BY <1>5
    <2>2. size \in {built, ComposeScaledQuantity(base, f, g)}
      OBVIOUS
    <2>. HIDE DEF base, f, g, size
    <2>3. ComposeScaledQuantity(base, f, g) \in Int
      BY <2>1, RoundingTyped
    <2>. QED BY <1>2, <2>2, <2>3
  <1>. HIDE DEF size
  <1>7. q \in Int
    BY <1>2, <1>6
  <1>. HIDE DEF q
  <1>8. o \in Orders /\ OrderOwnsOneSlice(o)
    BY <1>7, OwnOrder
  <1>. HIDE DEF o
  <1>9. Sound(t)
    BY <1>8, EntrySound
  <1>10. id \in Nat
    BY Fresh
  <1>. HIDE DEF t, id
  <1>11. Sound(watched)
    BY <1>9, <1>10, WatchedSound
  <1>12. Sound(settled)
    <2>. DEFINE polled == SettleAcks(t, {id})
    <2>1. Sound(polled)
      BY <1>9, SoundSettled
    <2>. HIDE DEF polled
    <2>2. Sound(Forget(polled))
      BY <2>1, Forgotten
    <2>. QED BY <2>2 DEF polled
  <1>. HIDE DEF watched, settled
  <1>. QED BY <1>1, <1>11, <1>12

\* An intent submitted, as a reversal or as one order.
LEMMA IntentSound ==
    ASSUME now \in Int, env \in Envs, NEW b, Sound(b), NEW s \in Ids, NEW i, NEW sv,
           i.target \in Int, i.current \in Int, sv.factor \in Int,
           NEW trim, NEW rests, NEW filled
    PROVE  Sound(SubmitIntent(b, s, i, sv, trim, rests, filled))
  <1>. DEFINE v == IF i.intent = "EXIT" THEN Allow ELSE sv
              reversed == ExecuteReverse(b, s, i, v, rests, filled)
              built == BuildAndSubmit(b, s, i, v, trim, rests, filled)
  <1>1. v.factor \in Int
    BY DEF Allow, Verdict
  <1>2. SubmitIntent(b, s, i, sv, trim, rests, filled) \in {b, reversed, built}
    BY DEF SubmitIntent
  <1>. HIDE DEF v
  <1>3. Sound(reversed)
    BY <1>1, ReverseSound
  <1>4. Sound(built)
    BY <1>1, BuildSound
  <1>. HIDE DEF reversed, built
  <1>. QED BY <1>2, <1>3, <1>4

\* A standalone signal from its plan to its order.
LEMMA SignalSound ==
    ASSUME now \in Int, env \in Envs, NEW b, Sound(b), NEW s \in Ids, NEW dir \in Directions,
           NEW tgt \in Nat, NEW gateOff, NEW rests, NEW filled
    PROVE  Sound(OnSignal(b, s, dir, tgt, gateOff, rests, filled))
  <1>. DEFINE held == b.net.qty
              plan == PlanForSignal(dir, held, tgt, env.churn, TRUE)
              i == IntentFromPlan(plan, dir, held)
              sv == CheckSignal(s, dir, SliceQty(b, s), held, env)
              sent == SubmitIntent(b, s, i, sv, plan[1].leg = "TRIM", rests, filled)
  <1>1. OnSignal(b, s, dir, tgt, gateOff, rests, filled) \in {b, sent}
    BY DEF OnSignal, FollowPlan
  <1>2. held \in Int
    BY BookTypes
  <1>3. i.target = TotalQuantity(plan) /\ i.current = held
    BY DEF IntentFromPlan, OrderIntent
  <1>. HIDE DEF held, i
  <1>4. TotalQuantity(plan) \in Int
    <2>. DEFINE churn == env.churn
    <2>. HIDE DEF churn
    <2>1. TotalQuantity(PlanForSignal(dir, held, tgt, churn, TRUE)) \in Int
      BY <1>2, PlanTyped
    <2>. QED BY <2>1 DEF churn
  <1>. HIDE DEF plan
  <1>5. sv.factor \in Int
    BY <1>2, VerdictsTyped
  <1>. HIDE DEF sv
  <1>6. Sound(sent)
    BY <1>2, <1>3, <1>4, <1>5, IntentSound
  <1>. HIDE DEF sent
  <1>. QED BY <1>1, <1>6

-----------------------------------------------------------------------------
(***************************************************************************)
(* A portfolio's target is a sequence of one leg here.                     *)
(***************************************************************************)

LegSized(e, acc, leg) == SizeLeg(Portfolio, e, acc, leg)

\* Nothing is sized yet, or the first leg is.
FirstSized(d, k, acc) ==
    IF k = 0 THEN acc.sizes = << >> /\ acc.extra = 0 ELSE acc.sizes[1] \in Int

Sizings == INSTANCE FoldTheorems WITH Step <- LegSized, Good <- FirstSized

\* A leg is scaled to whole shares.
LEMMA RescaleTyped ==
    ASSUME NEW delta \in Int, NEW v, v.factor \in Int
    PROVE  RescaleLeg(delta, v) \in Int
  <1>. DEFINE factor == v.factor
              up == RoundHalfUp(Abs(delta) * factor)
  <1>1. factor \in Int
    OBVIOUS
  <1>2. Abs(delta) \in Int /\ Sign(delta) \in Int
    BY Sizes
  <1>3. RescaleLeg(delta, v) \in {0, Sign(delta) * up, Sign(delta) * Abs(delta)}
    BY DEF RescaleLeg
  <1>. HIDE DEF factor
  <1>4. up \in Int
    <2>1. Abs(delta) * factor \in Int
      BY <1>1, <1>2
    <2>. QED BY <2>1, RoundingTyped
  <1>. HIDE DEF up
  <1>5. Sign(delta) * up \in Int /\ Sign(delta) * Abs(delta) \in Int
    BY <1>2, <1>4
  <1>. QED BY <1>3, <1>5

\* The first leg is sized on the exposure of none before it.
LEMMA LegStep ==
    ASSUME NEW e \in Envs, NEW leg, leg.target \in Int, leg.net \in Int,
           NEW acc, FirstSized(0, 0, acc)
    PROVE  FirstSized(0, 1, LegSized(e, acc, leg))
  <1>. DEFINE target == leg.target
              held == leg.net
              delta == target - held
              v == CheckOrder(Portfolio, delta, leg.slice, held, e, 0)
              size == RescaleLeg(delta, v)
  <1>1. acc.sizes = << >> /\ acc.extra = 0
    BY DEF FirstSized
  <1>2. LegSized(e, acc, leg).sizes = Append(<< >>, size)
    BY <1>1 DEF LegSized, SizeLeg
  <1>3. target \in Int /\ held \in Int
    OBVIOUS
  <1>. HIDE DEF target, held
  <1>4. delta \in Int
    BY <1>3
  <1>. HIDE DEF delta
  <1>5. v.factor \in Int
    BY <1>3, <1>4, VerdictsTyped
  <1>. HIDE DEF v
  <1>6. size \in Int
    BY <1>4, <1>5, RescaleTyped
  <1>. HIDE DEF size
  <1>7. Append(<< >>, size)[1] = size
    OBVIOUS
  <1>. QED BY <1>2, <1>6, <1>7 DEF FirstSized

\* The one leg is sized in whole shares.
LEMMA LegTyped ==
    ASSUME NEW e \in Envs, NEW leg, leg.target \in Int, leg.net \in Int
    PROVE  BuildSizedIntentOrders(Portfolio, <<leg>>, e).sizes[1] \in Int
  <1>. DEFINE base == [void |-> FALSE, extra |-> 0, sizes |-> << >>]
              legs == <<leg>>
  <1>1. BuildSizedIntentOrders(Portfolio, legs, e) = Sizings!Fold(e, base, legs)
    BY DEF BuildSizedIntentOrders, LegSized, FoldLeft, MapThenFoldSet, Max, Sizings!Fold,
           Sizings!FoldLeft, Sizings!MapThenFoldSet, Sizings!Max
  <1>2. FirstSized(0, 0, base)
    BY DEF FirstSized
  <1>3. legs \in Seq({leg}) /\ Len(legs) = 1 /\ legs[1] = leg
    OBVIOUS
  <1>. HIDE DEF base, legs
  <1>4. ASSUME NEW k \in 0 .. (Len(legs) - 1), NEW x, FirstSized(0, k, x)
        PROVE  FirstSized(0, k + 1, LegSized(e, x, legs[k + 1]))
    <2>1. k = 0 /\ k + 1 = 1 /\ legs[k + 1] = leg
      BY <1>3
    <2>2. FirstSized(0, 0, x)
      BY <1>4, <2>1
    <2>3. FirstSized(0, 1, LegSized(e, x, leg))
      BY <2>2, LegStep
    <2>. QED BY <2>1, <2>3
  <1>5. \A c, d, z, T : \A seq \in Seq(T) :
           /\ FirstSized(d, 0, z)
           /\ \A k \in 0 .. (Len(seq) - 1) : \A y :
                 FirstSized(d, k, y) => FirstSized(d, k + 1, LegSized(c, y, seq[k + 1]))
           => FirstSized(d, Len(seq), Sizings!Fold(c, z, seq))
    BY Sizings!Keeps
  <1>6. FirstSized(0, Len(legs), Sizings!Fold(e, base, legs))
    BY <1>2, <1>3, <1>4, <1>5
  <1>7. Sizings!Fold(e, base, legs).sizes[1] \in Int
    BY <1>3, <1>6 DEF FirstSized
  <1>. QED BY <1>1, <1>7 DEF legs

\* A portfolio's leg, or the flatten its verdict asks for.
LEMMA PortfolioSound ==
    ASSUME now \in Int, env \in Envs, NEW b, Sound(b), NEW target \in Int, NEW filled
    PROVE  Sound(PortfolioLeg(b, target, filled)[1])
  <1>. DEFINE leg == [target |-> target, net |-> b.net.qty, slice |-> SliceQty(b, Portfolio)]
              sized == BuildSizedIntentOrders(Portfolio, <<leg>>, env)
              q == sized.sizes[1]
              flat == FlattenNet(b, "emergency_flatten", "FORCE_FLATTEN", filled)
              o == Order(q, Portfolio, "PORTFOLIO")
              sent == SubmitAndSettle(b, o, filled)
  <1>1. PortfolioLeg(b, target, filled)[1] \in {b, flat, sent}
    BY DEF PortfolioLeg
  <1>2. leg.target \in Int /\ leg.net \in Int
    BY BookTypes
  <1>. HIDE DEF leg
  <1>3. q \in Int
    BY <1>2, LegTyped
  <1>. HIDE DEF q
  <1>4. "emergency_flatten" \in Ids /\ Portfolio \in Ids
    BY BookAssumption
  <1>5. Sound(flat)
    BY <1>4, FlattenNetSound
  <1>6. Sound(sent)
    <2>1. o \in Orders /\ OrderOwnsOneSlice(o)
      BY <1>3, <1>4, OwnOrder
    <2>. HIDE DEF o
    <2>. QED BY <2>1, SubmittedAndSettled
  <1>. HIDE DEF flat, sent
  <1>. QED BY <1>1, <1>5, <1>6

-----------------------------------------------------------------------------
(***************************************************************************)
(* The session: every event finds the books sound and leaves them so.      *)
(***************************************************************************)
Inv == Sound(book) /\ now \in Int /\ env \in Envs

\* A session starts with nothing held, sent, or expected.
LEMMA StartsSound == Init => Inv
  <1>. SUFFICES ASSUME Init PROVE Inv
    OBVIOUS
  <1>. DEFINE stores == [s \in Ids |-> Flat]
              sum == SumOf(HeldBy(stores))
              n == Len(SortedIds)
  <1>1. Flat \in Position /\ Flat.qty = 0
    BY DEF Flat, Position, Never
  <1>2. stores \in Slices /\ \A s \in Ids : stores[s].qty = 0
    BY <1>1 DEF Slices
  <1>. HIDE DEF stores
  <1>3. n \in Nat /\ HeldBy(stores) \in [1 .. n -> Int] /\ \A i \in 1 .. n : HeldBy(stores)[i] = 0
    <2>1. \A i \in 1 .. n : HeldBy(stores)[i] = stores[SortedIds[i]].qty /\ SortedIds[i] \in Ids
      BY <1>2, Listed, HeldType
    <2>. QED BY <1>2, <2>1, Listed, HeldType
  <1>4. sum = 0
    <2>. DEFINE f == HeldBy(stores)
    <2>1. f \in [1 .. n -> Int] /\ (\A i \in 1 .. n : f[i] >= 0) /\ (\A i \in 1 .. n : f[i] <= 0)
      BY <1>3
    <2>. HIDE DEF f, n
    <2>2. SumOf(f) >= 0 /\ SumOf(f) \in Int
      BY <1>3, <2>1, SumNonneg, SumType
    <2>3. SumOf(f) <= n * 0
      <3>. DEFINE c == 0
      <3>1. c \in Int /\ \A i \in 1 .. n : f[i] <= c
        BY <2>1
      <3>. HIDE DEF c
      <3>2. SumOf(f) <= n * c
        BY <1>3, <2>1, <3>1, SumBounded
      <3>. QED BY <3>2 DEF c
    <2>4. SumOf(f) = 0
      BY <1>3, <2>2, <2>3
    <2>. QED BY <2>4 DEF f
  <1>5. \A V : EmptyMap \in Maps(V) /\ DOMAIN EmptyMap = {}
    BY DEF EmptyMap, Maps
  <1>6. /\ book.net = Flat /\ book.slices = stores /\ book.filledBy = {} /\ book.active = EmptyMap
        /\ book.resting = << >> /\ book.acks = << >> /\ book.fallback = EmptyMap
        /\ book.rejects = 0 /\ book.overshot = {} /\ book.flipped = {}
        /\ book.off = [s \in Decoupled |-> Never]
    BY DEF Init, stores
  <1>6a. book = [net |-> book.net, slices |-> book.slices, filledBy |-> book.filledBy,
                 active |-> book.active, resting |-> book.resting, acks |-> book.acks,
                 fallback |-> book.fallback, rejects |-> book.rejects,
                 overshot |-> book.overshot, flipped |-> book.flipped, off |-> book.off]
    BY DEF Init
  <1>7. book \in BookShape
    <2>1. book.off \in [Decoupled -> Int]
      BY <1>6 DEF Never
    <2>2. book.active \in Maps(Orders) /\ book.fallback \in Maps(Int)
      BY <1>5, <1>6
    <2>3. /\ book.net \in Position /\ book.slices \in Slices
          /\ book.filledBy \in SUBSET Signallers /\ book.overshot \in SUBSET Reasons
          /\ book.flipped \in SUBSET Decoupled /\ book.rejects \in Int
      BY <1>1, <1>2, <1>6
    <2>4. book.resting \in Seq(Parked) /\ book.acks \in Seq(Answered)
      BY <1>6
    <2>. QED BY <1>6a, <2>1, <2>2, <2>3, <2>4 DEF BookShape
  <1>8. AddsUp(book)
    BY <1>1, <1>4, <1>6 DEF AddsUp
  <1>9. Tracked(book)
    BY <1>5, <1>6, FS_EmptySet DEF Tracked
  <1>10. AcksKnown(book) /\ AcksOwned(book) /\ Rests(book)
    <2>1. DOMAIN book.acks = {} /\ DOMAIN book.resting = {}
      BY <1>6
    <2>. QED BY <2>1 DEF AcksKnown, AcksOwned, Rests, RestOwned, RestOnce, RestOpen
  <1>11. now \in Int /\ env \in Envs
    BY DEF Init
  <1>. QED BY <1>7, <1>8, <1>9, <1>10, <1>11 DEF Inv, Sound

\* A trade has seen the slices that changed side.
LEMMA UnseenSound ==
    ASSUME NEW b, Sound(b)
    PROVE  Sound([b EXCEPT !.flipped = {}])
  <1>. DEFINE o == b.off
              none == {}
  <1>1. b \in BookShape /\ o \in [Decoupled -> Int] /\ none \in SUBSET Decoupled
    BY DEF Sound, BookShape
  <1>2. [b EXCEPT !.flipped = none] = [b EXCEPT !.off = o, !.flipped = none]
    BY <1>1 DEF BookShape
  <1>. HIDE DEF o, none
  <1>3. Sound([b EXCEPT !.off = o, !.flipped = none])
    BY <1>1, RecordedSound
  <1>4. Sound([b EXCEPT !.flipped = none])
    BY <1>2, <1>3
  <1>. QED BY <1>4 DEF none

\* The first OFF of an episode and the side a slice changed to are only recorded.
LEMMA HeardSound ==
    ASSUME now \in Int, NEW b, Sound(b), NEW s \in Decoupled
    PROVE  Sound([b EXCEPT !.off[s] = now, !.flipped = @ \ {s}])
  <1>. DEFINE off == [b.off EXCEPT ![s] = now]
              flipped == b.flipped \ {s}
  <1>1. b \in BookShape /\ b.off \in [Decoupled -> Int] /\ b.flipped \in SUBSET Decoupled
    BY DEF Sound, BookShape
  <1>2. off \in [Decoupled -> Int] /\ flipped \in SUBSET Decoupled
    BY <1>1
  <1>3. [b EXCEPT !.off[s] = now, !.flipped = @ \ {s}] = [b EXCEPT !.off = off, !.flipped = flipped]
    BY <1>1
  <1>. HIDE DEF off, flipped
  <1>4. Sound([b EXCEPT !.off = off, !.flipped = flipped])
    BY <1>2, RecordedSound
  <1>. QED BY <1>3, <1>4

\* A handler that leaves the clock and the session's state as they are keeps
\* the invariant when the book it leaves is sound.
LEMMA Kept ==
    ASSUME Inv, NEW b, Sound(b), book' = b, now' \in Int, env' \in Envs
    PROVE  Inv'
  <1>1. Sound(book)' <=> Sound(book')
    BY DEF Sound, AddsUp, Tracked, AcksKnown, AcksOwned, AckOwned, Rests, RestOwned, RestOnce,
           RestOpen
  <1>. QED BY <1>1 DEF Inv

\* Every step of the session leaves the books sound.
LEMMA StepsSound == Inv /\ [Next]_vars => Inv'
  <1>. SUFFICES ASSUME Inv, [Next]_vars PROVE Inv'
    OBVIOUS
  <1>0. /\ Sound(book) /\ now \in Int /\ env \in Envs
        /\ Signallers \subseteq Ids /\ Decoupled \subseteq Ids /\ Targets \subseteq Nat
        /\ MaxNow \in Nat
    BY BookAssumption DEF Inv
  <1>1. ASSUME NEW e \in Envs, NEW fate \in Fates, Quote(e, fate) PROVE Inv'
    <2>1. Sound(RouterOnQuote(book, fate))
      BY <1>0, QuoteSound
    <2>2. book' = RouterOnQuote(book, fate) /\ now' = now + 1 /\ env' = e
      BY <1>1 DEF Quote, Arrives
    <2>. QED BY <1>0, <2>1, <2>2, Kept
  <1>2. ASSUME Trade PROVE Inv'
    <2>1. book' = book /\ now' = now + 1 /\ env' = env
      BY <1>2 DEF Trade, Arrives
    <2>. QED BY <1>0, <2>1, Kept
  <1>3. ASSUME NEW triggered, NEW filled, StopHandler(triggered, filled) PROVE Inv'
    <2>. DEFINE b == StopExit(book, guards, triggered, "STOP_EXIT", filled)[1]
    <2>1. Sound(b)
      BY <1>0, StopSound
    <2>2. book' = b /\ now' = now /\ env' = env
      BY <1>3 DEF StopHandler, Handles, Becomes
    <2>. HIDE DEF b
    <2>. QED BY <1>0, <2>1, <2>2, Kept
  <1>4. ASSUME NEW filled, DrainHandler(filled) PROVE Inv'
    <2>. DEFINE b == DrainAsyncFills(book, filled)
    <2>1. Sound(b)
      BY <1>0, DrainSound
    <2>2. book' = b /\ now' = now /\ env' = env
      BY <1>4 DEF DrainHandler, Handles
    <2>. HIDE DEF b
    <2>. QED BY <1>0, <2>1, <2>2, Kept
  <1>5. ASSUME NEW filled, AgeHandler(filled) PROVE Inv'
    <2>. DEFINE b == HazardExits(book, guards, "HARD_EXIT_AGE", filled)[1]
    <2>1. Sound(b)
      BY <1>0, HazardsSound
    <2>2. book' = b /\ now' = now /\ env' = env
      BY <1>5 DEF AgeHandler, Handles, Becomes
    <2>. HIDE DEF b
    <2>. QED BY <1>0, <2>1, <2>2, Kept
  <1>6. ASSUME NEW filled, CapHandler(filled) PROVE Inv'
    <2>. DEFINE unseen == [book EXCEPT !.flipped = {}]
                b == CapsOnTrade(unseen, guards, filled)[1]
    <2>1. book' = b /\ now' = now /\ env' = env
      BY <1>6 DEF CapHandler, Handles, Becomes
    <2>2. Sound(unseen)
      <3>. DEFINE k == book
      <3>1. Sound(k)
        BY <1>0
      <3>. HIDE DEF k
      <3>2. Sound([k EXCEPT !.flipped = {}])
        BY <3>1, <1>0, UnseenSound
      <3>. QED BY <3>2 DEF k
    <2>. HIDE DEF unseen
    <2>3. Sound(b)
      BY <1>0, <2>2, CapsSound
    <2>. HIDE DEF b
    <2>. QED BY <1>0, <2>1, <2>3, Kept
  <1>7. ASSUME NEW spiked, NEW filled, SpikeHandler(spiked, filled) PROVE Inv'
    <2>. DEFINE b == HazardExits(book, guards, "HAZARD_SPIKE", filled)[1]
    <2>1. Sound(b)
      BY <1>0, HazardsSound
    <2>2. book' \in {b, book} /\ now' = now /\ env' = env
      BY <1>7 DEF SpikeHandler, Handles, Becomes
    <2>. HIDE DEF b
    <2>. QED BY <1>0, <2>1, <2>2, Kept
  <1>8. ASSUME NEW s \in Decoupled, NEW safety, NEW filled, SafetyHandler(s, safety, filled)
        PROVE  Inv'
    <2>. DEFINE b == ComposerOnSafety(book, guards, s, safety, filled)[1]
                c == [b EXCEPT !.off[s] = now, !.flipped = @ \ {s}]
    <2>1. Sound(b)
      BY <1>0, ComposerSound
    <2>2. book' \in {b, c} /\ now' = now /\ env' = env
      BY <1>8 DEF SafetyHandler, Handles, Becomes
    <2>. HIDE DEF b
    <2>3. Sound(c)
      BY <1>0, <2>1, HeardSound
    <2>. HIDE DEF c
    <2>. QED BY <1>0, <2>1, <2>2, <2>3, Kept
  <1>9. ASSUME NEW target \in Int, NEW filled, PortfolioHandler(target, filled) PROVE Inv'
    <2>. DEFINE b == PortfolioLeg(book, target, filled)[1]
    <2>1. Sound(b)
      BY <1>0, PortfolioSound
    <2>2. book' = b /\ now' \in {now, MaxNow} /\ env' = env
      BY <1>9 DEF PortfolioHandler
    <2>. HIDE DEF b
    <2>. QED BY <1>0, <2>1, <2>2, Kept
  <1>10. ASSUME NEW s \in Signallers, NEW dir \in Directions, NEW tgt \in Targets, NEW gateOff,
                NEW rests, NEW filled, SignalHandler(s, dir, tgt, gateOff, rests, filled)
         PROVE  Inv'
    <2>. DEFINE b == OnSignal(book, s, dir, tgt, gateOff, rests, filled)
    <2>0. s \in Ids /\ tgt \in Nat
      BY <1>0
    <2>1. Sound(b)
      BY <1>0, <2>0, SignalSound
    <2>2. book' = b /\ now' = now /\ env' = env
      BY <1>10 DEF SignalHandler, Handles
    <2>. HIDE DEF b
    <2>. QED BY <1>0, <2>1, <2>2, Kept
  <1>11. ASSUME Quiet PROVE Inv'
    <2>1. book' = book /\ now' = now /\ env' = env
      BY <1>11 DEF Quiet
    <2>. QED BY <1>0, <2>1, Kept
  <1>12. ASSUME NEW s \in Decoupled, NEW filled, RevokeAndFlatten(s, filled) PROVE Inv'
    <2>. DEFINE b == EmitFlattenOrder(book, guards, s, "DECOUPLING_REVOKED", filled)[1]
    <2>0. s \in Ids
      BY <1>0
    <2>1. Sound(b)
      BY <1>0, <2>0, FlattenSound
    <2>2. book' \in {b, book} /\ now' = now /\ env' = env
      BY <1>12 DEF RevokeAndFlatten, Becomes
    <2>. HIDE DEF b
    <2>. QED BY <1>0, <2>1, <2>2, Kept
  <1>13. ASSUME NEW filled, ForceFlattenOnDegrade(filled) PROVE Inv'
    <2>. DEFINE b == FlattenNet(book, "degrade_flatten", "DATA_HEALTH", filled)
    <2>0. "degrade_flatten" \in Ids
      BY BookAssumption
    <2>1. Sound(b)
      BY <1>0, <2>0, FlattenNetSound
    <2>2. book' = b /\ now' = now /\ env' = env
      BY <1>13 DEF ForceFlattenOnDegrade
    <2>. HIDE DEF b
    <2>. QED BY <1>0, <2>1, <2>2, Kept
  <1>14. ASSUME UNCHANGED vars PROVE Inv'
    BY <1>0, <1>14, Kept DEF vars
  <1>15. ASSUME Done PROVE Inv'
    BY <1>14, <1>15 DEF Done
  <1>16. \A target \in Targets, dir \in {-1, 1} : dir * target \in Int
    BY <1>0
  <1>. QED
    BY <1>1, <1>2, <1>3, <1>4, <1>5, <1>6, <1>7, <1>8, <1>9, <1>10, <1>11, <1>12, <1>13, <1>14,
       <1>15, <1>16 DEF Next

\* The two position stores never drift apart: what the strategies hold adds
\* up to what the symbol holds, whoever traded, whatever the router answered
\* late, and however a fill was split.
THEOREM BooksAgreeTheorem == Spec => []BooksAgree
  <1>1. Inv => BooksAgree
    BY DEF Inv, Sound, AddsUp, HeldBy, BooksAgree, Holdings
  <1>. QED BY <1>1, StartsSound, StepsSound, PTL DEF Spec

=============================================================================
