--------------------------- MODULE AccountsProofs ---------------------------
(***************************************************************************)
(* Proofs about the books of account, for every set of strategies, budget  *)
(* and number of entries.  The first part is the arithmetic of a split,    *)
(* which BookProofs uses too: shares rounded down and the units left over  *)
(* add up to the whole, and nobody is given a share of nothing.  The       *)
(* second is about Accounts: the lots, the slices and the journal keep     *)
(* every share and every fee of every fill, and where the averages divide  *)
(* every book keeps the money.                                             *)
(***************************************************************************)
EXTENDS Positions, Accounts, FiniteSetTheorems, TLAPS

AddUp(c, x, e) == x + e
Anything(c, k, x) == TRUE
Sums == INSTANCE FoldTheorems WITH Step <- AddUp, Good <- Anything

-----------------------------------------------------------------------------
\* Induction over the numbers up to n, for a set of numbers.
LEMMA UpTo ==
    ASSUME NEW n \in Nat, NEW S, 0 \in S, \A k \in 0 .. (n - 1) : k \in S => k + 1 \in S
    PROVE  \A k \in 0 .. n : k \in S
  <1>. DEFINE Bad == {k \in 0 .. n : k \notin S}
  <1>. SUFFICES ASSUME Bad # {} PROVE FALSE
    OBVIOUS
  <1>1. PICK m \in Bad : \A k \in Bad : m <= k
    <2>. HIDE DEF Bad
    <2>1. Bad \in SUBSET Nat
      BY DEF Bad
    <2>. QED BY <2>1, Sums!Least
  <1>2. m # 0 /\ m \in 0 .. n /\ m \notin S
    BY <1>1
  <1>3. m - 1 \in 0 .. (n - 1) /\ (m - 1) + 1 = m
    BY <1>2
  <1>4. m - 1 \notin S
    BY <1>2, <1>3
  <1>. QED BY <1>1, <1>3, <1>4

\* A sum is the last value of a walk that adds one element at a time.
LEMMA SumWalk ==
    ASSUME NEW n \in Nat, NEW f \in [1 .. n -> Int]
    PROVE  \E g : /\ g \in [0 .. n -> Int] /\ g[0] = 0
                  /\ \A k \in 0 .. (n - 1) : g[k + 1] = g[k] + f[k + 1]
                  /\ SumOf(f) = g[n]
  <1>1. f \in Seq(Int) /\ Len(f) = n
    OBVIOUS
  <1>2. SumOf(f) = Sums!Fold(0, 0, f)
    BY DEF SumOf, FoldLeft, MapThenFoldSet, AddUp, Sums!Fold, Sums!FoldLeft, Sums!MapThenFoldSet,
           Max, Sums!Max
  <1>3. PICK h : /\ h[0] = 0
                 /\ \A k \in 0 .. (Len(f) - 1) : h[k + 1] = AddUp(0, h[k], f[k + 1])
                 /\ Sums!Fold(0, 0, f) = h[Len(f)]
    <2>1. \A seq \in Seq(Int) :
             \E h : /\ h[0] = 0
                    /\ \A k \in 0 .. (Len(seq) - 1) : h[k + 1] = AddUp(0, h[k], seq[k + 1])
                    /\ Sums!Fold(0, 0, seq) = h[Len(seq)]
      BY Sums!Walk
    <2>. QED BY <1>1, <2>1
  <1>4. \A k \in 0 .. (n - 1) : h[k + 1] = h[k] + f[k + 1]
    BY <1>1, <1>3 DEF AddUp
  <1>5. \A k \in 0 .. n : h[k] \in Int
    <2>. DEFINE S == {k \in 0 .. n : h[k] \in Int}
    <2>1. 0 \in S
      BY <1>3
    <2>2. ASSUME NEW k \in 0 .. (n - 1), k \in S PROVE k + 1 \in S
      <3>1. h[k] \in Int /\ f[k + 1] \in Int /\ k + 1 \in 0 .. n
        BY <2>2
      <3>. QED BY <3>1, <1>4
    <2>. HIDE DEF S
    <2>3. \A k \in 0 .. n : k \in S
      BY <2>1, <2>2, UpTo
    <2>. QED BY <2>3 DEF S
  <1>. DEFINE g == [k \in 0 .. n |-> h[k]]
  <1>6. g \in [0 .. n -> Int] /\ g[0] = 0 /\ SumOf(f) = g[n]
    BY <1>1, <1>2, <1>3, <1>5
  <1>7. \A k \in 0 .. (n - 1) : g[k + 1] = g[k] + f[k + 1]
    BY <1>4
  <1>. QED BY <1>6, <1>7

\* A sum is what its running totals end with.
LEMMA SumIs ==
    ASSUME NEW n \in Nat, NEW f \in [1 .. n -> Int], NEW t,
           t[0] = 0, \A k \in 0 .. (n - 1) : t[k + 1] = t[k] + f[k + 1]
    PROVE  SumOf(f) = t[n]
  <1>1. PICK g : /\ g \in [0 .. n -> Int] /\ g[0] = 0
                 /\ \A k \in 0 .. (n - 1) : g[k + 1] = g[k] + f[k + 1]
                 /\ SumOf(f) = g[n]
    BY SumWalk
  <1>. DEFINE S == {k \in 0 .. n : g[k] = t[k]}
  <1>2. 0 \in S
    BY <1>1
  <1>3. ASSUME NEW k \in 0 .. (n - 1), k \in S PROVE k + 1 \in S
    BY <1>1, <1>3
  <1>. HIDE DEF S
  <1>4. \A k \in 0 .. n : k \in S
    BY <1>2, <1>3, UpTo
  <1>5. n \in S
    BY <1>4
  <1>. QED BY <1>1, <1>5 DEF S

\* A sum of integers is one.
LEMMA SumType ==
    ASSUME NEW n \in Nat, NEW f \in [1 .. n -> Int] PROVE SumOf(f) \in Int
  BY SumWalk

\* Sums add up element by element.
LEMMA SumAdds ==
    ASSUME NEW n \in Nat, NEW f \in [1 .. n -> Int], NEW h \in [1 .. n -> Int], NEW s \in [1 .. n -> Int],
           \A i \in 1 .. n : s[i] = f[i] + h[i]
    PROVE  SumOf(s) = SumOf(f) + SumOf(h)
  <1>1. PICK g : /\ g \in [0 .. n -> Int] /\ g[0] = 0
                 /\ \A k \in 0 .. (n - 1) : g[k + 1] = g[k] + f[k + 1]
                 /\ SumOf(f) = g[n]
    BY SumWalk
  <1>2. PICK e : /\ e \in [0 .. n -> Int] /\ e[0] = 0
                 /\ \A k \in 0 .. (n - 1) : e[k + 1] = e[k] + h[k + 1]
                 /\ SumOf(h) = e[n]
    BY SumWalk
  <1>. DEFINE t == [k \in 0 .. n |-> g[k] + e[k]]
  <1>3. t[0] = 0 /\ t[n] = SumOf(f) + SumOf(h)
    BY <1>1, <1>2
  <1>4. ASSUME NEW k \in 0 .. (n - 1) PROVE t[k + 1] = t[k] + s[k + 1]
    <2>1. k \in 0 .. n /\ k + 1 \in 0 .. n /\ k + 1 \in 1 .. n
      OBVIOUS
    <2>. QED BY <2>1, <1>1, <1>2
  <1>. HIDE DEF t
  <1>5. SumOf(s) = t[n]
    BY <1>3, <1>4, SumIs
  <1>. QED BY <1>3, <1>5

\* A common factor comes out of a sum.
LEMMA SumScales ==
    ASSUME NEW n \in Nat, NEW c \in Int, NEW f \in [1 .. n -> Int], NEW s \in [1 .. n -> Int],
           \A i \in 1 .. n : s[i] = c * f[i]
    PROVE  SumOf(s) = c * SumOf(f)
  <1>1. PICK g : /\ g \in [0 .. n -> Int] /\ g[0] = 0
                 /\ \A k \in 0 .. (n - 1) : g[k + 1] = g[k] + f[k + 1]
                 /\ SumOf(f) = g[n]
    BY SumWalk
  <1>. DEFINE t == [k \in 0 .. n |-> c * g[k]]
  <1>3. t[0] = 0 /\ t[n] = c * SumOf(f)
    BY <1>1
  <1>4. ASSUME NEW k \in 0 .. (n - 1) PROVE t[k + 1] = t[k] + s[k + 1]
    <2>1. k \in 0 .. n /\ k + 1 \in 0 .. n /\ k + 1 \in 1 .. n
      OBVIOUS
    <2>2. \A x, y \in Int : c * (x + y) = c * x + c * y
      OBVIOUS
    <2>3. g[k] \in Int /\ f[k + 1] \in Int /\ g[k + 1] = g[k] + f[k + 1]
      BY <2>1, <1>1
    <2>4. t[k] = c * g[k] /\ t[k + 1] = c * g[k + 1] /\ s[k + 1] = c * f[k + 1]
      BY <2>1
    <2>. HIDE DEF t
    <2>. QED BY <2>2, <2>3, <2>4
  <1>. HIDE DEF t
  <1>5. SumOf(s) = t[n]
    BY <1>3, <1>4, SumIs
  <1>. QED BY <1>3, <1>5

\* A sum of what is never negative is zero only where everything is.
LEMMA SumNonneg ==
    ASSUME NEW n \in Nat, NEW f \in [1 .. n -> Int], \A i \in 1 .. n : f[i] >= 0
    PROVE  SumOf(f) >= 0 /\ (SumOf(f) = 0 => \A i \in 1 .. n : f[i] = 0)
  <1>1. PICK g : /\ g \in [0 .. n -> Int] /\ g[0] = 0
                 /\ \A k \in 0 .. (n - 1) : g[k + 1] = g[k] + f[k + 1]
                 /\ SumOf(f) = g[n]
    BY SumWalk
  <1>. DEFINE S == {k \in 0 .. n : g[k] >= 0 /\ \A i \in 1 .. k : g[k] >= f[i]}
  <1>2. 0 \in S
    BY <1>1
  <1>3. ASSUME NEW k \in 0 .. (n - 1), k \in S PROVE k + 1 \in S
    <2>1. k \in 0 .. n /\ k + 1 \in 0 .. n /\ k + 1 \in 1 .. n
      OBVIOUS
    <2>2. g[k] \in Int /\ g[k + 1] \in Int /\ f[k + 1] \in Int /\ g[k + 1] = g[k] + f[k + 1] /\ f[k + 1] >= 0
      BY <2>1, <1>1
    <2>3. g[k] >= 0 /\ \A i \in 1 .. k : g[k] >= f[i]
      BY <1>3
    <2>5. ASSUME NEW i \in 1 .. (k + 1) PROVE g[k + 1] >= f[i]
      <3>1. CASE i = k + 1
        BY <3>1, <2>2, <2>3
      <3>2. CASE i \in 1 .. k
        <4>1. f[i] \in Int /\ g[k] >= f[i]
          BY <2>1, <2>3, <3>2
        <4>. QED BY <4>1, <2>2
      <3>3. i = k + 1 \/ i \in 1 .. k
        BY <2>1
      <3>. QED BY <3>1, <3>2, <3>3
    <2>. QED BY <2>1, <2>2, <2>3, <2>5
  <1>. HIDE DEF S
  <1>4. \A k \in 0 .. n : k \in S
    BY <1>2, <1>3, UpTo
  <1>5. n \in S
    BY <1>4
  <1>. QED BY <1>1, <1>5 DEF S

\* One element changed.
LEMMA SumMoves ==
    ASSUME NEW n \in Nat, NEW f \in [1 .. n -> Int], NEW h \in [1 .. n -> Int], NEW j \in 1 .. n,
           \A i \in 1 .. n : i # j => h[i] = f[i]
    PROVE  SumOf(h) = SumOf(f) + (h[j] - f[j])
  <1>1. PICK g : /\ g \in [0 .. n -> Int] /\ g[0] = 0
                 /\ \A k \in 0 .. (n - 1) : g[k + 1] = g[k] + f[k + 1]
                 /\ SumOf(f) = g[n]
    BY SumWalk
  <1>. DEFINE t == [k \in 0 .. n |-> g[k] + IF k < j THEN 0 ELSE h[j] - f[j]]
  <1>3. t[0] = 0 /\ t[n] = SumOf(f) + (h[j] - f[j])
    BY <1>1
  <1>4. ASSUME NEW k \in 0 .. (n - 1) PROVE t[k + 1] = t[k] + h[k + 1]
    <2>1. k \in 0 .. n /\ k + 1 \in 0 .. n /\ k + 1 \in 1 .. n
      OBVIOUS
    <2>2. h[j] \in Int /\ f[j] \in Int /\ g[k] \in Int /\ f[k + 1] \in Int /\ h[k + 1] \in Int
      BY <2>1, <1>1
    <2>3. CASE k + 1 = j
      <3>1. k < j /\ ~(k + 1 < j)
        BY <2>3
      <3>2. t[k] = g[k] /\ t[k + 1] = g[k + 1] + (h[j] - f[j])
        <4>1. t[k] = g[k] + 0 /\ t[k + 1] = g[k + 1] + (h[j] - f[j])
          BY <2>1, <3>1
        <4>. QED BY <4>1, <2>2
      <3>3. g[k + 1] = g[k] + f[k + 1]
        BY <1>1
      <3>. HIDE DEF t
      <3>. QED BY <2>2, <2>3, <3>2, <3>3, SMTT(20)
    <2>4. CASE k + 1 # j
      <3>1. k < j <=> k + 1 < j
        BY <2>4
      <3>2. h[k + 1] = f[k + 1]
        BY <2>1, <2>4
      <3>. QED BY <2>1, <2>2, <3>1, <3>2, <1>1, SMTT(20)
    <2>. QED BY <2>3, <2>4
  <1>. HIDE DEF t
  <1>5. SumOf(h) = t[n]
    BY <1>3, <1>4, SumIs
  <1>. QED BY <1>3, <1>5

\* One for each element of a set.
LEMMA SumCounts ==
    ASSUME NEW n \in Nat, NEW T \in SUBSET (1 .. n), NEW f \in [1 .. n -> Int],
           \A i \in 1 .. n : f[i] = IF i \in T THEN 1 ELSE 0
    PROVE  SumOf(f) = Cardinality(T)
  <1>. DEFINE U(k) == {i \in T : i <= k}
              t == [k \in 0 .. n |-> Cardinality(U(k))]
  <1>a. \A i \in T : i \in Nat /\ i >= 1 /\ i <= n
    OBVIOUS
  <1>b. U(0) = {} /\ U(n) = T
    <2>1. \A i \in T : ~(i <= 0) /\ i <= n
      BY <1>a
    <2>2. U(0) = {}
      BY <2>1, Zenon
    <2>3. U(n) = T
      BY <2>1, Zenon
    <2>. QED BY <2>2, <2>3
  <1>c. \A k \in 0 .. (n - 1) :
           /\ k + 1 \notin U(k)
           /\ k + 1 \in T => U(k + 1) = U(k) \cup {k + 1}
           /\ k + 1 \notin T => U(k + 1) = U(k)
    <2>. SUFFICES ASSUME NEW k \in 0 .. (n - 1)
                  PROVE  /\ k + 1 \notin U(k)
                         /\ k + 1 \in T => U(k + 1) = U(k) \cup {k + 1}
                         /\ k + 1 \notin T => U(k + 1) = U(k)
      OBVIOUS
    <2>1. ~(k + 1 <= k) /\ \A i \in T : i <= k + 1 <=> (i <= k \/ i = k + 1)
      BY <1>a
    <2>. HIDE DEF t
    <2>2. k + 1 \notin U(k)
      BY <2>1, Zenon
    <2>3. k + 1 \in T => U(k + 1) = U(k) \cup {k + 1}
      BY <2>1, Zenon
    <2>4. k + 1 \notin T => U(k + 1) = U(k)
      BY <2>1, Zenon
    <2>. QED BY <2>2, <2>3, <2>4
  <1>1. \A k \in 0 .. n : IsFiniteSet(U(k)) /\ Cardinality(U(k)) \in Nat
    <2>1. IsFiniteSet(1 .. n)
      BY FS_Interval
    <2>2. \A k : U(k) \in SUBSET (1 .. n)
      OBVIOUS
    <2>. HIDE DEF U
    <2>3. \A k : IsFiniteSet(U(k))
      <3>1. ASSUME NEW k PROVE IsFiniteSet(U(k))
        BY <2>1, <2>2, FS_Subset
      <3>. QED BY <3>1
    <2>4. ASSUME NEW k PROVE Cardinality(U(k)) \in Nat
      BY <2>3, FS_CardinalityType
    <2>. QED BY <2>3, <2>4
  <1>. HIDE DEF U
  <1>2. t[0] = 0
    <2>1. 0 \in 0 .. n
      OBVIOUS
    <2>2. t[0] = Cardinality(U(0))
      BY <2>1
    <2>. QED BY <2>2, <1>b, FS_EmptySet
  <1>3. ASSUME NEW k \in 0 .. (n - 1) PROVE t[k + 1] = t[k] + f[k + 1]
    <2>1. k \in 0 .. n /\ k + 1 \in 0 .. n /\ k + 1 \in 1 .. n
      OBVIOUS
    <2>2. t[k] = Cardinality(U(k)) /\ t[k + 1] = Cardinality(U(k + 1))
      BY <2>1
    <2>3. CASE k + 1 \in T
      <3>3. Cardinality(U(k + 1)) = Cardinality(U(k)) + 1
        BY <2>3, <1>c, <1>1, <2>1, FS_AddElement
      <3>. QED BY <3>3, <2>2, <2>1, <2>3
    <2>4. CASE k + 1 \notin T
      <3>1. U(k + 1) = U(k)
        BY <2>4, <1>c
      <3>2. f[k + 1] = 0 /\ Cardinality(U(k)) \in Nat
        BY <2>4, <2>1, <1>1
      <3>. QED BY <3>1, <3>2, <2>2
    <2>. QED BY <2>3, <2>4
  <1>4. t[n] = Cardinality(T)
    BY <1>b
  <1>. HIDE DEF t
  <1>5. SumOf(f) = t[n]
    BY <1>2, <1>3, SumIs
  <1>. QED BY <1>4, <1>5

-----------------------------------------------------------------------------
\* The remainders' ranks are the numbers below n, each once.
Ranks(n, rest) ==
    [i \in 1 .. n |-> Cardinality({j \in 1 .. n : \/ rest[j] > rest[i]
                                                  \/ rest[j] = rest[i] /\ j < i})]
RankedBelow(n, rest, d) == {i \in 1 .. n : Ranks(n, rest)[i] < d}

\* In any ranking of n remainders exactly d have fewer than d ahead of them.
LEMMA RanksBelow ==
    ASSUME NEW n \in Nat, NEW rest \in [1 .. n -> Int], NEW d \in 0 .. n
    PROVE  Cardinality(RankedBelow(n, rest, d)) = d
  <1>. DEFINE rank == Ranks(n, rest)
              A(i) == {j \in 1 .. n : \/ rest[j] > rest[i]
                                      \/ rest[j] = rest[i] /\ j < i}
              Low == {i \in 1 .. n : rank[i] < d}
              High == {i \in 1 .. n : ~(rank[i] < d)}
  <1>1. IsFiniteSet(1 .. n) /\ Cardinality(1 .. n) = n
    BY FS_Interval
  <1>2. \A i \in 1 .. n : rank[i] = Cardinality(A(i))
    BY DEF Ranks
  <1>. HIDE DEF rank
  <1>3. \A i : A(i) \in SUBSET (1 .. n)
    OBVIOUS
  <1>4. \A i \in 1 .. n : i \notin A(i)
    OBVIOUS
  <1>5. \A i, j \in 1 .. n : i # j => (i \in A(j) \/ j \in A(i))
    OBVIOUS
  <1>6. \A i, j, k \in 1 .. n : i \in A(j) /\ j \in A(k) => i \in A(k)
    OBVIOUS
  <1>. HIDE DEF A
  <1>7. ASSUME NEW i PROVE IsFiniteSet(A(i)) /\ Cardinality(A(i)) \in Nat
    <2>1. IsFiniteSet(A(i))
      BY <1>1, <1>3, FS_Subset
    <2>. QED BY <2>1, FS_CardinalityType
  <1>8. ASSUME NEW i \in 1 .. n, NEW j \in 1 .. n, i \in A(j)
        PROVE  Cardinality(A(i)) < Cardinality(A(j))
    <2>1. A(i) \in SUBSET A(j)
      BY <1>3, <1>6, <1>8
    <2>2. A(i) # A(j)
      BY <1>4, <1>8
    <2>3. Cardinality(A(i)) <= Cardinality(A(j)) /\ (Cardinality(A(j)) = Cardinality(A(i)) => A(j) = A(i))
      BY <2>1, <1>7, FS_Subset
    <2>. QED BY <2>2, <2>3, <1>7
  <1>9. \A i \in 1 .. n : rank[i] \in 0 .. (n - 1)
    <2>. SUFFICES ASSUME NEW i \in 1 .. n PROVE rank[i] \in 0 .. (n - 1)
      OBVIOUS
    <2>1. Cardinality(A(i)) <= n /\ (n = Cardinality(A(i)) => 1 .. n = A(i))
      BY <1>1, <1>3, FS_Subset
    <2>2. 1 .. n # A(i)
      BY <1>4
    <2>. QED BY <2>1, <2>2, <1>2, <1>7
  <1>10. \A i, j \in 1 .. n : i # j => rank[i] # rank[j]
    <2>. SUFFICES ASSUME NEW i \in 1 .. n, NEW j \in 1 .. n, i # j PROVE rank[i] # rank[j]
      OBVIOUS
    <2>1. CASE i \in A(j)
      BY <2>1, <1>8, <1>2, <1>7
    <2>2. CASE j \in A(i)
      BY <2>2, <1>8, <1>2, <1>7
    <2>. QED BY <2>1, <2>2, <1>5
  <1>. HIDE DEF Low, High
  <1>11. Low \in SUBSET (1 .. n) /\ High \in SUBSET (1 .. n) /\ Low \cup High = 1 .. n /\ Low \cap High = {}
    BY DEF Low, High
  <1>12. IsFiniteSet(Low) /\ IsFiniteSet(High)
    BY <1>11, <1>1, FS_Subset
  <1>13. Cardinality(Low) \in Nat /\ Cardinality(High) \in Nat
    BY <1>12, FS_CardinalityType
  <1>14. Cardinality(Low) <= d
    <2>1. SUFFICES ASSUME ~(Cardinality(Low) <= d) PROVE FALSE
      OBVIOUS
    <2>2. IsFiniteSet(0 .. (d - 1)) /\ Cardinality(0 .. (d - 1)) = d
      BY FS_Interval
    <2>3. Cardinality(0 .. (d - 1)) < Cardinality(Low)
      BY <2>1, <2>2, <1>13
    <2>. DEFINE r == [i \in Low |-> rank[i]]
    <2>4. r \in [Low -> 0 .. (d - 1)]
      BY <1>9 DEF Low
    <2>. HIDE DEF r
    <2>5. PICK i, j \in Low : i # j /\ r[i] = r[j]
      BY <1>12, <2>2, <2>3, <2>4, FS_PigeonHole
    <2>. QED BY <2>5, <1>10, <1>11 DEF r
  <1>15. Cardinality(High) <= n - d
    <2>1. SUFFICES ASSUME ~(Cardinality(High) <= n - d) PROVE FALSE
      OBVIOUS
    <2>2. IsFiniteSet(d .. (n - 1)) /\ Cardinality(d .. (n - 1)) = n - d
      <3>1. IsFiniteSet(d .. (n - 1)) /\ Cardinality(d .. (n - 1)) = IF d > n - 1 THEN 0 ELSE (n - 1) - d + 1
        BY FS_Interval
      <3>. QED BY <3>1
    <2>3. Cardinality(d .. (n - 1)) < Cardinality(High)
      BY <2>1, <2>2, <1>13
    <2>. DEFINE r == [i \in High |-> rank[i]]
    <2>4. r \in [High -> d .. (n - 1)]
      BY <1>9 DEF High
    <2>. HIDE DEF r
    <2>5. PICK i, j \in High : i # j /\ r[i] = r[j]
      BY <1>12, <2>2, <2>3, <2>4, FS_PigeonHole
    <2>. QED BY <2>5, <1>10, <1>11 DEF r
  <1>16. Cardinality(Low) + Cardinality(High) = n
    <2>1. Cardinality(Low \cup High) = Cardinality(Low) + Cardinality(High) - Cardinality(Low \cap High)
      BY <1>12, FS_Union
    <2>2. Cardinality({}) = 0
      BY FS_EmptySet
    <2>3. Cardinality(Low \cap High) = 0
      BY <2>2, <1>11, Zenon
    <2>4. Cardinality(Low \cup High) = n
      BY <1>1, <1>11, Zenon
    <2>. QED BY <2>1, <2>3, <2>4, <1>13
  <1>17. Cardinality(Low) = d
    BY <1>13, <1>14, <1>15, <1>16
  <1>. QED BY <1>17 DEF Low, rank, RankedBelow

\* A sum is at most the bound of its elements, once for each.
LEMMA SumBounded ==
    ASSUME NEW n \in Nat, NEW c \in Int, NEW f \in [1 .. n -> Int], \A i \in 1 .. n : f[i] <= c
    PROVE  SumOf(f) <= n * c
  <1>1. PICK g : /\ g \in [0 .. n -> Int] /\ g[0] = 0
                 /\ \A k \in 0 .. (n - 1) : g[k + 1] = g[k] + f[k + 1]
                 /\ SumOf(f) = g[n]
    BY SumWalk
  <1>. DEFINE S == {k \in 0 .. n : g[k] <= k * c}
  <1>2. 0 \in S
    BY <1>1
  <1>3. ASSUME NEW k \in 0 .. (n - 1), k \in S PROVE k + 1 \in S
    <2>1. k \in 0 .. n /\ k + 1 \in 0 .. n /\ k + 1 \in 1 .. n
      OBVIOUS
    <2>2. g[k] \in Int /\ g[k + 1] \in Int /\ f[k + 1] \in Int /\ g[k + 1] = g[k] + f[k + 1] /\ f[k + 1] <= c
      BY <2>1, <1>1
    <2>3. g[k] <= k * c
      BY <1>3
    <2>4. (k + 1) * c = k * c + c /\ k * c \in Int
      OBVIOUS
    <2>5. g[k + 1] <= (k + 1) * c
      BY <2>2, <2>3, <2>4
    <2>. QED BY <2>1, <2>5
  <1>. HIDE DEF S
  <1>4. \A k \in 0 .. n : k \in S
    BY <1>2, <1>3, UpTo
  <1>5. n \in S
    BY <1>4
  <1>. QED BY <1>1, <1>5 DEF S

\* What the down-rounded shares leave over, and each remainder.
LEMMA Rounding ==
    ASSUME NEW a \in Int, NEW w \in Int, w > 0
    PROVE  /\ a \div w \in Int /\ a % w \in 0 .. (w - 1)
           /\ a = w * (a \div w) + (a % w)
  OBVIOUS

\* Rounding down loses less than one unit for each share.
LEMMA Deficit ==
    ASSUME NEW n \in Nat, NEW w \in Int, w > 0, NEW d \in Int, NEW r \in Int,
           w * d = r, r >= 0, r <= n * (w - 1)
    PROVE  d \in 0 .. n
  <1>1. ASSUME NEW x \in Int, x >= 1 PROVE w * x >= w
    BY <1>1
  <1>2. d >= 0
    <2>1. SUFFICES ASSUME d < 0 PROVE FALSE
      OBVIOUS
    <2>2. w * (-d) >= w
      BY <1>1, <2>1
    <2>3. w * (-d) = -(w * d)
      OBVIOUS
    <2>. QED BY <2>2, <2>3
  <1>3. d <= n
    <2>1. SUFFICES ASSUME d > n PROVE FALSE
      OBVIOUS
    <2>2. w * (d - n) >= w
      BY <1>1, <2>1
    <2>3. w * (d - n) = w * d - w * n /\ n * (w - 1) = w * n - n /\ w * n \in Int
      OBVIOUS
    <2>. QED BY <2>2, <2>3
  <1>. QED BY <1>2, <1>3

\* The shares of a total rounded down, and what remains of each.
DownOf(n, total, weights) == [i \in 1 .. n |-> (total * weights[i]) \div SumOf(weights)]
RestOf(n, total, weights) == [i \in 1 .. n |-> (total * weights[i]) % SumOf(weights)]

\* Every share is what is rounded down and what remains; the d units left over
\* are what remains in all.
Divided(n, total, weights, whole, down, rest) ==
    \A i \in 1 .. n : total * weights[i] = whole * down[i] + rest[i]
LeftOver(whole, d, rest) == whole * d = SumOf(rest)
Parted(n, total, weights, down, rest) ==
    LET whole == SumOf(weights)
        deficit == total - SumOf(down)
    IN  /\ whole \in Int /\ whole > 0
        /\ down \in [1 .. n -> Int] /\ rest \in [1 .. n -> Int]
        /\ \A i \in 1 .. n : rest[i] \in 0 .. (whole - 1)
        /\ Divided(n, total, weights, whole, down, rest)
        /\ SumOf(down) \in Int /\ SumOf(rest) \in Int
        /\ LeftOver(whole, deficit, rest)
        /\ deficit \in 0 .. n

\* What is rounded down, what remains of each share, and the units left over.
LEMMA UnitsLeftOver ==
    ASSUME NEW n \in Nat, NEW weights \in [1 .. n -> Nat], NEW total \in Nat, SumOf(weights) # 0,
           NEW down, down = DownOf(n, total, weights),
           NEW rest, rest = RestOf(n, total, weights)
    PROVE  Parted(n, total, weights, down, rest)
  <1>. DEFINE whole == SumOf(weights)
              deficit == total - SumOf(down)
  <1>1. weights \in [1 .. n -> Int] /\ DOMAIN weights = 1 .. n
    OBVIOUS
  <1>2. whole \in Int /\ whole > 0
    <2>1. whole \in Int
      BY <1>1, SumType
    <2>2. whole >= 0
      BY <1>1, SumNonneg
    <2>. QED BY <2>1, <2>2
  <1>3. whole = SumOf(weights) /\ deficit = total - SumOf(down)
    OBVIOUS
  <1>. HIDE DEF whole, deficit
  <1>4. ASSUME NEW i \in 1 .. n
        PROVE  /\ down[i] \in Int /\ rest[i] \in Int /\ rest[i] \in 0 .. (whole - 1)
               /\ total * weights[i] = whole * down[i] + rest[i]
    <2>. DEFINE share == total * weights[i]
    <2>1. share \in Int
      OBVIOUS
    <2>2. down[i] = share \div whole /\ rest[i] = share % whole
      BY <1>3 DEF DownOf, RestOf
    <2>. HIDE DEF share
    <2>3. /\ share \div whole \in Int /\ share % whole \in 0 .. (whole - 1)
          /\ share = whole * (share \div whole) + (share % whole)
      BY <2>1, <1>2, Rounding
    <2>. DEFINE q == share \div whole
                r == share % whole
    <2>4. q \in Int /\ r \in 0 .. (whole - 1) /\ share = whole * q + r /\ down[i] = q /\ rest[i] = r
      BY <2>2, <2>3
    <2>. HIDE DEF q, r
    <2>5. down[i] \in Int /\ rest[i] \in Int /\ rest[i] \in 0 .. (whole - 1)
      BY <2>4, <1>2
    <2>6. share = whole * down[i] + rest[i]
      BY <2>4
    <2>. QED BY <2>5, <2>6 DEF share
  <1>5. down \in [1 .. n -> Int] /\ rest \in [1 .. n -> Int]
    <2>1. (\A i \in 1 .. n : down[i] \in Int) /\ \A i \in 1 .. n : rest[i] \in Int
      BY <1>4
    <2>2. down = [i \in 1 .. n |-> down[i]] /\ rest = [i \in 1 .. n |-> rest[i]]
      BY Zenon DEF DownOf, RestOf
    <2>. QED BY <2>1, <2>2, Zenon
  <1>6. \A i \in 1 .. n : rest[i] \in 0 .. (whole - 1)
    BY <1>4
  <1>7. Divided(n, total, weights, whole, down, rest)
    BY <1>4 DEF Divided
  <1>. DEFINE scaled == [i \in 1 .. n |-> whole * down[i]]
              product == [i \in 1 .. n |-> total * weights[i]]
  <1>8. scaled \in [1 .. n -> Int] /\ product \in [1 .. n -> Int]
    <2>1. \A i \in 1 .. n : down[i] \in Int /\ weights[i] \in Int
      BY <1>1, <1>5
    <2>2. \A x, y \in Int : x * y \in Int
      OBVIOUS
    <2>3. ASSUME NEW i \in 1 .. n PROVE whole * down[i] \in Int /\ total * weights[i] \in Int
      BY <1>2, <2>1, <2>2
    <2>. QED BY <2>3
  <1>9. SumOf(scaled) = whole * SumOf(down)
    <2>1. \A i \in 1 .. n : scaled[i] = whole * down[i]
      OBVIOUS
    <2>. HIDE DEF scaled
    <2>. QED BY <2>1, <1>2, <1>5, <1>8, SumScales
  <1>10. SumOf(product) = total * whole
    <2>1. \A i \in 1 .. n : product[i] = total * weights[i]
      OBVIOUS
    <2>. HIDE DEF product
    <2>2. total \in Int
      OBVIOUS
    <2>. QED BY <2>1, <2>2, <1>1, <1>3, <1>8, SumScales
  <1>11. SumOf(product) = SumOf(scaled) + SumOf(rest)
    <2>1. \A i \in 1 .. n : product[i] = scaled[i] + rest[i]
      BY <1>7 DEF Divided
    <2>. HIDE DEF product, scaled
    <2>2. scaled \in [1 .. n -> Int] /\ rest \in [1 .. n -> Int] /\ product \in [1 .. n -> Int]
      BY <1>5, <1>8
    <2>. QED BY <2>1, <2>2, SumAdds
  <1>. HIDE DEF product, scaled
  <1>12. SumOf(down) \in Int /\ SumOf(rest) \in Int /\ deficit \in Int
    <2>1. SumOf(down) \in Int /\ SumOf(rest) \in Int
      BY <1>5, SumType
    <2>. QED BY <2>1, <1>3
  <1>13. SumOf(rest) >= 0 /\ SumOf(rest) <= n * (whole - 1)
    <2>1. \A i \in 1 .. n : rest[i] >= 0 /\ rest[i] <= whole - 1
      BY <1>2, <1>6
    <2>2. whole - 1 \in Int
      BY <1>2
    <2>3. SumOf(rest) >= 0
      BY <2>1, <1>5, SumNonneg
    <2>4. SumOf(rest) <= n * (whole - 1)
      BY <2>1, <2>2, <1>5, SumBounded
    <2>. QED BY <2>3, <2>4
  <1>14. whole * deficit = SumOf(rest)
    <2>1. \A x, y, z \in Int : x * (y - z) = y * x - x * z
      OBVIOUS
    <2>. DEFINE a == SumOf(down)
                b == SumOf(rest)
                c == total * whole
                d == whole * a
    <2>2. whole * deficit = c - d
      BY <2>1, <1>2, <1>3, <1>12
    <2>3. c = d + b
      BY <1>9, <1>10, <1>11
    <2>4. b \in Int /\ d \in Int
      BY <1>2, <1>12
    <2>. HIDE DEF a, b, c, d
    <2>5. c - d = b
      BY <2>3, <2>4
    <2>. QED BY <2>2, <2>5 DEF b
  <1>15. deficit \in 0 .. n
    <2>. DEFINE r == SumOf(rest)
    <2>1. r \in Int /\ r >= 0 /\ r <= n * (whole - 1) /\ whole * deficit = r /\ deficit \in Int
      BY <1>12, <1>13, <1>14
    <2>. HIDE DEF r
    <2>. QED BY <2>1, <1>2, Deficit
  <1>16. LeftOver(whole, deficit, rest)
    BY <1>14 DEF LeftOver
  <1>. QED BY <1>2, <1>5, <1>6, <1>7, <1>12, <1>15, <1>16 DEF Parted, whole, deficit

\* The largest remainders take what rounding down leaves: the shares add up.
LEMMA RemainderSplitAddsUp ==
    ASSUME NEW n \in Nat, NEW weights \in [1 .. n -> Nat], NEW total \in Nat, SumOf(weights) # 0
    PROVE  /\ RemainderSplit(total, weights) \in [1 .. n -> Int]
           /\ SumOf(RemainderSplit(total, weights)) = total
  <1>. DEFINE whole == SumOf(weights)
              down == [i \in 1 .. n |-> (total * weights[i]) \div whole]
              rest == [i \in 1 .. n |-> (total * weights[i]) % whole]
              deficit == total - SumOf(down)
              rank == [i \in 1 .. n |-> Cardinality({j \in 1 .. n :
                                        \/ rest[j] > rest[i]
                                        \/ rest[j] = rest[i] /\ j < i})]
              extra == [i \in 1 .. n |-> IF rank[i] < deficit THEN 1 ELSE 0]
              shares == [i \in 1 .. n |-> down[i] + extra[i]]
  <1>1. weights \in [1 .. n -> Int] /\ DOMAIN weights = 1 .. n
    OBVIOUS
  <1>2. RemainderSplit(total, weights) = shares
    BY <1>1 DEF RemainderSplit
  <1>3. /\ whole \in Int /\ whole > 0
        /\ down \in [1 .. n -> Int] /\ rest \in [1 .. n -> Int]
        /\ SumOf(down) \in Int /\ deficit \in Int /\ deficit \in 0 .. n
    <2>. HIDE DEF whole, down, rest, deficit
    <2>1. down = DownOf(n, total, weights) /\ rest = RestOf(n, total, weights)
      BY DEF down, rest, whole, DownOf, RestOf
    <2>2. Parted(n, total, weights, down, rest)
      BY <2>1, UnitsLeftOver
    <2>. QED BY <2>2 DEF Parted, whole, deficit
  <1>. HIDE DEF whole, down, rest, deficit
  <1>4. extra = [i \in 1 .. n |-> IF i \in RankedBelow(n, rest, deficit) THEN 1 ELSE 0]
    BY DEF Ranks, RankedBelow
  <1>5. Cardinality(RankedBelow(n, rest, deficit)) = deficit
    BY <1>3, RanksBelow
  <1>. HIDE DEF rank, extra
  <1>6. extra \in [1 .. n -> Int] /\ SumOf(extra) = deficit
    <2>. DEFINE T == RankedBelow(n, rest, deficit)
    <2>1. extra \in [1 .. n -> Int] /\ \A i \in 1 .. n : extra[i] = IF i \in T THEN 1 ELSE 0
      BY <1>4
    <2>2. T \in SUBSET (1 .. n)
      BY DEF RankedBelow
    <2>. HIDE DEF T
    <2>3. SumOf(extra) = Cardinality(T)
      BY <2>1, <2>2, SumCounts
    <2>. QED BY <2>1, <2>3, <1>5 DEF T
  <1>7. shares \in [1 .. n -> Int] /\ SumOf(shares) = SumOf(down) + SumOf(extra)
    <2>1. shares \in [1 .. n -> Int]
      BY <1>3, <1>6
    <2>2. \A i \in 1 .. n : shares[i] = down[i] + extra[i]
      OBVIOUS
    <2>. HIDE DEF shares
    <2>. QED BY <2>1, <2>2, <1>3, <1>6, SumAdds
  <1>8. SumOf(down) + deficit = total
    BY <1>3 DEF deficit
  <1>. HIDE DEF shares
  <1>. QED BY <1>2, <1>6, <1>7, <1>8

\* One list is nowhere above another, hence neither is its sum.
LEMMA SumGrows ==
    ASSUME NEW n \in Nat, NEW f \in [1 .. n -> Int], NEW h \in [1 .. n -> Int],
           \A i \in 1 .. n : f[i] <= h[i]
    PROVE  SumOf(f) <= SumOf(h)
  <1>. DEFINE d == [i \in 1 .. n |-> h[i] - f[i]]
  <1>1. /\ d \in [1 .. n -> Int]
        /\ \A i \in 1 .. n : d[i] >= 0 /\ h[i] = f[i] + d[i]
    OBVIOUS
  <1>. HIDE DEF d
  <1>2. SumOf(h) = SumOf(f) + SumOf(d)
    BY <1>1, SumAdds
  <1>3. SumOf(d) >= 0
    BY <1>1, SumNonneg
  <1>4. SumOf(f) \in Int /\ SumOf(h) \in Int /\ SumOf(d) \in Int
    BY <1>1, SumType
  <1>. QED BY <1>2, <1>3, <1>4

\* A division by a positive number rounds no natural number below zero, and
\* divides nothing into nothing.
LEMMA NoneOfNone ==
    ASSUME NEW w \in Int, w > 0, NEW d \in Int, NEW r \in 0 .. (w - 1), NEW share \in Nat,
           share = w * d + r
    PROVE  d \in Nat /\ (share = 0 => d = 0 /\ r = 0)
  <1>1. \A x \in Int : x >= 1 => w * x >= w
    OBVIOUS
  <1>2. r \in Int /\ 0 <= r /\ r < w /\ w * d \in Int
    OBVIOUS
  <1>3. d >= 0
    <2>1. SUFFICES ASSUME d < 0 PROVE FALSE
      OBVIOUS
    <2>. DEFINE x == -d
    <2>2. x \in Int /\ x >= 1 /\ d = -x
      BY <2>1
    <2>. HIDE DEF x
    <2>3. w * x >= w /\ w * x \in Int /\ w * d = -(w * x)
      BY <2>2, <1>1
    <2>. QED BY <2>3, <1>2
  <1>4. ASSUME share = 0 PROVE d = 0 /\ r = 0
    <2>1. d >= 1 => w * d >= w
      BY <1>1
    <2>2. d = 0
      BY <2>1, <1>2, <1>3, <1>4
    <2>3. w * d = 0
      BY <2>2
    <2>. QED BY <2>2, <2>3, <1>2, <1>4
  <1>. QED BY <1>3, <1>4

\* Remainders of less than a whole each make up fewer wholes than they are.
LEMMA FewEnough ==
    ASSUME NEW w \in Int, w > 0, NEW d \in Int, NEW c \in Nat, w * d <= (w - 1) * c
    PROVE  d <= c
  <1>1. SUFFICES ASSUME d >= c + 1 PROVE FALSE
    OBVIOUS
  <1>. DEFINE x == d - c
  <1>2. x \in Int /\ x >= 1 /\ d = c + x
    BY <1>1
  <1>. HIDE DEF x
  <1>3. w * x >= w
    BY <1>2
  <1>4. w * d = w * c + w * x /\ (w - 1) * c = w * c - c /\ w * c \in Int /\ w * x \in Int
    BY <1>2
  <1>. DEFINE p == w * c
              q == w * x
              r == w * d
              t == (w - 1) * c
  <1>5. p \in Int /\ q \in Int /\ q >= w /\ r = p + q /\ t = p - c /\ r <= t
    BY <1>3, <1>4
  <1>. HIDE DEF p, q, r, t
  <1>. QED BY <1>5

\* What weighs nothing is given nothing, not even a unit left over: there are
\* as many remainders as units, and its own is none.
LEMMA NothingForNothing ==
    ASSUME NEW n \in Nat, NEW weights \in [1 .. n -> Nat], NEW total \in Nat, SumOf(weights) # 0,
           NEW i \in 1 .. n
    PROVE  /\ RemainderSplit(total, weights)[i] \in Nat
           /\ weights[i] = 0 => RemainderSplit(total, weights)[i] = 0
  <1>. DEFINE whole == SumOf(weights)
              down == [j \in 1 .. n |-> (total * weights[j]) \div whole]
              rest == [j \in 1 .. n |-> (total * weights[j]) % whole]
              deficit == total - SumOf(down)
              Ahead == {j \in 1 .. n : \/ rest[j] > rest[i]
                                       \/ rest[j] = rest[i] /\ j < i}
  <1>1. RemainderSplit(total, weights)[i] = down[i] + IF Cardinality(Ahead) < deficit THEN 1 ELSE 0
    BY DEF RemainderSplit
  <1>2. /\ whole \in Int /\ whole > 0
        /\ down \in [1 .. n -> Int] /\ rest \in [1 .. n -> Int]
        /\ \A j \in 1 .. n : rest[j] \in 0 .. (whole - 1)
        /\ Divided(n, total, weights, whole, down, rest)
        /\ LeftOver(whole, deficit, rest) /\ deficit \in 0 .. n
    <2>. HIDE DEF whole, down, rest, deficit
    <2>1. down = DownOf(n, total, weights) /\ rest = RestOf(n, total, weights)
      BY DEF down, rest, whole, DownOf, RestOf
    <2>2. Parted(n, total, weights, down, rest)
      BY <2>1, UnitsLeftOver
    <2>. QED BY <2>2 DEF Parted, whole, deficit
  <1>. HIDE DEF whole, down, rest, deficit
  <1>3. down[i] \in Int /\ rest[i] \in 0 .. (whole - 1) /\ rest[i] \in Int
        /\ total * weights[i] = whole * down[i] + rest[i]
    <2>1. down[i] \in Int /\ rest[i] \in Int
      BY <1>2
    <2>2. rest[i] \in 0 .. (whole - 1)
      BY <1>2
    <2>3. total * weights[i] = whole * down[i] + rest[i]
      BY <1>2 DEF Divided
    <2>. QED BY <2>1, <2>2, <2>3
  <1>. DEFINE d == down[i]
              r == rest[i]
              share == total * weights[i]
  <1>4. d \in Nat /\ (share = 0 => d = 0 /\ r = 0)
    <2>1. d \in Int /\ r \in 0 .. (whole - 1) /\ share = whole * d + r
      BY <1>3
    <2>2. share \in Nat
      OBVIOUS
    <2>. HIDE DEF d, r, share
    <2>. QED BY <2>1, <2>2, <1>2, NoneOfNone
  <1>5. ASSUME weights[i] = 0 PROVE rest[i] = 0 /\ down[i] = 0
    <2>1. share = 0
      BY <1>5
    <2>. HIDE DEF share
    <2>. QED BY <2>1, <1>4
  <1>. HIDE DEF d, r, share
  <1>6. ASSUME weights[i] = 0 PROVE ~(Cardinality(Ahead) < deficit)
    <2>. DEFINE left == {j \in 1 .. n : rest[j] # 0}
                one == [j \in 1 .. n |-> IF j \in left THEN 1 ELSE 0]
                most == [j \in 1 .. n |-> (whole - 1) * one[j]]
                c == Cardinality(left)
    <2>1. left \subseteq Ahead
      <3>1. rest[i] = 0
        BY <1>5, <1>6
      <3>2. \A j \in 1 .. n : rest[j] \in Int /\ (rest[j] # 0 => rest[j] > 0)
        BY <1>2
      <3>. QED BY <3>1, <3>2
    <2>2. IsFiniteSet(1 .. n) /\ IsFiniteSet(Ahead) /\ IsFiniteSet(left)
      <3>1. IsFiniteSet(1 .. n)
        BY FS_Interval
      <3>. QED BY <3>1, FS_Subset
    <2>3. c \in Nat /\ Cardinality(Ahead) \in Nat /\ c <= Cardinality(Ahead)
      BY <2>1, <2>2, FS_Subset, FS_CardinalityType
    <2>4. one \in [1 .. n -> Int] /\ SumOf(one) = c
      <3>1. one \in [1 .. n -> Int] /\ left \in SUBSET (1 .. n)
            /\ \A j \in 1 .. n : one[j] = IF j \in left THEN 1 ELSE 0
        OBVIOUS
      <3>. HIDE DEF one, left
      <3>. QED BY <3>1, SumCounts
    <2>5. \A j \in 1 .. n : most[j] \in Int /\ rest[j] <= most[j]
      <3>. SUFFICES ASSUME NEW j \in 1 .. n PROVE most[j] \in Int /\ rest[j] <= most[j]
        OBVIOUS
      <3>1. whole - 1 \in Int /\ rest[j] \in 0 .. (whole - 1)
        BY <1>2
      <3>2. CASE j \in left
        BY <3>1, <3>2
      <3>3. CASE j \notin left
        <4>1. rest[j] = 0 /\ most[j] = (whole - 1) * 0
          BY <3>3
        <4>. QED BY <4>1, <3>1
      <3>. QED BY <3>2, <3>3
    <2>6. SumOf(most) = (whole - 1) * c
      <3>1. most \in [1 .. n -> Int] /\ \A j \in 1 .. n : most[j] = (whole - 1) * one[j]
        BY <2>5
      <3>2. whole - 1 \in Int
        BY <1>2
      <3>3. one \in [1 .. n -> Int] /\ SumOf(one) = c
        BY <2>4
      <3>. HIDE DEF most, one, c
      <3>4. SumOf(most) = (whole - 1) * SumOf(one)
        BY <3>1, <3>2, <3>3, SumScales
      <3>. QED BY <3>3, <3>4
    <2>7. SumOf(rest) <= (whole - 1) * c
      <3>1. most \in [1 .. n -> Int]
        BY <2>5
      <3>. HIDE DEF most
      <3>. QED BY <3>1, <2>5, <2>6, <1>2, SumGrows
    <2>. HIDE DEF left, one, most, c, Ahead
    <2>8. deficit <= c
      <3>1. whole * deficit <= (whole - 1) * c
        BY <2>7, <1>2 DEF LeftOver
      <3>2. whole \in Int /\ whole > 0 /\ deficit \in Int
        BY <1>2
      <3>. QED BY <3>1, <3>2, <2>3, FewEnough
    <2>. QED BY <2>3, <2>8, <1>2 DEF c
  <1>. HIDE DEF Ahead
  <1>7. down[i] \in Nat
    BY <1>4 DEF d
  <1>. QED BY <1>1, <1>5, <1>6, <1>7

-----------------------------------------------------------------------------
(***************************************************************************)
(* The money.  What one fill brings each book is told by the legs it has:  *)
(* over the strategies they come to the fill and to its fee.  The lots and *)
(* the journal keep theirs whatever the prices are; an average kept by     *)
(* division keeps it where it divides.                                     *)
(***************************************************************************)
\* The books Accounts uses and those Book uses are the same operators.
LEMMA BooksAreThese ==
    /\ \A f : Books!SumOf(f) = SumOf(f)
    /\ \A f, order, signed : Books!FillShares(f, order, signed) = FillShares(f, order, signed)
    /\ \A total, weights : Books!LargestRemainderSplit(total, weights) = LargestRemainderSplit(total, weights)
  <1>1. ASSUME NEW f PROVE Books!SumOf(f) = SumOf(f)
    BY DEF Books!SumOf, SumOf, FoldLeft, MapThenFoldSet, Books!FoldLeft, Books!MapThenFoldSet, Max, Books!Max
  <1>2. ASSUME NEW total, NEW weights
        PROVE  Books!LargestRemainderSplit(total, weights) = LargestRemainderSplit(total, weights)
    <2>1. Books!EvenSplit(total, weights) = EvenSplit(total, weights)
      BY DEF Books!EvenSplit, EvenSplit
    <2>2. Books!RemainderSplit(total, weights) = RemainderSplit(total, weights)
      <3>. DEFINE Down(k) == [i \in DOMAIN weights |-> (total * weights[i]) \div k]
                  Rest(k, i) == (total * weights[i]) % k
                  Ahead(k, i) == {j \in DOMAIN weights :
                                     \/ Rest(k, j) > Rest(k, i)
                                     \/ Rest(k, j) = Rest(k, i) /\ j < i}
                  Split(k, d) == [i \in DOMAIN weights |->
                      (total * weights[i]) \div k + IF Cardinality(Ahead(k, i)) < d THEN 1 ELSE 0]
      <3>2. RemainderSplit(total, weights) = Split(SumOf(weights), total - SumOf(Down(SumOf(weights))))
        BY Zenon DEF RemainderSplit
      <3>3. Books!RemainderSplit(total, weights) =
                Split(Books!SumOf(weights), total - Books!SumOf(Down(Books!SumOf(weights))))
        BY Zenon DEF Books!RemainderSplit, Books!Cardinality, Cardinality
      <3>. HIDE DEF Split, Down
      <3>. QED BY <3>2, <3>3, <1>1
    <2>. QED BY <1>1, <2>1, <2>2 DEF Books!LargestRemainderSplit, LargestRemainderSplit
  <1>3. ASSUME NEW f, NEW order, NEW signed
        PROVE  Books!FillShares(f, order, signed) = FillShares(f, order, signed)
    BY <1>2 DEF Books!FillShares, FillShares, Books!FillWeights, FillWeights, Books!Abs, Abs
  <1>. QED BY <1>1, <1>2, <1>3

\* A sum over a longer list is more by what was added.
LEMMA SumAppends ==
    ASSUME NEW f \in Seq(Int), NEW e \in Int PROVE SumOf(Append(f, e)) = SumOf(f) + e
  <1>1. SumOf(f) = Sums!Fold(0, 0, f) /\ SumOf(Append(f, e)) = Sums!Fold(0, 0, Append(f, e))
    BY DEF SumOf, FoldLeft, MapThenFoldSet, AddUp, Sums!Fold, Sums!FoldLeft, Sums!MapThenFoldSet,
           Max, Sums!Max
  <1>2. Sums!Fold(0, 0, Append(f, e)) = AddUp(0, Sums!Fold(0, 0, f), e)
    BY Sums!OneMore
  <1>. QED BY <1>1, <1>2 DEF AddUp

-----------------------------------------------------------------------------
\* The total of what each strategy has.
Over(v) == SumOf([i \in DOMAIN StrategyOrder |-> v[StrategyOrder[i]]])

\* The list names every strategy once.
LEMMA StrategiesListed ==
    /\ Len(StrategyOrder) \in Nat /\ DOMAIN StrategyOrder = 1 .. Len(StrategyOrder)
    /\ \A i \in 1 .. Len(StrategyOrder) : StrategyOrder[i] \in Strategies
    /\ \A s \in Strategies : \E i \in 1 .. Len(StrategyOrder) : StrategyOrder[i] = s
    /\ \A i, j \in 1 .. Len(StrategyOrder) : StrategyOrder[i] = StrategyOrder[j] => i = j
  <1>1. StrategyOrder \in Seq(Strategies) /\ Strategies \subseteq Range(StrategyOrder)
        /\ \A i, j \in DOMAIN StrategyOrder : StrategyOrder[i] = StrategyOrder[j] => i = j
    BY AccountsAssumption
  <1>2. Len(StrategyOrder) \in Nat /\ DOMAIN StrategyOrder = 1 .. Len(StrategyOrder)
        /\ \A i \in 1 .. Len(StrategyOrder) : StrategyOrder[i] \in Strategies
    BY <1>1
  <1>. QED BY <1>1, <1>2 DEF Range

\* Such a total is a number.
LEMMA OverType ==
    ASSUME NEW v \in [Strategies -> Int]
    PROVE  /\ [i \in DOMAIN StrategyOrder |-> v[StrategyOrder[i]]] \in [1 .. Len(StrategyOrder) -> Int]
           /\ Over(v) \in Int
  <1>1. [i \in DOMAIN StrategyOrder |-> v[StrategyOrder[i]]] \in [1 .. Len(StrategyOrder) -> Int]
    BY StrategiesListed
  <1>. QED BY <1>1, StrategiesListed, SumType DEF Over

\* Totals over the strategies add up strategy by strategy.
LEMMA OverAdds ==
    ASSUME NEW v \in [Strategies -> Int], NEW w \in [Strategies -> Int], NEW x \in [Strategies -> Int],
           \A s \in Strategies : x[s] = v[s] + w[s]
    PROVE  Over(x) = Over(v) + Over(w)
  <1>. DEFINE n == Len(StrategyOrder)
              V == [i \in DOMAIN StrategyOrder |-> v[StrategyOrder[i]]]
              W == [i \in DOMAIN StrategyOrder |-> w[StrategyOrder[i]]]
              X == [i \in DOMAIN StrategyOrder |-> x[StrategyOrder[i]]]
  <1>1. n \in Nat /\ V \in [1 .. n -> Int] /\ W \in [1 .. n -> Int] /\ X \in [1 .. n -> Int]
    BY OverType, StrategiesListed
  <1>2. \A i \in 1 .. n : X[i] = V[i] + W[i]
    BY StrategiesListed
  <1>3. Over(v) = SumOf(V) /\ Over(w) = SumOf(W) /\ Over(x) = SumOf(X)
    BY DEF Over
  <1>. HIDE DEF n, V, W, X
  <1>4. SumOf(X) = SumOf(V) + SumOf(W)
    BY <1>1, <1>2, SumAdds
  <1>. QED BY <1>3, <1>4

\* The total of what is zero everywhere, or everywhere but at one place.
LEMMA SumSingle ==
    ASSUME NEW n \in Nat, NEW j \in 1 .. n, NEW f \in [1 .. n -> Int],
           \A i \in 1 .. n : i # j => f[i] = 0
    PROVE  SumOf(f) = f[j]
  <1>. DEFINE none == [i \in 1 .. n |-> 0]
              t == [k \in 0 .. n |-> 0]
  <1>1. none \in [1 .. n -> Int] /\ t[0] = 0 /\ t[n] = 0
        /\ \A k \in 0 .. (n - 1) : t[k + 1] = t[k] + none[k + 1]
    OBVIOUS
  <1>2. none[j] = 0 /\ \A i \in 1 .. n : i # j => f[i] = none[i]
    OBVIOUS
  <1>. HIDE DEF none, t
  <1>3. SumOf(none) = 0
    <2>1. none \in [1 .. n -> Int] /\ t[0] = 0 /\ \A k \in 0 .. (n - 1) : t[k + 1] = t[k] + none[k + 1]
      BY <1>1
    <2>2. SumOf(none) = t[n]
      BY <2>1, SumIs
    <2>. QED BY <2>2, <1>1
  <1>4. SumOf(f) = SumOf(none) + (f[j] - none[j])
    BY <1>1, <1>2, SumMoves
  <1>. QED BY <1>2, <1>3, <1>4

\* A fill has a leg for every strategy, or for the one whose order it is of.
LegsFor(of) == of = StrategyOrder \/ \E s \in Strategies : of = <<s>>

\* What a list of legs brings is brought to the strategies.
LEMMA LegsCover ==
    ASSUME NEW of, LegsFor(of),
           NEW f \in [1 .. Len(of) -> Int], NEW v \in [Strategies -> Int],
           \A i \in 1 .. Len(of) : v[of[i]] = f[i],
           \A s \in Strategies : (\A i \in 1 .. Len(of) : of[i] # s) => v[s] = 0
    PROVE  Over(v) = SumOf(f)
  <1>1. CASE of = StrategyOrder
    <2>1. [i \in DOMAIN StrategyOrder |-> v[StrategyOrder[i]]] = f
      BY <1>1, StrategiesListed
    <2>. QED BY <2>1 DEF Over
  <1>2. ASSUME NEW s \in Strategies, of = <<s>> PROVE Over(v) = SumOf(f)
    <2>. DEFINE g == [i \in DOMAIN StrategyOrder |-> v[StrategyOrder[i]]]
    <2>1. Len(of) = 1 /\ of[1] = s /\ f \in [1 .. 1 -> Int] /\ v[s] = f[1]
      BY <1>2
    <2>2. SumOf(f) = f[1]
      <3>1. 1 \in Nat /\ 1 \in 1 .. 1 /\ f \in [1 .. 1 -> Int] /\ \A i \in 1 .. 1 : i # 1 => f[i] = 0
        BY <2>1
      <3>. QED BY <3>1, SumSingle
    <2>3. PICK j \in 1 .. Len(StrategyOrder) : StrategyOrder[j] = s
      BY StrategiesListed
    <2>4. \A t \in Strategies : t # s => v[t] = 0
      BY <1>2, <2>1
    <2>5. g \in [1 .. Len(StrategyOrder) -> Int] /\ g[j] = v[s]
          /\ \A i \in 1 .. Len(StrategyOrder) : i # j => g[i] = 0
      BY <2>3, <2>4, StrategiesListed
    <2>. DEFINE n == Len(StrategyOrder)
    <2>6. n \in Nat /\ j \in 1 .. n /\ g \in [1 .. n -> Int] /\ \A i \in 1 .. n : i # j => g[i] = 0
      BY <2>5, StrategiesListed
    <2>. HIDE DEF g, n
    <2>7. SumOf(g) = g[j]
      BY <2>6, SumSingle
    <2>. QED BY <2>1, <2>2, <2>5, <2>7 DEF g, Over
  <1>. QED BY <1>1, <1>2 DEF LegsFor

\* The fees of a split come to the fee, and who has no share pays none.
LEMMA FeesAddUp ==
    ASSUME NEW n \in Nat, NEW shares \in [1 .. n -> Nat], NEW total \in Int, SumOf(shares) > 0
    PROVE  /\ split_fees(total, shares) \in [1 .. n -> Int]
           /\ SumOf(split_fees(total, shares)) = total
           /\ \A i \in 1 .. n : shares[i] = 0 => split_fees(total, shares)[i] = 0
  <1>. DEFINE whole == SumOf(shares)
              rounded(k) == LET q == (total * k) \div whole
                                r == 2 * ((total * k) % whole)
                            IN  IF r > whole \/ (r = whole /\ q % 2 = 1) THEN q + 1 ELSE q
              last == Max({i \in 1 .. n : shares[i] > 0})
              rest == [i \in 1 .. n |-> IF i = last THEN 0 ELSE rounded(shares[i])]
              others == SumOf(rest)
              fees == [i \in 1 .. n |-> IF i = last THEN total - others ELSE rounded(shares[i])]
  <1>1. split_fees(total, shares) = fees
    <2>1. DOMAIN shares = 1 .. n /\ Books!SumOf(shares) = whole /\ Books!SumOf(rest) = others
      BY BooksAreThese
    <2>. QED BY <2>1, Zenon DEF split_fees
  <1>2. whole \in Int /\ whole > 0
    <2>1. shares \in [1 .. n -> Int]
      OBVIOUS
    <2>. QED BY <2>1, SumType
  <1>3. last \in 1 .. n /\ shares[last] > 0
    <2>. DEFINE some == {i \in 1 .. n : shares[i] > 0}
    <2>1. some # {}
      <3>1. SUFFICES ASSUME some = {} PROVE FALSE
        OBVIOUS
      <3>2. shares \in [1 .. n -> Int] /\ \A i \in 1 .. n : shares[i] <= 0
        BY <3>1
      <3>. DEFINE none == [i \in 1 .. n |-> 0]
                  t == [k \in 0 .. n |-> 0]
      <3>3. none \in [1 .. n -> Int] /\ t[0] = 0 /\ t[n] = 0
            /\ \A k \in 0 .. (n - 1) : t[k + 1] = t[k] + none[k + 1]
            /\ \A i \in 1 .. n : shares[i] <= none[i]
        BY <3>2
      <3>. HIDE DEF none, t
      <3>4. SumOf(none) = 0
        BY <3>3, SumIs
      <3>5. SumOf(shares) <= SumOf(none)
        <4>1. /\ none \in [1 .. n -> Int] /\ shares \in [1 .. n -> Int]
              /\ \A i \in 1 .. n : shares[i] <= none[i]
          BY <3>2, <3>3
        <4>. QED BY <4>1, SumGrows
      <3>. QED BY <3>4, <3>5, <1>2
    <2>2. some \in SUBSET (1 .. n)
      OBVIOUS
    <2>. HIDE DEF some
    <2>3. Max(some) \in some
      BY <2>1, <2>2, Sums!Largest DEF Max, Sums!Max
    <2>. QED BY <2>3 DEF some
  <1>. HIDE DEF whole, last
  <1>4. ASSUME NEW k \in Int PROVE rounded(k) \in Int /\ (k = 0 => rounded(k) = 0)
    <2>1. total * k \in Int
      OBVIOUS
    <2>2. (total * k) \div whole \in Int /\ (total * k) % whole \in Int
      BY <2>1, <1>2
    <2>3. ASSUME k = 0 PROVE rounded(k) = 0
      <3>1. total * k = 0
        BY <2>3
      <3>2. 0 \div whole = 0 /\ 0 % whole = 0
        BY <1>2
      <3>. QED BY <3>1, <3>2, <1>2
    <2>. QED BY <2>2, <2>3
  <1>. HIDE DEF rounded
  <1>5. rest \in [1 .. n -> Int] /\ rest[last] = 0
    BY <1>3, <1>4
  <1>6. others \in Int
    BY <1>5, SumType
  <1>7. fees \in [1 .. n -> Int]
    <2>1. ASSUME NEW i \in 1 .. n PROVE (IF i = last THEN total - others ELSE rounded(shares[i])) \in Int
      <3>1. total - others \in Int /\ shares[i] \in Int
        BY <1>6
      <3>. HIDE DEF others
      <3>. QED BY <3>1, <1>4
    <2>. QED BY <2>1
  <1>8. SumOf(fees) = SumOf(rest) + (fees[last] - rest[last])
    <2>1. \A i \in 1 .. n : i # last => fees[i] = rest[i]
      OBVIOUS
    <2>. HIDE DEF fees, rest
    <2>. QED BY <2>1, <1>3, <1>5, <1>7, SumMoves
  <1>9. fees[last] = total - others
    BY <1>3
  <1>10. \A i \in 1 .. n : shares[i] = 0 => fees[i] = 0
    BY <1>3, <1>4
  <1>. HIDE DEF fees, rest
  <1>. QED BY <1>1, <1>5, <1>6, <1>7, <1>8, <1>9, <1>10

-----------------------------------------------------------------------------
\* A store, and what it shows.
Stores == [qty : Int, avg : Int, realized : Int, unrealized : Int, fees : Int,
           mark : {<<>>} \cup {<<q>> : q \in Quotes}]

\* A store shows what its position is worth at the last mark.
Marked(p) == p.unrealized = IF p.qty = 0 \/ p.mark = <<>> THEN 0
                            ELSE (Liquidation(p.mark[1], p.qty > 0) - p.avg) * p.qty

\* A number is its sign and its size.
LEMMA SignsAndSizes ==
    ASSUME NEW x \in Int
    PROVE  /\ Size(x) \in Nat /\ Sgn(x) \in {-1, 0, 1} /\ x = Sgn(x) * Size(x)
           /\ (x > 0 => Sgn(x) = 1 /\ Size(x) = x) /\ (x < 0 => Sgn(x) = -1 /\ Size(x) = -x)
           /\ (x = 0 => Sgn(x) = 0 /\ Size(x) = 0)
  BY DEF Size, Sgn

\* The lesser of two numbers.
LEMMA LesserOfTwo == \A x, y \in Int : Min({x, y}) = IF x <= y THEN x ELSE y
  <1>. SUFFICES ASSUME NEW x \in Int, NEW y \in Int PROVE Min({x, y}) = IF x <= y THEN x ELSE y
    OBVIOUS
  <1>. DEFINE m == IF x <= y THEN x ELSE y
  <1>1. m \in {x, y} /\ \A z \in {x, y} : m <= z
    OBVIOUS
  <1>2. \A u \in {x, y} : (\A z \in {x, y} : u <= z) => u = m
    OBVIOUS
  <1>3. Min({x, y}) = CHOOSE u \in {x, y} : \A z \in {x, y} : u <= z
    BY DEF Min
  <1>. HIDE DEF m
  <1>4. (CHOOSE u \in {x, y} : \A z \in {x, y} : u <= z) = m
    BY <1>1, <1>2, Zenon
  <1>. QED BY <1>3, <1>4 DEF m

\* A mark has a price for either side.
LEMMA MarkPrices ==
    ASSUME NEW p \in Stores, p.mark # <<>>
    PROVE  /\ Liquidation(p.mark[1], TRUE) \in Int /\ Liquidation(p.mark[1], FALSE) \in Int
  <1>1. p.mark[1] \in Quotes
    BY DEF Stores
  <1>2. p.mark[1].bid \in Int /\ p.mark[1].ask \in Int
    BY <1>1, AccountsAssumption
  <1>. QED BY <1>2 DEF Liquidation, Fraction

\* Marking a store changes nothing but what it shows.
LEMMA StoreMarked ==
    ASSUME NEW p \in Stores
    PROVE  LET r == _recompute_unrealized(p)
           IN  /\ r \in Stores /\ Marked(r) /\ r.qty = p.qty /\ r.avg = p.avg
               /\ r.realized = p.realized /\ r.fees = p.fees /\ r.mark = p.mark
  <1>. DEFINE u == IF p.qty = 0 \/ p.mark = <<>> THEN 0
                   ELSE (Liquidation(p.mark[1], p.qty > 0) - p.avg) * p.qty
              r == [p EXCEPT !.unrealized = u]
  <1>1. _recompute_unrealized(p) = r
    BY DEF _recompute_unrealized
  <1>2. u \in Int
    <2>1. p.qty \in Int /\ p.avg \in Int
      BY DEF Stores
    <2>2. CASE p.mark = <<>>
      BY <2>2
    <2>3. CASE p.mark # <<>>
      <3>1. Liquidation(p.mark[1], p.qty > 0) \in Int
        BY <2>3, MarkPrices DEF Liquidation
      <3>2. \A x, y, z \in Int : (x - y) * z \in Int
        OBVIOUS
      <3>. QED BY <2>1, <3>1, <3>2
    <2>. QED BY <2>2, <2>3
  <1>3. u = IF p.qty = 0 \/ p.mark = <<>> THEN 0
            ELSE (Liquidation(p.mark[1], p.qty > 0) - p.avg) * p.qty
    OBVIOUS
  <1>. HIDE DEF u
  <1>4. r \in Stores /\ r.unrealized = u /\ r.qty = p.qty /\ r.avg = p.avg
        /\ r.realized = p.realized /\ r.fees = p.fees /\ r.mark = p.mark
    BY <1>2 DEF Stores
  <1>. QED BY <1>1, <1>3, <1>4 DEF Marked

\* A fill that makes an average divides; any other needs nothing of the kind.
Whole(q, a, d, price) ==
    Sgn(q) = Sgn(d) => (a * Size(q) + price * Size(d)) % Size(q + d) = 0

\* Money in, money held, money earned: one fill keeps them equal, when it closes
\* more than is held, when it closes less, and when it adds at the average.
LEMMA MoneyMoves ==
    /\ \A q, a, d, p \in Int : (q + d) * p - q * (p - a) = q * a + d * p
    /\ \A q, a, d, p \in Int : (q + d) * a - (-d) * (p - a) = q * a + d * p
    /\ \A q, a, d, p \in Int : a * (-q) + p * (-d) = -(q * a + d * p) /\ a * q + p * d = q * a + d * p
    /\ \A x, y \in Int : x * y \in Int /\ (-x) * y = -(x * y)
  OBVIOUS

\* What a fill closes and the average it leaves.
Earned(q, d) == (IF Sgn(q) * Sgn(d) < 0 THEN Min({Size(q), Size(d)}) ELSE 0) * Sgn(q)
NextAverage(q, a, d, price) ==
    IF q + d = 0 THEN 0
    ELSE IF Sgn(q) # Sgn(q + d) THEN price
    ELSE IF Sgn(q) # Sgn(d) THEN a
    ELSE (a * Size(q) + price * Size(d)) \div Size(q + d)

\* What a fill closes: what is held, or what it brings.
LEMMA EarnedIs ==
    ASSUME NEW q \in Int, NEW d \in Int, d # 0
    PROVE  Earned(q, d) = IF q = 0 \/ Sgn(q) = Sgn(d) THEN 0 ELSE IF Size(q) <= Size(d) THEN q ELSE -d
  <1>1. Size(q) \in Int /\ Size(d) \in Int
    BY DEF Size
  <1>2. CASE q = 0 \/ Sgn(q) = Sgn(d)
    <2>1. ~(Sgn(q) * Sgn(d) < 0)
      BY <1>2 DEF Sgn
    <2>2. Sgn(q) \in Int
      BY DEF Sgn
    <2>. QED BY <1>2, <2>1, <2>2 DEF Earned
  <1>3. CASE q > 0 /\ d < 0
    <2>1. Sgn(q) = 1 /\ Sgn(d) = -1 /\ Size(q) = q /\ Size(d) = -d
      BY <1>3 DEF Sgn, Size
    <2>2. Earned(q, d) = Min({Size(q), Size(d)}) * 1
      BY <2>1 DEF Earned
    <2>. QED BY <1>3, <2>1, <2>2, LesserOfTwo
  <1>4. CASE q < 0 /\ d > 0
    <2>1. Sgn(q) = -1 /\ Sgn(d) = 1 /\ Size(q) = -q /\ Size(d) = d
      BY <1>4 DEF Sgn, Size
    <2>2. Earned(q, d) = Min({Size(q), Size(d)}) * (-1)
      BY <2>1 DEF Earned
    <2>. QED BY <1>4, <2>1, <2>2, LesserOfTwo
  <1>5. q = 0 \/ Sgn(q) = Sgn(d) \/ (q > 0 /\ d < 0) \/ (q < 0 /\ d > 0)
    BY DEF Sgn
  <1>. QED BY <1>2, <1>3, <1>4, <1>5

\* The money of a position after a fill is what it was and what was paid.
MoneyKept(q, a, d, price) ==
    (q + d) * NextAverage(q, a, d, price) - Earned(q, d) * (price - a) = q * a + d * price

\* What a fill earns and the average it leaves are numbers.
LEMMA FillTyped ==
    ASSUME NEW q \in Int, NEW a \in Int, NEW d \in Int, NEW price \in Int, d # 0
    PROVE  Earned(q, d) \in Int /\ NextAverage(q, a, d, price) \in Int
  <1>1. Earned(q, d) \in Int
    BY EarnedIs
  <1>2. CASE q + d = 0 \/ Sgn(q) # Sgn(q + d) \/ Sgn(q) # Sgn(d)
    <2>1. NextAverage(q, a, d, price) \in {0, price, a}
      BY <1>2 DEF NextAverage
    <2>. QED BY <2>1, <1>1
  <1>3. CASE ~(q + d = 0 \/ Sgn(q) # Sgn(q + d) \/ Sgn(q) # Sgn(d))
    <2>. DEFINE t == a * Size(q) + price * Size(d)
                z == Size(q + d)
    <2>1. Size(q) \in Int /\ Size(d) \in Int /\ z \in Int /\ z > 0
      BY <1>3 DEF Size
    <2>2. t \in Int
      <3>1. a * Size(q) \in Int /\ price * Size(d) \in Int
        BY <2>1, MoneyMoves
      <3>. QED BY <3>1
    <2>3. NextAverage(q, a, d, price) = t \div z
      BY <1>3 DEF NextAverage
    <2>. HIDE DEF t, z
    <2>. QED BY <2>1, <2>2, <2>3, <1>1, Rounding
  <1>. QED BY <1>2, <1>3

\* A fill keeps the money, where the average it makes divides.
LEMMA FillKeepsMoney ==
    ASSUME NEW q \in Int, NEW a \in Int, NEW d \in Int, NEW price \in Int, d # 0, Whole(q, a, d, price)
    PROVE  MoneyKept(q, a, d, price)
  <1>. DEFINE e == Earned(q, d)
              next == NextAverage(q, a, d, price)
  <1>1. e = IF q = 0 \/ Sgn(q) = Sgn(d) THEN 0 ELSE IF Size(q) <= Size(d) THEN q ELSE -d
    BY EarnedIs
  <1>. HIDE DEF e
  <1>2. CASE q = 0
    <2>1. e = 0 /\ next = price
      BY <1>1, <1>2 DEF Sgn, NextAverage
    <2>. HIDE DEF next
    <2>2. (0 + d) * price - 0 * (price - a) = 0 * a + d * price
      BY MoneyMoves
    <2>. QED BY <1>2, <2>1, <2>2 DEF e, next, MoneyKept
  <1>3. CASE q # 0 /\ Sgn(q) # Sgn(d) /\ Size(q) <= Size(d)
    <2>1. e = q
      BY <1>1, <1>3
    <2>2. (q + d) * next = (q + d) * price /\ next \in Int
      <3>1. CASE q + d = 0
        <4>1. next = 0
          BY <3>1 DEF NextAverage
        <4>. HIDE DEF next
        <4>. QED BY <3>1, <4>1
      <3>2. CASE q + d # 0
        <4>1. Sgn(q) # Sgn(q + d)
          BY <1>3, <3>2 DEF Sgn, Size
        <4>. QED BY <3>2, <4>1 DEF NextAverage
      <3>. QED BY <3>1, <3>2
    <2>. HIDE DEF next
    <2>3. (q + d) * price - q * (price - a) = q * a + d * price
      BY MoneyMoves
    <2>. QED BY <2>1, <2>2, <2>3 DEF e, next, MoneyKept
  <1>4. CASE q # 0 /\ Sgn(q) # Sgn(d) /\ ~(Size(q) <= Size(d))
    <2>1. e = -d /\ next = a
      <3>1. q + d # 0 /\ Sgn(q) = Sgn(q + d)
        BY <1>4 DEF Sgn, Size
      <3>. QED BY <1>1, <1>4, <3>1 DEF NextAverage
    <2>. HIDE DEF next
    <2>2. (q + d) * a - (-d) * (price - a) = q * a + d * price
      BY MoneyMoves
    <2>. QED BY <2>1, <2>2 DEF e, next, MoneyKept
  <1>5. CASE q # 0 /\ Sgn(q) = Sgn(d)
    <2>. DEFINE t == a * Size(q) + price * Size(d)
                z == Size(q + d)
    <2>1. e = 0
      BY <1>1, <1>5
    <2>2. z > 0 /\ z \in Int /\ q + d # 0 /\ Sgn(q) = Sgn(q + d) /\ Size(q) \in Int /\ Size(d) \in Int
      BY <1>5 DEF Size, Sgn
    <2>3. next = t \div z
      BY <1>5, <2>2 DEF NextAverage
    <2>4. t \in Int /\ t % z = 0
      <3>1. a * Size(q) \in Int /\ price * Size(d) \in Int
        BY <2>2, MoneyMoves
      <3>. QED BY <3>1, <1>5 DEF Whole
    <2>. HIDE DEF next, t, z
    <2>5. next \in Int /\ t = z * next
      <3>1. t \div z \in Int /\ t = z * (t \div z) + (t % z)
        BY <2>2, <2>4, Rounding
      <3>2. z * (t \div z) \in Int
        BY <3>1, <2>2
      <3>. QED BY <2>3, <2>4, <3>1, <3>2
    <2>6. CASE q > 0
      <3>1. Size(q) = q /\ Size(d) = d /\ z = q + d
        BY <1>5, <2>6 DEF Size, Sgn, z
      <3>3. t = q * a + d * price
        BY <3>1, MoneyMoves DEF t
      <3>4. (q + d) * next = q * a + d * price
        BY <2>5, <3>1, <3>3
      <3>5. 0 * (price - a) = 0 /\ q * a + d * price \in Int
        BY MoneyMoves
      <3>. QED BY <2>1, <2>5, <3>4, <3>5 DEF e, next, MoneyKept
    <2>7. CASE q < 0
      <3>1. Size(q) = -q /\ Size(d) = -d /\ z = -(q + d)
        BY <1>5, <2>7 DEF Size, Sgn, z
      <3>2. t = -(q * a + d * price)
        BY <3>1, MoneyMoves DEF t
      <3>3. (-(q + d)) * next = -((q + d) * next) /\ (q + d) * next \in Int
        BY <2>5, MoneyMoves
      <3>4. q * a + d * price \in Int
        BY MoneyMoves
      <3>5. (q + d) * next = q * a + d * price
        BY <2>5, <3>1, <3>2, <3>3, <3>4
      <3>6. 0 * (price - a) = 0
        OBVIOUS
      <3>. QED BY <2>1, <2>5, <3>4, <3>5, <3>6 DEF e, next, MoneyKept
    <2>. QED BY <2>6, <2>7, <1>5
  <1>. QED BY <1>2, <1>3, <1>4, <1>5

\* A fill moves a store by its shares, its fee and its money.
LEMMA StoreUpdated ==
    ASSUME NEW p \in Stores, NEW d \in Int, NEW price \in Int, NEW fee \in Int, d # 0
    PROVE  LET r == Update_(p, d, price, fee)
           IN  /\ r \in Stores /\ Marked(r) /\ r.qty = p.qty + d /\ r.fees = p.fees + fee
               /\ r.mark = p.mark
               /\ Whole(p.qty, p.avg, d, price) => Invested(r) = Invested(p) + d * price
  <1>. DEFINE next == AverageAfter(p, d, price)
              gain == Earned(p.qty, d) * (price - p.avg)
              t == [p EXCEPT !.qty = p.qty + d, !.avg = next, !.realized = p.realized + gain,
                             !.fees = p.fees + fee]
  <1>1. Update_(p, d, price, fee) = _recompute_unrealized(t)
    BY Zenon DEF Update_, Earned
  <1>2. p.qty \in Int /\ p.avg \in Int /\ p.realized \in Int /\ p.fees \in Int
    BY DEF Stores
  <1>3. Earned(p.qty, d) \in Int /\ next \in Int /\ next = NextAverage(p.qty, p.avg, d, price)
    <2>1. next = NextAverage(p.qty, p.avg, d, price)
      BY Zenon DEF AverageAfter, NextAverage
    <2>. HIDE DEF next
    <2>. QED BY <2>1, <1>2, FillTyped
  <1>4. gain \in Int
    <2>1. price - p.avg \in Int
      BY <1>2
    <2>. QED BY <2>1, <1>3, MoneyMoves
  <1>5. Whole(p.qty, p.avg, d, price) => (p.qty + d) * next - gain = p.qty * p.avg + d * price
    <2>. SUFFICES ASSUME Whole(p.qty, p.avg, d, price)
                  PROVE  (p.qty + d) * next - gain = p.qty * p.avg + d * price
      OBVIOUS
    <2>1. MoneyKept(p.qty, p.avg, d, price)
      BY <1>2, FillKeepsMoney
    <2>. HIDE DEF next
    <2>. QED BY <2>1, <1>3 DEF gain, MoneyKept
  <1>. HIDE DEF next, gain
  <1>6. /\ t \in Stores /\ t.qty = p.qty + d /\ t.avg = next /\ t.realized = p.realized + gain
        /\ t.fees = p.fees + fee /\ t.mark = p.mark
    <2>1. p.qty + d \in Int /\ p.realized + gain \in Int /\ p.fees + fee \in Int /\ next \in Int
      BY <1>2, <1>3, <1>4
    <2>. QED BY <2>1 DEF Stores
  <1>. HIDE DEF t
  <1>7. Whole(p.qty, p.avg, d, price) => Invested(t) = Invested(p) + d * price
    <2>1. Invested(t) = (p.qty + d) * next - (p.realized + gain) /\ Invested(p) = p.qty * p.avg - p.realized
      BY <1>6 DEF Invested
    <2>2. \A x, y \in Int : x * y \in Int
      OBVIOUS
    <2>3. (p.qty + d) * next \in Int /\ p.qty * p.avg \in Int /\ d * price \in Int
      BY <2>2, <1>2, <1>3
    <2>. DEFINE x == (p.qty + d) * next
                y == p.qty * p.avg
                z == d * price
                b == p.realized
    <2>4. Invested(t) = x - (b + gain) /\ Invested(p) = y - b /\ x \in Int /\ y \in Int /\ z \in Int
          /\ b \in Int /\ (Whole(p.qty, p.avg, d, price) => x - gain = y + z)
      BY <2>1, <2>3, <1>2, <1>5
    <2>. HIDE DEF x, y, z, b
    <2>5. Whole(p.qty, p.avg, d, price) => Invested(t) = Invested(p) + z
      BY <2>4, <1>4
    <2>. QED BY <2>5 DEF z
  <1>. QED BY <1>1, <1>6, <1>7, StoreMarked DEF Invested

-----------------------------------------------------------------------------
\* The lots of a book: what they hold, what they cost, all of one side.
Lots == [qty : Int, price : Int]
QtyOf(open) == [i \in DOMAIN open |-> open[i].qty]
CostOf(open) == [i \in DOMAIN open |-> open[i].qty * open[i].price]
Sided(open, side) == \A i \in DOMAIN open : Sgn(open[i].qty) = side
OneSided(open) == \E side \in {-1, 1} : Sided(open, side)

\* What matching k of the lots in front has come to, in sums over those lots.
Matched(d, k, st) ==
    /\ st.left \in Nat /\ st.realized \in Int /\ st.open \in Seq(Lots) /\ Sided(st.open, d.side)
    /\ SumOf(QtyOf(st.open)) = d.qtys[k] - d.side * (d.size - st.left)
    /\ SumOf(CostOf(st.open)) - st.realized =
           d.costs[k] - d.realized - d.side * (d.size - st.left) * d.price
    /\ st.left = 0 \/ st.open = <<>>

Matching == INSTANCE FoldTheorems WITH Step <- MatchLot, Good <- Matched

\* What lots hold and cost is a list of numbers.
LEMMA LotLists ==
    ASSUME NEW open \in Seq(Lots)
    PROVE  /\ QtyOf(open) \in [1 .. Len(open) -> Int] /\ CostOf(open) \in [1 .. Len(open) -> Int]
           /\ QtyOf(open) \in Seq(Int) /\ CostOf(open) \in Seq(Int)
           /\ Len(QtyOf(open)) = Len(open) /\ Len(CostOf(open)) = Len(open)
           /\ SumOf(QtyOf(open)) \in Int /\ SumOf(CostOf(open)) \in Int
  <1>1. DOMAIN open = 1 .. Len(open) /\ Len(open) \in Nat
    OBVIOUS
  <1>2. ASSUME NEW i \in 1 .. Len(open)
        PROVE  open[i].qty \in Int /\ open[i].qty * open[i].price \in Int
    <2>1. open[i] \in Lots
      OBVIOUS
    <2>2. open[i].qty \in Int /\ open[i].price \in Int
      BY <2>1 DEF Lots
    <2>. QED BY <2>2, MoneyMoves
  <1>3. QtyOf(open) \in [1 .. Len(open) -> Int] /\ CostOf(open) \in [1 .. Len(open) -> Int]
    BY <1>1, <1>2 DEF QtyOf, CostOf
  <1>4. SumOf(QtyOf(open)) \in Int /\ SumOf(CostOf(open)) \in Int
    BY <1>1, <1>3, SumType
  <1>. QED BY <1>1, <1>3, <1>4

\* A lot more.
LEMMA LotAdded ==
    ASSUME NEW open \in Seq(Lots), NEW lot \in Lots
    PROVE  /\ Append(open, lot) \in Seq(Lots)
           /\ SumOf(QtyOf(Append(open, lot))) = SumOf(QtyOf(open)) + lot.qty
           /\ SumOf(CostOf(Append(open, lot))) = SumOf(CostOf(open)) + lot.qty * lot.price
           /\ \A side : Sided(open, side) /\ Sgn(lot.qty) = side => Sided(Append(open, lot), side)
  <1>. DEFINE more == Append(open, lot)
              n == Len(open)
  <1>1. /\ more \in Seq(Lots) /\ n \in Nat /\ DOMAIN open = 1 .. n /\ DOMAIN more = 1 .. (n + 1)
        /\ more[n + 1] = lot /\ \A i \in 1 .. n : more[i] = open[i]
    OBVIOUS
  <1>2. lot.qty \in Int /\ lot.qty * lot.price \in Int
    BY MoneyMoves DEF Lots
  <1>3. QtyOf(more) = Append(QtyOf(open), lot.qty)
    <2>. DEFINE l == Append(QtyOf(open), lot.qty)
    <2>1. l \in Seq(Int) /\ DOMAIN l = 1 .. (n + 1) /\ l[n + 1] = lot.qty
          /\ \A i \in 1 .. n : l[i] = QtyOf(open)[i]
      BY <1>1, <1>2, LotLists
    <2>2. \A i \in 1 .. n : QtyOf(open)[i] = open[i].qty
      BY <1>1 DEF QtyOf
    <2>3. l = [i \in DOMAIN l |-> l[i]]
      OBVIOUS
    <2>. HIDE DEF l, more
    <2>4. \A i \in 1 .. (n + 1) : l[i] = more[i].qty
      <3>1. \A i \in 1 .. (n + 1) : i \in 1 .. n \/ i = n + 1
        BY <1>1
      <3>. QED BY <3>1, <2>1, <2>2, <1>1
    <2>5. l = QtyOf(more)
      BY <2>1, <2>3, <2>4, <1>1 DEF QtyOf
    <2>. QED BY <2>5 DEF l
  <1>4. CostOf(more) = Append(CostOf(open), lot.qty * lot.price)
    <2>. DEFINE l == Append(CostOf(open), lot.qty * lot.price)
    <2>1. l \in Seq(Int) /\ DOMAIN l = 1 .. (n + 1) /\ l[n + 1] = lot.qty * lot.price
          /\ \A i \in 1 .. n : l[i] = CostOf(open)[i]
      BY <1>1, <1>2, LotLists
    <2>2. \A i \in 1 .. n : CostOf(open)[i] = open[i].qty * open[i].price
      BY <1>1 DEF CostOf
    <2>3. l = [i \in DOMAIN l |-> l[i]]
      OBVIOUS
    <2>. HIDE DEF l, more
    <2>4. \A i \in 1 .. (n + 1) : l[i] = more[i].qty * more[i].price
      <3>1. \A i \in 1 .. (n + 1) : i \in 1 .. n \/ i = n + 1
        BY <1>1
      <3>. QED BY <3>1, <2>1, <2>2, <1>1
    <2>5. l = CostOf(more)
      BY <2>1, <2>3, <2>4, <1>1 DEF CostOf
    <2>. QED BY <2>5 DEF l
  <1>5. ASSUME NEW side, Sided(open, side), Sgn(lot.qty) = side PROVE Sided(more, side)
    <2>. HIDE DEF more
    <2>1. \A i \in 1 .. (n + 1) : i \in 1 .. n \/ i = n + 1
      BY <1>1
    <2>. QED BY <1>1, <1>5, <2>1 DEF Sided
  <1>6. QtyOf(open) \in Seq(Int) /\ CostOf(open) \in Seq(Int)
    BY LotLists
  <1>. HIDE DEF more
  <1>7. /\ SumOf(Append(QtyOf(open), lot.qty)) = SumOf(QtyOf(open)) + lot.qty
        /\ SumOf(Append(CostOf(open), lot.qty * lot.price)) = SumOf(CostOf(open)) + lot.qty * lot.price
    BY <1>2, <1>6, SumAppends
  <1>. QED BY <1>1, <1>3, <1>4, <1>5, <1>7 DEF more

\* Lots of one side hold shares of that side, and none only if there are none.
LEMMA SideHolds ==
    ASSUME NEW open \in Seq(Lots), NEW side \in {-1, 1}, Sided(open, side)
    PROVE  IF open = <<>> THEN SumOf(QtyOf(open)) = 0 /\ SumOf(CostOf(open)) = 0
           ELSE Sgn(SumOf(QtyOf(open))) = side
  <1>. DEFINE n == Len(open)
              sizes == [i \in 1 .. n |-> Size(open[i].qty)]
  <1>1. n \in Nat /\ DOMAIN open = 1 .. n /\ \A i \in 1 .. n : open[i].qty \in Int
    <2>1. \A i \in 1 .. n : open[i] \in Lots
      OBVIOUS
    <2>. QED BY <2>1 DEF Lots
  <1>2. \A i \in 1 .. n : sizes[i] \in Int /\ sizes[i] > 0 /\ open[i].qty = side * sizes[i]
    <2>1. \A x \in Int : Sgn(x) = side => Size(x) \in Int /\ Size(x) > 0 /\ x = side * Size(x)
      BY DEF Sgn, Size
    <2>. QED BY <2>1, <1>1 DEF Sided
  <1>3. sizes \in [1 .. n -> Int] /\ QtyOf(open) \in [1 .. n -> Int]
        /\ \A i \in 1 .. n : QtyOf(open)[i] = side * sizes[i]
    BY <1>1, <1>2, LotLists DEF QtyOf
  <1>. HIDE DEF sizes
  <1>4. SumOf(QtyOf(open)) = side * SumOf(sizes)
    <2>1. side \in Int
      OBVIOUS
    <2>. QED BY <2>1, <1>1, <1>3, SumScales
  <1>5. SumOf(sizes) \in Int /\ SumOf(sizes) >= 0 /\ (SumOf(sizes) = 0 => \A i \in 1 .. n : sizes[i] = 0)
    <2>1. \A i \in 1 .. n : sizes[i] >= 0
      BY <1>2
    <2>. QED BY <2>1, <1>1, <1>3, SumNonneg, SumType
  <1>6. CASE open = <<>>
    <2>1. CostOf(open) \in [1 .. 0 -> Int] /\ QtyOf(open) \in [1 .. 0 -> Int]
      BY <1>6, LotLists
    <2>. DEFINE t == [k \in 0 .. 0 |-> 0]
    <2>2. t[0] = 0
      OBVIOUS
    <2>. HIDE DEF t
    <2>3. SumOf(CostOf(open)) = t[0] /\ SumOf(QtyOf(open)) = t[0]
      <3>1. \A f \in [1 .. 0 -> Int] : \A k \in 0 .. (0 - 1) : t[k + 1] = t[k] + f[k + 1]
        OBVIOUS
      <3>. QED BY <2>1, <2>2, <3>1, SumIs
    <2>. QED BY <1>6, <2>2, <2>3
  <1>7. CASE open # <<>>
    <2>1. n >= 1 /\ 1 \in 1 .. n
      BY <1>7
    <2>2. SumOf(sizes) > 0
      BY <2>1, <1>2, <1>5
    <2>. QED BY <2>2, <1>4, <1>5, <1>7 DEF Sgn
  <1>. QED BY <1>6, <1>7

\* The products of a match, in shares of a side.
LEMMA MatchProducts ==
    \A side, q, m, w, P, L \in Int :
        /\ side * (q - m) = side * q - side * m /\ side * (w + m) = side * w + side * m
        /\ (side * (q - m)) * L = (side * q) * L - (side * m) * L
        /\ m * side * (P - L) = (side * m) * P - (side * m) * L
        /\ side * (w + m) * P = (side * w) * P + (side * m) * P
        /\ side * q \in Int /\ side * m \in Int /\ side * w \in Int
        /\ (side * q) * L \in Int /\ (side * m) * L \in Int /\ (side * m) * P \in Int
        /\ (side * w) * P \in Int
  OBVIOUS

\* What is matched of a lot, and what is left of either.
LEMMA MatchSizes ==
    ASSUME NEW side \in {-1, 1}, NEW q \in Int, q > 0, NEW left \in Nat,
           NEW m, m = Min({q, left})
    PROVE  /\ m \in Nat /\ left - m \in Nat /\ side * (q - m) \in Int
           /\ side * (q - m) = 0 <=> m = q
           /\ side * (q - m) # 0 => left - m = 0 /\ Sgn(side * (q - m)) = side
  <1>1. m = IF q <= left THEN q ELSE left
    BY LesserOfTwo
  <1>2. side = 1 \/ side = -1
    OBVIOUS
  <1>. QED BY <1>1, <1>2 DEF Sgn

\* Matching one lot more.
LEMMA LotMatched ==
    ASSUME NEW d, d.side \in {-1, 1}, d.size \in Nat, d.realized \in Int, d.price \in Int,
           NEW k \in Nat, d.qtys[k] \in Int, d.costs[k] \in Int,
           NEW lot \in Lots, Sgn(lot.qty) = d.side,
           d.qtys[k + 1] = d.qtys[k] + lot.qty,
           d.costs[k + 1] = d.costs[k] + lot.qty * lot.price,
           NEW st, Matched(d, k, st)
    PROVE  Matched(d, k + 1, MatchLot(d.price, st, lot))
  <1>. DEFINE q == Size(lot.qty)
              m == Min({q, st.left})
              over == d.side * (q - m)
              r == MatchLot(d.price, st, lot)
              rest == [lot EXCEPT !.qty = over]
              gain == m * d.side * (d.price - lot.price)
  <1>1. /\ q \in Int /\ q > 0 /\ lot.qty = d.side * q /\ lot.qty \in Int /\ lot.price \in Int
        /\ d.side \in Int
    <2>1. lot.qty \in Int /\ lot.price \in Int
      BY DEF Lots
    <2>. QED BY <2>1 DEF Size, Sgn
  <1>2. st.left \in Nat /\ st.realized \in Int /\ st.open \in Seq(Lots) /\ Sided(st.open, d.side)
        /\ (st.left = 0 \/ st.open = <<>>)
    BY DEF Matched
  <1>3. m = Min({q, st.left})
    OBVIOUS
  <1>4. r = [left |-> st.left - m, realized |-> st.realized + gain,
             open |-> IF over = 0 THEN st.open ELSE Append(st.open, rest)]
    BY Zenon DEF MatchLot
  <1>. HIDE DEF q, m, r
  <1>5. m \in Nat /\ st.left - m \in Nat /\ over \in Int /\ (over = 0 <=> m = q)
        /\ (over # 0 => st.left - m = 0 /\ Sgn(over) = d.side)
    <2>. DEFINE side == d.side
                left == st.left
    <2>1. side \in {-1, 1} /\ left \in Nat /\ q \in Int /\ q > 0 /\ m = Min({q, left})
      BY <1>1, <1>2, <1>3
    <2>2. over = side * (q - m)
      OBVIOUS
    <2>. HIDE DEF over
    <2>3. st.left = left /\ d.side = side
      OBVIOUS
    <2>. HIDE DEF side, left
    <2>. QED BY <2>1, <2>2, <2>3, MatchSizes
  <1>6. gain \in Int
    <2>1. \A x, y, u, v \in Int : x * y * (u - v) \in Int
      OBVIOUS
    <2>2. m \in Int
      BY <1>5
    <2>. QED BY <2>1, <2>2, <1>1
  <1>. HIDE DEF gain, over
  <1>7. r.left = st.left - m /\ r.realized = st.realized + gain
        /\ r.open = IF over = 0 THEN st.open ELSE Append(st.open, rest)
    BY <1>4
  <1>8. rest \in Lots /\ rest.qty = over /\ rest.price = lot.price
    BY <1>1, <1>5 DEF Lots
  <1>. HIDE DEF rest
  <1>9. /\ r.open \in Seq(Lots) /\ Sided(r.open, d.side)
        /\ SumOf(QtyOf(r.open)) = SumOf(QtyOf(st.open)) + over
        /\ SumOf(CostOf(r.open)) = SumOf(CostOf(st.open)) + over * lot.price
    <2>1. CASE over = 0
      <3>. DEFINE os == st.open
      <3>1. os \in Seq(Lots)
        BY <1>2
      <3>. HIDE DEF os
      <3>2. SumOf(QtyOf(os)) \in Int /\ SumOf(CostOf(os)) \in Int
        BY <3>1, LotLists
      <3>3. over * lot.price = 0
        <4>1. \A x \in Int : 0 * x = 0
          OBVIOUS
        <4>. QED BY <4>1, <2>1, <1>1
      <3>4. r.open = os
        BY <2>1, <1>7 DEF os
      <3>5. SumOf(QtyOf(os)) = SumOf(QtyOf(os)) + over /\ SumOf(CostOf(os)) = SumOf(CostOf(os)) + over * lot.price
        BY <2>1, <3>2, <3>3
      <3>6. os \in Seq(Lots) /\ Sided(os, d.side)
        BY <1>2 DEF os
      <3>. QED BY <3>4, <3>5, <3>6 DEF os
    <2>2. CASE over # 0
      <3>1. Sgn(rest.qty) = d.side
        BY <2>2, <1>5, <1>8
      <3>2. r.open = Append(st.open, rest)
        BY <2>2, <1>7
      <3>. QED BY <3>1, <3>2, <1>2, <1>8, LotAdded
    <2>. QED BY <2>1, <2>2
  <1>10. r.left = 0 \/ r.open = <<>>
    BY <1>2, <1>5, <1>7
  <1>11. SumOf(QtyOf(st.open)) \in Int /\ SumOf(CostOf(st.open)) \in Int
    BY <1>2, LotLists
  <1>12. /\ SumOf(QtyOf(st.open)) = d.qtys[k] - d.side * (d.size - st.left)
         /\ SumOf(CostOf(st.open)) - st.realized =
                d.costs[k] - d.realized - d.side * (d.size - st.left) * d.price
    BY DEF Matched
  <1>13. /\ SumOf(QtyOf(r.open)) = d.qtys[k + 1] - d.side * (d.size - r.left)
         /\ SumOf(CostOf(r.open)) - r.realized =
                d.costs[k + 1] - d.realized - d.side * (d.size - r.left) * d.price
    <2>. DEFINE w == d.size - st.left
                A == d.side * m
                B == d.side * q
                W == d.side * w
                AP == A * d.price
                AL == A * lot.price
                BL == B * lot.price
                WP == W * d.price
    <2>1. m \in Int /\ w \in Int
      BY <1>2, <1>5
    <2>2. d.size - r.left = w + m
      BY <2>1, <1>2, <1>5, <1>7, SMTT(20)
    <2>3. /\ over = B - A /\ d.side * (w + m) = W + A
          /\ over * lot.price = BL - AL /\ gain = AP - AL /\ d.side * (w + m) * d.price = WP + AP
          /\ A \in Int /\ B \in Int /\ W \in Int
          /\ AP \in Int /\ AL \in Int /\ BL \in Int /\ WP \in Int
      <3>. DEFINE side == d.side
                  P == d.price
                  L == lot.price
      <3>1. side \in Int /\ P \in Int /\ L \in Int /\ q \in Int
        BY <1>1
      <3>2. /\ over = side * (q - m) /\ gain = m * side * (P - L) /\ A = side * m /\ B = side * q
            /\ W = side * w /\ AP = A * P /\ AL = A * L /\ BL = B * L /\ WP = W * P
        BY DEF over, gain
      <3>3. d.side = side /\ d.price = P /\ lot.price = L
        OBVIOUS
      <3>. HIDE DEF side, P, L, w, A, B, W, AP, AL, BL, WP
      <3>. QED BY <2>1, <3>1, <3>2, <3>3, MatchProducts
    <2>4. lot.qty = B /\ lot.qty * lot.price = BL
      BY <1>1
    <2>5. /\ SumOf(QtyOf(st.open)) = d.qtys[k] - W
          /\ SumOf(CostOf(st.open)) - st.realized = d.costs[k] - d.realized - WP
      BY <1>12
    <2>. HIDE DEF w, A, B, W, AP, AL, BL, WP
    <2>6. SumOf(QtyOf(r.open)) = d.qtys[k + 1] - (W + A)
      BY <2>3, <2>4, <2>5, <1>9, <1>11
    <2>7. SumOf(CostOf(r.open)) - r.realized = d.costs[k + 1] - d.realized - (WP + AP)
      <3>1. SumOf(CostOf(r.open)) = SumOf(CostOf(st.open)) + (BL - AL)
        BY <2>3, <1>9
      <3>2. r.realized = st.realized + (AP - AL) /\ d.costs[k + 1] = d.costs[k] + BL
        BY <2>3, <2>4, <1>7
      <3>. DEFINE c == d.costs[k]
                  e == d.costs[k + 1]
                  b == d.realized
                  x == SumOf(CostOf(st.open))
      <3>3. c \in Int /\ b \in Int /\ x \in Int /\ st.realized \in Int /\ e = c + BL
            /\ x - st.realized = c - b - WP /\ SumOf(CostOf(r.open)) = x + (BL - AL)
            /\ AP \in Int /\ AL \in Int /\ BL \in Int /\ WP \in Int
        BY <3>1, <3>2, <2>3, <2>5, <1>2, <1>11
      <3>. HIDE DEF c, e, b, x
      <3>4. SumOf(CostOf(r.open)) - r.realized = e - b - (WP + AP)
        BY <3>2, <3>3
      <3>. QED BY <3>4 DEF b, e
    <2>. QED BY <2>2, <2>3, <2>6, <2>7
  <1>14. r.left \in Nat /\ r.realized \in Int
    BY <1>2, <1>5, <1>6, <1>7
  <1>. QED BY <1>9, <1>10, <1>13, <1>14 DEF Matched, r

\* A fill adds a lot, or takes from the lots in front what it closes and adds
\* what is left of it on the other side: shares and money add up.
LEMMA LotsFilled ==
    ASSUME NEW b, b.open \in Seq(Lots), b.realized \in Int, b = [open |-> b.open, realized |-> b.realized],
           OneSided(b.open), NEW signed \in Int, signed # 0, NEW price \in Int
    PROVE  LET r == apply_fill(b, signed, price)
           IN  /\ r = [open |-> r.open, realized |-> r.realized]
               /\ r.open \in Seq(Lots) /\ r.realized \in Int /\ OneSided(r.open)
               /\ SumOf(QtyOf(r.open)) = SumOf(QtyOf(b.open)) + signed
               /\ SumOf(CostOf(r.open)) - r.realized =
                      SumOf(CostOf(b.open)) - b.realized + signed * price
  <1>. DEFINE r == apply_fill(b, signed, price)
              held == SumOf(QtyOf(b.open))
              cost == SumOf(CostOf(b.open))
              start == [left |-> Size(signed), realized |-> b.realized, open |-> <<>>]
              end == Matching!Fold(price, start, b.open)
              new == [qty |-> signed, price |-> price]
              over == [qty |-> Sgn(signed) * end.left, price |-> price]
              n == Len(b.open)
  <1>1. r = IF held = 0 \/ Sgn(held) = Sgn(signed)
            THEN [b EXCEPT !.open = Append(b.open, new)]
            ELSE [open |-> IF end.left = 0 THEN end.open ELSE Append(end.open, over),
                  realized |-> end.realized]
    <2>1. Books!SumOf([i \in DOMAIN b.open |-> b.open[i].qty]) = held
      BY BooksAreThese DEF QtyOf
    <2>2. FoldLeft(LAMBDA st, lot : MatchLot(price, st, lot), start, b.open) = end
      BY DEF FoldLeft, MapThenFoldSet, Matching!Fold, Matching!FoldLeft, Matching!MapThenFoldSet,
             Max, Matching!Max
    <2>. HIDE DEF held, end, start
    <2>. QED BY <2>1, <2>2, Zenon DEF apply_fill, start
  <1>2. PICK side \in {-1, 1} : Sided(b.open, side)
    BY DEF OneSided
  <1>3. held \in Int /\ cost \in Int /\ QtyOf(b.open) \in [1 .. n -> Int]
        /\ CostOf(b.open) \in [1 .. n -> Int] /\ n \in Nat /\ DOMAIN b.open = 1 .. n
    BY LotLists
  <1>4. Size(signed) \in Nat /\ Sgn(signed) \in {-1, 1} /\ signed = Sgn(signed) * Size(signed)
        /\ Size(signed) # 0
    BY DEF Size, Sgn
  <1>5. signed * price \in Int
    BY MoneyMoves
  <1>6. CASE held = 0 \/ Sgn(held) = Sgn(signed)
    <2>1. r.open = Append(b.open, new) /\ r.realized = b.realized
          /\ r = [open |-> r.open, realized |-> r.realized]
      BY <1>1, <1>6
    <2>2. new \in Lots /\ new.qty = signed /\ new.price = price
      BY DEF Lots
    <2>. HIDE DEF r, new
    <2>3. Sided(b.open, Sgn(signed))
      <3>1. CASE b.open = <<>>
        BY <3>1 DEF Sided
      <3>2. CASE b.open # <<>>
        <4>1. Sgn(held) = side
          BY <1>2, <3>2, SideHolds
        <4>2. side = Sgn(signed)
          BY <4>1, <1>6 DEF Sgn
        <4>. QED BY <4>2, <1>2
      <3>. QED BY <3>1, <3>2
    <2>4. /\ r.open \in Seq(Lots) /\ Sided(r.open, Sgn(signed))
          /\ SumOf(QtyOf(r.open)) = held + signed /\ SumOf(CostOf(r.open)) = cost + signed * price
      BY <2>1, <2>2, <2>3, LotAdded
    <2>. QED BY <2>1, <2>4, <1>3, <1>4, <1>5, SMTT(20) DEF OneSided, r
  <1>7. CASE ~(held = 0 \/ Sgn(held) = Sgn(signed))
    <2>1. PICK qs : /\ qs \in [0 .. n -> Int] /\ qs[0] = 0
                    /\ \A k \in 0 .. (n - 1) : qs[k + 1] = qs[k] + QtyOf(b.open)[k + 1]
                    /\ held = qs[n]
      BY <1>3, SumWalk
    <2>2. PICK cs : /\ cs \in [0 .. n -> Int] /\ cs[0] = 0
                    /\ \A k \in 0 .. (n - 1) : cs[k + 1] = cs[k] + CostOf(b.open)[k + 1]
                    /\ cost = cs[n]
      BY <1>3, SumWalk
    <2>. DEFINE d == [side |-> side, size |-> Size(signed), realized |-> b.realized, price |-> price,
                      qtys |-> qs, costs |-> cs]
    <2>3. d.side = side /\ d.size = Size(signed) /\ d.realized = b.realized /\ d.price = price
          /\ d.qtys = qs /\ d.costs = cs
      OBVIOUS
    <2>. HIDE DEF d
    <2>4. Matched(d, 0, start)
      <3>1. start.left = Size(signed) /\ start.realized = b.realized /\ start.open = <<>>
            /\ start.open \in Seq(Lots)
        OBVIOUS
      <3>2. Sided(start.open, side)
        BY DEF Sided
      <3>3. SumOf(QtyOf(start.open)) = 0 /\ SumOf(CostOf(start.open)) = 0
        BY <3>1, <3>2, SideHolds
      <3>4. side * (Size(signed) - Size(signed)) = 0 /\ 0 * price = 0
        BY <1>4
      <3>. HIDE DEF start
      <3>5. /\ SumOf(QtyOf(start.open)) = d.qtys[0] - d.side * (d.size - start.left)
            /\ SumOf(CostOf(start.open)) - start.realized =
                   d.costs[0] - d.realized - d.side * (d.size - start.left) * d.price
        BY <3>1, <3>3, <3>4, <2>1, <2>2, <2>3
      <3>. QED BY <3>1, <3>2, <3>5, <2>3, <1>4 DEF Matched
    <2>5. ASSUME NEW k \in 0 .. (n - 1), NEW st, Matched(d, k, st)
          PROVE  Matched(d, k + 1, MatchLot(price, st, b.open[k + 1]))
      <3>. DEFINE lot == b.open[k + 1]
      <3>1. k \in Nat /\ k + 1 \in 1 .. n /\ k \in 0 .. n
        BY <1>3
      <3>2. lot \in Lots /\ Sgn(lot.qty) = side
        BY <3>1, <1>2, <1>3 DEF Sided
      <3>3. qs[k] \in Int /\ cs[k] \in Int /\ qs[k + 1] = qs[k] + lot.qty
            /\ cs[k + 1] = cs[k] + lot.qty * lot.price
        BY <3>1, <2>1, <2>2, <1>3 DEF QtyOf, CostOf
      <3>. HIDE DEF lot
      <3>4. d.side \in {-1, 1} /\ d.size \in Nat /\ d.realized \in Int /\ d.price \in Int
            /\ d.qtys[k] \in Int /\ d.costs[k] \in Int
            /\ d.qtys[k + 1] = d.qtys[k] + lot.qty /\ d.costs[k + 1] = d.costs[k] + lot.qty * lot.price
            /\ Sgn(lot.qty) = d.side
        BY <3>2, <3>3, <2>3, <1>4
      <3>5. Matched(d, k + 1, MatchLot(d.price, st, lot))
        BY <3>1, <3>2, <3>4, <2>5, LotMatched, SMTT(20)
      <3>. QED BY <3>5, <2>3 DEF lot
    <2>6. Matched(d, n, end)
      <3>. HIDE DEF end, start
      <3>1. Matched(d, Len(b.open), Matching!Fold(price, start, b.open))
        BY <2>4, <2>5, Matching!Keeps
      <3>. QED BY <3>1 DEF end
    <2>. HIDE DEF start, end
    <2>7. /\ end.left \in Nat /\ end.realized \in Int /\ end.open \in Seq(Lots) /\ Sided(end.open, side)
          /\ SumOf(QtyOf(end.open)) = held - side * (Size(signed) - end.left)
          /\ SumOf(CostOf(end.open)) - end.realized =
                 cost - b.realized - side * (Size(signed) - end.left) * price
          /\ end.left = 0 \/ end.open = <<>>
      BY <2>6, <2>1, <2>2, <2>3 DEF Matched
    <2>8. Sgn(signed) = -side
      <3>1. b.open # <<>>
        BY <1>2, <1>7, SideHolds
      <3>2. Sgn(held) = side
        BY <3>1, <1>2, SideHolds
      <3>. QED BY <3>2, <1>4, <1>7
    <2>9. r.open = (IF end.left = 0 THEN end.open ELSE Append(end.open, over))
          /\ r.realized = end.realized /\ r = [open |-> r.open, realized |-> r.realized]
      BY <1>1, <1>7
    <2>. HIDE DEF r
    <2>10. SumOf(QtyOf(end.open)) \in Int /\ SumOf(CostOf(end.open)) \in Int
      BY <2>7, LotLists
    <2>11. side * (Size(signed) - end.left) = -signed - side * end.left
           /\ side * end.left \in Int /\ Sgn(signed) * end.left = -(side * end.left)
      <3>1. side = 1 \/ side = -1
        OBVIOUS
      <3>2. signed = (-side) * Size(signed)
        BY <2>8, <1>4
      <3>. QED BY <3>1, <3>2, <2>7, <2>8, <1>4
    <2>12. /\ side * (Size(signed) - end.left) * price = -(signed * price) - side * end.left * price
           /\ side * end.left * price \in Int
      <3>1. \A x, y, z \in Int : (-x - y) * z = -(x * z) - y * z /\ y * z \in Int
        OBVIOUS
      <3>. QED BY <3>1, <2>11
    <2>13. CASE end.left = 0
      <3>1. side * end.left = 0 /\ side * end.left * price = 0
        BY <2>13
      <3>2. r.open = end.open
        BY <2>9, <2>13
      <3>. HIDE DEF held, cost
      <3>3. SumOf(QtyOf(r.open)) = held + signed
        BY <3>1, <3>2, <2>7, <2>11, <1>3
      <3>4. SumOf(CostOf(r.open)) - r.realized = cost - b.realized + signed * price
        BY <3>1, <3>2, <2>7, <2>9, <2>12, <1>3, <1>5
      <3>. QED BY <3>2, <3>3, <3>4, <2>7, <2>9 DEF OneSided, held, cost, r
    <2>14. CASE end.left # 0
      <3>1. end.open = <<>> /\ r.open = Append(end.open, over)
        BY <2>7, <2>9, <2>14
      <3>2. SumOf(QtyOf(end.open)) = 0 /\ SumOf(CostOf(end.open)) = 0
        BY <3>1, <2>7, SideHolds
      <3>3. over \in Lots /\ over.qty = -(side * end.left) /\ over.price = price
        BY <2>11 DEF Lots
      <3>. HIDE DEF over
      <3>4. over.qty = (-side) * end.left
        <4>1. (-side) * end.left = -(side * end.left)
          BY <2>7
        <4>. QED BY <3>3, <4>1
      <3>5. Sgn(over.qty) = -side
        <4>1. side = 1 \/ side = -1
          OBVIOUS
        <4>. QED BY <4>1, <3>4, <2>7, <2>14 DEF Sgn
      <3>6. Sided(end.open, -side)
        BY <3>1 DEF Sided
      <3>7. /\ r.open \in Seq(Lots) /\ Sided(r.open, -side)
            /\ SumOf(QtyOf(r.open)) = SumOf(QtyOf(end.open)) + over.qty
            /\ SumOf(CostOf(r.open)) = SumOf(CostOf(end.open)) + over.qty * over.price
        BY <3>1, <3>3, <3>5, <3>6, <2>7, LotAdded
      <3>8. over.qty * over.price = -(side * end.left * price)
        <4>1. \A x, y \in Int : (-x) * y = -(x * y)
          OBVIOUS
        <4>. QED BY <4>1, <3>3, <2>11
      <3>. HIDE DEF held, cost
      <3>9. SumOf(QtyOf(r.open)) = held + signed
        BY <3>2, <3>3, <3>7, <2>7, <2>11, <1>3
      <3>10. SumOf(CostOf(r.open)) - r.realized = cost - b.realized + signed * price
        <4>. DEFINE z == side * end.left * price
                    y == signed * price
                    x == side * (Size(signed) - end.left) * price
                    S == SumOf(CostOf(r.open))
                    old == b.realized
                    late == end.realized
        <4>1. x = -y - z /\ x \in Int /\ y \in Int /\ z \in Int
          BY <2>12, <1>5
        <4>2. 0 - late = cost - old - x /\ S = -z
          BY <3>2, <3>7, <3>8, <2>7
        <4>3. r.realized = late /\ late \in Int /\ cost \in Int /\ old \in Int
          BY <2>7, <2>9, <1>3
        <4>. HIDE DEF x, y, z, S, old, late
        <4>4. S - late = cost - old + y
          BY <4>1, <4>2, <4>3, SMTT(20)
        <4>. QED BY <4>3, <4>4 DEF y, S, old
      <3>11. -side \in {-1, 1}
        OBVIOUS
      <3>. QED BY <3>7, <3>9, <3>10, <3>11, <2>7, <2>9 DEF OneSided, held, cost, r
    <2>. QED BY <2>13, <2>14
  <1>. QED BY <1>6, <1>7

\* A total over the strategies of a multiple is the multiple of the total.
LEMMA OverScales ==
    ASSUME NEW c \in Int, NEW v \in [Strategies -> Int], NEW w \in [Strategies -> Int],
           \A s \in Strategies : w[s] = c * v[s]
    PROVE  Over(w) = c * Over(v)
  <1>. DEFINE n == Len(StrategyOrder)
              V == [i \in DOMAIN StrategyOrder |-> v[StrategyOrder[i]]]
              W == [i \in DOMAIN StrategyOrder |-> w[StrategyOrder[i]]]
  <1>1. n \in Nat /\ V \in [1 .. n -> Int] /\ W \in [1 .. n -> Int]
    BY OverType, StrategiesListed
  <1>2. \A i \in 1 .. n : W[i] = c * V[i]
    BY StrategiesListed
  <1>3. Over(v) = SumOf(V) /\ Over(w) = SumOf(W)
    BY DEF Over
  <1>. HIDE DEF n, V, W
  <1>4. SumOf(W) = c * SumOf(V)
    BY <1>1, <1>2, SumScales
  <1>. QED BY <1>3, <1>4

\* What one of them gets is what all of them get.
LEMMA OverOne ==
    ASSUME NEW s \in Strategies, NEW e \in Int, NEW v \in [Strategies -> Int],
           \A t \in Strategies : v[t] = IF t = s THEN e ELSE 0
    PROVE  Over(v) = e
  <1>. DEFINE of == <<s>>
              f == [i \in 1 .. 1 |-> e]
  <1>1. Len(of) = 1 /\ of[1] = s /\ f \in [1 .. 1 -> Int] /\ f[1] = e
    OBVIOUS
  <1>2. \A i \in 1 .. Len(of) : v[of[i]] = f[i]
    BY <1>1
  <1>3. \A t \in Strategies : (\A i \in 1 .. Len(of) : of[i] # t) => v[t] = 0
    BY <1>1
  <1>4. \E t \in Strategies : of = <<t>>
    OBVIOUS
  <1>5. SumOf(f) = f[1]
    <2>1. 1 \in Nat /\ 1 \in 1 .. 1 /\ f \in [1 .. 1 -> Int] /\ \A i \in 1 .. 1 : i # 1 => f[i] = 0
      BY <1>1
    <2>. HIDE DEF f
    <2>. QED BY <2>1, SumSingle
  <1>6. LegsFor(of)
    BY <1>4 DEF LegsFor
  <1>7. f \in [1 .. Len(of) -> Int]
    BY <1>1
  <1>. HIDE DEF of, f
  <1>8. Over(v) = SumOf(f)
    BY <1>2, <1>3, <1>6, <1>7, LegsCover
  <1>. QED BY <1>1, <1>5, <1>8

-----------------------------------------------------------------------------
\* A slice is closed by a fill of the other sign.
LEMMA OtherSide == \A x, y \in Int : x * y < 0 <=> (x < 0 /\ y > 0) \/ (x > 0 /\ y < 0)
  OBVIOUS

\* A fill that reduces the symbol goes, all of it, to slices it reduces.
LEMMA ForcedFillShared ==
    ASSUME NEW stores \in [Strategies -> Stores], NEW signed \in Int, signed # 0,
           NEW held \in Int, Over([s \in Strategies |-> stores[s].qty]) = held,
           held # 0, Sgn(held) = -Sgn(signed)
    PROVE  /\ FillShares(stores, StrategyOrder, signed) \in [1 .. Len(StrategyOrder) -> Nat]
           /\ SumOf(FillShares(stores, StrategyOrder, signed)) = Size(signed)
           /\ \A i \in 1 .. Len(StrategyOrder) :
                 FillShares(stores, StrategyOrder, signed)[i] # 0 =>
                     Sgn(stores[StrategyOrder[i]].qty) # Sgn(signed)
  <1>. DEFINE n == Len(StrategyOrder)
              q == [i \in 1 .. n |-> stores[StrategyOrder[i]].qty]
              Closes(i) == stores[StrategyOrder[i]].qty * signed < 0
              w == FillWeights(stores, StrategyOrder, signed)
              shares == FillShares(stores, StrategyOrder, signed)
  <1>1. n \in Nat /\ DOMAIN StrategyOrder = 1 .. n /\ \A i \in 1 .. n : StrategyOrder[i] \in Strategies
    BY StrategiesListed
  <1>2. q \in [1 .. n -> Int] /\ \A i \in 1 .. n : q[i] = stores[StrategyOrder[i]].qty
    BY <1>1 DEF Stores
  <1>3. SumOf(q) = held
    <2>1. [i \in DOMAIN StrategyOrder |-> [s \in Strategies |-> stores[s].qty][StrategyOrder[i]]] = q
      BY <1>1
    <2>. QED BY <2>1 DEF Over
  <1>4. \A i \in 1 .. n : Closes(i) <=> (q[i] < 0 /\ signed > 0) \/ (q[i] > 0 /\ signed < 0)
    <2>. SUFFICES ASSUME NEW i \in 1 .. n
         PROVE  Closes(i) <=> (q[i] < 0 /\ signed > 0) \/ (q[i] > 0 /\ signed < 0)
      OBVIOUS
    <2>. DEFINE x == q[i]
    <2>1. x \in Int /\ x = stores[StrategyOrder[i]].qty
      BY <1>2
    <2>2. Closes(i) <=> x * signed < 0
      BY <2>1
    <2>. HIDE DEF x, Closes
    <2>3. x * signed < 0 <=> (x < 0 /\ signed > 0) \/ (x > 0 /\ signed < 0)
      BY <2>1, OtherSide
    <2>. QED BY <2>2, <2>3 DEF x
  <1>. HIDE DEF Closes, q
  <1>5. \E i \in 1 .. n : Closes(i)
    <2>1. SUFFICES ASSUME \A i \in 1 .. n : ~Closes(i) PROVE FALSE
      OBVIOUS
    <2>. DEFINE none == [i \in 1 .. n |-> 0]
    <2>2. none \in [1 .. n -> Int] /\ \A i \in 1 .. n : none[i] = 0
      OBVIOUS
    <2>3. SumOf(none) = 0
      <3>. DEFINE t == [k \in 0 .. n |-> 0]
      <3>1. t[0] = 0 /\ t[n] = 0 /\ \A k \in 0 .. (n - 1) : t[k + 1] = t[k] + none[k + 1]
        BY <1>1
      <3>. HIDE DEF none, t
      <3>. QED BY <1>1, <2>2, <3>1, SumIs
    <2>. HIDE DEF none
    <2>4. CASE signed > 0
      <3>1. \A i \in 1 .. n : none[i] <= q[i]
        BY <1>2, <1>4, <2>1, <2>2, <2>4
      <3>2. SumOf(none) <= SumOf(q)
        BY <1>1, <1>2, <2>2, <3>1, SumGrows
      <3>. QED BY <3>2, <1>3, <2>3, <2>4 DEF Sgn
    <2>5. CASE signed < 0
      <3>1. \A i \in 1 .. n : q[i] <= none[i]
        BY <1>2, <1>4, <2>1, <2>2, <2>5
      <3>2. SumOf(q) <= SumOf(none)
        BY <1>1, <1>2, <2>2, <3>1, SumGrows
      <3>. QED BY <3>2, <1>3, <2>3, <2>5 DEF Sgn
    <2>. QED BY <2>4, <2>5
  <1>6. w = [i \in 1 .. n |-> IF Closes(i) THEN Abs(stores[StrategyOrder[i]].qty) ELSE 0]
    BY <1>1, <1>5 DEF FillWeights, Closes
  <1>. HIDE DEF w
  <1>7. \A x \in Int : Abs(x) \in Nat /\ (x # 0 => Abs(x) # 0) /\ Abs(x) = Size(x)
    BY DEF Abs, Size
  <1>8. w \in [1 .. n -> Nat] /\ \A i \in 1 .. n : w[i] # 0 <=> Closes(i)
    <2>1. ASSUME NEW i \in 1 .. n
          PROVE  w[i] \in Nat /\ (w[i] # 0 <=> Closes(i))
      <3>1. w[i] = IF Closes(i) THEN Abs(q[i]) ELSE 0
        BY <1>2, <1>6
      <3>2. q[i] \in Int
        BY <1>2
      <3>3. Abs(q[i]) \in Nat /\ (q[i] # 0 => Abs(q[i]) # 0)
        BY <3>2, <1>7
      <3>4. Closes(i) => q[i] # 0
        BY <3>2, <1>4
      <3>. QED BY <3>1, <3>3, <3>4
    <2>2. DOMAIN w = 1 .. n /\ w = [i \in 1 .. n |-> w[i]]
      BY <1>6
    <2>. QED BY <2>1, <2>2
  <1>9. SumOf(w) # 0
    <2>1. w \in [1 .. n -> Int] /\ \A i \in 1 .. n : w[i] >= 0
      BY <1>8
    <2>. QED BY <2>1, <1>1, <1>5, <1>8, SumNonneg
  <1>10. shares = RemainderSplit(Size(signed), w)
    <2>1. ~\A i \in 1 .. n : w[i] = 0
      BY <1>5, <1>8
    <2>. QED BY <2>1, <1>1, <1>7, <1>9 DEF FillShares, LargestRemainderSplit, w
  <1>11. Size(signed) \in Nat
    BY DEF Size
  <1>. HIDE DEF shares
  <1>12. shares \in [1 .. n -> Int] /\ SumOf(shares) = Size(signed)
    BY <1>1, <1>8, <1>9, <1>10, <1>11, RemainderSplitAddsUp
  <1>13. \A i \in 1 .. n : shares[i] \in Nat /\ (w[i] = 0 => shares[i] = 0)
    BY <1>1, <1>8, <1>9, <1>10, <1>11, NothingForNothing
  <1>14. \A i \in 1 .. n : shares[i] # 0 => Sgn(stores[StrategyOrder[i]].qty) # Sgn(signed)
    BY <1>2, <1>4, <1>8, <1>13 DEF Sgn
  <1>15. shares \in [1 .. n -> Nat]
    BY <1>12, <1>13
  <1>. QED BY <1>12, <1>14, <1>15 DEF shares

\* A fill of an order of one strategy is that strategy's.
LEMMA OwnFillGiven ==
    ASSUME NEW s, NEW c \in Nat, NEW k \in Nat
    PROVE  AllocateFill([of |-> <<s>>, shares |-> <<1>>, cum |-> <<c>>], k)
           = [record |-> [of |-> <<s>>, shares |-> <<1>>, cum |-> <<c + k>>], allocations |-> <<k>>]
  <1>. DEFINE rec == [of |-> <<s>>, shares |-> <<1>>, cum |-> <<c>>]
              cum == Books!LargestRemainderSplit(Books!SumOf(rec.cum) + k, rec.shares)
  <1>1. \A x \in Int : SumOf(<<x>>) = x
    <2>1. ASSUME NEW x \in Int PROVE SumOf(<<x>>) = x
      <3>. DEFINE f == <<x>>
      <3>1. 1 \in Nat /\ 1 \in 1 .. 1 /\ f \in [1 .. 1 -> Int] /\ f[1] = x
            /\ \A i \in 1 .. 1 : i # 1 => f[i] = 0
        OBVIOUS
      <3>. HIDE DEF f
      <3>2. SumOf(f) = f[1]
        BY <3>1, SumSingle
      <3>. QED BY <3>1, <3>2 DEF f
    <2>. QED BY <2>1
  <1>2. cum = LargestRemainderSplit(SumOf(<<c>>) + k, <<1>>)
    BY BooksAreThese
  <1>3. SumOf(<<c>>) = c /\ SumOf(<<1>>) = 1
    BY <1>1
  <1>4. cum = RemainderSplit(c + k, <<1>>)
    BY <1>2, <1>3 DEF LargestRemainderSplit
  <1>. DEFINE one == <<1>>
              split == RemainderSplit(c + k, one)
  <1>5. 1 \in Nat /\ one \in [1 .. 1 -> Nat] /\ c + k \in Nat /\ SumOf(one) # 0
    BY <1>3
  <1>. HIDE DEF one
  <1>6. split \in [1 .. 1 -> Int] /\ SumOf(split) = c + k
    BY <1>5, RemainderSplitAddsUp
  <1>. HIDE DEF split
  <1>7. split = <<split[1]>> /\ split[1] \in Int
    BY <1>6
  <1>8. split = <<c + k>>
    BY <1>1, <1>6, <1>7
  <1>9. cum = <<c + k>>
    BY <1>4, <1>8 DEF split, one
  <1>10. AllocateFill(rec, k) = [record |-> [rec EXCEPT !.cum = cum],
                                 allocations |-> [i \in DOMAIN cum |-> cum[i] - rec.cum[i]]]
    BY Zenon DEF AllocateFill
  <1>. HIDE DEF cum
  <1>11. [i \in DOMAIN cum |-> cum[i] - rec.cum[i]] = <<k>>
    BY <1>9
  <1>12. [rec EXCEPT !.cum = cum] = [of |-> <<s>>, shares |-> <<1>>, cum |-> <<c + k>>]
    BY <1>9
  <1>. QED BY <1>10, <1>11, <1>12

\* The legs that are given shares; the leg of a strategy, and whether it has one.
GivenTo(of, shares) == {i \in DOMAIN of : shares[i] # 0}
LegOf(of, shares, s) == CHOOSE i \in GivenTo(of, shares) : of[i] = s
HasLeg(of, shares, s) == \E i \in GivenTo(of, shares) : of[i] = s

\* Who is given no share is given no part.
OnlyWith(shares, f) == \A i \in DOMAIN shares : shares[i] = 0 => f[i] = 0
\* A strategy that has a leg is brought c times what the leg says.
Brings(of, shares, c, f, v) ==
    \A s \in Strategies : v[s] = IF HasLeg(of, shares, s) THEN c * f[LegOf(of, shares, s)] ELSE 0

\* What the legs of a fill bring each strategy comes to the fill.
LEMMA LegsMove ==
    ASSUME NEW of, LegsFor(of),
           NEW shares \in [1 .. Len(of) -> Int], NEW c \in Int,
           NEW f \in [1 .. Len(of) -> Int], OnlyWith(shares, f),
           NEW v \in [Strategies -> Int], Brings(of, shares, c, f, v)
    PROVE  Over(v) = c * SumOf(f)
  <1>. DEFINE n == Len(of)
              g == [i \in 1 .. n |-> c * f[i]]
  <1>1. /\ n \in Nat /\ DOMAIN of = 1 .. n /\ \A i \in 1 .. n : of[i] \in Strategies
        /\ \A i, j \in 1 .. n : of[i] = of[j] => i = j
    BY StrategiesListed DEF LegsFor
  <1>2. g \in [1 .. n -> Int] /\ \A i \in 1 .. n : g[i] = c * f[i]
    <2>1. \A i \in 1 .. n : c * f[i] \in Int
      OBVIOUS
    <2>. QED BY <2>1
  <1>. HIDE DEF g
  <1>3. SumOf(g) = c * SumOf(f)
    BY <1>1, <1>2, SumScales
  <1>4. ASSUME NEW i \in 1 .. n PROVE v[of[i]] = g[i]
    <2>1. of[i] \in Strategies
      BY <1>1
    <2>2. CASE shares[i] = 0
      <3>1. ~HasLeg(of, shares, of[i])
        BY <2>2, <1>1 DEF HasLeg, GivenTo
      <3>2. f[i] = 0 /\ g[i] = c * 0
        BY <2>2, <1>2 DEF OnlyWith
      <3>. QED BY <2>1, <3>1, <3>2 DEF Brings
    <2>3. CASE shares[i] # 0
      <3>1. i \in GivenTo(of, shares)
        BY <2>3, <1>1 DEF GivenTo
      <3>2. HasLeg(of, shares, of[i])
        BY <3>1 DEF HasLeg
      <3>3. \A j \in GivenTo(of, shares) : of[j] = of[i] => j = i
        BY <1>1 DEF GivenTo
      <3>4. LegOf(of, shares, of[i]) = i
        BY <3>1, <3>3, Zenon DEF LegOf
      <3>. QED BY <2>1, <3>2, <3>4, <1>2 DEF Brings
    <2>. QED BY <2>2, <2>3
  <1>5. ASSUME NEW s \in Strategies, \A i \in 1 .. n : of[i] # s PROVE v[s] = 0
    <2>1. ~HasLeg(of, shares, s)
      BY <1>1, <1>5 DEF HasLeg, GivenTo
    <2>. QED BY <2>1 DEF Brings
  <1>6. Over(v) = SumOf(g)
    <2>2. \A i \in 1 .. Len(of) : v[of[i]] = g[i]
      BY <1>4
    <2>3. \A s \in Strategies : (\A i \in 1 .. Len(of) : of[i] # s) => v[s] = 0
      BY <1>5
    <2>4. g \in [1 .. Len(of) -> Int]
      BY <1>2
    <2>. HIDE DEF n
    <2>. QED BY <2>2, <2>3, <2>4, LegsCover
  <1>. QED BY <1>3, <1>6

-----------------------------------------------------------------------------
\* The books of a symbol, each by itself and one with the other.
Typed(n, st, l, c) ==
    /\ n \in Stores /\ Marked(n) /\ c \in Int
    /\ st \in [Strategies -> Stores] /\ \A s \in Strategies : Marked(st[s])
    /\ l.open \in Seq(Lots) /\ l.realized \in Int /\ l = [open |-> l.open, realized |-> l.realized]
    /\ OneSided(l.open)
\* Shares, fees and lots agree with the symbol's book, but for g of the fees.
Balanced(n, st, l, c, g) ==
    /\ SumOf(CostOf(l.open)) - l.realized = -c
    /\ SumOf(QtyOf(l.open)) = n.qty /\ Over([s \in Strategies |-> st[s].qty]) = n.qty
    /\ g \in Int /\ Over([s \in Strategies |-> st[s].fees]) + g = n.fees
\* The books at average cost hold what was paid.
CashKept(n, st, c) == Invested(n) = -c /\ Over([s \in Strategies |-> Invested(st[s])]) = -c
\* The journal says what the slices did.
Told(j, u, st) ==
    /\ j \in [Strategies -> [qty : Int, realized : Int, fees : Int]] /\ u \in [Strategies -> Int]
    /\ \A s \in Strategies :
          /\ j[s].qty = st[s].qty /\ j[s].realized = st[s].realized
          /\ j[s].fees + u[s] = st[s].fees
\* The open order of a strategy is its own.
OrdersOwn(o) ==
    /\ DOMAIN o = Strategies
    /\ \A s \in Strategies : o[s] = <<>> \/
          \E sign \in {-1, 1}, left \in Nat \ {0}, c \in Nat :
             o[s] = <<[sign |-> sign, left |-> left,
                       record |-> [of |-> <<s>>, shares |-> <<1>>, cum |-> <<c>>]]>>
\* What every entry leaves of the books; of the cash, what it leaves where
\* the averages divide.
AccountsInv ==
    /\ Typed(net, slices, lots, cash) /\ Balanced(net, slices, lots, cash, stray)
    /\ Told(journal, unfilled, slices) /\ OrdersOwn(orders)
CashInv == CashKept(net, slices, cash)

\* Every average a fill makes divides.
AllWhole(signed, price, of, shares) ==
    /\ Whole(net.qty, net.avg, signed, price)
    /\ \A s \in Strategies : HasLeg(of, shares, s) =>
          Whole(slices[s].qty, slices[s].avg, Sgn(signed) * shares[LegOf(of, shares, s)], price)

\* What a store says is numbers.
LEMMA StoreNumbers ==
    \A x \in Stores : /\ x.qty \in Int /\ x.fees \in Int /\ x.realized \in Int /\ x.unrealized \in Int
                      /\ Invested(x) \in Int
  <1>1. ASSUME NEW x \in Stores
        PROVE  /\ x.qty \in Int /\ x.avg \in Int /\ x.realized \in Int /\ x.fees \in Int
               /\ x.unrealized \in Int
    BY DEF Stores
  <1>2. ASSUME NEW x \in Stores PROVE Invested(x) \in Int
    <2>1. x.qty * x.avg \in Int
      BY <1>1, MoneyMoves
    <2>. QED BY <2>1, <1>1 DEF Invested
  <1>. QED BY <1>1, <1>2

\* One entry of a fill in all the books, for legs that come to it.
LEMMA FillBalances ==
    ASSUME AccountsInv, NEW signed \in Int, signed # 0, NEW price \in Int, NEW fee \in Int,
           NEW legs, LegsFor(legs.of),
           legs.allocations \in [1 .. Len(legs.of) -> Nat], SumOf(legs.allocations) = Size(signed),
           Book(signed, price, fee, legs)
    PROVE  /\ Typed(net', slices', lots', cash') /\ Balanced(net', slices', lots', cash', stray')
           /\ Told(journal', unfilled', slices')
           /\ CashInv /\ AllWhole(signed, price * Fraction, legs.of, legs.allocations) =>
                 CashKept(net', slices', cash')
  <1>. DEFINE of == legs.of
              shares == legs.allocations
              n == Len(of)
              P == price * Fraction
              fees == split_fees(fee, shares)
              dq == [s \in Strategies |->
                        IF HasLeg(of, shares, s) THEN Sgn(signed) * shares[LegOf(of, shares, s)] ELSE 0]
              df == [s \in Strategies |-> IF HasLeg(of, shares, s) THEN fees[LegOf(of, shares, s)] ELSE 0]
  <1>1. /\ n \in Nat /\ DOMAIN of = 1 .. n /\ shares \in [1 .. n -> Int] /\ DOMAIN shares = 1 .. n
        /\ \A i \in 1 .. n : shares[i] \in Nat
    BY StrategiesListed DEF LegsFor
  <1>2. Size(signed) \in Int /\ Size(signed) > 0 /\ Sgn(signed) \in {-1, 1} /\ Sgn(signed) * Size(signed) = signed
    BY DEF Size, Sgn
  <1>3. P \in Int /\ signed * P \in Int
    BY DEF Fraction
  <1>. HIDE DEF P
  <1>4. fees \in [1 .. n -> Int] /\ SumOf(fees) = fee /\ \A i \in 1 .. n : shares[i] = 0 => fees[i] = 0
    <2>1. shares \in [1 .. n -> Nat] /\ SumOf(shares) > 0
      BY <1>2
    <2>. HIDE DEF shares, n, of
    <2>. QED BY <2>1, <1>1, FeesAddUp
  <1>. HIDE DEF fees
  <1>5. ASSUME NEW s \in Strategies, HasLeg(of, shares, s)
        PROVE  /\ LegOf(of, shares, s) \in 1 .. n /\ shares[LegOf(of, shares, s)] # 0
               /\ of[LegOf(of, shares, s)] = s
    <2>1. \E i \in GivenTo(of, shares) : of[i] = s
      BY <1>5 DEF HasLeg
    <2>2. LegOf(of, shares, s) \in GivenTo(of, shares) /\ of[LegOf(of, shares, s)] = s
      BY <2>1, Zenon DEF LegOf
    <2>. QED BY <2>2, <1>1 DEF GivenTo
  <1>6. /\ dq \in [Strategies -> Int] /\ df \in [Strategies -> Int]
    <2>1. ASSUME NEW s \in Strategies, HasLeg(of, shares, s)
          PROVE  /\ Sgn(signed) * shares[LegOf(of, shares, s)] \in Int
                 /\ fees[LegOf(of, shares, s)] \in Int
      <3>1. LegOf(of, shares, s) \in 1 .. n
        BY <2>1, <1>5
      <3>. QED BY <3>1, <1>1, <1>2, <1>4
    <2>. QED BY <2>1
  <1>7. Over(dq) = signed
    <2>1. Brings(of, shares, Sgn(signed), shares, dq)
      BY DEF Brings
    <2>2. Sgn(signed) \in Int /\ SumOf(shares) = Size(signed)
      BY <1>2
    <2>3. OnlyWith(shares, shares) /\ LegsFor(of)
      BY DEF OnlyWith
    <2>. HIDE DEF dq, of, shares
    <2>4. shares \in [1 .. Len(of) -> Int] /\ dq \in [Strategies -> Int]
      BY <1>1, <1>6 DEF n
    <2>5. Over(dq) = Sgn(signed) * SumOf(shares)
      BY <2>1, <2>2, <2>3, <2>4, LegsMove
    <2>. QED BY <2>2, <2>5, <1>2
  <1>8. Over(df) = fee
    <2>1. Brings(of, shares, 1, fees, df)
      BY <1>4, <1>5 DEF Brings
    <2>2. OnlyWith(shares, fees) /\ LegsFor(of)
      BY <1>1, <1>4 DEF OnlyWith
    <2>. HIDE DEF df, of, shares
    <2>3. 1 \in Int /\ shares \in [1 .. Len(of) -> Int] /\ fees \in [1 .. Len(of) -> Int]
          /\ df \in [Strategies -> Int]
      BY <1>1, <1>4, <1>6 DEF n
    <2>4. Over(df) = 1 * SumOf(fees)
      BY <2>1, <2>2, <2>3, LegsMove
    <2>. QED BY <2>4, <1>4
  <1>9. /\ net' = Update_(net, signed, P, fee) /\ lots' = apply_fill(lots, signed, P)
        /\ cash' = cash - signed * P /\ unfilled' = unfilled /\ stray' = stray
    <2>1. net' = Update_(net, signed, P, fee)
      BY DEF Book, P
    <2>2. lots' = apply_fill(lots, signed, P)
      BY DEF Book, P
    <2>3. cash' = cash - signed * P
      <3>1. cash' = cash - signed * price * Fraction
        BY DEF Book
      <3>2. signed * price * Fraction = signed * P
        BY DEF P, Fraction
      <3>. QED BY <3>1, <3>2
    <2>4. unfilled' = unfilled /\ stray' = stray
      BY DEF Book, P
    <2>. QED BY <2>1, <2>2, <2>3, <2>4
  <1>10. slices' = [s \in Strategies |->
              IF ~HasLeg(of, shares, s) THEN slices[s]
              ELSE Update_(slices[s], Sgn(signed) * shares[LegOf(of, shares, s)], P, fees[LegOf(of, shares, s)])]
    BY Zenon DEF Book, HasLeg, LegOf, GivenTo, P, fees
  <1>11. journal' = TradeJournalLegs([s \in {t \in Strategies : HasLeg(of, shares, t)} |->
               [qty |-> Sgn(signed) * shares[LegOf(of, shares, s)], fees |-> fees[LegOf(of, shares, s)],
                realized |-> slices'[s].realized - slices[s].realized]])
    BY <1>10, Zenon DEF Book, HasLeg, LegOf, GivenTo, P, fees
  <1>12. ASSUME NEW s \in Strategies
         PROVE  /\ slices'[s] \in Stores /\ Marked(slices'[s]) /\ slices'[s].qty = slices[s].qty + dq[s]
                /\ slices'[s].fees = slices[s].fees + df[s] /\ slices'[s].mark = slices[s].mark
                /\ AllWhole(signed, P, of, shares) => Invested(slices'[s]) = Invested(slices[s]) + P * dq[s]
                /\ slices'[s].realized \in Int
    <2>1. slices[s] \in Stores /\ Marked(slices[s])
      BY DEF AccountsInv, Typed
    <2>2. slices[s].qty \in Int /\ slices[s].fees \in Int /\ Invested(slices[s]) \in Int
      <3>1. slices[s].qty \in Int /\ slices[s].avg \in Int /\ slices[s].realized \in Int /\ slices[s].fees \in Int
        BY <2>1 DEF Stores
      <3>. QED BY <3>1, MoneyMoves DEF Invested
    <2>3. CASE ~HasLeg(of, shares, s)
      <3>1. slices'[s] = slices[s] /\ dq[s] = 0 /\ df[s] = 0
        BY <2>3, <1>10
      <3>2. P * 0 = 0
        BY <1>3
      <3>3. slices'[s].realized \in Int
        BY <3>1, <2>1 DEF Stores
      <3>. QED BY <2>1, <2>2, <3>1, <3>2, <3>3
    <2>4. CASE HasLeg(of, shares, s)
      <3>. DEFINE d == Sgn(signed) * shares[LegOf(of, shares, s)]
                  e == fees[LegOf(of, shares, s)]
      <3>1. slices'[s] = Update_(slices[s], d, P, e) /\ dq[s] = d /\ df[s] = e
        BY <2>4, <1>10
      <3>2. d \in Int /\ e \in Int /\ d # 0
        <4>1. LegOf(of, shares, s) \in 1 .. n /\ shares[LegOf(of, shares, s)] # 0
          BY <2>4, <1>5
        <4>. QED BY <4>1, <1>1, <1>2, <1>4
      <3>3. AllWhole(signed, P, of, shares) => Whole(slices[s].qty, slices[s].avg, d, P)
        BY <2>4 DEF AllWhole
      <3>. HIDE DEF d, e
      <3>. DEFINE r == Update_(slices[s], d, P, e)
      <3>4. /\ r \in Stores /\ Marked(r) /\ r.qty = slices[s].qty + d /\ r.fees = slices[s].fees + e
            /\ r.mark = slices[s].mark
            /\ Whole(slices[s].qty, slices[s].avg, d, P) => Invested(r) = Invested(slices[s]) + d * P
        <4>. DEFINE p == slices[s]
        <4>1. p \in Stores /\ d \in Int /\ P \in Int /\ e \in Int /\ d # 0
          BY <2>1, <3>2, <1>3
        <4>. HIDE DEF p
        <4>2. LET t == Update_(p, d, P, e)
              IN  /\ t \in Stores /\ Marked(t) /\ t.qty = p.qty + d /\ t.fees = p.fees + e
                  /\ t.mark = p.mark
                  /\ Whole(p.qty, p.avg, d, P) => Invested(t) = Invested(p) + d * P
          BY <4>1, StoreUpdated
        <4>. QED BY <4>2 DEF p
      <3>. HIDE DEF r
      <3>5. r.realized \in Int /\ d * P = P * d
        <4>1. r.realized \in Int
          <5>1. r \in Stores
            BY <3>4
          <5>. QED BY <5>1 DEF Stores
        <4>2. d * P = P * d
          BY <3>2, <1>3
        <4>. QED BY <4>1, <4>2
      <3>6. slices'[s] = r
        BY <3>1 DEF r
      <3>. QED BY <3>1, <3>3, <3>4, <3>5, <3>6
    <2>. QED BY <2>3, <2>4
  <1>13. slices' \in [Strategies -> Stores]
    <2>1. slices' = [s \in Strategies |-> slices'[s]]
      BY <1>10
    <2>. QED BY <2>1, <1>12
  <1>14. /\ net' \in Stores /\ Marked(net') /\ net'.qty = net.qty + signed /\ net'.fees = net.fees + fee
         /\ AllWhole(signed, P, of, shares) => Invested(net') = Invested(net) + signed * P
    <2>1. net \in Stores
      BY DEF AccountsInv, Typed
    <2>. QED BY <2>1, <1>3, <1>9, StoreUpdated, SMTT(20) DEF AllWhole
  <1>15. /\ lots' = [open |-> lots'.open, realized |-> lots'.realized]
         /\ lots'.open \in Seq(Lots) /\ lots'.realized \in Int /\ OneSided(lots'.open)
         /\ SumOf(QtyOf(lots'.open)) = SumOf(QtyOf(lots.open)) + signed
         /\ SumOf(CostOf(lots'.open)) - lots'.realized = SumOf(CostOf(lots.open)) - lots.realized + signed * P
    <2>1. lots.open \in Seq(Lots) /\ lots.realized \in Int /\ OneSided(lots.open)
          /\ lots = [open |-> lots.open, realized |-> lots.realized]
      BY DEF AccountsInv, Typed
    <2>. DEFINE r == apply_fill(lots, signed, P)
    <2>2. /\ r = [open |-> r.open, realized |-> r.realized]
          /\ r.open \in Seq(Lots) /\ r.realized \in Int /\ OneSided(r.open)
          /\ SumOf(QtyOf(r.open)) = SumOf(QtyOf(lots.open)) + signed
          /\ SumOf(CostOf(r.open)) - r.realized = SumOf(CostOf(lots.open)) - lots.realized + signed * P
      <3>1. P \in Int
        BY <1>3
      <3>. HIDE DEF P
      <3>. QED BY <2>1, <3>1, LotsFilled
    <2>3. lots' = r
      BY <1>9
    <2>. HIDE DEF r
    <2>. QED BY <2>2, <2>3
  <1>16. cash \in Int /\ net \in Stores /\ slices \in [Strategies -> Stores]
    BY DEF AccountsInv, Typed
  <1>17. Typed(net', slices', lots', cash')
    <2>1. cash' \in Int
      BY <1>3, <1>9, <1>16
    <2>. QED BY <2>1, <1>12, <1>13, <1>14, <1>15 DEF Typed
  <1>18. \A x \in Stores : x.qty \in Int /\ x.fees \in Int /\ Invested(x) \in Int
    BY StoreNumbers
  <1>19. Balanced(net', slices', lots', cash', stray')
    <2>. DEFINE qty == [s \in Strategies |-> slices[s].qty]
                qty2 == [s \in Strategies |-> slices'[s].qty]
                paid == [s \in Strategies |-> slices[s].fees]
                paid2 == [s \in Strategies |-> slices'[s].fees]
    <2>1. /\ qty \in [Strategies -> Int] /\ qty2 \in [Strategies -> Int]
          /\ paid \in [Strategies -> Int] /\ paid2 \in [Strategies -> Int]
      BY <1>12, <1>16, <1>18
    <2>2. \A s \in Strategies : qty2[s] = qty[s] + dq[s] /\ paid2[s] = paid[s] + df[s]
      BY <1>12
    <2>3. /\ SumOf(CostOf(lots.open)) - lots.realized = -cash
          /\ SumOf(QtyOf(lots.open)) = net.qty /\ Over(qty) = net.qty /\ Over(paid) + stray = net.fees
          /\ stray \in Int /\ stray' = stray
      BY <1>9 DEF AccountsInv, Balanced
    <2>. HIDE DEF qty, qty2, paid, paid2, dq, df
    <2>9. Over(paid) \in Int /\ Over(df) \in Int
      BY <2>1, <1>6, OverType
    <2>4. Over(qty2) = Over(qty) + Over(dq)
      <3>1. \A s \in Strategies : qty2[s] = qty[s] + dq[s]
        BY <2>2
      <3>. QED BY <3>1, <2>1, <1>6, OverAdds
    <2>5. Over(paid2) = Over(paid) + Over(df)
      <3>1. \A s \in Strategies : paid2[s] = paid[s] + df[s]
        BY <2>2
      <3>. QED BY <3>1, <2>1, <1>6, OverAdds
    <2>6. SumOf(QtyOf(lots'.open)) = net'.qty /\ Over(qty2) = net'.qty /\ Over(paid2) + stray' = net'.fees
      BY <2>3, <2>4, <2>5, <2>9, <1>3, <1>7, <1>8, <1>14, <1>15
    <2>. DEFINE z == signed * P
    <2>7. z \in Int /\ cash' = cash - z
          /\ SumOf(CostOf(lots'.open)) - lots'.realized = SumOf(CostOf(lots.open)) - lots.realized + z
      BY <1>3, <1>9, <1>15
    <2>. HIDE DEF z
    <2>8. SumOf(CostOf(lots'.open)) - lots'.realized = -cash'
      BY <2>3, <2>7, <1>16
    <2>. QED BY <2>3, <2>6, <2>8 DEF Balanced, qty2, paid2
  <1>20. ASSUME CashInv, AllWhole(signed, P, of, shares) PROVE CashKept(net', slices', cash')
    <2>. DEFINE put == [s \in Strategies |-> Invested(slices[s])]
                put2 == [s \in Strategies |-> Invested(slices'[s])]
                more == [s \in Strategies |-> P * dq[s]]
    <2>1. put \in [Strategies -> Int] /\ put2 \in [Strategies -> Int]
      BY <1>12, <1>16, <1>18
    <2>2. more \in [Strategies -> Int]
      <3>1. \A s \in Strategies : P * dq[s] \in Int
        BY <1>3, <1>6, MoneyMoves
      <3>. QED BY <3>1
    <2>3. (\A s \in Strategies : put2[s] = put[s] + more[s]) /\ \A s \in Strategies : more[s] = P * dq[s]
      BY <1>12, <1>20
    <2>4. Invested(net) = -cash /\ Over(put) = -cash
      BY <1>20 DEF CashInv, CashKept
    <2>. HIDE DEF put, put2, more, dq
    <2>5. Over(put2) = Over(put) + Over(more)
      BY <2>1, <2>2, <2>3, OverAdds
    <2>6. Over(more) = P * Over(dq)
      BY <2>2, <2>3, <1>3, <1>6, OverScales
    <2>7. Over(more) = signed * P
      BY <2>6, <1>3, <1>7
    <2>. DEFINE z == signed * P
    <2>8. z \in Int /\ Invested(net') = Invested(net) + z /\ cash' = cash - z /\ Over(more) = z
      BY <2>7, <1>3, <1>9, <1>14, <1>20
    <2>. HIDE DEF z
    <2>9. Invested(net') = -cash' /\ Over(put2) = -cash'
      BY <2>4, <2>5, <2>8, <1>16
    <2>. QED BY <2>9 DEF CashKept, put2
  <1>21. Told(journal', unfilled', slices')
    <2>. DEFINE legged == [s \in {t \in Strategies : HasLeg(of, shares, t)} |->
               [qty |-> Sgn(signed) * shares[LegOf(of, shares, s)], fees |-> fees[LegOf(of, shares, s)],
                realized |-> slices'[s].realized - slices[s].realized]]
    <2>1. /\ journal \in [Strategies -> [qty : Int, realized : Int, fees : Int]]
          /\ unfilled \in [Strategies -> Int]
          /\ \A s \in Strategies :
                /\ journal[s].qty = slices[s].qty /\ journal[s].realized = slices[s].realized
                /\ journal[s].fees + unfilled[s] = slices[s].fees
      BY DEF AccountsInv, Told
    <2>2. journal' = [s \in Strategies |->
             IF s \notin {t \in Strategies : HasLeg(of, shares, t)} THEN journal[s]
             ELSE [qty |-> journal[s].qty + legged[s].qty,
                   realized |-> journal[s].realized + legged[s].realized,
                   fees |-> journal[s].fees + legged[s].fees]]
      BY <1>11, Zenon DEF TradeJournalLegs
    <2>3. ASSUME NEW s \in Strategies
          PROVE  /\ journal'[s] \in [qty : Int, realized : Int, fees : Int]
                 /\ journal'[s].qty = slices'[s].qty /\ journal'[s].realized = slices'[s].realized
                 /\ journal'[s].fees + unfilled'[s] = slices'[s].fees
      <3>1. CASE ~HasLeg(of, shares, s)
        <4>1. journal'[s] = journal[s]
          BY <3>1, <2>2
        <4>2. slices'[s] = slices[s]
          BY <3>1, <1>10
        <4>. QED BY <4>1, <4>2, <2>1, <1>9
      <3>2. CASE HasLeg(of, shares, s)
        <4>1. legged[s] = [qty |-> dq[s], fees |-> df[s], realized |-> slices'[s].realized - slices[s].realized]
          BY <3>2
        <4>. HIDE DEF legged
        <4>2. journal'[s] = [qty |-> journal[s].qty + dq[s],
                             realized |-> journal[s].realized + (slices'[s].realized - slices[s].realized),
                             fees |-> journal[s].fees + df[s]]
          BY <3>2, <4>1, <2>2
        <4>3. dq[s] \in Int /\ df[s] \in Int /\ slices[s].realized \in Int /\ slices'[s].realized \in Int
              /\ journal[s].qty \in Int /\ journal[s].realized \in Int /\ journal[s].fees \in Int
              /\ unfilled[s] \in Int
          <5>1. journal[s] \in [qty : Int, realized : Int, fees : Int] /\ slices[s] \in Stores
            BY <2>1, <1>16
          <5>. QED BY <5>1, <2>1, <1>6, <1>12 DEF Stores
        <4>4. slices'[s].qty = slices[s].qty + dq[s] /\ slices'[s].fees = slices[s].fees + df[s]
          BY <1>12
        <4>5. unfilled'[s] = unfilled[s]
          BY <1>9
        <4>. HIDE DEF dq, df
        <4>. DEFINE q == journal[s].qty
                    g == journal[s].realized
                    p == journal[s].fees
                    new == [qty |-> q + dq[s], fees |-> p + df[s],
                            realized |-> g + (slices'[s].realized - slices[s].realized)]
        <4>6. journal'[s] = new
          BY <4>2
        <4>7. q = slices[s].qty /\ g = slices[s].realized /\ p + unfilled[s] = slices[s].fees
          BY <2>1
        <4>8. new \in [qty : Int, realized : Int, fees : Int] /\ new.qty = q + dq[s] /\ new.fees = p + df[s]
              /\ new.realized = g + (slices'[s].realized - slices[s].realized)
          <5>. DEFINE a == dq[s]
                      b == df[s]
                      t == slices'[s].realized
                      u == slices[s].realized
          <5>1. a \in Int /\ b \in Int /\ t \in Int /\ u \in Int /\ q \in Int /\ g \in Int /\ p \in Int
            BY <4>3
          <5>2. new = [qty |-> q + a, fees |-> p + b, realized |-> g + (t - u)]
            OBVIOUS
          <5>. HIDE DEF a, b, t, u, q, g, p, new
          <5>3. new \in [qty : Int, realized : Int, fees : Int] /\ new.qty = q + a /\ new.fees = p + b
                /\ new.realized = g + (t - u)
            BY <5>1, <5>2
          <5>. QED BY <5>3 DEF a, b, t, u
        <4>. HIDE DEF new
        <4>9. new.qty = slices'[s].qty /\ new.realized = slices'[s].realized
              /\ new.fees + unfilled'[s] = slices'[s].fees
          <5>1. new.qty = slices'[s].qty
            BY <4>4, <4>7, <4>8
          <5>2. new.realized = slices'[s].realized
            <6>1. \A x, y \in Int : x + (y - x) = y
              OBVIOUS
            <6>. QED BY <6>1, <4>3, <4>7, <4>8
          <5>3. new.fees + unfilled'[s] = slices'[s].fees
            <6>. DEFINE z == df[s]
                        y == unfilled[s]
            <6>1. z \in Int /\ y \in Int /\ p \in Int
              BY <4>3
            <6>2. new.fees = p + z /\ unfilled'[s] = y /\ slices[s].fees = p + y
                  /\ slices'[s].fees = slices[s].fees + z
              BY <4>4, <4>5, <4>7, <4>8
            <6>. HIDE DEF z, y, p
            <6>3. (p + z) + y = (p + y) + z
              BY <6>1
            <6>. QED BY <6>2, <6>3
          <5>. QED BY <5>1, <5>2, <5>3
        <4>. QED BY <4>6, <4>8, <4>9
      <3>. QED BY <3>1, <3>2
    <2>4. journal' = [s \in Strategies |-> journal'[s]]
      BY <2>2
    <2>5. journal' \in [Strategies -> [qty : Int, realized : Int, fees : Int]] /\ unfilled' \in [Strategies -> Int]
      BY <2>1, <2>3, <2>4, <1>9
    <2>. QED BY <2>3, <2>5 DEF Told
  <1>. QED BY <1>17, <1>19, <1>20, <1>21 DEF P

\* Nothing each is nothing together.
LEMMA OverNone ==
    ASSUME NEW v \in [Strategies -> Int], \A s \in Strategies : v[s] = 0
    PROVE  Over(v) = 0
  <1>1. \A s \in Strategies : v[s] = 0 * v[s]
    OBVIOUS
  <1>2. Over(v) = 0 * Over(v)
    BY <1>1, OverScales
  <1>3. Over(v) \in Int
    BY OverType
  <1>. QED BY <1>2, <1>3

\* Empty books agree.
LEMMA AccountsStart == AccountsInit => AccountsInv /\ CashInv
  <1>. SUFFICES ASSUME AccountsInit PROVE AccountsInv /\ CashInv
    OBVIOUS
  <1>. USE DEF AccountsInit
  <1>1. NewStore \in Stores /\ Marked(NewStore) /\ Invested(NewStore) = 0 /\ NewStore.qty = 0
        /\ NewStore.fees = 0 /\ NewStore.realized = 0
    BY DEF NewStore, Stores, Marked, Invested
  <1>2. lots.open \in Seq(Lots) /\ lots.open = <<>> /\ lots.realized = 0 /\ Sided(lots.open, 1)
    BY DEF Sided
  <1>3. Typed(net, slices, lots, cash)
    <2>1. 1 \in {-1, 1}
      OBVIOUS
    <2>2. OneSided(lots.open)
      BY <1>2, <2>1 DEF OneSided
    <2>. QED BY <1>1, <1>2, <2>2 DEF Typed
  <1>4. SumOf(QtyOf(lots.open)) = 0 /\ SumOf(CostOf(lots.open)) = 0
    <2>1. 1 \in {-1, 1}
      OBVIOUS
    <2>. QED BY <1>2, <2>1, SideHolds
  <1>5. \A v : v \in [Strategies -> Int] /\ (\A s \in Strategies : v[s] = 0) => Over(v) = 0
    BY OverNone
  <1>6. Balanced(net, slices, lots, cash, stray) /\ CashKept(net, slices, cash)
    <2>. DEFINE none == [s \in Strategies |-> 0]
    <2>1. Over(none) = 0
      BY <1>5
    <2>. HIDE DEF NewStore
    <2>2. /\ [s \in Strategies |-> Invested(slices[s])] = none
          /\ [s \in Strategies |-> slices[s].qty] = none /\ [s \in Strategies |-> slices[s].fees] = none
      BY <1>1
    <2>. HIDE DEF none
    <2>3. net = NewStore /\ cash = 0 /\ stray = 0
      OBVIOUS
    <2>. HIDE DEF AccountsInit
    <2>4. -cash = 0
      <3>1. \A x \in Int : -x = 0 - x
        OBVIOUS
      <3>2. cash \in Int /\ 0 - cash = 0
        BY <2>3
      <3>. QED BY <3>1, <3>2
    <2>. QED BY <1>1, <1>2, <1>4, <2>1, <2>2, <2>3, <2>4 DEF Balanced, CashKept
  <1>7. Told(journal, unfilled, slices)
    <2>1. unfilled \in [Strategies -> Int] /\ journal \in [Strategies -> [qty : Int, realized : Int, fees : Int]]
      OBVIOUS
    <2>2. ASSUME NEW s \in Strategies
          PROVE  /\ journal[s].qty = slices[s].qty /\ journal[s].realized = slices[s].realized
                 /\ journal[s].fees + unfilled[s] = slices[s].fees
      BY <1>1
    <2>. QED BY <2>1, <2>2 DEF Told
  <1>8. OrdersOwn(orders)
    BY DEF OrdersOwn
  <1>. QED BY <1>3, <1>6, <1>7, <1>8 DEF AccountsInv, CashInv

\* What a divided average asks of a fill.
LEMMA FillDivides ==
    ASSUME NEW p \in Stores, NEW n \in Nat, n # 0, NEW sign \in {-1, 1}, NEW price \in Int,
           Size(p.qty + sign * n) <= MaxHolding,
           n \in 1 .. MaxHolding => Divides(p, n, price) /\ Divides(p, -n, price)
    PROVE  Whole(p.qty, p.avg, sign * n, price)
  <1>. SUFFICES ASSUME Sgn(p.qty) = Sgn(sign * n)
                PROVE  (p.avg * Size(p.qty) + price * Size(sign * n)) % Size(p.qty + sign * n) = 0
    BY DEF Whole
  <1>1. p.qty \in Int /\ MaxHolding \in Nat
    BY AccountsAssumption DEF Stores
  <1>2. sign * n = n \/ sign * n = -n
    OBVIOUS
  <1>3. n \in 1 .. MaxHolding
    BY <1>1, <1>2 DEF Size, Sgn
  <1>. QED BY <1>2, <1>3 DEF Divides

\* A fill of a strategy's own order.
LEMMA OwnFillKept ==
    ASSUME AccountsInv, NEW s \in Strategies, BookOwnFill(s)
    PROVE  AccountsInv' /\ (CashInv /\ AveragesDivide => CashInv')
  <1>1. PICK k \in 1 .. orders[s][1].left, deal \in Deals :
           LET o == orders[s][1]
               split == AllocateFill(o.record, k)
           IN  /\ Size(net.qty + o.sign * k) <= MaxHolding
               /\ Size(slices[s].qty + o.sign * k) <= MaxHolding
               /\ Book(o.sign * k, deal.price, deal.fee,
                       [of |-> o.record.of, allocations |-> split.allocations])
               /\ orders' = [orders EXCEPT ![s] =
                      IF k = o.left THEN <<>>
                      ELSE <<[o EXCEPT !.left = @ - k, !.record = split.record]>>]
    BY Zenon DEF BookOwnFill
  <1>2. PICK sign \in {-1, 1}, left \in Nat \ {0}, c \in Nat :
           orders[s] = <<[sign |-> sign, left |-> left,
                          record |-> [of |-> <<s>>, shares |-> <<1>>, cum |-> <<c>>]]>>
    BY DEF AccountsInv, OrdersOwn, BookOwnFill
  <1>. DEFINE rec == [of |-> <<s>>, shares |-> <<1>>, cum |-> <<c>>]
              next == [of |-> <<s>>, shares |-> <<1>>, cum |-> <<c + k>>]
              legs == [of |-> <<s>>, allocations |-> <<k>>]
              d == sign * k
  <1>3. /\ orders[s][1] = [sign |-> sign, left |-> left, record |-> rec]
        /\ orders[s][1].sign = sign /\ orders[s][1].left = left /\ orders[s][1].record = rec
    BY <1>2
  <1>4. k \in Nat /\ k # 0 /\ k <= left
    BY <1>3
  <1>5. AllocateFill(rec, k) = [record |-> next, allocations |-> <<k>>]
    BY <1>4, OwnFillGiven
  <1>6. /\ Size(net.qty + d) <= MaxHolding /\ Size(slices[s].qty + d) <= MaxHolding
        /\ Book(d, deal.price, deal.fee, legs)
        /\ orders' = [orders EXCEPT ![s] =
              IF k = left THEN <<>> ELSE <<[sign |-> sign, left |-> left - k, record |-> next]>>]
    <2>1. rec.of = <<s>> /\ AllocateFill(rec, k).allocations = <<k>> /\ AllocateFill(rec, k).record = next
      BY <1>5
    <2>2. [orders[s][1] EXCEPT !.left = @ - k, !.record = next]
          = [sign |-> sign, left |-> left - k, record |-> next]
      <3>. DEFINE o == [sign |-> sign, left |-> left, record |-> rec]
      <3>1. orders[s][1] = o
        BY <1>3
      <3>. DEFINE R == [sign : Int, left : Int, record : {rec, next}]
                  u == [o EXCEPT !.left = @ - k, !.record = next]
      <3>2. o \in R /\ o.left = left /\ left - k \in Int /\ sign \in Int
        <4>. HIDE DEF rec, next
        <4>. QED BY <1>4
      <3>. HIDE DEF rec, next
      <3>3. u \in R /\ u.sign = sign /\ u.left = left - k /\ u.record = next
        BY <3>2
      <3>. HIDE DEF u
      <3>4. u = [sign |-> u.sign, left |-> u.left, record |-> u.record]
        BY <3>3
      <3>5. u = [sign |-> sign, left |-> left - k, record |-> next]
        BY <3>3, <3>4
      <3>. HIDE DEF o
      <3>6. [orders[s][1] EXCEPT !.left = @ - k, !.record = next] = u
        BY <3>1 DEF u
      <3>. QED BY <3>5, <3>6
    <2>. HIDE DEF rec, next
    <2>. QED BY <1>1, <1>3, <2>1, <2>2
  <1>7. d \in Int /\ d # 0 /\ Size(d) = k /\ Sgn(d) = sign
    BY <1>4 DEF Size, Sgn
  <1>8. deal.price \in Int /\ deal.fee \in Int /\ deal.price * Fraction \in Int
    BY AccountsAssumption DEF Fraction
  <1>9. net \in Stores /\ slices[s] \in Stores
    BY DEF AccountsInv, Typed
  <1>10. ASSUME AveragesDivide
         PROVE  Whole(net.qty, net.avg, d, deal.price * Fraction)
                /\ Whole(slices[s].qty, slices[s].avg, d, deal.price * Fraction)
    <2>1. ASSUME NEW p \in {net, slices[s]}
          PROVE  k \in 1 .. MaxHolding =>
                    Divides(p, k, deal.price * Fraction) /\ Divides(p, -k, deal.price * Fraction)
      BY <1>10 DEF AveragesDivide
    <2>2. /\ k \in 1 .. MaxHolding => Divides(net, k, deal.price * Fraction) /\ Divides(net, -k, deal.price * Fraction)
          /\ k \in 1 .. MaxHolding => Divides(slices[s], k, deal.price * Fraction)
                                      /\ Divides(slices[s], -k, deal.price * Fraction)
      BY <2>1
    <2>. DEFINE P == deal.price * Fraction
    <2>3. P \in Int
      BY <1>8
    <2>. HIDE DEF P
    <2>. QED BY <1>4, <1>6, <1>9, <2>2, <2>3, FillDivides DEF P
  <1>11. /\ Typed(net', slices', lots', cash') /\ Balanced(net', slices', lots', cash', stray')
         /\ Told(journal', unfilled', slices') /\ (CashInv /\ AveragesDivide => CashKept(net', slices', cash'))
    <2>1. LegsFor(legs.of) /\ Len(legs.of) = 1 /\ legs.allocations \in [1 .. Len(legs.of) -> Nat]
          /\ legs.allocations[1] = k /\ DOMAIN legs.of = {1} /\ legs.of[1] = s
      BY <1>4 DEF LegsFor
    <2>2. SumOf(legs.allocations) = Size(d)
      <3>. DEFINE f == legs.allocations
      <3>1. 1 \in Nat /\ 1 \in 1 .. 1 /\ f \in [1 .. 1 -> Int] /\ f[1] = k
            /\ \A i \in 1 .. 1 : i # 1 => f[i] = 0
        BY <2>1
      <3>. HIDE DEF f
      <3>2. SumOf(f) = f[1]
        BY <3>1, SumSingle
      <3>. QED BY <3>1, <3>2, <1>7 DEF f
    <2>. HIDE DEF legs
    <2>3. ASSUME AveragesDivide, NEW t \in Strategies, HasLeg(legs.of, legs.allocations, t)
          PROVE  Whole(slices[t].qty, slices[t].avg,
                       Sgn(d) * legs.allocations[LegOf(legs.of, legs.allocations, t)], deal.price * Fraction)
      <3>1. \E i \in GivenTo(legs.of, legs.allocations) : legs.of[i] = t
        BY <2>3 DEF HasLeg
      <3>2. LegOf(legs.of, legs.allocations, t) \in GivenTo(legs.of, legs.allocations)
            /\ legs.of[LegOf(legs.of, legs.allocations, t)] = t
        BY <3>1, Zenon DEF LegOf
      <3>3. LegOf(legs.of, legs.allocations, t) = 1 /\ t = s
        BY <3>2, <2>1 DEF GivenTo
      <3>4. Sgn(d) * legs.allocations[1] = d
        BY <2>1, <1>7
      <3>. QED BY <2>3, <3>3, <3>4, <1>10
    <2>. HIDE DEF d
    <2>4. AveragesDivide => AllWhole(d, deal.price * Fraction, legs.of, legs.allocations)
      BY <2>3, <1>10 DEF AllWhole
    <2>. QED BY <2>1, <2>2, <2>4, <1>6, <1>7, <1>8, FillBalances
  <1>12. OrdersOwn(orders')
    <2>1. DOMAIN orders = Strategies /\ \A t \in Strategies : orders[t] = <<>> \/
             \E sg \in {-1, 1}, l \in Nat \ {0}, x \in Nat :
                orders[t] = <<[sign |-> sg, left |-> l,
                               record |-> [of |-> <<t>>, shares |-> <<1>>, cum |-> <<x>>]]>>
      BY DEF AccountsInv, OrdersOwn
    <2>2. DOMAIN orders' = Strategies /\ \A t \in Strategies \ {s} : orders'[t] = orders[t]
      BY <1>6, <2>1
    <2>3. CASE k = left
      <3>1. orders'[s] = <<>>
        BY <1>6, <2>1, <2>3
      <3>. QED BY <2>1, <2>2, <3>1 DEF OrdersOwn
    <2>4. CASE k # left
      <3>1. orders'[s] = <<[sign |-> sign, left |-> left - k, record |-> next]>>
        BY <1>6, <2>1, <2>4
      <3>2. left - k \in Nat \ {0} /\ c + k \in Nat
        BY <1>4, <2>4
      <3>3. \E sg \in {-1, 1}, l \in Nat \ {0}, x \in Nat :
                orders'[s] = <<[sign |-> sg, left |-> l,
                                record |-> [of |-> <<s>>, shares |-> <<1>>, cum |-> <<x>>]]>>
        BY <3>1, <3>2
      <3>. QED BY <2>1, <2>2, <3>3 DEF OrdersOwn
    <2>. QED BY <2>3, <2>4
  <1>. QED BY <1>11, <1>12 DEF AccountsInv, CashInv

\* A fill of an exit closes what it reaches: it makes no average.
LEMMA ForcedFillKept ==
    ASSUME AccountsInv, BookForcedFill
    PROVE  AccountsInv' /\ (CashInv => CashInv')
  <1>1. PICK k \in 1 .. Size(net.qty), deal \in Deals :
           /\ Book(-Sgn(net.qty) * k, deal.price, deal.fee, Distributed(-Sgn(net.qty) * k))
           /\ UNCHANGED orders
    BY Zenon DEF BookForcedFill
  <1>. DEFINE held == net.qty
              d == -Sgn(net.qty) * k
              shares == FillShares(slices, StrategyOrder, d)
              legs == Distributed(d)
  <1>2. net \in Stores /\ slices \in [Strategies -> Stores] /\ held \in Int
        /\ Over([t \in Strategies |-> slices[t].qty]) = held
    BY DEF AccountsInv, Typed, Balanced, Stores
  <1>3. held # 0 /\ k \in Int /\ k > 0
    BY <1>2 DEF Size
  <1>4. d \in Int /\ d # 0 /\ Sgn(held) = -Sgn(d) /\ Sgn(d) \in {-1, 1}
    BY <1>2, <1>3 DEF Sgn
  <1>5. legs.of = StrategyOrder /\ legs.allocations = shares
    BY BooksAreThese DEF Distributed
  <1>6. Book(d, deal.price, deal.fee, legs) /\ orders' = orders
    BY <1>1
  <1>. HIDE DEF d, held, legs
  <1>7. /\ shares \in [1 .. Len(StrategyOrder) -> Nat] /\ SumOf(shares) = Size(d)
        /\ \A i \in 1 .. Len(StrategyOrder) : shares[i] # 0 => Sgn(slices[StrategyOrder[i]].qty) # Sgn(d)
    BY <1>2, <1>3, <1>4, ForcedFillShared
  <1>8. deal.price \in Int /\ deal.fee \in Int /\ deal.price * Fraction \in Int
    BY AccountsAssumption DEF Fraction
  <1>9. Whole(net.qty, net.avg, d, deal.price * Fraction)
    <2>1. Sgn(held) # Sgn(d)
      BY <1>4
    <2>. QED BY <2>1 DEF Whole, held
  <1>. HIDE DEF shares
  <1>10. ASSUME NEW t \in Strategies, HasLeg(StrategyOrder, shares, t)
         PROVE  Whole(slices[t].qty, slices[t].avg, Sgn(d) * shares[LegOf(StrategyOrder, shares, t)],
                      deal.price * Fraction)
    <2>. DEFINE i == LegOf(StrategyOrder, shares, t)
    <2>1. \E j \in GivenTo(StrategyOrder, shares) : StrategyOrder[j] = t
      BY <1>10 DEF HasLeg
    <2>2. i \in GivenTo(StrategyOrder, shares) /\ StrategyOrder[i] = t
      BY <2>1, Zenon DEF LegOf
    <2>. HIDE DEF i
    <2>3. i \in 1 .. Len(StrategyOrder) /\ shares[i] # 0
      BY <2>2, StrategiesListed DEF GivenTo
    <2>4. Sgn(slices[t].qty) # Sgn(d)
      BY <2>2, <2>3, <1>7
    <2>5. Sgn(Sgn(d) * shares[i]) = Sgn(d)
      <3>1. shares[i] \in Int /\ shares[i] > 0
        BY <2>3, <1>7
      <3>2. Sgn(d) = 1 \/ Sgn(d) = -1
        BY <1>4
      <3>3. CASE Sgn(d) = 1
        <4>1. Sgn(d) * shares[i] = shares[i]
          BY <3>1, <3>3
        <4>. QED BY <3>1, <3>3, <4>1 DEF Sgn
      <3>4. CASE Sgn(d) = -1
        <4>1. Sgn(d) * shares[i] = -shares[i]
          BY <3>1, <3>4
        <4>2. \A x \in Int : x > 0 => Sgn(-x) = -1
          BY DEF Sgn
        <4>. QED BY <3>1, <3>4, <4>1, <4>2
      <3>. QED BY <3>2, <3>3, <3>4
    <2>. QED BY <2>4, <2>5 DEF Whole, i
  <1>11. /\ Typed(net', slices', lots', cash') /\ Balanced(net', slices', lots', cash', stray')
         /\ Told(journal', unfilled', slices') /\ (CashInv => CashKept(net', slices', cash'))
    <2>1. LegsFor(legs.of) /\ legs.allocations \in [1 .. Len(legs.of) -> Nat]
          /\ SumOf(legs.allocations) = Size(d)
      BY <1>5, <1>7 DEF LegsFor
    <2>2. AllWhole(d, deal.price * Fraction, legs.of, legs.allocations)
      BY <1>5, <1>9, <1>10 DEF AllWhole
    <2>. QED BY <2>1, <2>2, <1>4, <1>6, <1>8, FillBalances
  <1>. QED BY <1>6, <1>11 DEF AccountsInv, CashInv

\* A fee changes nothing but what has been paid.
LEMMA FeesDebited ==
    ASSUME NEW p \in Stores, Marked(p), NEW fee \in Int
    PROVE  LET r == debit_fees(p, fee)
           IN  /\ r \in Stores /\ Marked(r) /\ r.qty = p.qty /\ r.fees = p.fees + fee
               /\ r.realized = p.realized /\ Invested(r) = Invested(p)
  <1>. DEFINE paid == p.fees + fee
              r == [p EXCEPT !.fees = paid]
  <1>1. paid \in Int
    BY DEF Stores
  <1>2. debit_fees(p, fee) = r /\ paid = p.fees + fee
    BY DEF debit_fees
  <1>. HIDE DEF paid
  <1>3. r \in Stores /\ r.qty = p.qty /\ r.avg = p.avg /\ r.realized = p.realized
        /\ r.unrealized = p.unrealized /\ r.mark = p.mark /\ r.fees = paid
    BY <1>1 DEF Stores
  <1>. QED BY <1>2, <1>3 DEF Marked, Invested

\* A marked store is what it was, seen at another price.
LEMMA MarkUpdated ==
    ASSUME NEW p \in Stores, NEW quote \in Quotes
    PROVE  LET r == update_mark(p, quote)
           IN  /\ r \in Stores /\ Marked(r) /\ r.qty = p.qty /\ r.fees = p.fees
               /\ r.realized = p.realized /\ Invested(r) = Invested(p)
  <1>. DEFINE t == [p EXCEPT !.mark = <<quote>>]
  <1>1. t \in Stores /\ t.qty = p.qty /\ t.avg = p.avg /\ t.realized = p.realized /\ t.fees = p.fees
    BY DEF Stores
  <1>2. update_mark(p, quote) = _recompute_unrealized(t)
    BY DEF update_mark
  <1>. HIDE DEF t
  <1>. QED BY <1>1, <1>2, StoreMarked DEF Invested

\* What a step leaves of the shares, the money and the fees, it leaves of their totals.
LEMMA BalanceCarries ==
    ASSUME AccountsInv, NEW e \in Int, NEW v \in [Strategies -> Int],
           NEW g \in Int, stray' = stray + g, Over(v) + g = e,
           UNCHANGED <<lots, cash>>, net' \in Stores, net'.qty = net.qty, net'.fees = net.fees + e,
           Invested(net') = Invested(net), slices' \in [Strategies -> Stores],
           \A s \in Strategies : /\ slices'[s].qty = slices[s].qty
                                 /\ Invested(slices'[s]) = Invested(slices[s])
                                 /\ slices'[s].fees = slices[s].fees + v[s]
    PROVE  Balanced(net', slices', lots', cash', stray') /\ (CashInv => CashInv')
  <1>. DEFINE paid == [s \in Strategies |-> slices[s].fees]
              paid2 == [s \in Strategies |-> slices'[s].fees]
  <1>1. slices \in [Strategies -> Stores] /\ Balanced(net, slices, lots, cash, stray)
    BY DEF AccountsInv, Typed
  <1>2. /\ [s \in Strategies |-> Invested(slices'[s])] = [s \in Strategies |-> Invested(slices[s])]
        /\ [s \in Strategies |-> slices'[s].qty] = [s \in Strategies |-> slices[s].qty]
    OBVIOUS
  <1>3. paid \in [Strategies -> Int] /\ paid2 \in [Strategies -> Int]
        /\ \A s \in Strategies : paid2[s] = paid[s] + v[s]
    BY <1>1 DEF Stores
  <1>4. Over(paid) + stray = net.fees /\ stray \in Int
    BY <1>1 DEF Balanced
  <1>. HIDE DEF paid, paid2
  <1>5. Over(paid2) = Over(paid) + Over(v)
    BY <1>3, OverAdds
  <1>8. Over(paid) \in Int /\ Over(v) \in Int
    BY <1>3, OverType
  <1>6. Over(paid2) + stray' = net'.fees /\ stray' \in Int
    BY <1>4, <1>5, <1>8
  <1>7. CashInv => CashInv'
    BY <1>2 DEF CashInv, CashKept
  <1>. QED BY <1>1, <1>2, <1>6, <1>7 DEF Balanced, paid2

\* An order that ends unfilled, charged.
LEMMA CancelKept ==
    ASSUME AccountsInv, NEW s \in Strategies, BookCancelFees(s)
    PROVE  AccountsInv' /\ (CashInv => CashInv')
  <1>1. PICK deal \in Deals, known \in BOOLEAN :
           /\ net' = debit_fees(net, deal.fee)
           /\ IF known
              THEN /\ slices' = [slices EXCEPT ![s] = debit_fees(@, deal.fee)]
                   /\ unfilled' = [unfilled EXCEPT ![s] = @ + deal.fee]
                   /\ UNCHANGED stray
              ELSE stray' = stray + deal.fee /\ UNCHANGED <<slices, unfilled>>
    BY DEF BookCancelFees
  <1>2. UNCHANGED <<lots, journal, cash>> /\ orders' = [orders EXCEPT ![s] = <<>>]
    BY DEF BookCancelFees
  <1>. DEFINE fee == deal.fee
              own == IF known THEN fee ELSE 0
              v == [t \in Strategies |-> IF t = s THEN own ELSE 0]
  <1>3. fee \in Int /\ own \in Int
    BY AccountsAssumption
  <1>4. /\ net \in Stores /\ Marked(net) /\ slices \in [Strategies -> Stores]
        /\ \A t \in Strategies : Marked(slices[t])
    BY DEF AccountsInv, Typed
  <1>5. v \in [Strategies -> Int] /\ \A t \in Strategies : v[t] = IF t = s THEN own ELSE 0
    BY <1>3
  <1>14. stray \in Int /\ stray' = stray + (fee - own)
    BY <1>1, <1>3 DEF AccountsInv, Balanced
  <1>. HIDE DEF v
  <1>6. Over(v) = own
    BY <1>3, <1>5, OverOne
  <1>15. Over(v) + (fee - own) = fee /\ fee - own \in Int
    BY <1>3, <1>6
  <1>7. net' \in Stores /\ Marked(net') /\ net'.qty = net.qty /\ net'.fees = net.fees + fee
        /\ Invested(net') = Invested(net)
    BY <1>1, <1>3, <1>4, FeesDebited
  <1>8. ASSUME NEW t \in Strategies
        PROVE  /\ slices'[t] \in Stores /\ Marked(slices'[t]) /\ slices'[t].qty = slices[t].qty
               /\ slices'[t].fees = slices[t].fees + v[t] /\ slices'[t].realized = slices[t].realized
               /\ Invested(slices'[t]) = Invested(slices[t])
    <2>1. CASE t = s
      <3>1. CASE known
        <4>1. slices'[t] = debit_fees(slices[t], fee) /\ v[t] = fee
          BY <2>1, <3>1, <1>1, <1>4, <1>5
        <4>. QED BY <4>1, <1>3, <1>4, FeesDebited
      <3>2. CASE ~known
        <4>1. slices'[t] = slices[t] /\ v[t] = 0
          BY <2>1, <3>2, <1>1, <1>5
        <4>2. slices[t].fees \in Int
          BY <1>4 DEF Stores
        <4>. QED BY <4>1, <4>2, <1>4
      <3>. QED BY <3>1, <3>2
    <2>2. CASE t # s
      <3>1. slices'[t] = slices[t] /\ v[t] = 0
        BY <2>2, <1>1, <1>4, <1>5
      <3>2. slices[t].fees \in Int
        BY <1>4 DEF Stores
      <3>. QED BY <3>1, <3>2, <1>4
    <2>. QED BY <2>1, <2>2
  <1>9. slices' \in [Strategies -> Stores]
    <2>1. slices' = [t \in Strategies |-> slices'[t]]
      BY <1>1, <1>4
    <2>. QED BY <2>1, <1>8
  <1>10. Typed(net', slices', lots', cash')
    BY <1>2, <1>7, <1>8, <1>9 DEF AccountsInv, Typed
  <1>. HIDE DEF own
  <1>11. Balanced(net', slices', lots', cash', stray') /\ (CashInv => CashInv')
    BY <1>2, <1>3, <1>5, <1>7, <1>8, <1>9, <1>14, <1>15, BalanceCarries
  <1>12. Told(journal', unfilled', slices')
    <2>1. /\ journal \in [Strategies -> [qty : Int, realized : Int, fees : Int]]
          /\ unfilled \in [Strategies -> Int] /\ journal' = journal
          /\ \A t \in Strategies :
                /\ journal[t].qty = slices[t].qty /\ journal[t].realized = slices[t].realized
                /\ journal[t].fees + unfilled[t] = slices[t].fees
      BY <1>2 DEF AccountsInv, Told
    <2>2. \A t \in Strategies : unfilled'[t] = unfilled[t] + v[t] /\ unfilled'[t] \in Int
      BY <1>1, <1>3, <1>5, <2>1 DEF own
    <2>3. unfilled' \in [Strategies -> Int]
      BY <1>1, <1>3, <2>1
    <2>4. ASSUME NEW t \in Strategies PROVE journal[t].fees + unfilled'[t] = slices'[t].fees
      <3>. DEFINE x == journal[t].fees
                  y == unfilled[t]
                  z == v[t]
      <3>1. x \in Int /\ y \in Int /\ z \in Int
        BY <2>1, <1>5
      <3>2. x + y = slices[t].fees /\ unfilled'[t] = y + z /\ slices'[t].fees = slices[t].fees + z
        BY <2>1, <2>2, <1>8
      <3>. HIDE DEF x, y, z
      <3>3. x + (y + z) = (x + y) + z
        BY <3>1
      <3>. QED BY <3>2, <3>3 DEF x
    <2>. QED BY <2>1, <2>3, <2>4, <1>8 DEF Told
  <1>13. OrdersOwn(orders')
    <2>1. DOMAIN orders = Strategies /\ \A t \in Strategies : orders[t] = <<>> \/
             \E sg \in {-1, 1}, l \in Nat \ {0}, x \in Nat :
                orders[t] = <<[sign |-> sg, left |-> l,
                               record |-> [of |-> <<t>>, shares |-> <<1>>, cum |-> <<x>>]]>>
      BY DEF AccountsInv, OrdersOwn
    <2>2. /\ DOMAIN orders' = Strategies /\ \A t \in Strategies \ {s} : orders'[t] = orders[t]
          /\ orders'[s] = <<>>
      BY <1>2, <2>1
    <2>. QED BY <2>1, <2>2 DEF OrdersOwn
  <1>. QED BY <1>10, <1>11, <1>12, <1>13 DEF AccountsInv

\* A tick.
LEMMA MarksKept ==
    ASSUME AccountsInv, MarkBooks
    PROVE  AccountsInv' /\ (CashInv => CashInv')
  <1>1. PICK quote \in Quotes :
           /\ net' = update_mark(net, quote)
           /\ slices' = [s \in Strategies |->
                            IF [slices[s] EXCEPT !.mark = <<>>] = NewStore THEN slices[s]
                            ELSE update_mark(slices[s], quote)]
           /\ UNCHANGED <<lots, orders, journal, unfilled, stray, cash>>
    BY Zenon DEF MarkBooks
  <1>. DEFINE v == [t \in Strategies |-> 0]
  <1>2. /\ net \in Stores /\ slices \in [Strategies -> Stores]
        /\ \A t \in Strategies : Marked(slices[t])
    BY DEF AccountsInv, Typed
  <1>3. v \in [Strategies -> Int] /\ \A t \in Strategies : v[t] = 0
    OBVIOUS
  <1>. HIDE DEF v
  <1>4. Over(v) = 0
    BY <1>3, OverNone
  <1>5. net' \in Stores /\ Marked(net') /\ net'.qty = net.qty /\ net'.fees = net.fees + 0
        /\ Invested(net') = Invested(net)
    <2>1. net.fees \in Int
      BY <1>2 DEF Stores
    <2>. QED BY <2>1, <1>1, <1>2, MarkUpdated
  <1>6. ASSUME NEW t \in Strategies
        PROVE  /\ slices'[t] \in Stores /\ Marked(slices'[t]) /\ slices'[t].qty = slices[t].qty
               /\ slices'[t].fees = slices[t].fees + v[t] /\ slices'[t].realized = slices[t].realized
               /\ slices'[t].fees = slices[t].fees /\ Invested(slices'[t]) = Invested(slices[t])
    <2>1. slices[t].fees \in Int /\ slices[t] \in Stores /\ v[t] = 0
      BY <1>2, <1>3 DEF Stores
    <2>2. slices'[t] = slices[t] \/ slices'[t] = update_mark(slices[t], quote)
      BY <1>1
    <2>. QED BY <2>1, <2>2, <1>2, MarkUpdated
  <1>7. slices' \in [Strategies -> Stores]
    <2>1. slices' = [t \in Strategies |-> slices'[t]]
      BY <1>1
    <2>. QED BY <2>1, <1>6
  <1>8. Typed(net', slices', lots', cash')
    BY <1>1, <1>5, <1>6, <1>7 DEF AccountsInv, Typed
  <1>11. stray \in Int /\ stray' = stray + 0 /\ Over(v) + 0 = 0
    BY <1>1, <1>4 DEF AccountsInv, Balanced
  <1>9. Balanced(net', slices', lots', cash', stray') /\ (CashInv => CashInv')
    <2>1. UNCHANGED <<lots, cash>>
      BY <1>1
    <2>2. \A t \in Strategies : /\ slices'[t].qty = slices[t].qty
                                /\ Invested(slices'[t]) = Invested(slices[t])
                                /\ slices'[t].fees = slices[t].fees + v[t]
      BY <1>6
    <2>3. 0 \in Int
      OBVIOUS
    <2>. QED BY <2>1, <2>2, <2>3, <1>3, <1>5, <1>7, <1>11, BalanceCarries
  <1>10. Told(journal', unfilled', slices')
    BY <1>1, <1>6 DEF AccountsInv, Told
  <1>. QED BY <1>1, <1>8, <1>9, <1>10 DEF AccountsInv

\* A new order.
LEMMA PlaceKept ==
    ASSUME AccountsInv, NEW s \in Strategies, PlaceOrder(s)
    PROVE  AccountsInv' /\ (CashInv => CashInv')
  <1>1. PICK signed \in {-2, -1, 1, 2} :
           orders' = [orders EXCEPT ![s] =
              <<[sign |-> Sgn(signed), left |-> Size(signed),
                 record |-> [of |-> <<s>>, shares |-> <<1>>, cum |-> <<0>>]]>>]
    BY DEF PlaceOrder
  <1>2. UNCHANGED <<net, slices, lots, journal, unfilled, stray, cash>>
    BY DEF PlaceOrder
  <1>3. Sgn(signed) \in {-1, 1} /\ Size(signed) \in Nat \ {0} /\ 0 \in Nat
    BY DEF Sgn, Size
  <1>4. OrdersOwn(orders')
    <2>1. DOMAIN orders = Strategies /\ \A t \in Strategies : orders[t] = <<>> \/
             \E sg \in {-1, 1}, l \in Nat \ {0}, x \in Nat :
                orders[t] = <<[sign |-> sg, left |-> l,
                               record |-> [of |-> <<t>>, shares |-> <<1>>, cum |-> <<x>>]]>>
      BY DEF AccountsInv, OrdersOwn
    <2>2. DOMAIN orders' = Strategies /\ \A t \in Strategies \ {s} : orders'[t] = orders[t]
      BY <1>1, <2>1
    <2>3. orders'[s] = <<[sign |-> Sgn(signed), left |-> Size(signed),
                          record |-> [of |-> <<s>>, shares |-> <<1>>, cum |-> <<0>>]]>>
      BY <1>1, <2>1
    <2>4. \E sg \in {-1, 1}, l \in Nat \ {0}, x \in Nat :
                orders'[s] = <<[sign |-> sg, left |-> l,
                                record |-> [of |-> <<s>>, shares |-> <<1>>, cum |-> <<x>>]]>>
      BY <1>3, <2>3
    <2>. QED BY <2>1, <2>2, <2>4 DEF OrdersOwn
  <1>. QED BY <1>2, <1>4 DEF AccountsInv, Typed, Balanced, Told, CashInv, CashKept

\* Every entry keeps the books, and every entry whose averages divide the cash.
LEMMA EntriesKept ==
    ASSUME AccountsInv, [AccountsNext]_accountsVars
    PROVE  AccountsInv' /\ (CashInv /\ AveragesDivide => CashInv')
  <1>. DEFINE Sustained == AccountsInv' /\ (CashInv /\ AveragesDivide => CashInv')
  <1>1. ASSUME NEW s \in Strategies, BookOwnFill(s) PROVE Sustained
    BY <1>1, OwnFillKept
  <1>2. ASSUME NEW s \in Strategies, BookCancelFees(s) PROVE Sustained
    BY <1>2, CancelKept
  <1>3. CASE BookForcedFill
    BY <1>3, ForcedFillKept
  <1>4. CASE MarkBooks
    BY <1>4, MarksKept
  <1>5. ASSUME NEW s \in Strategies, PlaceOrder(s) PROVE Sustained
    BY <1>5, PlaceKept
  <1>6. CASE UNCHANGED accountsVars
    <2>1. UNCHANGED <<net, slices, lots, orders, journal, unfilled, stray, cash>>
      BY <1>6 DEF accountsVars
    <2>. QED BY <2>1 DEF AccountsInv, Typed, Balanced, Told, CashInv, CashKept
  <1>. QED BY <1>1, <1>2, <1>3, <1>4, <1>5, <1>6, Zenon DEF AccountsNext

\* What a holding is worth, longs at the bid and shorts at the ask.
LEMMA WorthIs ==
    ASSUME NEW q \in Int, NEW bid \in Int, NEW ask \in Int
    PROVE  (IF q > 0 THEN bid ELSE ask) * q = ask * q - (ask - bid) * (IF 0 <= q THEN q ELSE 0)
  <1>1. CASE q > 0
    <2>1. bid * q = ask * q - (ask - bid) * q
      OBVIOUS
    <2>. QED BY <1>1, <2>1
  <1>2. CASE q = 0
    BY <1>2
  <1>3. CASE q < 0
    <2>1. (ask - bid) * 0 = 0 /\ ask * q \in Int
      BY MoneyMoves
    <2>. QED BY <1>3, <2>1
  <1>. QED BY <1>1, <1>2, <1>3

\* A marked store: what it has earned and would earn is what its holding is
\* worth, less what it has put in.
LEMMA EquityIs ==
    ASSUME NEW p \in Stores, Marked(p), NEW m, p.qty # 0 => p.mark = <<m>>,
           NEW bid \in Int, NEW ask \in Int,
           bid = Liquidation(m, TRUE), ask = Liquidation(m, FALSE)
    PROVE  p.realized + p.unrealized
           = ask * p.qty - (ask - bid) * (IF 0 <= p.qty THEN p.qty ELSE 0) - Invested(p)
  <1>. DEFINE q == p.qty
              a == p.avg
              g == p.realized
              u == p.unrealized
              worth == (IF q > 0 THEN bid ELSE ask) * q
  <1>1. q \in Int /\ a \in Int /\ g \in Int /\ u \in Int
    BY DEF Stores
  <1>2. u = worth - q * a
    <2>1. CASE q = 0
      <3>1. u = 0
        BY <2>1 DEF Marked
      <3>2. \A x \in Int : x * 0 = 0 /\ 0 * x = 0
        OBVIOUS
      <3>3. worth = ask * 0 /\ q * a = 0 * a
        BY <2>1
      <3>4. worth = 0 /\ q * a = 0
        BY <3>2, <3>3, <1>1
      <3>. HIDE DEF worth, u
      <3>. QED BY <3>1, <3>4
    <2>2. CASE q # 0
      <3>1. p.mark = <<m>> /\ p.mark # <<>> /\ p.mark[1] = m
        BY <2>2
      <3>2. u = (Liquidation(m, q > 0) - a) * q
        BY <2>2, <3>1 DEF Marked
      <3>3. Liquidation(m, q > 0) = IF q > 0 THEN bid ELSE ask
        <4>1. CASE q > 0
          <5>1. (q > 0) = TRUE
            BY <4>1
          <5>. QED BY <4>1, <5>1
        <4>2. CASE ~(q > 0)
          <5>1. (q > 0) = FALSE
            BY <4>2
          <5>. QED BY <4>2, <5>1
        <4>. QED BY <4>1, <4>2
      <3>. DEFINE side == IF q > 0 THEN bid ELSE ask
      <3>4. \A x, y, z \in Int : (x - y) * z = x * z - z * y
        OBVIOUS
      <3>5. side \in Int /\ worth = side * q /\ Liquidation(m, q > 0) = side
        BY <3>3
      <3>. HIDE DEF side, worth, u, q, a
      <3>. QED BY <3>2, <3>4, <3>5, <1>1
    <2>. QED BY <2>1, <2>2
  <1>3. worth = ask * q - (ask - bid) * (IF 0 <= q THEN q ELSE 0)
    <2>1. q \in Int
      BY <1>1
    <2>. HIDE DEF q
    <2>. QED BY <2>1, WorthIs
  <1>4. Invested(p) = q * a - g /\ q * a \in Int /\ worth \in Int
    <2>1. Invested(p) = q * a - g
      BY DEF Invested
    <2>. QED BY <2>1, <1>1, MoneyMoves
  <1>5. g + u = worth - Invested(p)
    <2>. DEFINE w == worth
                k == q * a
    <2>1. w \in Int /\ k \in Int /\ u = w - k /\ Invested(p) = k - g
      BY <1>2, <1>4
    <2>. HIDE DEF w, k, q, a, g, u
    <2>2. g + u = w - (k - g)
      BY <2>1, <1>1
    <2>. QED BY <2>1, <2>2 DEF w
  <1>. HIDE DEF worth
  <1>. QED BY <1>3, <1>5

\* The greater of two numbers.
LEMMA GreaterOfTwo == \A x \in Int : Max({0, x}) = IF 0 <= x THEN x ELSE 0
  <1>. SUFFICES ASSUME NEW x \in Int PROVE Max({0, x}) = IF 0 <= x THEN x ELSE 0
    OBVIOUS
  <1>. DEFINE m == IF 0 <= x THEN x ELSE 0
  <1>1. m \in {0, x} /\ \A z \in {0, x} : m >= z
    OBVIOUS
  <1>2. \A u \in {0, x} : (\A z \in {0, x} : u >= z) => u = m
    OBVIOUS
  <1>3. Max({0, x}) = CHOOSE u \in {0, x} : \A z \in {0, x} : u >= z
    BY DEF Max
  <1>. HIDE DEF m
  <1>4. (CHOOSE u \in {0, x} : \A z \in {0, x} : u >= z) = m
    BY <1>1, <1>2, Zenon
  <1>. QED BY <1>3, <1>4 DEF m

\* What the invariants say is what the books are to show.
LEMMA BooksBalance ==
    ASSUME AccountsInv
    PROVE  LotsKeepMoney /\ JournalAgrees /\ (CashInv => MoneyIsKept /\ EquityAgrees)
  <1>1. Typed(net, slices, lots, cash) /\ Balanced(net, slices, lots, cash, stray) /\ Told(journal, unfilled, slices)
    BY DEF AccountsInv
  <1>2. /\ net \in Stores /\ Marked(net) /\ slices \in [Strategies -> Stores] /\ cash \in Int
        /\ \A s \in Strategies : Marked(slices[s])
    BY <1>1 DEF Typed
  <1>3. \A x \in Stores : /\ x.qty \in Int /\ x.fees \in Int /\ x.realized \in Int /\ x.unrealized \in Int
                          /\ Invested(x) \in Int
    BY StoreNumbers
  <1>. DEFINE put == [s \in Strategies |-> Invested(slices[s])]
              qty == [s \in Strategies |-> slices[s].qty]
              paid == [s \in Strategies |-> slices[s].fees]
              got == [s \in Strategies |-> slices[s].realized]
              open == [s \in Strategies |-> slices[s].unrealized]
              long == [s \in Strategies |-> IF 0 <= qty[s] THEN qty[s] ELSE 0]
  <1>4. /\ put \in [Strategies -> Int] /\ qty \in [Strategies -> Int] /\ paid \in [Strategies -> Int]
        /\ got \in [Strategies -> Int] /\ open \in [Strategies -> Int] /\ long \in [Strategies -> Int]
    BY <1>2, <1>3
  <1>5. /\ TotalOf("fees") = Over(paid) /\ TotalOf("realized") = Over(got)
        /\ TotalOf("unrealized") = Over(open) /\ TotalOf("qty") = Over(qty)
        /\ Books!SumOf([i \in DOMAIN StrategyOrder |-> Invested(slices[StrategyOrder[i]])]) = Over(put)
    <2>1. /\ [i \in DOMAIN StrategyOrder |-> paid[StrategyOrder[i]]]
             = [i \in DOMAIN StrategyOrder |-> slices[StrategyOrder[i]].fees]
          /\ [i \in DOMAIN StrategyOrder |-> got[StrategyOrder[i]]]
             = [i \in DOMAIN StrategyOrder |-> slices[StrategyOrder[i]].realized]
          /\ [i \in DOMAIN StrategyOrder |-> open[StrategyOrder[i]]]
             = [i \in DOMAIN StrategyOrder |-> slices[StrategyOrder[i]].unrealized]
          /\ [i \in DOMAIN StrategyOrder |-> qty[StrategyOrder[i]]]
             = [i \in DOMAIN StrategyOrder |-> slices[StrategyOrder[i]].qty]
          /\ [i \in DOMAIN StrategyOrder |-> put[StrategyOrder[i]]]
             = [i \in DOMAIN StrategyOrder |-> Invested(slices[StrategyOrder[i]])]
      BY StrategiesListed
    <2>. HIDE DEF paid, got, open, put, qty, long
    <2>. QED BY <2>1, BooksAreThese DEF TotalOf, Over
  <1>6. Longs = Over(long)
    <2>1. ASSUME NEW i \in DOMAIN StrategyOrder
          PROVE  Max({0, slices[StrategyOrder[i]].qty}) = long[StrategyOrder[i]]
      <3>1. StrategyOrder[i] \in Strategies
        BY StrategiesListed
      <3>2. slices[StrategyOrder[i]].qty \in Int
        BY <3>1, <1>2, <1>3
      <3>. QED BY <3>1, <3>2, GreaterOfTwo
    <2>2. [i \in DOMAIN StrategyOrder |-> Max({0, slices[StrategyOrder[i]].qty})]
          = [i \in DOMAIN StrategyOrder |-> long[StrategyOrder[i]]]
      BY <2>1
    <2>. HIDE DEF long
    <2>. QED BY <2>2, BooksAreThese DEF Longs, Over
  <1>7. /\ Over(qty) = net.qty /\ Over(paid) + stray = net.fees
        /\ SumOf(CostOf(lots.open)) - lots.realized = -cash /\ SumOf(QtyOf(lots.open)) = net.qty
    BY <1>1 DEF Balanced
  <1>8. LotsKeepMoney
    <2>1. /\ Books!SumOf([i \in DOMAIN lots.open |-> lots.open[i].qty * lots.open[i].price])
             = SumOf(CostOf(lots.open))
          /\ Books!SumOf([i \in DOMAIN lots.open |-> lots.open[i].qty]) = SumOf(QtyOf(lots.open))
      BY BooksAreThese DEF CostOf, QtyOf
    <2>. HIDE DEF paid, qty
    <2>. QED BY <2>1, <1>5, <1>7 DEF LotsKeepMoney
  <1>9. JournalAgrees
    BY <1>1 DEF Told, JournalAgrees
  <1>10. ASSUME CashInv PROVE Invested(net) = -cash /\ Over(put) = -cash
    BY <1>10 DEF CashInv, CashKept
  <1>11. ASSUME CashInv PROVE MoneyIsKept
    <2>1. Invested(net) = -cash /\ Over(put) = -cash
      BY <1>10, <1>11
    <2>. HIDE DEF put
    <2>. QED BY <2>1, <1>5 DEF MoneyIsKept
  <1>12. ASSUME CashInv PROVE EquityAgrees
    <2>0. Invested(net) = -cash /\ Over(put) = -cash
      BY <1>10, <1>12
    <2>. SUFFICES ASSUME net.mark # <<>>,
                         \A s \in Strategies : slices[s].qty # 0 => slices[s].mark = net.mark
                  PROVE  TotalOf("realized") + TotalOf("unrealized")
                         = net.realized + net.unrealized
                           - Min({Longs, Shorts}) * (Liquidation(net.mark[1], FALSE) - Liquidation(net.mark[1], TRUE))
      BY DEF EquityAgrees
    <2>. DEFINE m == net.mark[1]
                bid == Liquidation(m, TRUE)
                ask == Liquidation(m, FALSE)
                gap == ask - bid
                equity == [s \in Strategies |-> got[s] + open[s]]
                asked == [s \in Strategies |-> ask * qty[s]]
                spread == [s \in Strategies |-> (-gap) * long[s]]
                worth == [s \in Strategies |-> asked[s] + spread[s]]
                own == [s \in Strategies |-> (-1) * put[s]]
                L == Over(long)
                q == net.qty
    <2>1. net.mark = <<m>> /\ bid \in Int /\ ask \in Int
      <3>1. net.mark = <<m>>
        BY <1>2 DEF Stores
      <3>. QED BY <3>1, <1>2, MarkPrices
    <2>2. gap \in Int /\ -gap \in Int
      <3>1. bid \in Int /\ ask \in Int
        BY <2>1
      <3>. HIDE DEF bid, ask
      <3>. QED BY <3>1
    <2>3. ASSUME NEW s \in Strategies
          PROVE  got[s] + open[s] = ask * qty[s] - gap * long[s] - put[s]
      <3>1. slices[s].qty # 0 => slices[s].mark = <<m>>
        BY <2>1
      <3>. DEFINE p == slices[s]
      <3>2. p \in Stores /\ Marked(p) /\ (p.qty # 0 => p.mark = <<m>>)
        BY <3>1, <1>2
      <3>3. bid = Liquidation(m, TRUE) /\ ask = Liquidation(m, FALSE)
        OBVIOUS
      <3>. HIDE DEF p, bid, ask, m
      <3>4. p.realized + p.unrealized
            = ask * p.qty - (ask - bid) * (IF 0 <= p.qty THEN p.qty ELSE 0) - Invested(p)
        BY <2>1, <3>2, <3>3, EquityIs
      <3>. QED BY <3>4 DEF p
    <2>4. net.realized + net.unrealized = ask * q - gap * (IF 0 <= q THEN q ELSE 0) - Invested(net)
      <3>1. bid = Liquidation(m, TRUE) /\ ask = Liquidation(m, FALSE)
        OBVIOUS
      <3>. HIDE DEF bid, ask, m
      <3>. QED BY <2>1, <3>1, <1>2, EquityIs
    <2>. HIDE DEF bid, ask, gap, got, open, qty, long, put
    <2>5. /\ equity \in [Strategies -> Int] /\ asked \in [Strategies -> Int] /\ spread \in [Strategies -> Int]
          /\ own \in [Strategies -> Int]
      <3>1. \A s \in Strategies : got[s] + open[s] \in Int /\ ask * qty[s] \in Int /\ (-gap) * long[s] \in Int
                                  /\ (-1) * put[s] \in Int
        BY <1>4, <2>1, <2>2, MoneyMoves
      <3>. QED BY <3>1
    <2>6. worth \in [Strategies -> Int]
      BY <2>5
    <2>7. ASSUME NEW s \in Strategies PROVE equity[s] = worth[s] + own[s]
      <3>. DEFINE y == ask * qty[s]
                  z == gap * long[s]
                  w == put[s]
      <3>1. y \in Int /\ z \in Int /\ w \in Int /\ (-gap) * long[s] = -z /\ (-1) * w = -w
        BY <1>4, <2>1, <2>2, MoneyMoves
      <3>2. equity[s] = y - z - w
        BY <2>3
      <3>3. worth[s] = y + (-gap) * long[s] /\ own[s] = (-1) * w
        OBVIOUS
      <3>. HIDE DEF y, z, w, equity, worth, own
      <3>. QED BY <3>1, <3>2, <3>3
    <2>8. \A s \in Strategies : /\ equity[s] = got[s] + open[s] /\ worth[s] = asked[s] + spread[s]
                                /\ asked[s] = ask * qty[s] /\ spread[s] = (-gap) * long[s]
                                /\ own[s] = (-1) * put[s]
      OBVIOUS
    <2>. HIDE DEF equity, asked, spread, worth, own
    <2>9. Over(equity) = Over(got) + Over(open)
      <3>1. \A s \in Strategies : equity[s] = got[s] + open[s]
        BY <2>8
      <3>. QED BY <3>1, <2>5, <1>4, OverAdds
    <2>10. Over(equity) = Over(worth) + Over(own)
      BY <2>5, <2>6, <2>7, OverAdds
    <2>11. Over(worth) = Over(asked) + Over(spread)
      <3>1. \A s \in Strategies : worth[s] = asked[s] + spread[s]
        BY <2>8
      <3>. QED BY <3>1, <2>5, <2>6, OverAdds
    <2>12. Over(asked) = ask * q
      <3>1. Over(asked) = ask * Over(qty)
        <4>1. \A s \in Strategies : asked[s] = ask * qty[s]
          BY <2>8
        <4>. QED BY <4>1, <2>1, <2>5, <1>4, OverScales
      <3>. QED BY <3>1, <1>7
    <2>13. Over(spread) = (-gap) * L
      <3>1. \A s \in Strategies : spread[s] = (-gap) * long[s]
        BY <2>8
      <3>. QED BY <3>1, <2>2, <2>5, <1>4, OverScales
    <2>14. Over(own) = (-1) * Over(put) /\ Over(put) = -cash
      <3>1. -1 \in Int
        OBVIOUS
      <3>2. \A s \in Strategies : own[s] = (-1) * put[s]
        BY <2>8
      <3>3. Over(own) = (-1) * Over(put)
        BY <3>1, <3>2, <2>5, <1>4, OverScales
      <3>. QED BY <3>3, <2>0
    <2>15. L \in Int /\ q \in Int /\ Over(got) \in Int /\ Over(open) \in Int
      BY <1>2, <1>3, <1>4, OverType
    <2>. HIDE DEF L, q
    <2>16. L >= q /\ L >= 0
      <3>. DEFINE n == Len(StrategyOrder)
                  A == [i \in DOMAIN StrategyOrder |-> long[StrategyOrder[i]]]
                  B == [i \in DOMAIN StrategyOrder |-> qty[StrategyOrder[i]]]
      <3>1. n \in Nat /\ A \in [1 .. n -> Int] /\ B \in [1 .. n -> Int]
        BY <1>4, OverType, StrategiesListed
      <3>2. \A i \in 1 .. n : B[i] <= A[i] /\ A[i] >= 0
        <4>1. \A s \in Strategies : qty[s] <= long[s] /\ long[s] >= 0
          BY <1>4 DEF long
        <4>. QED BY <4>1, StrategiesListed
      <3>3. Over(long) = SumOf(A) /\ Over(qty) = SumOf(B)
        BY DEF Over
      <3>. HIDE DEF n, A, B
      <3>4. SumOf(B) <= SumOf(A) /\ SumOf(A) >= 0
        <4>1. SumOf(B) <= SumOf(A)
          BY <3>1, <3>2, SumGrows
        <4>. QED BY <4>1, <3>1, <3>2, SumNonneg
      <3>. QED BY <3>3, <3>4, <1>7 DEF L, q
    <2>. DEFINE top == IF 0 <= q THEN q ELSE 0
    <2>17. Min({Longs, Shorts}) = L - top
      <3>1. Longs = L /\ Shorts = L - q
        BY <1>6 DEF Shorts, L, q
      <3>2. Min({L, L - q}) = IF L <= L - q THEN L ELSE L - q
        BY <2>15, LesserOfTwo
      <3>. QED BY <3>1, <3>2, <2>15
    <2>18. top \in Int
      BY <2>15
    <2>. DEFINE Y == ask * q
                Z == gap * top
                W == gap * L
    <2>19. /\ Y \in Int /\ Z \in Int /\ W \in Int /\ (-gap) * L = -W /\ (L - top) * gap = W - Z
           /\ (-1) * (-cash) = cash
      <3>1. \A x, y, z \in Int : (x - y) * z = z * x - z * y /\ (-z) * x = -(z * x) /\ z * x \in Int
        OBVIOUS
      <3>2. \A x \in Int : (-1) * (-x) = x
        OBVIOUS
      <3>. HIDE DEF top
      <3>. QED BY <3>1, <3>2, <2>1, <2>2, <2>15, <2>18, <1>2
    <2>20. Over(got) + Over(open) = Y - W + cash
      BY <2>9, <2>10, <2>11, <2>12, <2>13, <2>14, <2>19, <1>2
    <2>21. net.realized + net.unrealized = Y - Z + cash
      BY <2>0, <2>4, <2>19, <1>2
    <2>22. TotalOf("realized") = Over(got) /\ TotalOf("unrealized") = Over(open)
      BY <1>5
    <2>23. Min({Longs, Shorts}) * (ask - bid) = W - Z
      BY <2>17, <2>19 DEF gap
    <2>. HIDE DEF Y, Z, W
    <2>24. Over(got) + Over(open) = net.realized + net.unrealized - (W - Z)
      <3>. DEFINE a == Over(got) + Over(open)
                  b == net.realized + net.unrealized
      <3>2. a = Y - W + cash /\ b = Y - Z + cash
        BY <2>20, <2>21
      <3>1. a = Over(got) + Over(open) /\ b = net.realized + net.unrealized
        OBVIOUS
      <3>. HIDE DEF a, b
      <3>3. a = b - (W - Z)
        BY <3>2, <2>19, <1>2
      <3>4. \A x, y, z \in Int : (x + y) - z = x + (y - z)
        OBVIOUS
      <3>5. net.realized \in Int /\ net.unrealized \in Int /\ W - Z \in Int
        BY <2>19, <1>2, <1>3
      <3>. QED BY <3>1, <3>3, <3>4, <3>5
    <2>. QED BY <2>22, <2>23, <2>24 DEF ask, bid, m
  <1>. QED BY <1>8, <1>9, <1>11, <1>12

\* Whatever the strategies trade, in whatever fractions the averages come out,
\* the lots keep the cash and the shares, the slices' shares and fees are the
\* symbol's, and the journal attributes to a strategy what its slice did
\* (LotLedger.apply_fill, _reconcile_fills, _trade_journal_legs).
THEOREM LotsAndJournalAgree == AccountsSpec => [](LotsKeepMoney /\ JournalAgrees)
  <1>1. AccountsInit => AccountsInv
    BY AccountsStart
  <1>2. AccountsInv /\ [AccountsNext]_accountsVars => AccountsInv'
    BY EntriesKept
  <1>3. AccountsInv => LotsKeepMoney /\ JournalAgrees
    BY BooksBalance
  <1>. QED BY <1>1, <1>2, <1>3, PTL DEF AccountsSpec

\* And as long as the averages divide, which the code's 28 digits stand for,
\* the books at average cost keep it too, the symbol's and the strategies'
\* together, and marked alike they are worth the same less the spread
\* (MemoryPositionStore.update, _reconcile_fills).
THEOREM AccountsTheorem == AccountsSpec /\ []AveragesDivide => []AccountsBalance
  <1>1. AccountsInit => AccountsInv /\ CashInv
    BY AccountsStart
  <1>2. AccountsInv /\ CashInv /\ AveragesDivide /\ [AccountsNext]_accountsVars
        => AccountsInv' /\ CashInv'
    BY EntriesKept
  <1>3. AccountsInv /\ CashInv => AccountsBalance
    BY BooksBalance DEF AccountsBalance
  <1>. QED BY <1>1, <1>2, <1>3, PTL DEF AccountsSpec
=============================================================================
