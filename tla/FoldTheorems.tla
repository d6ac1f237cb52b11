---------------------------- MODULE FoldTheorems ----------------------------
(***************************************************************************)
(* What a fold over a sequence computes, for any step.  A module that      *)
(* folds with a step of its own instantiates this one with it: Walk says   *)
(* that the fold is the last value of a walk along the sequence, Keeps     *)
(* that what holds at the start and is kept by every step holds of the     *)
(* fold.  The first argument of Step and of Good is a context: what the    *)
(* fold, or the statement about it, depends on besides.                    *)
(***************************************************************************)
EXTENDS Integers, SequencesExt, WellFoundedInduction, TLAPS

CONSTANTS
    Step(_, _, _),      \* context, value so far, element
    Good(_, _, _)       \* context, elements taken, value so far

Fold(c, base, seq) == FoldLeft(LAMBDA x, e : Step(c, x, e), base, seq)

-----------------------------------------------------------------------------
\* A non-empty set of natural numbers has a least element.
LEMMA Least == \A S \in SUBSET Nat : S # {} => \E m \in S : \A k \in S : m <= k
  <1>. SUFFICES ASSUME NEW S \in SUBSET Nat, S # {} PROVE \E m \in S : \A k \in S : m <= k
    OBVIOUS
  <1>1. PICK m \in S : \A k \in S : <<k, m>> \notin OpToRel(<, Nat)
    BY NatLessThanWellFounded, WFMin
  <1>2. \A k \in S : ~(k < m)
    BY <1>1 DEF OpToRel
  <1>. QED BY <1>2

\* A set of numbers up to n has a largest element.
LEMMA Largest ==
    \A n \in Nat : \A S \in SUBSET (1 .. n) : S # {} => Max(S) \in S /\ \A y \in S : Max(S) >= y
  <1>. DEFINE Bound(m, S) == \A y \in S : m >= y
  <1>1. SUFFICES ASSUME NEW n \in Nat, NEW S \in SUBSET (1 .. n), S # {}
                 PROVE  \E m \in S : Bound(m, S)
    BY Zenon DEF Max
  <1>. DEFINE Above == {m \in Nat : Bound(m, S)}
  <1>2. n \in Above
    OBVIOUS
  <1>3. PICK m \in Above : \A k \in Above : m <= k
    BY <1>2, Least
  <1>4. m \in S
    <2>1. SUFFICES ASSUME m \notin S PROVE FALSE
      OBVIOUS
    <2>2. \A y \in S : y \in Nat /\ y <= m /\ y # m /\ y >= 1
      BY <2>1, <1>3
    <2>3. m - 1 \in Nat
      <3>1. PICK y \in S : TRUE
        BY <1>1
      <3>. QED BY <3>1, <2>2, <1>3
    <2>4. m - 1 \in Above
      BY <2>2, <2>3, <1>3
    <2>. QED BY <2>4, <1>3
  <1>. QED BY <1>3, <1>4

\* The function a fold is defined by exists.
Unfolds(c, base, seq, n, h) ==
    h = [s \in SUBSET (1 .. n) |->
            IF s = {} THEN base ELSE Step(c, h[s \ {Max(s)}], seq[Max(s)])]

\* There is a function a fold is defined by.
LEMMA Exists ==
    ASSUME NEW c, NEW base, NEW seq
    PROVE  \A n \in Nat : \E h : Unfolds(c, base, seq, n, h)
  <1>. DEFINE Has(n) == \E h : Unfolds(c, base, seq, n, h)
  <1>1. SUFFICES ASSUME NEW n \in Nat, ~Has(n) PROVE FALSE
    OBVIOUS
  <1>. DEFINE Without == {m \in Nat : ~Has(m)}
  <1>2. PICK m \in Without : \A k \in Without : m <= k
    <2>1. n \in Without
      BY <1>1
    <2>. HIDE DEF Without
    <2>2. Without \in SUBSET Nat
      BY DEF Without
    <2>. QED BY <2>1, <2>2, Least
  <1>3. m # 0
    <2>1. SUFFICES ASSUME m = 0 PROVE FALSE
      OBVIOUS
    <2>. DEFINE h == [s \in SUBSET (1 .. 0) |-> base]
    <2>2. \A s \in SUBSET (1 .. 0) : s = {}
      OBVIOUS
    <2>3. Unfolds(c, base, seq, 0, h)
      BY <2>2 DEF Unfolds
    <2>. QED BY <2>1, <2>3, <1>2
  <1>4. m \in Nat /\ m - 1 \in Nat /\ ~(m <= m - 1)
    BY <1>2, <1>3
  <1>5. PICK h : Unfolds(c, base, seq, m - 1, h)
    BY <1>4, <1>2
  <1>. DEFINE p == m - 1
              g == [s \in SUBSET (1 .. m) |->
                       IF s = {} THEN base
                       ELSE IF m \in s THEN Step(c, h[s \ {m}], seq[m]) ELSE h[s]]
  <1>6. \A s \in SUBSET (1 .. p) : h[s] = IF s = {} THEN base ELSE Step(c, h[s \ {Max(s)}], seq[Max(s)])
    BY <1>5 DEF Unfolds
  <1>7. \A s \in SUBSET (1 .. p) : g[s] = h[s]
    <2>1. \A s \in SUBSET (1 .. p) : s \in SUBSET (1 .. m) /\ m \notin s
      BY <1>4
    <2>. QED BY <2>1, <1>6
  <1>8. ASSUME NEW s \in SUBSET (1 .. m), s # {}
        PROVE  g[s] = Step(c, g[s \ {Max(s)}], seq[Max(s)])
    <2>1. Max(s) \in s /\ \A y \in s : Max(s) >= y
      BY <1>8, <1>4, Largest
    <2>4. \A y \in s : y \in Nat /\ y >= 1 /\ y <= m
      BY <1>4
    <2>2. CASE m \in s
      <3>1. Max(s) = m
        <4>1. Max(s) \in Nat /\ Max(s) <= m /\ Max(s) >= m
          BY <2>1, <2>2, <2>4
        <4>. QED BY <4>1, <1>4
      <3>2. s \ {m} \in SUBSET (1 .. p)
        BY <1>4
      <3>3. g[s] = Step(c, h[s \ {m}], seq[m])
        BY <2>2, <1>8
      <3>. QED BY <3>1, <3>2, <3>3, <1>7
    <2>3. CASE m \notin s
      <3>2. \A y \in s : y \in 1 .. p
        BY <2>3, <2>4, <1>4
      <3>1. s \in SUBSET (1 .. p) /\ s \ {Max(s)} \in SUBSET (1 .. p)
        BY <3>2
      <3>. QED BY <3>1, <1>6, <1>7, <1>8
    <2>. QED BY <2>2, <2>3
  <1>9. Unfolds(c, base, seq, m, g)
    <2>1. g = [s \in SUBSET (1 .. m) |->
                  IF s = {} THEN base ELSE Step(c, g[s \ {Max(s)}], seq[Max(s)])]
      <3>. DEFINE r == [s \in SUBSET (1 .. m) |->
                  IF s = {} THEN base ELSE Step(c, g[s \ {Max(s)}], seq[Max(s)])]
      <3>1. \A s \in SUBSET (1 .. m) : s = {} => g[s] = base
        OBVIOUS
      <3>. HIDE DEF g
      <3>2. \A s \in SUBSET (1 .. m) : g[s] = r[s]
        BY <3>1, <1>8
      <3>3. g = [s \in SUBSET (1 .. m) |-> g[s]]
        BY DEF g
      <3>. QED BY <3>2, <3>3
    <2>. HIDE DEF g
    <2>. QED BY <2>1 DEF Unfolds
  <1>. QED BY <1>9, <1>2

\* A fold is the last value of a walk that starts at the base and takes one
\* step per element.
THEOREM Walk ==
    \A c, base, T : \A seq \in Seq(T) :
        \E g : /\ g[0] = base
               /\ \A k \in 0 .. (Len(seq) - 1) : g[k + 1] = Step(c, g[k], seq[k + 1])
               /\ Fold(c, base, seq) = g[Len(seq)]
  <1>. SUFFICES ASSUME NEW c, NEW base, NEW T, NEW seq \in Seq(T)
                PROVE  \E g : /\ g[0] = base
                              /\ \A k \in 0 .. (Len(seq) - 1) : g[k + 1] = Step(c, g[k], seq[k + 1])
                              /\ Fold(c, base, seq) = g[Len(seq)]
    OBVIOUS
  <1>1. PICK n \in Nat : n = Len(seq) /\ DOMAIN seq = 1 .. n
    OBVIOUS
  <1>. DEFINE h == CHOOSE h : Unfolds(c, base, seq, n, h)
              g == [k \in 0 .. n |-> h[1 .. k]]
  <1>2. Unfolds(c, base, seq, n, h)
    BY Exists
  <1>3. Fold(c, base, seq) = h[1 .. n]
    BY <1>1 DEF Fold, FoldLeft, MapThenFoldSet, Unfolds
  <1>. HIDE DEF h
  <1>4. \A s \in SUBSET (1 .. n) : h[s] = IF s = {} THEN base ELSE Step(c, h[s \ {Max(s)}], seq[Max(s)])
    BY <1>2 DEF Unfolds
  <1>5. g[0] = base
    <2>1. 1 .. 0 = {} /\ {} \in SUBSET (1 .. n) /\ 0 \in 0 .. n
      OBVIOUS
    <2>. QED BY <2>1, <1>4
  <1>6. ASSUME NEW k \in 0 .. (n - 1) PROVE g[k + 1] = Step(c, g[k], seq[k + 1])
    <2>1. 1 .. (k + 1) \in SUBSET (1 .. n) /\ 1 .. (k + 1) # {} /\ k \in 0 .. n /\ k + 1 \in 0 .. n
      <3>1. \A y \in 1 .. (k + 1) : y \in 1 .. n
        OBVIOUS
      <3>2. k + 1 \in 1 .. (k + 1) /\ k \in 0 .. n /\ k + 1 \in 0 .. n
        OBVIOUS
      <3>. QED BY <3>1, <3>2
    <2>2. Max(1 .. (k + 1)) = k + 1
      <3>1. Max(1 .. (k + 1)) \in 1 .. (k + 1) /\ \A y \in 1 .. (k + 1) : Max(1 .. (k + 1)) >= y
        BY <2>1, Largest
      <3>. QED BY <3>1
    <2>3. (1 .. (k + 1)) \ {k + 1} = 1 .. k
      OBVIOUS
    <2>. QED BY <2>1, <2>2, <2>3, <1>4
  <1>7. Fold(c, base, seq) = g[n]
    BY <1>3
  <1>. HIDE DEF g
  <1>. QED BY <1>1, <1>5, <1>6, <1>7

\* What is good at the start and kept by every step is good at the end.
THEOREM Keeps ==
    \A c, d, base, T : \A seq \in Seq(T) :
        /\ Good(d, 0, base)
        /\ \A k \in 0 .. (Len(seq) - 1) : \A x :
              Good(d, k, x) => Good(d, k + 1, Step(c, x, seq[k + 1]))
        => Good(d, Len(seq), Fold(c, base, seq))
  <1>. SUFFICES ASSUME NEW c, NEW d, NEW base, NEW T, NEW seq \in Seq(T), Good(d, 0, base),
                       \A k \in 0 .. (Len(seq) - 1) : \A x :
                           Good(d, k, x) => Good(d, k + 1, Step(c, x, seq[k + 1])),
                       ~Good(d, Len(seq), Fold(c, base, seq))
                PROVE  FALSE
    OBVIOUS
  <1>1. PICK g : /\ g[0] = base
                 /\ \A k \in 0 .. (Len(seq) - 1) : g[k + 1] = Step(c, g[k], seq[k + 1])
                 /\ Fold(c, base, seq) = g[Len(seq)]
    BY Walk
  <1>. DEFINE Bad == {k \in Nat : k <= Len(seq) /\ ~Good(d, k, g[k])}
  <1>2. Len(seq) \in Bad
    BY <1>1
  <1>3. PICK m \in Bad : \A k \in Bad : m <= k
    <2>. HIDE DEF Bad
    <2>1. Bad \in SUBSET Nat
      BY DEF Bad
    <2>. QED BY <1>2, <2>1, Least
  <1>4. m \in Nat /\ m # 0 /\ m <= Len(seq)
    BY <1>1, <1>3
  <1>5. PICK p \in 0 .. (Len(seq) - 1) : m = p + 1 /\ ~(m <= p)
    <2>1. m - 1 \in 0 .. (Len(seq) - 1) /\ m = (m - 1) + 1 /\ ~(m <= m - 1)
      BY <1>4
    <2>. QED BY <2>1
  <1>6. Good(d, p, g[p])
    BY <1>3, <1>5
  <1>7. g[p + 1] = Step(c, g[p], seq[p + 1])
    BY <1>1, <1>5
  <1>. QED BY <1>3, <1>5, <1>6, <1>7

\* Folding one element more is one step more.
THEOREM OneMore ==
    \A c, base, T : \A seq \in Seq(T), e \in T :
        Fold(c, base, Append(seq, e)) = Step(c, Fold(c, base, seq), e)
  <1>. SUFFICES ASSUME NEW c, NEW base, NEW T, NEW seq \in Seq(T), NEW e \in T
                PROVE  Fold(c, base, Append(seq, e)) = Step(c, Fold(c, base, seq), e)
    OBVIOUS
  <1>. DEFINE more == Append(seq, e)
              n == Len(seq)
  <1>1. PICK g : /\ g[0] = base
                 /\ \A k \in 0 .. (Len(seq) - 1) : g[k + 1] = Step(c, g[k], seq[k + 1])
                 /\ Fold(c, base, seq) = g[Len(seq)]
    BY Walk
  <1>2. /\ more \in Seq(T) /\ n \in Nat /\ Len(more) = n + 1 /\ more[n + 1] = e
        /\ \A k \in 0 .. (n - 1) : more[k + 1] = seq[k + 1]
    OBVIOUS
  <1>. HIDE DEF more
  <1>3. PICK h : /\ h[0] = base
                 /\ \A k \in 0 .. (Len(more) - 1) : h[k + 1] = Step(c, h[k], more[k + 1])
                 /\ Fold(c, base, more) = h[Len(more)]
    BY <1>2, Walk
  <1>. DEFINE Apart == {k \in Nat : k <= n /\ g[k] # h[k]}
  <1>4. Apart = {}
    <2>1. SUFFICES ASSUME Apart # {} PROVE FALSE
      OBVIOUS
    <2>2. PICK m \in Apart : \A k \in Apart : m <= k
      <3>. HIDE DEF Apart
      <3>1. Apart \in SUBSET Nat
        BY DEF Apart
      <3>. QED BY <2>1, <3>1, Least
    <2>3. m # 0
      BY <1>1, <1>3, <2>2
    <2>4. PICK p \in 0 .. (n - 1) : m = p + 1 /\ ~(m <= p) /\ p \in Nat /\ p <= n
      <3>1. m - 1 \in 0 .. (n - 1) /\ m = (m - 1) + 1 /\ ~(m <= m - 1) /\ m - 1 \in Nat /\ m - 1 <= n
        BY <1>2, <2>2, <2>3
      <3>. QED BY <3>1
    <2>5. g[p] = h[p]
      BY <2>2, <2>4
    <2>6. p \in 0 .. (Len(more) - 1)
      BY <1>2, <2>4
    <2>7. g[p + 1] = Step(c, g[p], seq[p + 1]) /\ h[p + 1] = Step(c, h[p], more[p + 1])
          /\ more[p + 1] = seq[p + 1]
      BY <1>1, <1>2, <1>3, <2>4, <2>6
    <2>. QED BY <2>2, <2>4, <2>5, <2>7
  <1>5. g[n] = h[n]
    BY <1>2, <1>4
  <1>6. h[n + 1] = Step(c, h[n], e)
    <2>1. n \in 0 .. (Len(more) - 1)
      BY <1>2
    <2>. QED BY <1>2, <1>3, <2>1
  <1>. QED BY <1>1, <1>2, <1>3, <1>5, <1>6 DEF more
=============================================================================
