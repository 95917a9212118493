-------------------------- MODULE CollectionsProofs --------------------------
(***************************************************************************)
(* Lemmas on numbers, sums, orders and concatenations that the proofs      *)
(* about the components share.  The library's induction theorems take an   *)
(* operator; what they would give is derived here from its facts on finite *)
(* sets, for a set of naturals in place of a predicate.                    *)
(***************************************************************************)
EXTENDS Collections, FiniteSetTheorems, FunctionTheorems, SequenceTheorems, TLAPS

-----------------------------------------------------------------------------
(* Extremes.  Of the elements of a finite set, one has the fewest above it. *)

\* A finite set of integers has a greatest element, and Max is it.
LEMMA MaxIsTaken ==
    ASSUME NEW S \in SUBSET Int, IsFiniteSet(S), S # {}
    PROVE  Max(S) \in S /\ \A y \in S : y <= Max(S)
<1>. DEFINE Above(x) == {y \in S : x <= y}
            Tails == {Above(x) : x \in S}
<1>1. Tails \subseteq FiniteSubsetsOf(S) /\ Tails # {}
  <2>1. ASSUME NEW x \in S PROVE Above(x) \in FiniteSubsetsOf(S)
    <3>1. Above(x) \in SUBSET S
      OBVIOUS
    <3>2. IsFiniteSet(Above(x))
      BY <3>1, FS_Subset
    <3>. QED  BY <3>1, <3>2 DEF FiniteSubsetsOf
  <2>. QED  BY <2>1
<1>2. PICK U \in Tails : \A V \in Tails : <<V, U>> \notin StrictSubsetOrdering(S)
  <2>. HIDE DEF Tails
  <2>. QED  BY <1>1, FS_StrictSubsetOrderingWellFounded, WFMin
<1>3. PICK x \in S : U = Above(x)
  OBVIOUS
<1>4. ASSUME NEW y \in S, ~ (y <= x) PROVE FALSE
  <2>1. Above(y) \subseteq Above(x) /\ x \in Above(x) /\ x \notin Above(y)
    <3>1. x < y /\ \A z \in S : z \in Int
      BY <1>4
    <3>2. \A z \in S : y <= z => x <= z
      BY <3>1
    <3>3. Above(y) \subseteq Above(x)
      BY <3>2
    <3>4. x \in Above(x) /\ x \notin Above(y)
      BY <1>4, <3>1
    <3>. QED  BY <3>3, <3>4
  <2>2. <<Above(y), Above(x)>> \in StrictSubsetOrdering(S)
    <3>1. Above(y) \in SUBSET S /\ Above(x) \in SUBSET S /\ Above(y) # Above(x)
      BY <2>1
    <3>. HIDE DEF Above
    <3>. QED  BY <2>1, <3>1 DEF StrictSubsetOrdering
  <2>. QED  BY <1>2, <1>3, <2>2
<1>5. \E z \in S : \A y \in S : z >= y
  BY <1>4
<1>. QED  BY <1>5 DEF Max

\* It has a least one, and Min is it.
LEMMA MinIsTaken ==
    ASSUME NEW S \in SUBSET Int, IsFiniteSet(S), S # {}
    PROVE  Min(S) \in S /\ \A y \in S : Min(S) <= y
<1>. DEFINE Below(x) == {y \in S : y <= x}
            Heads == {Below(x) : x \in S}
<1>1. Heads \subseteq FiniteSubsetsOf(S) /\ Heads # {}
  <2>1. ASSUME NEW x \in S PROVE Below(x) \in FiniteSubsetsOf(S)
    <3>1. Below(x) \in SUBSET S
      OBVIOUS
    <3>2. IsFiniteSet(Below(x))
      BY <3>1, FS_Subset
    <3>. QED  BY <3>1, <3>2 DEF FiniteSubsetsOf
  <2>. QED  BY <2>1
<1>2. PICK U \in Heads : \A V \in Heads : <<V, U>> \notin StrictSubsetOrdering(S)
  <2>. HIDE DEF Heads
  <2>. QED  BY <1>1, FS_StrictSubsetOrderingWellFounded, WFMin
<1>3. PICK x \in S : U = Below(x)
  OBVIOUS
<1>4. ASSUME NEW y \in S, ~ (x <= y) PROVE FALSE
  <2>1. Below(y) \subseteq Below(x) /\ x \in Below(x) /\ x \notin Below(y)
    <3>1. y < x /\ \A z \in S : z \in Int
      BY <1>4
    <3>2. \A z \in S : z <= y => z <= x
      BY <3>1
    <3>3. Below(y) \subseteq Below(x)
      BY <3>2
    <3>4. x \in Below(x) /\ x \notin Below(y)
      BY <1>4, <3>1
    <3>. QED  BY <3>3, <3>4
  <2>2. <<Below(y), Below(x)>> \in StrictSubsetOrdering(S)
    <3>1. Below(y) \in SUBSET S /\ Below(x) \in SUBSET S /\ Below(y) # Below(x)
      BY <2>1
    <3>. HIDE DEF Below
    <3>. QED  BY <2>1, <3>1 DEF StrictSubsetOrdering
  <2>. QED  BY <1>2, <1>3, <2>2
<1>5. \E z \in S : \A y \in S : z =< y
  BY <1>4
<1>. QED  BY <1>5 DEF Min

\* What holds of zero, and of the next number whenever of one, holds of every
\* number: the least that escaped would have one before it.
LEMMA FromZeroOn ==
    ASSUME NEW A, 0 \in A, \A k \in Nat : k \in A => k + 1 \in A
    PROVE  Nat \subseteq A
<1>. SUFFICES ASSUME NEW n \in Nat, n \notin A PROVE FALSE
  OBVIOUS
<1>. DEFINE Missing == {k \in 0 .. n : k \notin A}
            m == Min(Missing)
<1>1. Missing \in SUBSET Int /\ Missing # {} /\ IsFiniteSet(Missing)
  <2>1. IsFiniteSet(0 .. n)
    BY FS_Interval
  <2>. QED  BY <2>1, FS_Subset
<1>2. m \in Missing /\ \A k \in Missing : m <= k
  <2>. HIDE DEF Missing
  <2>. QED  BY <1>1, MinIsTaken
<1>. HIDE DEF m
<1>3. m \in Nat \ {0}
  BY <1>2
<1>4. m - 1 \in Nat /\ m - 1 \in A
  BY <1>2, <1>3
<1>5. (m - 1) + 1 \in A
  BY <1>4
<1>. QED  BY <1>2, <1>3, <1>5

\* An upper bound that is in a set of numbers is its maximum.
LEMMA MaxOf ==
    ASSUME NEW S \in SUBSET Int, NEW m \in S, \A y \in S : y <= m
    PROVE  Max(S) = m
<1>1. \A y \in S : m >= y
  OBVIOUS
<1>2. Max(S) \in S /\ \A y \in S : Max(S) >= y
  BY <1>1 DEF Max
<1>3. Max(S) \in Int /\ m \in Int /\ Max(S) >= m /\ Max(S) <= m
  BY <1>2
<1>. HIDE DEF Max
<1>. QED  BY <1>3

\* So is a lower bound that is in the set its minimum.
LEMMA MinOf ==
    ASSUME NEW S \in SUBSET Int, NEW m \in S, \A y \in S : m <= y
    PROVE  Min(S) = m
<1>1. Min(S) \in S /\ \A y \in S : Min(S) <= y
  BY DEF Min
<1>2. Min(S) \in Int /\ m \in Int /\ Min(S) <= m /\ m <= Min(S)
  BY <1>1
<1>. HIDE DEF Min
<1>. QED  BY <1>2

-----------------------------------------------------------------------------
(* Sums. *)

\* The fold's own function: a set of positions is summed from its last one.
SubsetSums(g, w, k) ==
    g = [s \in SUBSET (1 .. k) |-> IF s = {} THEN 0 ELSE g[s \ {Max(s)}] + w[Max(s)]]

\* The function that a fold over a set of indices stands for.
Folded(w, n) == CHOOSE g : SubsetSums(g, w, n)

\* There is one: every set of the first n weights has a sum, built up one
\* index at a time.
LEMMA SumsOfSubsets ==
    ASSUME NEW n \in Nat, NEW w \in [1 .. n -> Nat]
    PROVE  SubsetSums(Folded(w, n), w, n)
<1>. DEFINE Sums(g, k) == SubsetSums(g, w, k)
            Done == {k \in Nat : k <= n => \E g : Sums(g, k)}
<1>1. 0 \in Done
  <2>. DEFINE g == [s \in SUBSET (1 .. 0) |-> 0]
  <2>1. 1 .. 0 = {} /\ SUBSET (1 .. 0) = {{}}
    OBVIOUS
  <2>2. Sums(g, 0)
    BY <2>1 DEF SubsetSums
  <2>. QED  BY <2>2
<1>2. ASSUME NEW k \in Nat, k \in Done, k + 1 <= n PROVE \E g : Sums(g, k + 1)
  <2>0. \E g : Sums(g, k)
    <3>. HIDE DEF Sums
    <3>. QED  BY <1>2
  <2>1. PICK g : Sums(g, k)
    BY <2>0
  <2>. DEFINE h == [s \in SUBSET (1 .. k + 1) |->
                      IF k + 1 \in s THEN g[s \ {k + 1}] + w[k + 1] ELSE g[s]]
              more(s) == IF s = {} THEN 0 ELSE h[s \ {Max(s)}] + w[Max(s)]
  <2>2. ASSUME NEW s \in SUBSET (1 .. k + 1) PROVE h[s] = more(s)
    <3>1. CASE k + 1 \in s
      <4>1. Max(s) = k + 1
        BY <3>1, MaxOf
      <4>2. s \ {k + 1} \in SUBSET (1 .. k + 1) /\ k + 1 \notin s \ {k + 1} /\ s # {}
        BY <3>1
      <4>3. h[s \ {k + 1}] = g[s \ {k + 1}]
        BY <4>2
      <4>. QED  BY <3>1, <4>1, <4>2, <4>3
    <3>2. CASE k + 1 \notin s
      <4>1. s \in SUBSET (1 .. k)
        BY <3>2
      <4>2. h[s] = g[s]
        BY <3>2
      <4>3. g[s] = IF s = {} THEN 0 ELSE g[s \ {Max(s)}] + w[Max(s)]
        BY <2>1, <4>1 DEF SubsetSums
      <4>4. s \ {Max(s)} \in SUBSET (1 .. k + 1) /\ k + 1 \notin s \ {Max(s)}
        BY <3>2
      <4>5. h[s \ {Max(s)}] = g[s \ {Max(s)}]
        BY <4>4
      <4>. QED  BY <4>2, <4>3, <4>5
    <3>. QED  BY <3>1, <3>2
  <2>3. h = [s \in SUBSET (1 .. k + 1) |-> h[s]]
    OBVIOUS
  <2>4. h = [s \in SUBSET (1 .. k + 1) |-> more(s)]
    <3>. HIDE DEF h, more
    <3>. QED BY <2>2, <2>3
  <2>. HIDE DEF h
  <2>. QED  BY <2>4 DEF SubsetSums
<1>3. Nat \subseteq Done
  <2>. HIDE DEF Sums
  <2>1. \A k \in Nat : k \in Done => k + 1 \in Done
    BY <1>2
  <2>. HIDE DEF Done
  <2>. QED  BY <1>1, <2>1, FromZeroOn
<1>4. \E g : Sums(g, n)
  <2>. HIDE DEF Sums
  <2>. QED  BY <1>3
<1>. QED  BY <1>4 DEF Folded

\* A total runs through the totals of the parts so far.
LEMMA PartialTotals ==
    ASSUME NEW w \in Seq(Nat)
    PROVE  \E t \in [0 .. Len(w) -> Nat] :
              /\ t[0] = 0
              /\ \A k \in 1 .. Len(w) : t[k] = t[k - 1] + w[k]
              /\ total(w) = t[Len(w)]
<1>. DEFINE n == Len(w)
            sums == Folded(w, n)
            t == [k \in 0 .. n |-> sums[1 .. k]]
<1>1. n \in Nat /\ w \in [1 .. n -> Nat] /\ DOMAIN w = 1 .. n
  BY LenProperties
<1>2. total(w) = sums[1 .. n]
  BY <1>1 DEF total, FoldLeft, MapThenFoldSet, Folded, SubsetSums
<1>. HIDE DEF n
<1>3. sums = [s \in SUBSET (1 .. n) |->
                 IF s = {} THEN 0 ELSE sums[s \ {Max(s)}] + w[Max(s)]]
  BY <1>1, SumsOfSubsets DEF SubsetSums
<1>. HIDE DEF sums
<1>4. sums[1 .. 0] = 0
  <2>1. 1 .. 0 = {} /\ 1 .. 0 \in SUBSET (1 .. n)
    OBVIOUS
  <2>. QED  BY <1>3, <2>1
<1>5. ASSUME NEW k \in 1 .. n PROVE sums[1 .. k] = sums[1 .. (k - 1)] + w[k]
  <2>. DEFINE upto == 1 .. k
  <2>1. upto \in SUBSET Int /\ k \in upto /\ (\A y \in upto : y <= k) /\ upto \in SUBSET (1 .. n)
    BY <1>1
  <2>2. upto \ {k} = 1 .. (k - 1)
    BY <1>1
  <2>. HIDE DEF upto
  <2>3. Max(upto) = k
    BY <2>1, MaxOf
  <2>4. sums[upto] = sums[upto \ {k}] + w[k]
    BY <1>3, <2>1, <2>3
  <2>. QED  BY <2>2, <2>4 DEF upto
<1>. DEFINE Counted == {k \in Nat : k <= n => sums[1 .. k] \in Nat}
<1>6. Nat \subseteq Counted
  <2>1. 0 \in Counted
    BY <1>4
  <2>2. ASSUME NEW k \in Nat, k \in Counted PROVE k + 1 \in Counted
    <3>1. CASE k + 1 <= n
      <4>1. k + 1 \in 1 .. n /\ (k + 1) - 1 = k
        BY <1>1, <3>1
      <4>2. sums[1 .. k + 1] = sums[1 .. k] + w[k + 1] /\ w[k + 1] \in Nat
        BY <1>1, <1>5, <4>1
      <4>. QED  BY <1>1, <2>2, <3>1, <4>2
    <3>. QED  BY <3>1
  <2>. HIDE DEF Counted
  <2>. QED  BY <2>1, <2>2, FromZeroOn
<1>7. t \in [0 .. n -> Nat] /\ t[0] = 0 /\ t[n] = sums[1 .. n]
  BY <1>1, <1>4, <1>6
<1>8. ASSUME NEW k \in 1 .. n PROVE t[k] = t[k - 1] + w[k]
  <2>1. k \in 0 .. n /\ k - 1 \in 0 .. n
    BY <1>1
  <2>. QED  BY <1>5, <2>1
<1>. HIDE DEF t
<1>. QED  BY <1>2, <1>7, <1>8 DEF n

\* The total of a list is whatever starts at zero and grows by each of its
\* elements in turn.
LEMMA TotalIs ==
    ASSUME NEW w \in Seq(Nat), NEW t, t[0] = 0, \A k \in 1 .. Len(w) : t[k] = t[k - 1] + w[k]
    PROVE  total(w) = t[Len(w)]
<1>1. PICK u \in [0 .. Len(w) -> Nat] :
              /\ u[0] = 0
              /\ \A k \in 1 .. Len(w) : u[k] = u[k - 1] + w[k]
              /\ total(w) = u[Len(w)]
  BY PartialTotals
<1>. DEFINE Same == {k \in Nat : k <= Len(w) => u[k] = t[k]}
<1>2. Len(w) \in Nat
  OBVIOUS
<1>3. Nat \subseteq Same
  <2>1. 0 \in Same
    BY <1>1
  <2>2. ASSUME NEW k \in Nat, k \in Same PROVE k + 1 \in Same
    <3>1. CASE k + 1 <= Len(w)
      <4>1. k + 1 \in 1 .. Len(w) /\ (k + 1) - 1 = k
        BY <1>2, <3>1
      <4>2. u[k + 1] = u[k] + w[k + 1] /\ t[k + 1] = t[k] + w[k + 1]
        BY <1>1, <4>1
      <4>. QED  BY <1>2, <2>2, <3>1, <4>2
    <3>. QED  BY <3>1
  <2>. HIDE DEF Same
  <2>. QED  BY <2>1, <2>2, FromZeroOn
<1>. QED  BY <1>1, <1>2, <1>3

\* A total of naturals is one.
LEMMA TotalIsNat ==
    ASSUME NEW w \in Seq(Nat)
    PROVE  total(w) \in Nat
<1>1. PICK t \in [0 .. Len(w) -> Nat] : total(w) = t[Len(w)]
  BY PartialTotals
<1>2. Len(w) \in 0 .. Len(w)
  BY LenProperties
<1>. QED  BY <1>1, <1>2

\* The total of a list in two parts is the sum of their totals.
LEMMA TotalOfConcat ==
    ASSUME NEW u \in Seq(Nat), NEW v \in Seq(Nat)
    PROVE  total(u \o v) = total(u) + total(v)
<1>. DEFINE m == Len(u)
            n == Len(v)
            w == u \o v
<1>0. m \in Nat /\ n \in Nat /\ u \in [1 .. m -> Nat] /\ v \in [1 .. n -> Nat]
  BY LenProperties
<1>1. PICK t \in [0 .. m -> Nat] :
         t[0] = 0 /\ (\A k \in 1 .. m : t[k] = t[k - 1] + u[k]) /\ total(u) = t[m]
  BY PartialTotals
<1>2. PICK s \in [0 .. n -> Nat] :
         s[0] = 0 /\ (\A k \in 1 .. n : s[k] = s[k - 1] + v[k]) /\ total(v) = s[n]
  BY PartialTotals
<1>3. /\ w \in Seq(Nat) /\ Len(w) = m + n
      /\ \A i \in 1 .. m + n : w[i] = IF i <= m THEN u[i] ELSE v[i - m]
  BY ConcatProperties
<1>. HIDE DEF m, n, w
<1>. DEFINE r == [k \in 0 .. m + n |-> IF k <= m THEN t[k] ELSE t[m] + s[k - m]]
<1>4. r[0] = 0
  BY <1>0, <1>1
<1>5. ASSUME NEW k \in 1 .. m + n PROVE r[k] = r[k - 1] + w[k]
  <2>1. k \in Int /\ k - 1 \in 0 .. m + n /\ k \in 0 .. m + n
    BY <1>0
  <2>2. CASE k <= m
    <3>1. k \in 1 .. m /\ k - 1 <= m
      BY <1>0, <2>1, <2>2
    <3>2. w[k] = u[k] /\ r[k] = t[k] /\ r[k - 1] = t[k - 1]
      BY <1>3, <2>1, <2>2, <3>1
    <3>. QED  BY <1>1, <3>1, <3>2
  <2>3. CASE k = m + 1
    <3>1. w[k] = v[1] /\ r[k] = t[m] + s[1] /\ r[k - 1] = t[m] /\ 1 \in 1 .. n
      BY <1>0, <1>3, <2>1, <2>3
    <3>2. s[1] = s[1 - 1] + v[1] /\ 1 - 1 = 0
      BY <1>2, <3>1
    <3>3. s[1] = v[1] /\ v[1] \in Nat /\ t[m] \in Nat
      BY <1>0, <1>1, <1>2, <3>1, <3>2
    <3>. QED  BY <3>1, <3>3
  <2>4. CASE k > m + 1
    <3>1. k - m \in 1 .. n /\ (k - m) - 1 \in 0 .. n /\ k - m \in 0 .. n /\ (k - 1) - m = (k - m) - 1
      BY <1>0, <2>1, <2>4
    <3>2. ~ (k <= m) /\ ~ (k - 1 <= m)
      BY <1>0, <2>1, <2>4
    <3>3. w[k] = v[k - m] /\ r[k] = t[m] + s[k - m] /\ r[k - 1] = t[m] + s[(k - m) - 1]
      BY <1>3, <2>1, <3>1, <3>2
    <3>4. s[k - m] = s[(k - m) - 1] + v[k - m]
      BY <1>2, <3>1
    <3>5. t[m] \in Nat /\ s[(k - m) - 1] \in Nat /\ v[k - m] \in Nat
      BY <1>0, <1>1, <1>2, <3>1
    <3>. QED  BY <3>3, <3>4, <3>5
  <2>. QED  BY <1>0, <2>1, <2>2, <2>3, <2>4
<1>6. r[m + n] = t[m] + s[n]
  BY <1>0, <1>1, <1>2
<1>. HIDE DEF r
<1>7. total(w) = r[m + n]
  BY <1>3, <1>4, <1>5, TotalIs
<1>. QED  BY <1>1, <1>2, <1>6, <1>7 DEF w

\* Amounts that are not negative add up to no less.
LEMMA LongerTotal ==
    ASSUME NEW u \in Seq(Nat), NEW v \in Seq(Nat), Len(u) <= Len(v),
           \A i \in 1 .. Len(u) : u[i] = v[i]
    PROVE  total(u) <= total(v)
<1>. DEFINE rest == SubSeq(v, Len(u) + 1, Len(v))
<1>1. rest \in Seq(Nat)
  BY SubSeqProperties
<1>2. u = SubSeq(v, 1, Len(u))
  <2>1. /\ SubSeq(v, 1, Len(u)) \in Seq(Nat)
        /\ Len(SubSeq(v, 1, Len(u))) = Len(u)
        /\ \A i \in 1 .. Len(u) : SubSeq(v, 1, Len(u))[i] = v[i]
    OBVIOUS
  <2>. QED  BY <2>1, SeqEqual
<1>3. v = u \o rest
  <2>1. SubSeq(v, 1, Len(u)) \o rest = SubSeq(v, 1, Len(v))
    <3>1. /\ 1 \in 1 .. Len(v) + 1 /\ Len(u) \in (1 - 1) .. Len(v)
          /\ Len(v) \in Len(u) .. Len(v)
      OBVIOUS
    <3>. QED  BY <3>1, ConcatAdjacentSubSeq
  <2>2. SubSeq(v, 1, Len(v)) = v
    BY SubSeqFull
  <2>. QED  BY <1>2, <2>1, <2>2
<1>. HIDE DEF rest
<1>4. total(v) = total(u) + total(rest)
  BY <1>1, <1>3, TotalOfConcat
<1>. QED  BY <1>1, <1>4, TotalIsNat
-----------------------------------------------------------------------------
(* Orders. *)

\* "before" has, for each element, the ones before it: none is before itself,
\* and one of any two is before the other.
StrictOrder(before) ==
    LET S == DOMAIN before
    IN  /\ before \in [S -> SUBSET S]
        /\ \A a \in S : a \notin before[a]
        /\ \A a, b \in S : a # b => a \in before[b] \/ b \in before[a]
        /\ \A a, b \in S : a \in before[b] => before[a] \subseteq before[b]

\* Of finitely many elements in a strict order each has a place of its own,
\* and every place is taken.
LEMMA InOrder ==
    ASSUME NEW before, StrictOrder(before), IsFiniteSet(DOMAIN before)
    PROVE  LET S == DOMAIN before
               n == Cardinality(S)
           IN  /\ n \in Nat
               /\ in_order(before) \in [1 .. n -> S]
               /\ \A a \in S : \E i \in 1 .. n : in_order(before)[i] = a
               /\ \A i \in 1 .. n : Cardinality(before[in_order(before)[i]]) = i - 1
<1>. DEFINE S == DOMAIN before
            n == Cardinality(S)
            count(a) == Cardinality(before[a])
            place == [a \in S |-> count(a) + 1]
<1>0. n \in Nat
  BY FS_CardinalityType
<1>1. ASSUME NEW a \in S PROVE before[a] \in SUBSET S /\ a \notin before[a] /\ IsFiniteSet(before[a])
  <2>1. before[a] \in SUBSET S /\ a \notin before[a]
    BY DEF StrictOrder
  <2>. QED  BY <2>1, FS_Subset
<1>2. ASSUME NEW a \in S PROVE count(a) \in Nat /\ count(a) + 1 \in 1 .. n
  <2>1. count(a) \in Nat /\ count(a) <= n
    BY <1>1, FS_Subset, FS_CardinalityType
  <2>2. count(a) # n
    <3>1. n = count(a) => S = before[a]
      BY <1>1, FS_Subset
    <3>. QED  BY <1>1, <3>1
  <2>. HIDE DEF count, n
  <2>. QED  BY <1>0, <2>1, <2>2
<1>3. ASSUME NEW a \in S, NEW b \in S, a \in before[b] PROVE count(a) # count(b)
  <2>1. before[a] \in SUBSET before[b]
    BY <1>3 DEF StrictOrder
  <2>2. count(b) = count(a) => before[b] = before[a]
    BY <1>1, <2>1, FS_Subset
  <2>. QED  BY <1>1, <1>3, <2>2
<1>4. ASSUME NEW a \in S, NEW b \in S, place[a] = place[b] PROVE a = b
  <2>1. count(a) = count(b)
    <3>. HIDE DEF count
    <3>. QED  BY <1>2, <1>4
  <2>2. a # b => a \in before[b] \/ b \in before[a]
    BY DEF StrictOrder
  <2>. QED  BY <1>3, <2>1, <2>2
<1>5. place \in [S -> 1 .. n]
  <2>. HIDE DEF count, n
  <2>. QED  BY <1>2
<1>. HIDE DEF place, n
<1>6. place \in Injection(S, 1 .. n)
  BY <1>4, <1>5, Fun_IsInj
<1>7. IsFiniteSet(1 .. n) /\ Cardinality(1 .. n) = n
  BY <1>0, FS_Interval
<1>8. place \in Surjection(S, 1 .. n)
  BY <1>6, <1>7, FS_Injection DEF n
<1>9. ASSUME NEW i \in 1 .. n PROVE \E a \in S : count(a) = i - 1
  <2>1. PICK a \in S : place[a] = i
    BY <1>8 DEF Surjection
  <2>2. place[a] = count(a) + 1 /\ count(a) \in Nat
    BY <1>2 DEF place
  <2>. HIDE DEF count
  <2>. QED  BY <2>1, <2>2
<1>10. ASSUME NEW i \in 1 .. n
       PROVE  in_order(before)[i] \in S /\ count(in_order(before)[i]) = i - 1
  <2>1. in_order(before)[i] = CHOOSE a \in S : count(a) = i - 1
    BY DEF in_order, n
  <2>. QED  BY <1>9, <2>1
<1>11. in_order(before) \in [1 .. n -> S]
  <2>1. DOMAIN in_order(before) = 1 .. n /\ in_order(before) = [i \in 1 .. n |-> in_order(before)[i]]
    BY DEF in_order, n
  <2>. QED  BY <1>10, <2>1
<1>12. ASSUME NEW a \in S PROVE \E i \in 1 .. n : in_order(before)[i] = a
  <2>. DEFINE i == count(a) + 1
              b == in_order(before)[i]
  <2>1. i \in 1 .. n /\ count(a) \in Nat
    BY <1>2 DEF n
  <2>2. b \in S /\ count(b) = i - 1
    BY <1>10, <2>1
  <2>3. count(b) = count(a)
    <3>. HIDE DEF count, b
    <3>. QED  BY <2>1, <2>2
  <2>4. place[b] = place[a]
    BY <2>2, <2>3 DEF place
  <2>5. b = a
    BY <1>4, <2>2, <2>4 DEF place
  <2>. QED  BY <2>1, <2>5
<1>. QED  BY <1>0, <1>10, <1>11, <1>12 DEF n

-----------------------------------------------------------------------------
(* Concatenations. *)

\* What the concatenation of the first parts has to be.
Joins(g, seqs) ==
    g = [i \in 1 .. Len(seqs) |-> IF i = 1 THEN seqs[i] ELSE g[i - 1] \o seqs[i]]

\* A list of lists put together runs through the parts so far.
LEMMA Flattened ==
    ASSUME NEW T, NEW seqs \in Seq(Seq(T))
    PROVE  \E flat \in [0 .. Len(seqs) -> Seq(T)] :
              /\ flat[0] = <<>>
              /\ \A k \in 1 .. Len(seqs) : flat[k] = flat[k - 1] \o seqs[k]
              /\ FlattenSeq(seqs) = flat[Len(seqs)]
<1>. DEFINE n == Len(seqs)
<1>1. n \in Nat /\ seqs \in [1 .. n -> Seq(T)]
  BY LenProperties
<1>. DEFINE Upto(g, k) ==
              /\ g \in [0 .. k -> Seq(T)]
              /\ g[0] = <<>>
              /\ \A i \in 1 .. k : g[i] = g[i - 1] \o seqs[i]
            Done == {k \in Nat : k <= n => \E g : Upto(g, k)}
<1>2. 0 \in Done
  <2>1. Upto([i \in 0 .. 0 |-> <<>>], 0)
    OBVIOUS
  <2>. HIDE DEF Upto
  <2>. QED  BY <2>1
<1>3. ASSUME NEW k \in Nat, k \in Done, k + 1 <= n PROVE \E g : Upto(g, k + 1)
  <2>0. \E g : Upto(g, k)
    <3>. HIDE DEF Upto
    <3>. QED  BY <1>1, <1>3
  <2>1. PICK g : Upto(g, k)
    BY <2>0
  <2>. DEFINE last == g[k] \o seqs[k + 1]
              h == [i \in 0 .. k + 1 |-> IF i = k + 1 THEN last ELSE g[i]]
  <2>2. g[k] \in Seq(T) /\ seqs[k + 1] \in Seq(T)
    BY <1>1, <1>3, <2>1
  <2>3. g[k] \o seqs[k + 1] \in Seq(T)
    BY <2>2, ConcatProperties
  <2>4. h \in [0 .. k + 1 -> Seq(T)] /\ h[0] = <<>>
    BY <2>1, <2>3
  <2>5. ASSUME NEW i \in 1 .. k + 1 PROVE h[i] = h[i - 1] \o seqs[i]
    <3>1. CASE i = k + 1
      <4>1. (k + 1) - 1 = k /\ k \in 0 .. k + 1 /\ k # k + 1 /\ k + 1 \in 0 .. k + 1
        OBVIOUS
      <4>2. h[k + 1] = last /\ h[k] = g[k]
        <5>. HIDE DEF last
        <5>. QED  BY <4>1
      <4>. HIDE DEF h
      <4>. QED  BY <3>1, <4>1, <4>2
    <3>2. CASE i # k + 1
      <4>1. i \in 1 .. k /\ i - 1 \in 0 .. k /\ i - 1 # k + 1
        BY <3>2
      <4>2. h[i] = g[i] /\ h[i - 1] = g[i - 1]
        BY <3>2, <4>1
      <4>. QED  BY <2>1, <4>1, <4>2
    <3>. QED  BY <3>1, <3>2
  <2>. HIDE DEF h
  <2>. QED  BY <2>4, <2>5
<1>4. \E g : Upto(g, n)
  <2>. HIDE DEF Upto
  <2>1. ASSUME NEW k \in Nat, k \in Done PROVE k + 1 \in Done
    <3>. HIDE DEF n
    <3>. QED  BY <1>3, <2>1
  <2>. HIDE DEF Done
  <2>2. n \in Done
    BY <1>1, <1>2, <2>1, FromZeroOn
  <2>. QED  BY <1>1, <2>2 DEF Done
<1>5. PICK flat : Upto(flat, n)
  BY <1>4
<1>6. FlattenSeq(seqs) = flat[n]
  <2>1. CASE n = 0
    <3>1. seqs = <<>>
      BY <2>1
    <3>. QED  BY <1>5, <2>1, <3>1 DEF FlattenSeq
  <2>2. CASE n # 0
    <3>. DEFINE joined == CHOOSE g : Joins(g, seqs)
                part == [i \in 1 .. n |-> flat[i]]
    <3>1. FlattenSeq(seqs) = joined[n]
      BY <2>2 DEF FlattenSeq, Joins
    <3>2. ASSUME NEW i \in 1 .. n PROVE part[i] = IF i = 1 THEN seqs[i] ELSE part[i - 1] \o seqs[i]
      <4>1. flat[i] = flat[i - 1] \o seqs[i]
        BY <1>5
      <4>2. CASE i = 1
        <5>1. flat[1] = <<>> \o seqs[1] /\ seqs[1] \in Seq(T)
          <6>1. 1 - 1 = 0 /\ flat[0] = <<>>
            BY <1>5
          <6>. QED  BY <1>1, <4>1, <4>2, <6>1
        <5>2. flat[1] = seqs[1]
          BY <5>1, ConcatEmptySeq
        <5>. QED  BY <4>2, <5>2
      <4>3. CASE i # 1
        <5>1. i - 1 \in 1 .. n
          BY <1>1, <4>3
        <5>. QED  BY <4>1, <4>3, <5>1
      <4>. QED  BY <4>2, <4>3
    <3>3. Joins(part, seqs)
      <4>1. part = [i \in 1 .. n |-> part[i]]
        OBVIOUS
      <4>. HIDE DEF part
      <4>2. part = [i \in 1 .. n |-> IF i = 1 THEN seqs[i] ELSE part[i - 1] \o seqs[i]]
        BY <3>2, <4>1
      <4>. QED  BY <4>2 DEF Joins
    <3>4. Joins(joined, seqs)
      <4>. HIDE DEF part
      <4>. QED  BY <3>3
    <3>. HIDE DEF joined, part
    <3>5. \A i \in 1 .. n : joined[i] = IF i = 1 THEN seqs[i] ELSE joined[i - 1] \o seqs[i]
      BY <3>4 DEF Joins
    <3>. DEFINE Same == {k \in Nat : k + 1 <= n => joined[k + 1] = flat[k + 1]}
    <3>6. 0 \in Same
      <4>1. 1 \in 1 .. n
        BY <1>1, <2>2
      <4>2. joined[1] = seqs[1]
        BY <3>5, <4>1
      <4>3. flat[1] = seqs[1]
        BY <3>2, <4>1 DEF part
      <4>. QED  BY <4>2, <4>3
    <3>7. ASSUME NEW k \in Nat, k \in Same PROVE k + 1 \in Same
      <4>1. CASE k + 2 <= n
        <5>1. k + 2 \in 1 .. n /\ (k + 2) - 1 = k + 1 /\ k + 2 # 1 /\ (k + 1) + 1 = k + 2
          BY <1>1, <4>1
        <5>2. joined[k + 2] = joined[k + 1] \o seqs[k + 2]
          BY <3>5, <5>1
        <5>3. flat[k + 2] = flat[k + 1] \o seqs[k + 2]
          BY <1>5, <5>1
        <5>4. joined[k + 1] = flat[k + 1]
          <6>. HIDE DEF n
          <6>. QED  BY <1>1, <3>7, <4>1
        <5>5. joined[(k + 1) + 1] = flat[(k + 1) + 1]
          <6>. HIDE DEF n
          <6>. QED  BY <5>1, <5>2, <5>3, <5>4
        <5>. HIDE DEF n
        <5>. QED  BY <5>5
      <4>. QED  BY <1>1, <4>1
    <3>8. Nat \subseteq Same
      <4>. HIDE DEF Same
      <4>. QED  BY <3>6, <3>7, FromZeroOn
    <3>9. n - 1 \in Nat /\ (n - 1) + 1 = n
      BY <1>1, <2>2
    <3>10. joined[n] = flat[n]
      <4>. HIDE DEF n
      <4>. QED  BY <3>8, <3>9
    <3>. QED  BY <3>1, <3>10
  <2>. QED  BY <2>1, <2>2
<1>. QED  BY <1>5, <1>6

\* Part k of a list of lists is found whole where the parts before it end, and
\* nothing else is there.
PartsEnd(seqs, ends) ==
    /\ ends \in [0 .. Len(seqs) -> Nat]
    /\ ends[0] = 0
    /\ \A k \in 1 .. Len(seqs) : ends[k] = ends[k - 1] + Len(seqs[k])
    /\ Len(FlattenSeq(seqs)) = ends[Len(seqs)]
    /\ \A k \in 1 .. Len(seqs) : \A j \in 1 .. Len(seqs[k]) :
          /\ ends[k - 1] + j \in 1 .. ends[Len(seqs)]
          /\ FlattenSeq(seqs)[ends[k - 1] + j] = seqs[k][j]
    /\ \A i \in 1 .. ends[Len(seqs)] :
          \E k \in 1 .. Len(seqs) : \E j \in 1 .. Len(seqs[k]) : i = ends[k - 1] + j

\* Every list of parts has such ends.
LEMMA FlattenedPlaces ==
    ASSUME NEW T, NEW seqs \in Seq(Seq(T))
    PROVE  FlattenSeq(seqs) \in Seq(T) /\ \E ends : PartsEnd(seqs, ends)
<1>. DEFINE n == Len(seqs)
<1>1. PICK flat \in [0 .. n -> Seq(T)] :
         /\ flat[0] = <<>>
         /\ \A k \in 1 .. n : flat[k] = flat[k - 1] \o seqs[k]
         /\ FlattenSeq(seqs) = flat[n]
  BY Flattened
<1>. DEFINE ends == [k \in 0 .. n |-> Len(flat[k])]
<1>2. n \in Nat /\ seqs \in [1 .. n -> Seq(T)]
  BY LenProperties
<1>. HIDE DEF n
<1>3. /\ ends \in [0 .. n -> Nat]
      /\ ends[0] = 0
      /\ ends[n] = Len(FlattenSeq(seqs)) /\ FlattenSeq(seqs) \in Seq(T)
  <2>1. ASSUME NEW k \in 0 .. n PROVE Len(flat[k]) \in Nat
    BY <1>1, LenProperties
  <2>. QED  BY <1>1, <1>2, <2>1
<1>4. ASSUME NEW k \in 1 .. n
      PROVE  /\ k - 1 \in 0 .. n /\ k \in 0 .. n
             /\ flat[k - 1] \in Seq(T) /\ seqs[k] \in Seq(T) /\ Len(seqs[k]) \in Nat
             /\ ends[k - 1] = Len(flat[k - 1]) /\ ends[k - 1] \in Nat
             /\ ends[k] = ends[k - 1] + Len(seqs[k])
             /\ \A i \in 1 .. ends[k] :
                   flat[k][i] = IF i <= ends[k - 1] THEN flat[k - 1][i]
                                ELSE seqs[k][i - ends[k - 1]]
  <2>1. k - 1 \in 0 .. n /\ k \in 0 .. n
    BY <1>2
  <2>2. flat[k - 1] \in Seq(T) /\ seqs[k] \in Seq(T) /\ flat[k] = flat[k - 1] \o seqs[k]
    BY <1>1, <1>2, <2>1
  <2>3. Len(seqs[k]) \in Nat /\ Len(flat[k - 1]) \in Nat
    BY <2>2
  <2>4. /\ Len(flat[k]) = Len(flat[k - 1]) + Len(seqs[k])
        /\ \A i \in 1 .. Len(flat[k - 1]) + Len(seqs[k]) :
              flat[k][i] = IF i <= Len(flat[k - 1]) THEN flat[k - 1][i]
                           ELSE seqs[k][i - Len(flat[k - 1])]
    <3>. DEFINE u == flat[k - 1]
                v == seqs[k]
    <3>1. u \in Seq(T) /\ v \in Seq(T) /\ flat[k] = u \o v
      BY <2>2
    <3>. HIDE DEF u, v
    <3>2. /\ Len(u \o v) = Len(u) + Len(v)
          /\ \A i \in 1 .. Len(u) + Len(v) :
                (u \o v)[i] = IF i <= Len(u) THEN u[i] ELSE v[i - Len(u)]
      BY <3>1, ConcatProperties
    <3>. QED  BY <3>1, <3>2 DEF u, v
  <2>5. ends[k - 1] = Len(flat[k - 1]) /\ ends[k] = Len(flat[k])
    BY <2>1
  <2>. HIDE DEF ends
  <2>. QED  BY <2>1, <2>2, <2>3, <2>4, <2>5
<1>. HIDE DEF ends
<1>. DEFINE Placed(m) ==
              /\ \A k \in 1 .. m : \A j \in 1 .. Len(seqs[k]) :
                    ends[k - 1] + j \in 1 .. ends[m] /\ flat[m][ends[k - 1] + j] = seqs[k][j]
              /\ \A i \in 1 .. ends[m] :
                    \E k \in 1 .. m : \E j \in 1 .. Len(seqs[k]) : i = ends[k - 1] + j
            Done == {m \in Nat : m <= n => Placed(m)}
<1>5. 0 \in Done
  BY <1>3
<1>6. ASSUME NEW m \in Nat, Placed(m), m + 1 <= n PROVE Placed(m + 1)
  <2>0. m + 1 \in 1 .. n /\ (m + 1) - 1 = m
    BY <1>2, <1>6
  <2>1. /\ Len(seqs[m + 1]) \in Nat /\ ends[m] \in Nat
        /\ ends[m + 1] = ends[m] + Len(seqs[m + 1])
        /\ \A i \in 1 .. ends[m + 1] :
              flat[m + 1][i] = IF i <= ends[m] THEN flat[m][i] ELSE seqs[m + 1][i - ends[m]]
    BY <1>4, <2>0
  <2>2. ASSUME NEW k \in 1 .. m + 1, NEW j \in 1 .. Len(seqs[k])
        PROVE  /\ ends[k - 1] + j \in 1 .. ends[m + 1]
               /\ flat[m + 1][ends[k - 1] + j] = seqs[k][j]
    <3>1. k \in 1 .. n /\ ends[k - 1] \in Nat /\ Len(seqs[k]) \in Nat
      <4>1. k \in 1 .. n
        BY <1>2, <2>0
      <4>. QED  BY <1>4, <4>1
    <3>2. CASE k = m + 1
      <4>1. ends[m] + j \in 1 .. ends[m + 1] /\ ~ (ends[m] + j <= ends[m])
            /\ (ends[m] + j) - ends[m] = j
        BY <2>0, <2>1, <3>1, <3>2
      <4>. QED  BY <2>0, <2>1, <3>2, <4>1
    <3>3. CASE k # m + 1
      <4>1. k \in 1 .. m
        BY <3>3
      <4>2. ends[k - 1] + j \in 1 .. ends[m] /\ flat[m][ends[k - 1] + j] = seqs[k][j]
        BY <1>6, <4>1
      <4>3. ends[k - 1] + j \in 1 .. ends[m + 1] /\ ends[k - 1] + j <= ends[m]
        BY <2>1, <4>2
      <4>. QED  BY <2>1, <4>2, <4>3
    <3>. QED  BY <3>2, <3>3
  <2>3. ASSUME NEW i \in 1 .. ends[m + 1]
        PROVE  \E k \in 1 .. m + 1 : \E j \in 1 .. Len(seqs[k]) : i = ends[k - 1] + j
    <3>1. CASE i <= ends[m]
      <4>1. i \in 1 .. ends[m] /\ 1 .. m \subseteq 1 .. m + 1
        BY <2>1, <3>1
      <4>. QED  BY <1>6, <4>1
    <3>2. CASE ~ (i <= ends[m])
      <4>1. i - ends[m] \in 1 .. Len(seqs[m + 1]) /\ i = ends[m] + (i - ends[m])
            /\ m + 1 \in 1 .. m + 1
        BY <2>1, <3>2
      <4>. QED  BY <2>0, <4>1
    <3>. QED  BY <3>1, <3>2
  <2>. QED  BY <2>2, <2>3
<1>7. Placed(n)
  <2>. HIDE DEF Placed
  <2>1. ASSUME NEW m \in Nat, m \in Done PROVE m + 1 \in Done
    BY <1>2, <1>6, <2>1
  <2>. HIDE DEF Done
  <2>2. n \in Done
    BY <1>2, <1>5, <2>1, FromZeroOn
  <2>. QED  BY <1>2, <2>2 DEF Done
<1>. HIDE DEF Placed
<1>8. /\ ends \in [0 .. n -> Nat]
      /\ ends[0] = 0
      /\ \A k \in 1 .. n : ends[k] = ends[k - 1] + Len(seqs[k])
      /\ FlattenSeq(seqs) \in Seq(T)
      /\ Len(FlattenSeq(seqs)) = ends[n]
  BY <1>3, <1>4
<1>9. /\ \A k \in 1 .. n : \A j \in 1 .. Len(seqs[k]) :
            /\ ends[k - 1] + j \in 1 .. ends[n]
            /\ FlattenSeq(seqs)[ends[k - 1] + j] = seqs[k][j]
      /\ \A i \in 1 .. ends[n] :
            \E k \in 1 .. n : \E j \in 1 .. Len(seqs[k]) : i = ends[k - 1] + j
  BY <1>1, <1>7 DEF Placed
<1>10. PartsEnd(seqs, ends)
  BY <1>8, <1>9 DEF n, PartsEnd
<1>. QED  BY <1>8, <1>10
\* The parts from a to b have one element each.
Single(seqs, a, b) == \A k \in a .. b : Len(seqs[k]) = 1

\* The elements of the parts from a to b stand together, each where its part
\* ends.
Together(seqs, ends, a, b, p) ==
    \A k \in a .. b :
        /\ ends[k] = p + k
        /\ p + k \in 1 .. Len(FlattenSeq(seqs))
        /\ FlattenSeq(seqs)[p + k] = seqs[k][1]

\* Parts of one element each that follow one another still do in the list laid
\* out flat, where each of them ends.
LEMMA RunsStay ==
    ASSUME NEW T, NEW seqs \in Seq(Seq(T)), NEW ends, PartsEnd(seqs, ends),
           NEW a \in 1 .. Len(seqs), NEW b \in a .. Len(seqs),
           Single(seqs, a, b)
    PROVE  \E p \in Int : Together(seqs, ends, a, b, p)
<1>. DEFINE n == Len(seqs)
            flat == FlattenSeq(seqs)
            p == ends[a - 1] - (a - 1)
<1>0. /\ \A e, i \in Nat : (e + (i + 1)) + 1 = e + ((i + 1) + 1)
      /\ \A e, i, k \in Nat : e + ((k - i) + 1) = (e - (i - 1)) + k
  OBVIOUS
<1>1. n \in Nat /\ a \in 1 .. n /\ b \in a .. n
  BY LenProperties
<1>2. /\ ends \in [0 .. n -> Nat]
      /\ \A k \in 1 .. n : ends[k] = ends[k - 1] + Len(seqs[k])
      /\ Len(flat) = ends[n]
      /\ \A k \in 1 .. n : \A j \in 1 .. Len(seqs[k]) :
            /\ ends[k - 1] + j \in 1 .. ends[n]
            /\ flat[ends[k - 1] + j] = seqs[k][j]
  BY DEF PartsEnd
<1>. HIDE DEF n, flat
<1>3. ends[a - 1] \in Nat /\ a \in Nat
  <2>1. a - 1 \in 0 .. n
    BY <1>1
  <2>. QED  BY <1>1, <1>2, <2>1
<1>4. p \in Int
  BY <1>3
<1>5. ASSUME NEW k \in a .. b
      PROVE  /\ k \in 1 .. n /\ ends[k] = ends[k - 1] + 1
             /\ ends[k] \in 1 .. Len(flat) /\ flat[ends[k]] = seqs[k][1]
  <2>1. k \in 1 .. n
    BY <1>1
  <2>0. Len(seqs[k]) = 1
    BY DEF Single
  <2>2. 1 \in 1 .. Len(seqs[k]) /\ Len(seqs[k]) = 1
    BY <2>0
  <2>3. ends[k] = ends[k - 1] + 1
    BY <1>2, <2>1, <2>2
  <2>4. ends[k - 1] + 1 \in 1 .. ends[n] /\ flat[ends[k - 1] + 1] = seqs[k][1]
    BY <1>2, <2>1, <2>2
  <2>. QED  BY <1>2, <2>1, <2>3, <2>4
<1>. DEFINE At == {i \in Nat : a + i <= b => ends[a + i] = ends[a - 1] + (i + 1)}
<1>6. Nat \subseteq At
  <2>1. 0 \in At
    <3>1. a + 0 = a /\ a \in a .. b
      BY <1>1
    <3>. QED  BY <1>3, <1>5, <3>1
  <2>2. ASSUME NEW i \in Nat, i \in At PROVE i + 1 \in At
    <3>1. i + 1 \in Nat /\ i \in Nat
      OBVIOUS
    <3>2. ASSUME a + (i + 1) <= b PROVE ends[a + (i + 1)] = ends[a - 1] + ((i + 1) + 1)
      <4>1. a + (i + 1) \in a .. b /\ a + i <= b /\ (a + (i + 1)) - 1 = a + i
        BY <1>1, <1>3, <3>1, <3>2
      <4>2. ends[a + (i + 1)] = ends[a + i] + 1
        BY <1>5, <4>1
      <4>3. ends[a + i] = ends[a - 1] + (i + 1)
        BY <2>2, <4>1
      <4>4. (ends[a - 1] + (i + 1)) + 1 = ends[a - 1] + ((i + 1) + 1)
        BY <1>0, <1>3, <3>1
      <4>. QED  BY <4>2, <4>3, <4>4
    <3>. QED  BY <3>1, <3>2
  <2>. HIDE DEF At
  <2>. QED  BY <2>1, <2>2, FromZeroOn
<1>7. ASSUME NEW k \in a .. b PROVE ends[k] = p + k
  <2>1. k - a \in Nat /\ a + (k - a) = k /\ k \in Nat /\ k <= b
    BY <1>1, <1>3
  <2>2. ends[k] = ends[a - 1] + ((k - a) + 1)
    <3>1. k - a \in At
      BY <1>6, <2>1
    <3>. QED  BY <2>1, <3>1
  <2>. QED  BY <1>0, <1>3, <2>1, <2>2
<1>. HIDE DEF p
<1>8. \A k \in a .. b : ends[k] = p + k /\ p + k \in 1 .. Len(flat) /\ flat[p + k] = seqs[k][1]
  BY <1>5, <1>7
<1>. QED  BY <1>4, <1>8 DEF flat, Together

\* A part ends no sooner than the ones before it.
LEMMA EndsInOrder ==
    ASSUME NEW T, NEW seqs \in Seq(Seq(T)), NEW ends, PartsEnd(seqs, ends),
           NEW k \in 0 .. Len(seqs), NEW l \in k .. Len(seqs)
    PROVE  ends[k] <= ends[l]
<1>. DEFINE n == Len(seqs)
            Past == {i \in Nat : k + i <= n => ends[k] <= ends[k + i]}
<1>1. n \in Nat /\ k \in 0 .. n /\ l \in k .. n
  BY LenProperties
<1>2. \A i \in 1 .. n : Len(seqs[i]) \in Nat
  <2>1. \A i \in 1 .. n : seqs[i] \in Seq(T)
    OBVIOUS
  <2>. QED  BY <2>1, LenProperties
<1>3. ends \in [0 .. n -> Nat] /\ \A i \in 1 .. n : ends[i] = ends[i - 1] + Len(seqs[i])
  BY DEF PartsEnd
<1>. HIDE DEF n
<1>4. ends[k] \in Nat /\ k \in Nat
  BY <1>1, <1>3
<1>5. 0 \in Past
  <2>1. k + 0 = k
    BY <1>4
  <2>. QED  BY <1>4, <2>1
<1>6. ASSUME NEW i \in Nat, i \in Past PROVE i + 1 \in Past
  <2>1. i \in Nat /\ i + 1 \in Nat
    OBVIOUS
  <2>2. ASSUME k + (i + 1) <= n PROVE ends[k] <= ends[k + (i + 1)]
    <3>1. k + (i + 1) \in 1 .. n /\ k + i \in 0 .. n /\ k + i <= n /\ (k + (i + 1)) - 1 = k + i
      BY <1>1, <1>4, <2>1, <2>2
    <3>2. ends[k + (i + 1)] = ends[k + i] + Len(seqs[k + (i + 1)]) /\ Len(seqs[k + (i + 1)]) \in Nat
          /\ ends[k + i] \in Nat
      BY <1>2, <1>3, <3>1
    <3>3. ends[k] <= ends[k + i]
      BY <1>6, <3>1
    <3>. QED  BY <1>4, <3>2, <3>3
  <2>. QED  BY <2>1, <2>2
<1>7. l - k \in Past
  <2>1. l - k \in Nat
    BY <1>1
  <2>. HIDE DEF Past
  <2>. QED  BY <1>5, <1>6, <2>1, FromZeroOn
<1>8. l - k \in Nat /\ k + (l - k) = l /\ l <= n
  BY <1>1
<1>. QED  BY <1>7, <1>8

\* Two lists of lists laid out flat one after the other.
LEMMA FlattenConcat ==
    ASSUME NEW T, NEW s \in Seq(Seq(T)), NEW t \in Seq(Seq(T))
    PROVE  FlattenSeq(s \o t) = FlattenSeq(s) \o FlattenSeq(t)
<1>. DEFINE m == Len(s)
            n == Len(t)
            both == s \o t
<1>1. /\ m \in Nat /\ n \in Nat
      /\ both \in Seq(Seq(T)) /\ Len(both) = m + n
      /\ \A i \in 1 .. m + n : both[i] = IF i <= m THEN s[i] ELSE t[i - m]
      /\ \A i \in 1 .. n : t[i] \in Seq(T)
  <2>1. \A i \in 1 .. n : t[i] \in Seq(T)
    OBVIOUS
  <2>. QED  BY <2>1, ConcatProperties, LenProperties
<1>2. PICK f \in [0 .. m -> Seq(T)] :
         f[0] = <<>> /\ (\A k \in 1 .. m : f[k] = f[k - 1] \o s[k]) /\ FlattenSeq(s) = f[m]
  BY Flattened
<1>3. PICK g \in [0 .. n -> Seq(T)] :
         g[0] = <<>> /\ (\A k \in 1 .. n : g[k] = g[k - 1] \o t[k]) /\ FlattenSeq(t) = g[n]
  BY Flattened
<1>. HIDE DEF m, n, both
<1>4. PICK h \in [0 .. m + n -> Seq(T)] :
         /\ h[0] = <<>>
         /\ \A k \in 1 .. m + n : h[k] = h[k - 1] \o both[k]
         /\ FlattenSeq(both) = h[m + n]
  <2>. DEFINE l == Len(both)
  <2>1. l = m + n
    BY <1>1
  <2>2. \E h \in [0 .. l -> Seq(T)] :
           /\ h[0] = <<>>
           /\ \A k \in 1 .. l : h[k] = h[k - 1] \o both[k]
           /\ FlattenSeq(both) = h[l]
    BY <1>1, Flattened
  <2>. HIDE DEF l
  <2>. QED  BY <2>1, <2>2
<1>. DEFINE First == {k \in Nat : k <= m => h[k] = f[k]}
            Second == {k \in Nat : k <= n => h[m + k] = f[m] \o g[k]}
<1>5. m \in First
  <2>1. 0 \in First
    BY <1>2, <1>4
  <2>2. ASSUME NEW k \in Nat, k \in First PROVE k + 1 \in First
    <3>1. SUFFICES ASSUME k + 1 <= m PROVE h[k + 1] = f[k + 1]
      OBVIOUS
    <3>2. k <= m /\ k + 1 \in 1 .. m /\ k + 1 \in 1 .. m + n /\ (k + 1) - 1 = k
      BY <1>1, <3>1
    <3>3. h[k] = f[k]
      BY <2>2, <3>2
    <3>4. both[k + 1] = s[k + 1]
      BY <1>1, <3>1, <3>2
    <3>5. h[k + 1] = h[k] \o both[k + 1] /\ f[k + 1] = f[k] \o s[k + 1]
      BY <1>2, <1>4, <3>2
    <3>. QED  BY <3>3, <3>4, <3>5
  <2>. HIDE DEF First
  <2>. QED  BY <1>1, <2>1, <2>2, FromZeroOn
<1>6. f[m] \in Seq(T) /\ h[m] = f[m]
  BY <1>1, <1>2, <1>5
<1>7. n \in Second
  <2>1. 0 \in Second
    <3>1. m + 0 = m
      BY <1>1
    <3>2. f[m] \o <<>> = f[m]
      BY <1>6, ConcatEmptySeq
    <3>3. f[m] \o g[0] = f[m]
      BY <1>3, <3>2
    <3>4. h[m + 0] = f[m] \o g[0]
      BY <1>6, <3>1, <3>3
    <3>. QED  BY <3>4
  <2>2. ASSUME NEW k \in Nat, k \in Second PROVE k + 1 \in Second
    <3>0. ASSUME k + 1 <= n PROVE h[m + (k + 1)] = f[m] \o g[k + 1]
      <4>2. /\ k <= n /\ k \in 0 .. n /\ k + 1 \in 1 .. n /\ (k + 1) - 1 = k
            /\ m + (k + 1) \in 1 .. m + n /\ (m + (k + 1)) - 1 = m + k
            /\ ~ (m + (k + 1) <= m) /\ (m + (k + 1)) - m = k + 1
        BY <1>1, <3>0
      <4>3. h[m + k] = f[m] \o g[k]
        BY <2>2, <4>2
      <4>4. both[m + (k + 1)] = t[k + 1]
        BY <1>1, <4>2
      <4>5. h[m + (k + 1)] = h[m + k] \o both[m + (k + 1)]
        BY <1>4, <4>2
      <4>6. g[k + 1] = g[k] \o t[k + 1]
        BY <1>3, <4>2
      <4>. DEFINE a == f[m]
                  b == g[k]
                  c == t[k + 1]
      <4>7. a \in Seq(T) /\ b \in Seq(T) /\ c \in Seq(T)
        BY <1>1, <1>3, <1>6, <4>2
      <4>8. h[m + (k + 1)] = (a \o b) \o c /\ g[k + 1] = b \o c
        BY <4>3, <4>4, <4>5, <4>6
      <4>. HIDE DEF a, b, c
      <4>9. (a \o b) \o c = a \o (b \o c)
        BY <4>7, ConcatAssociative
      <4>. QED  BY <4>8, <4>9 DEF a
    <3>1. k + 1 \in Nat
      OBVIOUS
    <3>. QED  BY <3>0, <3>1
  <2>. HIDE DEF Second
  <2>. QED  BY <1>1, <2>1, <2>2, FromZeroOn
<1>8. h[m + n] = f[m] \o g[n]
  <2>1. n <= n
    BY <1>1
  <2>. QED  BY <1>7, <2>1
<1>. QED  BY <1>2, <1>3, <1>4, <1>8 DEF both

\* A list of lists of one element each, laid out flat.
LEMMA FlattenSingles ==
    ASSUME NEW T, NEW t \in Seq(T)
    PROVE  FlattenSeq([i \in DOMAIN t |-> <<t[i]>>]) = t
<1>. DEFINE n == Len(t)
            s == [i \in DOMAIN t |-> <<t[i]>>]
<1>1. n \in Nat /\ DOMAIN t = 1 .. n /\ t \in [1 .. n -> T]
  BY LenProperties
<1>2. /\ s \in [1 .. n -> Seq(T)]
      /\ \A i \in 1 .. n : s[i] = <<t[i]>>
  BY <1>1
<1>. HIDE DEF n, s
<1>3. s \in Seq(Seq(T)) /\ Len(s) = n
  BY <1>1, <1>2
<1>4. PICK f \in [0 .. n -> Seq(T)] :
         f[0] = <<>> /\ (\A k \in 1 .. n : f[k] = f[k - 1] \o s[k]) /\ FlattenSeq(s) = f[n]
  BY <1>3, Flattened
<1>. DEFINE Upto == {k \in Nat : k <= n => f[k] = SubSeq(t, 1, k)}
<1>5. 0 \in Upto
  <2>1. SubSeq(t, 1, 0) = <<>>
    BY SubSeqEmpty
  <2>. QED  BY <1>4, <2>1
<1>6. ASSUME NEW k \in Nat, k \in Upto PROVE k + 1 \in Upto
  <2>1. SUFFICES ASSUME k + 1 <= n PROVE f[k + 1] = SubSeq(t, 1, k + 1)
    OBVIOUS
  <2>2. k <= n /\ k + 1 \in 1 .. n /\ (k + 1) - 1 = k /\ 1 \in 1 .. n
    BY <1>1, <2>1
  <2>3. f[k] = SubSeq(t, 1, k)
    BY <1>6, <2>2
  <2>4. f[k + 1] = f[k] \o <<t[k + 1]>>
    BY <1>2, <1>4, <2>2
  <2>5. SubSeq(t, 1, k + 1) = SubSeq(t, 1, (k + 1) - 1) \o <<t[k + 1]>>
    <3>1. 1 \in 1 .. Len(t) /\ k + 1 \in 1 .. Len(t)
      BY <2>2 DEF n
    <3>. QED  BY <3>1, SubSeqRecursiveSecond
  <2>. QED  BY <2>2, <2>3, <2>4, <2>5
<1>7. n \in Upto
  <2>. HIDE DEF Upto
  <2>. QED  BY <1>1, <1>5, <1>6, FromZeroOn
<1>8. SubSeq(t, 1, n) = t
  BY SubSeqFull DEF n
<1>9. f[n] = t
  BY <1>1, <1>7, <1>8
<1>. QED  BY <1>4, <1>9 DEF s

=============================================================================
