------------------------------- MODULE Totals -------------------------------
(***************************************************************************)
(* The sum of the values of a function, as the number of units in it: what *)
(* all threads together still have to release, or are about to post.       *)
(***************************************************************************)
EXTENDS Integers, FiniteSets, FiniteSetTheorems, TLAPS

\* One element for each unit of each value of f.
UnitsOf(x, n) == {x} \X (1..n)
Units(f) == UNION {UnitsOf(x, f[x]) : x \in DOMAIN f}

Total(f) == Cardinality(Units(f))

-----------------------------------------------------------------------------
\* A value n has n units.
LEMMA UnitsOfCounts ==
  ASSUME NEW x, NEW n \in Nat
  PROVE  IsFiniteSet(UnitsOf(x, n)) /\ Cardinality(UnitsOf(x, n)) = n
<1>1. IsFiniteSet({x}) /\ Cardinality({x}) = 1
  BY FS_Singleton
<1>2. IsFiniteSet(1..n) /\ Cardinality(1..n) = n
  BY FS_Interval
<1>3. /\ IsFiniteSet({x} \X (1..n))
      /\ Cardinality({x} \X (1..n)) = Cardinality({x}) * Cardinality(1..n)
  BY <1>1, <1>2, FS_Product
<1>4. IsFiniteSet(UnitsOf(x, n)) /\ Cardinality(UnitsOf(x, n)) = 1 * n
  BY <1>1, <1>2, <1>3, Zenon DEF UnitsOf
<1>5. QED
  BY <1>4

\* A total is a natural number.
LEMMA TotalType ==
  ASSUME NEW S, IsFiniteSet(S), NEW f \in [S -> Nat]
  PROVE  IsFiniteSet(Units(f)) /\ Total(f) \in Nat
<1> DEFINE parts == {UnitsOf(x, f[x]) : x \in S}
           part  == [x \in S |-> UnitsOf(x, f[x])]
<1>1. part \in Surjection(S, parts)
  BY DEF Surjection
<1>2. IsFiniteSet(parts)
  BY <1>1, FS_Surjection
<1>3. \A T \in parts : IsFiniteSet(T)
  BY UnitsOfCounts
<1>4. Units(f) = UNION parts
  BY DEF Units
<1> HIDE DEF parts
<1>5. QED
  BY <1>2, <1>3, <1>4, FS_UNION, FS_CardinalityType DEF Total

\* Nothing but zeros make nothing.
LEMMA TotalOfZeros ==
  ASSUME NEW S
  PROVE  Total([x \in S |-> 0]) = 0
<1>1. Units([x \in S |-> 0]) = {}
  BY DEF Units, UnitsOf
<1>2. QED
  BY <1>1, FS_EmptySet DEF Total

\* What the values other than the one at x make.
Others(f, x) == UNION {UnitsOf(y, f[y]) : y \in DOMAIN f \ {x}}

LEMMA TotalSplits ==
  ASSUME NEW S, IsFiniteSet(S), NEW f \in [S -> Nat], NEW x \in S
  PROVE  /\ Cardinality(Others(f, x)) \in Nat
         /\ Total(f) = Cardinality(Others(f, x)) + f[x]
<1>1. /\ Units(f) = Others(f, x) \cup UnitsOf(x, f[x])
      /\ Others(f, x) \cap UnitsOf(x, f[x]) = {}
  BY DEF Units, Others, UnitsOf
<1>2. IsFiniteSet(Others(f, x)) /\ Cardinality(Others(f, x)) \in Nat
  BY <1>1, TotalType, FS_Subset, FS_CardinalityType
<1>3. IsFiniteSet(UnitsOf(x, f[x])) /\ Cardinality(UnitsOf(x, f[x])) = f[x]
  BY UnitsOfCounts
<1>4. Cardinality(Others(f, x) \cap UnitsOf(x, f[x])) = 0
  BY <1>1, FS_EmptySet
<1>5. Cardinality(Units(f)) = Cardinality(Others(f, x)) + f[x] - 0
  BY <1>1, <1>2, <1>3, <1>4, FS_Union
<1>6. QED
  BY <1>2, <1>5 DEF Total

\* A total follows the one value that changes.
LEMMA TotalChanges ==
  ASSUME NEW S, IsFiniteSet(S), NEW f \in [S -> Nat], NEW g \in [S -> Nat],
         NEW x \in S, \A y \in S \ {x} : g[y] = f[y]
  PROVE  Total(g) = Total(f) - f[x] + g[x]
<1>1. Others(g, x) = Others(f, x)
  BY DEF Others
<1>2. Total(f) = Cardinality(Others(f, x)) + f[x] /\ Cardinality(Others(f, x)) \in Nat
  BY TotalSplits
<1>3. Total(g) = Cardinality(Others(g, x)) + g[x]
  BY TotalSplits
<1>4. QED
  BY <1>1, <1>2, <1>3

\* No value is more than the total.
LEMMA TotalBounds ==
  ASSUME NEW S, IsFiniteSet(S), NEW f \in [S -> Nat], NEW x \in S
  PROVE  f[x] <= Total(f)
BY TotalSplits

\* A total that is not zero has a value that is not zero.
LEMMA TotalIsSomebodys ==
  ASSUME NEW S, IsFiniteSet(S), NEW f \in [S -> Nat], Total(f) > 0
  PROVE  \E x \in S : f[x] > 0
<1> SUFFICES ASSUME \A x \in S : f[x] = 0
             PROVE  FALSE
  OBVIOUS
<1>1. f = [x \in S |-> 0]
  OBVIOUS
<1>2. QED
  BY <1>1, TotalOfZeros
=============================================================================
