------------------------------ MODULE Heap_proof ------------------------------
(***************************************************************************)
(* Theorems about Heap, for any elements, weights and sizes: the loops keep *)
(* the heap in order, so its first element is a greatest one, and a sort    *)
(* puts the elements it was given in ascending order.                       *)
(***************************************************************************)
EXTENDS Heap, FiniteSetTheorems, FunctionTheorems, WellFoundedInduction, TLAPS

-----------------------------------------------------------------------------
(* The order of the elements, parents and children, and swaps.              *)

\* A comparison is total and transitive, as that of weights is.
LEMMA CompareOrder ==
    /\ \A x, y \in Elements : Compare(x, y) \/ Compare(y, x)
    /\ \A x, y, z \in Elements : Compare(x, y) /\ Compare(y, z) => Compare(x, z)
<1>1. \A x \in Elements : Weight[x] \in Nat
  BY WeightAssumption
<1> QED
  BY <1>1 DEF Compare

\* Every index but the first has a parent, of which it is one of two children.
LEMMA Parent ==
    ASSUME NEW k \in Nat, k >= 2
    PROVE  /\ k \div 2 \in Nat /\ k \div 2 >= 1 /\ k \div 2 < k
           /\ k = 2 * (k \div 2) \/ k = 2 * (k \div 2) + 1
  OBVIOUS

\* The children of a place are the two whose half it is.
LEMMA Children ==
    ASSUME NEW c \in Nat, NEW k \in Nat
    PROVE  k \div 2 = c <=> k = 2 * c \/ k = 2 * c + 1
  OBVIOUS

\* A swap exchanges two elements and leaves the others.
LEMMA SwapFacts ==
    ASSUME NEW a \in Seq(Elements), NEW j \in 1 .. Len(a), NEW k \in 1 .. Len(a)
    PROVE  /\ Swap(a, j, k) \in Seq(Elements) /\ Len(Swap(a, j, k)) = Len(a)
           /\ Swap(a, j, k)[j] = a[k] /\ Swap(a, j, k)[k] = a[j]
           /\ \A m \in (1 .. Len(a)) \ {j, k} : Swap(a, j, k)[m] = a[m]
<1>1. a \in [1 .. Len(a) -> Elements] /\ Len(a) \in Nat
  OBVIOUS
<1>2. Swap(a, j, k) = [m \in 1 .. Len(a) |-> IF m = k THEN a[j] ELSE IF m = j THEN a[k] ELSE a[m]]
  BY <1>1 DEF Swap
<1>3. [m \in 1 .. Len(a) |-> IF m = k THEN a[j] ELSE IF m = j THEN a[k] ELSE a[m]] \in Seq(Elements)
  BY <1>1
<1>4. Swap(a, j, k) \in Seq(Elements) /\ Len(Swap(a, j, k)) = Len(a)
  BY <1>1, <1>2, <1>3
<1> QED
  BY <1>2, <1>4

-----------------------------------------------------------------------------
(* What an iteration of the loops does to the order.                        *)

\* An element that rises leaves the order broken only above it.
LEMMA Rising ==
    ASSUME NEW a \in Seq(Elements), NEW n \in 0 .. Len(a), NEW c \in 1 .. n,
           OrderedBut(a, n, {c}), Bridged(a, n, c), Rises(a, c)
    PROVE  /\ Swap(a, c \div 2, c) \in Seq(Elements)
           /\ Len(Swap(a, c \div 2, c)) = Len(a)
           /\ c \div 2 \in 1 .. c
           /\ OrderedBut(Swap(a, c \div 2, c), n, {c \div 2})
           /\ Bridged(Swap(a, c \div 2, c), n, c \div 2)
<1> DEFINE p == c \div 2
           b == Swap(a, p, c)
<1>1. /\ c \in 2 .. n /\ p \in 1 .. n /\ p < c /\ Compare(a[p], a[c])
  <2>1. c > 1 /\ Compare(a[p], a[c])
    BY DEF Rises
  <2>2. c \in Nat /\ c >= 2
    BY <2>1
  <2>3. p \in Nat /\ p >= 1 /\ p < c
    BY <2>2, Parent
  <2> QED
    BY <2>1, <2>2, <2>3
<1>2. /\ b \in Seq(Elements) /\ Len(b) = Len(a) /\ b[p] = a[c] /\ b[c] = a[p]
      /\ \A m \in (1 .. Len(a)) \ {p, c} : b[m] = a[m]
  <2>1. p \in 1 .. Len(a) /\ c \in 1 .. Len(a)
    BY <1>1
  <2> HIDE DEF p
  <2> QED
    BY ONLY ZenonT(20), <2>1, SwapFacts
<1>3. \A m \in 1 .. n : a[m] \in Elements /\ b[m] \in Elements
  BY <1>2
<1>4. \A k \in 2 .. n : k \div 2 \in 1 .. n /\ k \div 2 < k
  BY Parent
<1>5. \A k \in 2 .. n : k # c => Compare(a[k], a[k \div 2])
  BY DEF OrderedBut
<1>6. \A k \in 2 .. n : k \div 2 = c => Compare(a[k], a[p])
  BY <1>1 DEF Bridged
<1> HIDE DEF b
<1>7. ASSUME NEW k \in 2 .. n, k # p PROVE Compare(b[k], b[k \div 2])
  <2>1. CASE k = c
    BY <1>1, <1>2, <2>1
  <2>2. CASE k # c /\ k \div 2 = c
    BY <1>2, <1>6, <1>7, <2>2
  <2>3. CASE k # c /\ k \div 2 = p
    <3>1. Compare(a[k], a[p]) /\ b[k] = a[k] /\ b[k \div 2] = a[c]
      BY <1>2, <1>5, <1>7, <2>3
    <3> QED
      BY <1>1, <1>3, <3>1, CompareOrder
  <2>4. CASE k # c /\ k \div 2 # c /\ k \div 2 # p
    <3>1. b[k] = a[k] /\ b[k \div 2] = a[k \div 2]
      BY <1>2, <1>4, <1>7, <2>4
    <3> QED
      BY <1>5, <2>4, <3>1
  <2> QED
    BY <2>1, <2>2, <2>3, <2>4
<1>8. ASSUME NEW k \in 2 .. n, p > 1, k \div 2 = p PROVE Compare(b[k], b[p \div 2])
  <2>1. p \in 2 .. n /\ p \div 2 \in 1 .. n /\ p \div 2 < p
    BY <1>1, <1>4, <1>8
  <2>2. Compare(a[p], a[p \div 2]) /\ b[p \div 2] = a[p \div 2]
    BY <1>1, <1>2, <1>5, <2>1
  <2>3. CASE k = c
    BY <1>2, <2>2, <2>3
  <2>4. CASE k # c
    <3>1. Compare(a[k], a[p]) /\ b[k] = a[k]
      BY <1>2, <1>4, <1>5, <1>8, <2>4
    <3> QED
      BY <1>1, <1>3, <2>1, <2>2, <3>1, CompareOrder
  <2> QED
    BY <2>3, <2>4
<1>9. OrderedBut(b, n, {p})
  BY <1>7 DEF OrderedBut
<1>10. Bridged(b, n, p)
  BY <1>8 DEF Bridged
<1> QED
  BY <1>1, <1>2, <1>9, <1>10 DEF b

\* One that does not rise is in its place.
LEMMA Risen ==
    ASSUME NEW a \in Seq(Elements), NEW n \in 0 .. Len(a), NEW c \in 1 .. n,
           OrderedBut(a, n, {c}), ~Rises(a, c)
    PROVE  OrderedBut(a, n, {})
<1>1. \A m \in 1 .. n : a[m] \in Elements
  OBVIOUS
<1>2. CASE c = 1
  BY <1>2 DEF OrderedBut
<1>3. CASE c # 1
  <2>1. c \in 2 .. n /\ c \div 2 \in 1 .. n
    BY <1>3, Parent
  <2>2. Compare(a[c], a[c \div 2])
    BY <1>1, <2>1, CompareOrder DEF Rises
  <2> QED
    BY <2>2 DEF OrderedBut
<1> QED
  BY <1>2, <1>3

\* Of two children the best is no less than the other.
LEMMA Best ==
    ASSUME NEW a \in Seq(Elements), NEW c \in Nat, c >= 1, 2 * c < Len(a)
    PROVE  LET child == BestChild(a, c)
           IN  /\ child \in {2 * c, 2 * c + 1}
               /\ \A k \in {2 * c, 2 * c + 1} : Compare(a[k], a[child])
<1>1. 2 * c \in 1 .. Len(a) /\ 2 * c + 1 \in 1 .. Len(a)
  OBVIOUS
<1>2. a[2 * c] \in Elements /\ a[2 * c + 1] \in Elements
  BY <1>1
<1> QED
  BY <1>2, CompareOrder DEF BestChild

\* An element that sinks to the child m of c, no less than c's other child,
\* leaves the order broken only below it.
LEMMA Sinking ==
    ASSUME NEW a \in Seq(Elements), NEW n \in 0 .. Len(a), NEW c \in 1 .. n,
           NEW m \in {2 * c, 2 * c + 1}, m <= n,
           \A k \in {2 * c, 2 * c + 1} : k <= n => Compare(a[k], a[m]),
           OrderedBut(a, n, {2 * c, 2 * c + 1}), Bridged(a, n, c)
    PROVE  /\ Sunk(a, c, m) \in Seq(Elements) /\ Len(Sunk(a, c, m)) = Len(a)
           /\ OrderedBut(Sunk(a, c, m), n, {2 * m, 2 * m + 1})
           /\ Bridged(Sunk(a, c, m), n, m)
<1> DEFINE b == Swap(a, c, m)
<1>0. c \in 1 .. Len(a) /\ m \in 1 .. Len(a) /\ c < m /\ m \div 2 = c /\ m > 1 /\ m \in 2 .. n
  BY Children
<1>1. \A k \in 1 .. n : a[k] \in Elements
  OBVIOUS
<1>2. \A k \in 2 .. n : k \div 2 \in 1 .. n /\ k \div 2 < k
  BY Parent
<1>3. \A k \in 2 .. n : k \div 2 # c => Compare(a[k], a[k \div 2])
  BY Children DEF OrderedBut
<1>4. \A k \in 2 .. n : k \div 2 = c => Compare(a[k], a[m])
  BY Children
<1>5. c > 1 => \A k \in 2 .. n : k \div 2 = c => Compare(a[k], a[c \div 2])
  BY DEF Bridged
<1>6. \A k \in 2 .. n : k \notin {2 * m, 2 * m + 1} <=> k \div 2 # m
  BY <1>0, Children
<1>7. CASE Sinks(a, c, m)
  <2>1. Sunk(a, c, m) = b
    BY <1>7 DEF Sunk
  <2>2. /\ b \in Seq(Elements) /\ Len(b) = Len(a) /\ b[c] = a[m] /\ b[m] = a[c]
        /\ \A k \in (1 .. Len(a)) \ {c, m} : b[k] = a[k]
    <3>1. a \in Seq(Elements) /\ c \in 1 .. Len(a) /\ m \in 1 .. Len(a)
      BY <1>0
    <3> QED
      BY ONLY ZenonT(20), <3>1, SwapFacts
  <2>3. Compare(a[c], a[m])
    <3>1. a[c] \in Elements /\ a[m] \in Elements
      BY <1>0, <1>1
    <3> QED
      BY <1>7, <3>1, CompareOrder DEF Sinks
  <2> HIDE DEF b
  <2>4. ASSUME NEW k \in 2 .. n, k \div 2 # m PROVE Compare(b[k], b[k \div 2])
    <3>1. CASE k = m
      BY <1>0, <2>2, <2>3, <3>1
    <3>2. CASE k # m /\ k \div 2 = c
      <4>1. k # c
        BY <1>2, <3>2
      <4>2. b[k] = a[k]
        BY <2>2, <3>2, <4>1
      <4> QED
        BY <1>4, <2>2, <3>2, <4>2
    <3>3. CASE k = c
      <4>1. k \div 2 \in 1 .. n /\ k \div 2 < c /\ k \div 2 # m
        BY <1>0, <1>2, <3>3
      <4>2. b[k \div 2] = a[k \div 2]
        BY <2>2, <4>1
      <4>3. Compare(a[m], a[c \div 2])
        BY <1>0, <1>5, <3>3
      <4> QED
        BY <2>2, <3>3, <4>2, <4>3
    <3>4. CASE k \notin {c, m} /\ k \div 2 # c
      <4>1. b[k] = a[k] /\ b[k \div 2] = a[k \div 2]
        BY <1>2, <2>2, <2>4, <3>4
      <4> QED
        BY <1>3, <3>4, <4>1
    <3> QED
      BY <3>1, <3>2, <3>3, <3>4
  <2>5. ASSUME NEW k \in 2 .. n, k \div 2 = m PROVE Compare(b[k], b[m \div 2])
    <3>1. k # m /\ k # c /\ m # c
      BY <1>0, <1>2, <2>5
    <3>2. b[k] = a[k] /\ Compare(a[k], a[m])
      <4>1. k \in (1 .. Len(a)) \ {c, m} /\ k \div 2 # c
        BY <2>5, <3>1
      <4>2. Compare(a[k], a[k \div 2])
        BY <1>3, <4>1
      <4> QED
        BY <2>2, <2>5, <4>1, <4>2
    <3>3. b[m \div 2] = a[m]
      BY <1>0, <2>2
    <3> QED
      BY <3>2, <3>3
  <2>6. OrderedBut(b, n, {2 * m, 2 * m + 1})
    BY <1>6, <2>4 DEF OrderedBut
  <2>7. Bridged(b, n, m)
    BY <2>5 DEF Bridged
  <2> QED
    BY <2>1, <2>2, <2>6, <2>7
<1>8. CASE ~Sinks(a, c, m)
  <2>1. Sunk(a, c, m) = a
    BY <1>8 DEF Sunk
  <2>2. Compare(a[m], a[c])
    BY <1>8 DEF Sinks
  <2>3. \A k \in 2 .. n : Compare(a[k], a[k \div 2])
    BY <1>0, <1>1, <1>3, <1>4, <2>2, CompareOrder
  <2>4. ASSUME NEW k \in 2 .. n, k \div 2 = m PROVE Compare(a[k], a[m \div 2])
    <3>1. a[k] \in Elements /\ a[m] \in Elements /\ a[c] \in Elements
      BY <1>0, <1>1
    <3>2. Compare(a[k], a[m])
      BY <2>3, <2>4
    <3> QED
      BY <1>0, <2>2, <3>1, <3>2, CompareOrder
  <2> QED
    BY <2>1, <2>3, <2>4 DEF OrderedBut, Bridged
<1> QED
  BY <1>7, <1>8

\* One with a child at most that the order is broken at is in its place.
LEMMA Sunken ==
    ASSUME NEW a \in Seq(Elements), NEW n \in 0 .. Len(a), NEW c \in Nat, 2 * c >= n,
           OrderedBut(a, n, {2 * c, 2 * c + 1}), Bridged(a, n, c), c >= 1
    PROVE  LET b == IF 2 * c = n THEN Sunk(a, c, n) ELSE a
           IN  b \in Seq(Elements) /\ Len(b) = Len(a) /\ OrderedBut(b, n, {})
<1>1. CASE 2 * c = n
  <2>1. c \in 1 .. n /\ n \in {2 * c, 2 * c + 1}
    BY <1>1
  <2>2. a[n] \in Elements
    BY <2>1
  <2>3. \A k \in {2 * c, 2 * c + 1} : k <= n => Compare(a[k], a[n])
    BY <1>1, <2>2, CompareOrder
  <2>a. n <= n
    BY <2>1
  <2>4. /\ Sunk(a, c, n) \in Seq(Elements) /\ Len(Sunk(a, c, n)) = Len(a)
        /\ OrderedBut(Sunk(a, c, n), n, {2 * n, 2 * n + 1})
    BY <2>1, <2>3, <2>a, Sinking, Zenon
  <2>5. \A k \in 2 .. n : k \notin {2 * n, 2 * n + 1}
    OBVIOUS
  <2> QED
    BY <1>1, <2>4, <2>5 DEF OrderedBut
<1>2. CASE 2 * c > n
  <2>1. \A k \in 2 .. n : k \notin {2 * c, 2 * c + 1}
    BY <1>2
  <2> QED
    BY <1>2, <2>1 DEF OrderedBut
<1> QED
  BY <1>1, <1>2

-----------------------------------------------------------------------------
(* The first element of a heap is a greatest one.                           *)

\* A set of natural numbers that is not empty has a least one.
LEMMA LeastNatural ==
    ASSUME NEW T \in SUBSET Nat, T # {}
    PROVE  \E n \in T : \A m \in T : n <= m
<1> DEFINE Smaller == OpToRel(<, Nat)
<1>1. IsWellFoundedOn(Smaller, Nat)
  BY NatLessThanWellFounded, Zenon
<1> HIDE DEF Smaller
<1>2. PICK n \in T : \A m \in T : <<m, n>> \notin Smaller
  BY <1>1, WFMin, Zenon
<1>3. \A m \in T : ~(m < n)
  BY <1>2 DEF OpToRel, Smaller
<1> QED
  BY <1>2, <1>3

\* Nothing in an ordered heap exceeds its first element.
LEMMA GreatestFirst ==
    ASSUME NEW a \in Seq(Elements), NEW n \in 0 .. Len(a), OrderedBut(a, n, {})
    PROVE  \A k \in 1 .. n : Compare(a[k], a[1])
<1> DEFINE Greater == { k \in 1 .. n : ~Compare(a[k], a[1]) }
<1>1. \A k \in 1 .. n : a[k] \in Elements
  OBVIOUS
<1> SUFFICES ASSUME Greater # {} PROVE FALSE
  OBVIOUS
<1>2. Greater \in SUBSET Nat
  OBVIOUS
<1>3. PICK k \in Greater : \A m \in Greater : k <= m
  BY <1>2, LeastNatural
<1>4. k # 1
  BY <1>1, <1>3, CompareOrder
<1>5. k \in 2 .. n
  BY <1>3, <1>4
<1>6. k \div 2 \in 1 .. n /\ k \div 2 < k
  BY <1>5, Parent
<1>7. Compare(a[k \div 2], a[1])
  BY <1>3, <1>6
<1>8. Compare(a[k], a[k \div 2])
  BY <1>5 DEF OrderedBut
<1>9. Compare(a[k], a[1])
  BY <1>1, <1>5, <1>6, <1>7, <1>8, CompareOrder
<1> QED
  BY <1>3, <1>9

-----------------------------------------------------------------------------
(* What the loops leave alone: the elements there are, and those a sort has *)
(* put behind the heap.                                                     *)

\* A swap leaves how often an element is there.
LEMMA SwapTimes ==
    ASSUME NEW a \in Seq(Elements), NEW j \in 1 .. Len(a), NEW k \in 1 .. Len(a), NEW x
    PROVE  Times(x, Swap(a, j, k)) = Times(x, a)
<1> DEFINE b == Swap(a, j, k)
           S == { m \in 1 .. Len(a) : b[m] = x }
           T == { m \in 1 .. Len(a) : a[m] = x }
           other(m) == IF m = j THEN k ELSE IF m = k THEN j ELSE m
           f == [m \in S |-> other(m)]
<1>1. /\ b \in Seq(Elements) /\ Len(b) = Len(a) /\ b[j] = a[k] /\ b[k] = a[j]
      /\ \A m \in (1 .. Len(a)) \ {j, k} : b[m] = a[m]
  BY SwapFacts
<1> HIDE DEF b
<1>2. Times(x, b) = Cardinality(S) /\ Times(x, a) = Cardinality(T)
  <2>1. DOMAIN b = 1 .. Len(a) /\ DOMAIN a = 1 .. Len(a)
    BY <1>1
  <2> QED
    BY <2>1 DEF Times
<1>3. \A m \in 1 .. Len(a) : other(m) \in 1 .. Len(a) /\ a[other(m)] = b[m] /\ other(other(m)) = m
  BY <1>1
<1>4. f \in [S -> T]
  BY <1>3
<1>5. \A m, l \in S : f[m] = f[l] => m = l
  BY <1>3
<1>6. \A m \in T : \E l \in S : f[l] = m
  <2> SUFFICES ASSUME NEW m \in T PROVE other(m) \in S /\ f[other(m)] = m
    OBVIOUS
  <2>1. other(m) \in 1 .. Len(a) /\ a[other(other(m))] = b[other(m)] /\ other(other(m)) = m
    BY <1>3
  <2> QED
    BY <2>1
<1> HIDE DEF f
<1>7. ExistsBijection(S, T)
  <2> HIDE DEF S, T
  <2>1. f \in Injection(S, T)
    BY <1>4, <1>5, Fun_IsInj
  <2>2. f \in Surjection(S, T)
    BY <1>4, <1>6, Fun_IsSurj
  <2> QED
    BY <2>1, <2>2 DEF ExistsBijection, Bijection
<1>8. IsFiniteSet(1 .. Len(a))
  BY FS_Interval
<1>9. IsFiniteSet(S)
  BY <1>8, FS_Subset
<1>10. Cardinality(T) = Cardinality(S)
  BY <1>7, <1>9, FS_Bijection
<1> QED
  BY <1>2, <1>10 DEF b

\* Whatever comes after the first n is no less than what is before it.
Apart(a, n) == \A k \in n + 1 .. Len(a) : \A j \in 1 .. k : Compare(a[j], a[k])

\* A step of sinking leaves what was sorted already, and every element.
LEMMA SunkApart ==
    ASSUME NEW a \in Seq(Elements), NEW n \in 0 .. Len(a), NEW c \in 1 .. n, NEW m \in 1 .. n
    PROVE  /\ Apart(a, n) => Apart(Sunk(a, c, m), n)
           /\ \A x : Times(x, Sunk(a, c, m)) = Times(x, a)
<1> DEFINE b == Swap(a, c, m)
<1>1. CASE Sinks(a, c, m)
  <2>1. Sunk(a, c, m) = b
    BY <1>1 DEF Sunk
  <2>2. c \in 1 .. Len(a) /\ m \in 1 .. Len(a)
    OBVIOUS
  <2>3. /\ b \in Seq(Elements) /\ Len(b) = Len(a) /\ b[c] = a[m] /\ b[m] = a[c]
        /\ \A k \in (1 .. Len(a)) \ {c, m} : b[k] = a[k]
    BY <2>2, SwapFacts
  <2>4. \A x : Times(x, b) = Times(x, a)
    BY <2>2, SwapTimes
  <2> HIDE DEF b
  <2>5. ASSUME Apart(a, n), NEW k \in n + 1 .. Len(a), NEW j \in 1 .. k
        PROVE  Compare(b[j], b[k])
    <3>1. b[k] = a[k]
      BY <2>3
    <3>2. \E l \in 1 .. k : b[j] = a[l]
      BY <2>3
    <3> QED
      BY <2>5, <3>1, <3>2 DEF Apart
  <2> QED
    BY <2>1, <2>3, <2>4, <2>5 DEF Apart
<1>2. CASE ~Sinks(a, c, m)
  BY <1>2 DEF Sunk
<1> QED
  BY <1>1, <1>2

\* The greatest goes behind the heap.
LEMMA GreatestBehind ==
    ASSUME NEW a \in Seq(Elements), NEW n \in 1 .. Len(a), OrderedBut(a, n, {})
    PROVE  /\ Swap(a, 1, n) \in Seq(Elements) /\ Len(Swap(a, 1, n)) = Len(a)
           /\ OrderedBut(Swap(a, 1, n), n - 1, {2, 3})
           /\ Apart(a, n) => Apart(Swap(a, 1, n), n - 1)
<1> DEFINE b == Swap(a, 1, n)
<1>1. 1 \in 1 .. Len(a) /\ n \in 1 .. Len(a)
  OBVIOUS
<1>2. /\ b \in Seq(Elements) /\ Len(b) = Len(a) /\ b[1] = a[n] /\ b[n] = a[1]
      /\ \A k \in (1 .. Len(a)) \ {1, n} : b[k] = a[k]
  BY <1>1, SwapFacts
<1> HIDE DEF b
<1>3. ASSUME NEW k \in 2 .. n - 1, k \notin {2, 3} PROVE Compare(b[k], b[k \div 2])
  <2>1. k \div 2 \in 2 .. n - 1
    BY <1>3, Parent
  <2>2. b[k] = a[k] /\ b[k \div 2] = a[k \div 2]
    BY <1>2, <2>1
  <2> QED
    BY <2>2 DEF OrderedBut
<1>4. \A k \in 1 .. n : Compare(a[k], a[1])
  BY <1>1, GreatestFirst
<1>5. ASSUME Apart(a, n), NEW k \in n .. Len(a), NEW j \in 1 .. k PROVE Compare(b[j], b[k])
  <2>1. PICK l \in 1 .. k : b[j] = a[l]
    BY <1>2
  <2>2. CASE k = n
    BY <1>2, <1>4, <2>1, <2>2
  <2>3. CASE k # n
    <3>1. k \in n + 1 .. Len(a) /\ b[k] = a[k]
      BY <1>2, <2>3
    <3> QED
      BY <1>5, <2>1, <3>1 DEF Apart
  <2> QED
    BY <2>2, <2>3
<1>6. OrderedBut(b, n - 1, {2, 3})
  BY <1>3 DEF OrderedBut
<1>7. Apart(a, n) => Apart(b, n - 1)
  BY <1>2, <1>5 DEF Apart
<1> QED
  BY <1>2, <1>6, <1>7 DEF b

-----------------------------------------------------------------------------
(* The invariant.                                                           *)

\* A sort keeps what it was given, and what it put behind the heap is in order.
SortInv ==
    /\ pc = "sinking" => i <= Len(array) \/ i = 1
    /\ IsSort => \A x \in Elements : Times(x, array) = Times(x, input)
    /\ IsSort /\ pc \in {"sinking", "down"} => Apart(array, HeapSize)
    /\ pc = "done" => InOrder(array)

IInv == TypeOK /\ HeapOrder /\ SortInv

\* An empty heap, or a sort about to start.
LEMMA InitInvariant == Init => IInv
<1>1. ASSUME HeapInit PROVE IInv
  <2>1. array = <<>> /\ input = <<>> /\ pc = "idle" /\ size = 0 /\ i = 0 /\ at = 0
    BY <1>1 DEF HeapInit
  <2>2. <<>> \in Seq(Elements) /\ Len(array) = 0
    BY <2>1
  <2>3. TypeOK
    BY <2>1, <2>2 DEF TypeOK, IsSort
  <2>4. HeapOrder
    BY <2>1, <2>2 DEF HeapOrder, HeapSize, IsSort, OrderedBut
  <2> QED
    BY <2>1, <2>3, <2>4 DEF IInv, SortInv, IsSort
<1>2. ASSUME SortInit PROVE IInv
  <2>1. /\ array \in Seq(Elements) /\ input = array /\ pc = "rising"
        /\ size = 0 /\ i = 1 /\ at = 0 /\ Len(array) \in Nat
    BY <1>2, InputsAssumption DEF SortInit
  <2>2. TypeOK
    BY <2>1 DEF TypeOK, IsSort
  <2>3. HeapOrder
    BY <2>1 DEF HeapOrder, HeapSize, OrderedBut
  <2> QED
    BY <2>1, <2>2, <2>3 DEF IInv, SortInv
<1> QED
  BY <1>1, <1>2 DEF Init

\* How much of the array is a heap.
LEMMA HeapWithin ==
    ASSUME IInv
    PROVE  HeapSize \in 0 .. Len(array) /\ Len(array) \in Nat /\ i \in Nat
<1>1. array \in Seq(Elements) /\ Len(array) \in Nat /\ i \in Nat
  BY DEF IInv, TypeOK
<1>2. CASE pc = "rising"
  BY <1>1, <1>2 DEF IInv, TypeOK, IsSort, HeapSize
<1>3. CASE pc = "up"
  BY <1>1, <1>3 DEF IInv, TypeOK, IsSort, HeapSize
<1>4. CASE pc = "down"
  BY <1>1, <1>4 DEF IInv, TypeOK, IsSort, HeapSize
<1>5. CASE pc = "sinking"
  <2>1. i >= 1 /\ (i <= Len(array) \/ i = 1)
    BY <1>1, <1>5 DEF IInv, TypeOK, SortInv, IsSort
  <2> QED
    BY <1>1, <1>5, <2>1 DEF HeapSize
<1>6. CASE pc \in {"idle", "done"}
  BY <1>1, <1>6 DEF HeapSize
<1> QED
  BY <1>1, <1>2, <1>3, <1>4, <1>5, <1>6 DEF IInv, TypeOK

-----------------------------------------------------------------------------
(* Every step keeps it.                                                     *)

\* An element rises.
LEMMA BubbleUpStep ==
    ASSUME IInv, BubbleUp
    PROVE  IInv'
<1> DEFINE n == HeapSize
           b == Swap(array, at \div 2, at)
<1>1. /\ pc = "up" /\ pc' = "up" /\ Rises(array, at)
      /\ array' = b /\ at' = at \div 2
      /\ input' = input /\ size' = size /\ i' = i
  BY DEF BubbleUp
<1>2. /\ array \in Seq(Elements) /\ input \in Seq(Elements) /\ i \in Nat
      /\ n \in 0 .. Len(array) /\ at \in 1 .. n /\ n = IF IsSort THEN i ELSE Len(array)
  BY <1>1, HeapWithin DEF IInv, TypeOK, HeapSize, IsSort
<1>3. OrderedBut(array, n, {at}) /\ Bridged(array, n, at)
  BY <1>1 DEF IInv, HeapOrder
<1>4. /\ b \in Seq(Elements) /\ Len(b) = Len(array) /\ at \div 2 \in 1 .. at
      /\ OrderedBut(b, n, {at \div 2}) /\ Bridged(b, n, at \div 2)
  BY <1>1, <1>2, <1>3, Rising
<1>5. \A x \in Elements : Times(x, b) = Times(x, array)
  <2>1. at \div 2 \in 1 .. Len(array) /\ at \in 1 .. Len(array)
    BY <1>2, <1>4
  <2> QED
    BY <1>2, <2>1, SwapTimes
<1> HIDE DEF b
<1>6. HeapSize' = n
  BY <1>1, <1>4 DEF HeapSize, IsSort
<1>7. TypeOK'
  BY <1>1, <1>2, <1>4 DEF IInv, TypeOK, IsSort
<1>8. HeapOrder'
  BY <1>1, <1>4, <1>6 DEF HeapOrder
<1>9. SortInv'
  BY <1>1, <1>5 DEF IInv, SortInv, IsSort
<1> QED
  BY <1>7, <1>8, <1>9 DEF IInv

\* An element has risen.
LEMMA BubbleUpEndsStep ==
    ASSUME IInv, BubbleUpEnds
    PROVE  IInv'
<1> DEFINE n == HeapSize
<1>1. /\ pc = "up" /\ ~Rises(array, at)
      /\ pc' = IF IsSort THEN "rising" ELSE "idle"
      /\ i' = IF IsSort THEN i + 1 ELSE i
      /\ array' = array /\ input' = input /\ size' = size /\ at' = at
  BY DEF BubbleUpEnds
<1>2. /\ array \in Seq(Elements) /\ input \in Seq(Elements) /\ i \in Nat /\ at \in Nat
      /\ n \in 0 .. Len(array) /\ at \in 1 .. n /\ n = IF IsSort THEN i ELSE Len(array)
  BY <1>1, HeapWithin DEF IInv, TypeOK, HeapSize, IsSort
<1>3. OrderedBut(array, n, {})
  <2>1. OrderedBut(array, n, {at})
    BY <1>1 DEF IInv, HeapOrder
  <2> QED
    BY <1>1, <1>2, <2>1, Risen
<1>4. HeapSize' = n
  BY <1>1, <1>2 DEF HeapSize, IsSort
<1>5. TypeOK'
  BY <1>1, <1>2 DEF TypeOK, IsSort
<1>6. HeapOrder'
  BY <1>1, <1>3, <1>4 DEF HeapOrder
<1>7. SortInv'
  BY <1>1 DEF IInv, SortInv, IsSort
<1> QED
  BY <1>5, <1>6, <1>7 DEF IInv

\* An element sinks.
LEMMA BubbleDownStep ==
    ASSUME IInv, BubbleDown
    PROVE  IInv'
<1> DEFINE m == BestChild(array, at)
           b == Sunk(array, at, m)
<1>1. /\ pc = "down" /\ pc' = "down" /\ 2 * at < size
      /\ array' = b /\ at' = m
      /\ input' = input /\ size' = size /\ i' = i
  BY DEF BubbleDown
<1>2. /\ array \in Seq(Elements) /\ input \in Seq(Elements) /\ i \in Nat
      /\ size \in 0 .. Len(array) /\ at \in 1 .. size /\ HeapSize = size
      /\ size = IF IsSort THEN Len(array) - i ELSE Len(array)
      /\ IsSort => i < Len(array)
  BY <1>1 DEF IInv, TypeOK, HeapSize, IsSort
<1>3. OrderedBut(array, size, {2 * at, 2 * at + 1}) /\ Bridged(array, size, at)
  BY <1>1, <1>2 DEF IInv, HeapOrder
<1>4. m \in {2 * at, 2 * at + 1} /\ \A k \in {2 * at, 2 * at + 1} : Compare(array[k], array[m])
  <2>1. at \in Nat /\ at >= 1 /\ 2 * at < Len(array)
    BY <1>1, <1>2
  <2> QED
    BY <1>2, <2>1, Best
<1> HIDE DEF m
<1>5. m <= size /\ m \in 1 .. size
  BY <1>1, <1>2, <1>4
<1>6. /\ b \in Seq(Elements) /\ Len(b) = Len(array)
      /\ OrderedBut(b, size, {2 * m, 2 * m + 1}) /\ Bridged(b, size, m)
  BY <1>2, <1>3, <1>4, <1>5, Sinking
<1>7. /\ Apart(array, size) => Apart(b, size)
      /\ \A x : Times(x, b) = Times(x, array)
  BY <1>2, <1>5, SunkApart
<1> HIDE DEF b
<1>8. HeapSize' = size
  BY <1>1 DEF HeapSize
<1>9. TypeOK'
  BY <1>1, <1>2, <1>5, <1>6 DEF IInv, TypeOK, IsSort
<1>10. HeapOrder'
  BY <1>1, <1>6, <1>8 DEF HeapOrder
<1>11. SortInv'
  BY <1>1, <1>2, <1>7, <1>8 DEF IInv, SortInv, IsSort
<1> QED
  BY <1>9, <1>10, <1>11 DEF IInv

\* An element has sunk.
LEMMA BubbleDownEndsStep ==
    ASSUME IInv, BubbleDownEnds
    PROVE  IInv'
<1> DEFINE b == IF 2 * at = size THEN Sunk(array, at, size) ELSE array
<1>1. /\ pc = "down" /\ 2 * at >= size
      /\ array' = b /\ at' = at
      /\ pc' = IF IsSort THEN "sinking" ELSE "idle"
      /\ i' = IF IsSort THEN i + 1 ELSE i
      /\ input' = input /\ size' = size
  BY DEF BubbleDownEnds, DownReturns
<1>2. /\ array \in Seq(Elements) /\ input \in Seq(Elements) /\ i \in Nat
      /\ size \in 0 .. Len(array) /\ at \in Nat /\ at >= 1 /\ HeapSize = size
      /\ size = IF IsSort THEN Len(array) - i ELSE Len(array)
      /\ IsSort => i < Len(array)
  BY <1>1 DEF IInv, TypeOK, HeapSize, IsSort
<1>3. OrderedBut(array, size, {2 * at, 2 * at + 1}) /\ Bridged(array, size, at)
  BY <1>1, <1>2 DEF IInv, HeapOrder
<1>4. b \in Seq(Elements) /\ Len(b) = Len(array) /\ OrderedBut(b, size, {})
  <2>1. array \in Seq(Elements) /\ size \in 0 .. Len(array) /\ at \in Nat /\ at >= 1 /\ 2 * at >= size
    BY <1>1, <1>2
  <2> QED
    BY ONLY <1>3, <2>1, Sunken
<1>5. /\ Apart(array, size) => Apart(b, size)
      /\ \A x : Times(x, b) = Times(x, array)
  <2>1. CASE 2 * at = size
    <3>1. at \in 1 .. size /\ size \in 1 .. size
      BY <1>2, <2>1
    <3> QED
      BY <1>2, <2>1, <3>1, SunkApart
  <2> QED
    BY <2>1
<1> HIDE DEF b
<1>6. HeapSize' = size
  BY <1>1, <1>2, <1>4 DEF HeapSize, IsSort
<1>7. TypeOK'
  BY <1>1, <1>2, <1>4 DEF TypeOK, IsSort
<1>8. HeapOrder'
  BY <1>1, <1>4, <1>6 DEF HeapOrder
<1>9. SortInv'
  <2>1. IsSort' <=> IsSort
    BY <1>1, <1>2 DEF IsSort
  <2>2. pc' = "sinking" => i' <= Len(array')
    BY <1>1, <1>2, <1>4
  <2>3. IsSort => Apart(array', HeapSize')
    BY <1>1, <1>2, <1>5, <1>6 DEF IInv, SortInv
  <2>4. IsSort => \A x \in Elements : Times(x, array') = Times(x, input')
    BY <1>1, <1>5 DEF IInv, SortInv
  <2>5. pc' # "done"
    BY <1>1
  <2> QED
    BY <2>1, <2>2, <2>3, <2>4, <2>5 DEF SortInv
<1> QED
  BY <1>7, <1>8, <1>9 DEF IInv

\* An element is put at the end, to rise.
LEMMA InsertStep ==
    ASSUME IInv, NEW x \in Elements, Insert(x)
    PROVE  IInv'
<1> DEFINE b == Append(array, x)
           n == Len(array) + 1
<1>1. /\ pc = "idle" /\ ~IsSort /\ pc' = "up"
      /\ array' = b /\ at' = n
      /\ input' = input /\ size' = size /\ i' = i
  BY DEF Insert
<1>2. array \in Seq(Elements) /\ input \in Seq(Elements) /\ i \in Nat /\ Len(array) \in Nat
  BY DEF IInv, TypeOK
<1>3. b \in Seq(Elements) /\ Len(b) = n /\ \A k \in 1 .. Len(array) : b[k] = array[k]
  BY <1>2
<1>4. \A k \in 2 .. Len(array) : Compare(array[k], array[k \div 2])
  BY <1>1 DEF IInv, HeapOrder, HeapSize, OrderedBut
<1> HIDE DEF b
<1>5. ASSUME NEW k \in 2 .. n, k # n PROVE Compare(b[k], b[k \div 2])
  <2>1. k \in 1 .. Len(array) /\ k \in 2 .. Len(array) /\ k \div 2 \in 1 .. Len(array)
    BY <1>2, <1>5, Parent
  <2> QED
    BY <1>3, <1>4, <2>1
<1>6. ASSUME NEW k \in 2 .. n PROVE k \div 2 # n
  BY <1>2, Parent
<1>7. HeapSize' = n
  BY <1>1, <1>3 DEF HeapSize, IsSort
<1>8. OrderedBut(b, n, {n}) /\ Bridged(b, n, n)
  BY <1>5, <1>6 DEF OrderedBut, Bridged
<1>9. TypeOK'
  BY <1>1, <1>2, <1>3 DEF TypeOK, IsSort
<1>10. HeapOrder'
  BY <1>1, <1>7, <1>8 DEF HeapOrder
<1>11. SortInv'
  BY <1>1 DEF SortInv, IsSort
<1> QED
  BY <1>9, <1>10, <1>11 DEF IInv

\* The first is taken and the last in its place, to sink.
LEMMA PopStep ==
    ASSUME IInv, Pop
    PROVE  IInv'
<1> DEFINE n == Len(array)
           b == Swap(array, 1, n)
           rest == SubSeq(b, 1, n - 1)
<1>1. /\ pc = "idle" /\ ~IsSort /\ pc' = "down" /\ array # <<>>
      /\ array' = rest /\ at' = 1 /\ size' = n - 1
      /\ input' = input /\ i' = i
  BY DEF Pop
<1>2. /\ array \in Seq(Elements) /\ input \in Seq(Elements) /\ i \in Nat
      /\ n \in Nat /\ n >= 1 /\ n \in 1 .. Len(array)
  BY <1>1 DEF IInv, TypeOK
<1>3. OrderedBut(array, n, {})
  BY <1>1 DEF IInv, HeapOrder, HeapSize
<1>4. b \in Seq(Elements) /\ Len(b) = n /\ OrderedBut(b, n - 1, {2, 3})
  BY <1>2, <1>3, GreatestBehind
<1> HIDE DEF b
<1>5. /\ rest \in Seq(Elements) /\ Len(rest) = n - 1
      /\ \A k \in 1 .. n - 1 : rest[k] = b[k]
  <2>1. n - 1 \in Nat /\ \A k \in 1 .. n - 1 : b[k] \in Elements
    BY <1>2, <1>4
  <2>2. rest = [k \in 1 .. n - 1 |-> b[k]]
    BY <1>2, <1>4
  <2> HIDE DEF rest
  <2>3. rest \in [1 .. n - 1 -> Elements]
    BY <2>1, <2>2
  <2> QED
    BY <2>1, <2>2, <2>3
<1> HIDE DEF rest
<1>6. OrderedBut(rest, n - 1, {2, 3})
  <2> SUFFICES ASSUME NEW k \in 2 .. n - 1, k \notin {2, 3} PROVE Compare(rest[k], rest[k \div 2])
    BY DEF OrderedBut
  <2>1. k \in 1 .. n - 1 /\ k \div 2 \in 1 .. n - 1
    BY <1>2, Parent
  <2> QED
    BY <1>4, <1>5, <2>1 DEF OrderedBut
<1>7. HeapSize' = n - 1
  BY <1>1 DEF HeapSize
<1>8. TypeOK'
  BY <1>1, <1>2, <1>5 DEF TypeOK, IsSort
<1>9. HeapOrder'
  <2>1. {2 * 1, 2 * 1 + 1} = {2, 3}
    OBVIOUS
  <2> QED
    BY <1>1, <1>6, <1>7, <2>1 DEF HeapOrder, Bridged
<1>10. SortInv'
  BY <1>1 DEF SortInv, IsSort
<1> QED
  BY <1>8, <1>9, <1>10 DEF IInv

\* The sort takes the next element into its heap.
LEMMA StartRiseStep ==
    ASSUME IInv, StartRise
    PROVE  IInv'
<1>1. /\ pc = "rising" /\ i <= Len(array) /\ pc' = "up" /\ at' = i
      /\ array' = array /\ input' = input /\ size' = size /\ i' = i
  BY DEF StartRise
<1>2. /\ array \in Seq(Elements) /\ input \in Seq(Elements) /\ i \in Nat /\ i >= 1 /\ IsSort
      /\ HeapSize = i - 1
  BY <1>1 DEF IInv, TypeOK, HeapSize, IsSort
<1>3. \A k \in 2 .. i - 1 : Compare(array[k], array[k \div 2])
  BY <1>1, <1>2 DEF IInv, HeapOrder, OrderedBut
<1>4. OrderedBut(array, i, {i}) /\ Bridged(array, i, i)
  <2>1. \A k \in 2 .. i : k # i => k \in 2 .. i - 1
    BY <1>2
  <2>2. \A k \in 2 .. i : k \div 2 # i
    BY <1>2, Parent
  <2> QED
    BY <1>3, <2>1, <2>2 DEF OrderedBut, Bridged
<1>5. HeapSize' = i
  BY <1>1, <1>2 DEF HeapSize, IsSort
<1>6. TypeOK'
  BY <1>1, <1>2 DEF TypeOK, IsSort
<1>7. HeapOrder'
  BY <1>1, <1>4, <1>5 DEF HeapOrder
<1>8. SortInv'
  BY <1>1 DEF IInv, SortInv, IsSort
<1> QED
  BY <1>6, <1>7, <1>8 DEF IInv

\* The sort has all of them there.
LEMMA RisingEndsStep ==
    ASSUME IInv, RisingEnds
    PROVE  IInv'
<1>1. /\ pc = "rising" /\ i > Len(array) /\ pc' = "sinking" /\ i' = 1
      /\ array' = array /\ input' = input /\ size' = size /\ at' = at
  BY DEF RisingEnds
<1>2. /\ array \in Seq(Elements) /\ input \in Seq(Elements) /\ i \in Nat /\ at \in Nat /\ IsSort
      /\ Len(array) \in Nat /\ i = Len(array) + 1
  BY <1>1 DEF IInv, TypeOK, IsSort
<1>3. HeapSize = Len(array) /\ HeapSize' = Len(array)
  BY <1>1, <1>2 DEF HeapSize
<1>4. TypeOK'
  BY <1>1, <1>2 DEF TypeOK, IsSort
<1>5. HeapOrder'
  BY <1>1, <1>3 DEF IInv, HeapOrder
<1>6. Apart(array, Len(array))
  BY <1>2 DEF Apart
<1>7. SortInv'
  BY <1>1, <1>2, <1>3, <1>6 DEF IInv, SortInv, IsSort
<1> QED
  BY <1>4, <1>5, <1>7 DEF IInv

\* The sort puts the greatest behind its heap.
LEMMA StartSinkStep ==
    ASSUME IInv, StartSink
    PROVE  IInv'
<1> DEFINE n == Len(array) - i + 1
           b == Swap(array, 1, n)
<1>1. /\ pc = "sinking" /\ i < Len(array) /\ pc' = "down"
      /\ array' = b /\ at' = 1 /\ size' = Len(array) - i
      /\ input' = input /\ i' = i
  BY DEF StartSink
<1>2. /\ array \in Seq(Elements) /\ input \in Seq(Elements) /\ i \in Nat /\ i >= 1 /\ IsSort
      /\ Len(array) \in Nat /\ n \in 1 .. Len(array) /\ n - 1 = Len(array) - i
      /\ 1 \in 1 .. Len(array) /\ HeapSize = n
  BY <1>1 DEF IInv, TypeOK, HeapSize, IsSort
<1>3. OrderedBut(array, n, {}) /\ Apart(array, n)
  BY <1>1, <1>2 DEF IInv, HeapOrder, SortInv
<1> HIDE DEF n
<1>4. /\ b \in Seq(Elements) /\ Len(b) = Len(array)
      /\ OrderedBut(b, n - 1, {2, 3}) /\ Apart(b, n - 1)
  BY <1>2, <1>3, GreatestBehind
<1>5. \A x \in Elements : Times(x, b) = Times(x, array)
  BY <1>2, SwapTimes
<1> HIDE DEF b
<1>6. HeapSize' = n - 1
  BY <1>1, <1>2 DEF HeapSize
<1>7. TypeOK'
  BY <1>1, <1>2, <1>4 DEF TypeOK, IsSort
<1>8. HeapOrder'
  <2>1. {2 * 1, 2 * 1 + 1} = {2, 3}
    OBVIOUS
  <2> QED
    BY <1>1, <1>4, <1>6, <2>1 DEF HeapOrder, Bridged
<1>9. SortInv'
  BY <1>1, <1>2, <1>4, <1>5, <1>6 DEF IInv, SortInv, IsSort
<1> QED
  BY <1>7, <1>8, <1>9 DEF IInv

\* The sort is done.
LEMMA ReturnStep ==
    ASSUME IInv, Return
    PROVE  IInv'
<1>1. /\ pc = "sinking" /\ i >= Len(array) /\ pc' = "done"
      /\ UNCHANGED <<array, input, size, i, at>>
  BY DEF Return
<1>2. /\ array \in Seq(Elements) /\ input \in Seq(Elements) /\ i \in Nat /\ i >= 1 /\ IsSort
      /\ Len(array) \in Nat /\ HeapSize = Len(array) - i + 1 /\ HeapSize' = 0
  BY <1>1 DEF IInv, TypeOK, HeapSize, IsSort
<1>3. TypeOK'
  BY <1>1, <1>2 DEF IInv, TypeOK, IsSort
<1>4. HeapOrder'
  BY <1>1, <1>2 DEF HeapOrder, OrderedBut
<1>5. InOrder(array)
  <2> SUFFICES ASSUME NEW j \in 1 .. Len(array), NEW k \in 1 .. Len(array), j <= k
               PROVE  Compare(array[j], array[k])
    BY DEF InOrder
  <2>1. CASE k >= 2
    <3>1. k \in HeapSize + 1 .. Len(array) /\ j \in 1 .. k
      BY <1>1, <1>2, <2>1
    <3> QED
      BY <1>1, <1>2, <3>1 DEF IInv, SortInv, Apart
  <2>2. CASE k = 1
    <3>1. j = k /\ array[k] \in Elements
      BY <1>2, <2>2
    <3> QED
      BY <3>1, CompareOrder
  <2> QED
    BY <2>1, <2>2
<1>6. SortInv'
  BY <1>1, <1>5 DEF IInv, SortInv, IsSort
<1> QED
  BY <1>3, <1>4, <1>6 DEF IInv

\* Every step keeps the invariant.
LEMMA StepInvariant ==
    ASSUME IInv, [Next]_vars
    PROVE  IInv'
<1>1. CASE UNCHANGED vars
  BY <1>1 DEF vars, IInv, TypeOK, HeapOrder, HeapSize, SortInv, IsSort
<1>2. CASE Next
  <2>1. ASSUME NEW x \in Elements, Insert(x) PROVE IInv'
    BY <2>1, InsertStep
  <2> QED
    BY <1>2, <2>1, BubbleUpStep, BubbleUpEndsStep, BubbleDownStep, BubbleDownEndsStep, PopStep,
       StartRiseStep, RisingEndsStep, StartSinkStep, ReturnStep, Zenon DEF Next
<1> QED
  BY <1>1, <1>2

\* So it always holds.
LEMMA Invariance == Spec => []IInv
  BY InitInvariant, StepInvariant, PTL DEF Spec

-----------------------------------------------------------------------------
(* What a call does to the elements of a heap, each as often as it is there. *)

\* How often an element is there is a number, and not zero when it is.
LEMMA TimesFacts ==
    ASSUME NEW a \in Seq(Elements), NEW x
    PROVE  /\ Times(x, a) \in Nat
           /\ Times(x, a) # 0 <=> \E k \in 1 .. Len(a) : a[k] = x
<1> DEFINE S == { k \in DOMAIN a : a[k] = x }
<1>1. DOMAIN a = 1 .. Len(a)
  OBVIOUS
<1>2. IsFiniteSet(S)
  BY <1>1, FS_Interval, FS_Subset
<1>3. Cardinality(S) \in Nat /\ (Cardinality(S) = 0 <=> S = {})
  BY <1>2, FS_CardinalityType, FS_EmptySet
<1> QED
  BY <1>1, <1>3 DEF Times

\* An element more at the end.
LEMMA TimesAppended ==
    ASSUME NEW a \in Seq(Elements), NEW b \in Seq(Elements), Len(b) = Len(a) + 1,
           \A k \in 1 .. Len(a) : b[k] = a[k], NEW x
    PROVE  Times(x, b) = Times(x, a) + (IF b[Len(b)] = x THEN 1 ELSE 0)
<1> DEFINE S == { k \in DOMAIN a : a[k] = x }
           T == { k \in DOMAIN b : b[k] = x }
<1>1. DOMAIN a = 1 .. Len(a) /\ DOMAIN b = 1 .. Len(b) /\ Len(a) \in Nat
  OBVIOUS
<1>2. IsFiniteSet(S) /\ Cardinality(S) \in Nat
  <2>1. IsFiniteSet(1 .. Len(a)) /\ S \subseteq 1 .. Len(a)
    BY <1>1, FS_Interval
  <2>2. IsFiniteSet(S)
    BY <2>1, FS_Subset
  <2> QED
    BY <2>2, FS_CardinalityType
<1>3. CASE b[Len(b)] = x
  <2>1. T = S \union {Len(b)} /\ Len(b) \notin S
    BY <1>1, <1>3
  <2>2. Cardinality(T) = Cardinality(S) + 1
    BY <1>2, <2>1, FS_AddElement
  <2> QED
    BY <1>3, <2>2 DEF Times
<1>4. CASE b[Len(b)] # x
  <2>1. T = S
    BY <1>1, <1>4
  <2>2. Times(x, b) = Cardinality(S) /\ Times(x, a) = Cardinality(S)
    BY <2>1 DEF Times
  <2> QED
    BY <1>2, <1>4, <2>2
<1> QED
  BY <1>3, <1>4

\* How often each element is there before a call and after it: as often, an element
\* once more, or one of the greatest once less.
SameTimes(a, b) == \A x : Times(x, b) = Times(x, a)
OneMore(a, b, e) == \A x : Times(x, b) = Times(x, a) + (IF e = x THEN 1 ELSE 0)

\* A step of a heap only reorders it, or puts or takes one element.
LEMMA StepTimes ==
    ASSUME IInv, Next, ~IsSort
    PROVE  /\ ~IsSort' /\ array' \in Seq(Elements)
           /\ \/ SameTimes(array, array')
              \/ \E e \in Elements : OneMore(array, array', e)
              \/ /\ array # <<>>
                 /\ \A k \in 1 .. Len(array) : Compare(array[k], array[1])
                 /\ OneMore(array', array, array[1])
<1>1. array \in Seq(Elements) /\ Len(array) \in Nat
  BY DEF IInv, TypeOK
<1>2. IInv'
  BY StepInvariant
<1>3. array' \in Seq(Elements)
  BY <1>2 DEF IInv, TypeOK
<1>4. i' = i /\ ~IsSort'
  BY DEF Next, BubbleUp, BubbleUpEnds, BubbleDown, BubbleDownEnds, DownReturns, Insert, Pop,
         StartRise, RisingEnds, StartSink, Return, IsSort, IInv, TypeOK
<1>5. CASE BubbleUp
  <2>1. array' = Swap(array, at \div 2, at) /\ pc = "up" /\ at > 1
    BY <1>5 DEF BubbleUp, Rises
  <2>2. at \in 1 .. Len(array)
    BY <2>1 DEF IInv, TypeOK
  <2>3. at \div 2 \in 1 .. Len(array)
    BY <1>1, <2>1, <2>2, Parent
  <2> QED
    BY <1>1, <1>3, <1>4, <2>1, <2>2, <2>3, SwapTimes DEF SameTimes
<1>6. CASE BubbleDown
  <2>1. array' = Sunk(array, at, BestChild(array, at)) /\ pc = "down" /\ 2 * at < size
    BY <1>6 DEF BubbleDown
  <2>2. at \in Nat /\ at >= 1 /\ size = Len(array)
    BY <1>1, <2>1 DEF IInv, TypeOK
  <2>3. BestChild(array, at) \in {2 * at, 2 * at + 1}
    BY <1>1, <2>1, <2>2, Best
  <2>4. at \in 1 .. size /\ BestChild(array, at) \in 1 .. size /\ size \in 0 .. Len(array)
    BY <1>1, <2>1, <2>2, <2>3
  <2> QED
    BY <1>1, <1>3, <1>4, <2>1, <2>4, SunkApart DEF SameTimes
<1>7. CASE BubbleDownEnds
  <2>1. /\ array' = IF 2 * at = size THEN Sunk(array, at, 2 * at) ELSE array
        /\ pc = "down"
    BY <1>7 DEF BubbleDownEnds
  <2>2. at \in Nat /\ at >= 1 /\ size = Len(array)
    BY <1>1, <2>1 DEF IInv, TypeOK
  <2>3. CASE 2 * at = size
    <3>1. at \in 1 .. size /\ 2 * at \in 1 .. size /\ size \in 0 .. Len(array)
      BY <1>1, <2>2, <2>3
    <3> QED
      BY <1>1, <1>3, <1>4, <2>1, <2>3, <3>1, SunkApart DEF SameTimes
  <2>4. CASE 2 * at # size
    BY <1>3, <1>4, <2>1, <2>4 DEF SameTimes
  <2> QED
    BY <2>3, <2>4
<1>8. ASSUME NEW e \in Elements, Insert(e)
      PROVE  OneMore(array, array', e)
  <2>1. array' = Append(array, e)
    BY <1>8 DEF Insert
  <2>2. /\ Len(array') = Len(array) + 1 /\ array'[Len(array')] = e
        /\ \A k \in 1 .. Len(array) : array'[k] = array[k]
    BY <1>1, <2>1
  <2> QED
    BY <1>1, <1>3, <2>2, TimesAppended DEF OneMore
<1>9. CASE Pop
  <2> DEFINE n == Len(array)
             b == Swap(array, 1, n)
  <2>1. pc = "idle" /\ array # <<>> /\ array' = SubSeq(b, 1, n - 1)
    BY <1>9 DEF Pop
  <2>2. n \in 1 .. Len(array) /\ 1 \in 1 .. Len(array)
    BY <1>1, <2>1
  <2>3. /\ b \in Seq(Elements) /\ Len(b) = n /\ b[n] = array[1]
        /\ \A x : Times(x, b) = Times(x, array)
    BY <1>1, <2>2, SwapFacts, SwapTimes
  <2>4. OrderedBut(array, n, {})
    BY <2>1 DEF IInv, HeapOrder, HeapSize
  <2>5. \A k \in 1 .. n : Compare(array[k], array[1])
    BY <1>1, <2>2, <2>4, GreatestFirst
  <2> HIDE DEF b
  <2>6. Len(array') = n - 1 /\ \A k \in 1 .. n - 1 : array'[k] = b[k]
    BY <1>1, <2>1, <2>2, <2>3
  <2>7. OneMore(array', b, b[n])
    BY <1>1, <1>3, <2>3, <2>6, TimesAppended DEF OneMore
  <2>8. OneMore(array', array, array[1])
    BY <2>3, <2>7 DEF OneMore
  <2> QED
    BY <1>3, <1>4, <2>1, <2>5, <2>8
<1>10. ASSUME BubbleUpEnds \/ StartRise \/ RisingEnds \/ StartSink \/ Return
       PROVE  SameTimes(array, array')
  BY <1>10 DEF BubbleUpEnds, StartRise, RisingEnds, StartSink, Return, SameTimes, IInv, TypeOK
<1> QED
  BY <1>3, <1>4, <1>5, <1>6, <1>7, <1>8, <1>9, <1>10 DEF Next

-----------------------------------------------------------------------------
(* The theorems.                                                            *)

(* The loops never leave the array, and between calls no element of a heap  *)
(* is greater than its parent (BL_Heap.c, lines 20-57).                     *)
THEOREM KeepsHeapOrder == Spec => [](TypeOK /\ HeapOrder)
<1>1. IInv => TypeOK /\ HeapOrder
  BY DEF IInv
<1> QED
  BY <1>1, Invariance, PTL

\* Between calls the first element, which bl_heap_top returns and bl_heap_pop
\* takes, is a greatest one.
GreatestOnTop ==
    pc = "idle" => \A k \in 1 .. Len(array) : Compare(array[k], array[1])

(* bl_heap_top and bl_heap_pop give a greatest element (BL_Heap.c, lines    *)
(* 14-18 and 40-48): what the pool's most urgent job first rests on.        *)
THEOREM TopIsGreatest == Spec => []GreatestOnTop
<1>1. ASSUME IInv, pc = "idle" PROVE \A k \in 1 .. Len(array) : Compare(array[k], array[1])
  <2>1. array \in Seq(Elements) /\ HeapSize = Len(array) /\ Len(array) \in 0 .. Len(array)
    BY <1>1, HeapWithin DEF IInv, TypeOK, HeapSize, IsSort
  <2>2. OrderedBut(array, Len(array), {})
    BY <1>1, <2>1 DEF IInv, HeapOrder
  <2> QED
    BY <2>1, <2>2, GreatestFirst
<1>2. IInv => GreatestOnTop
  BY <1>1 DEF GreatestOnTop
<1> QED
  BY <1>2, Invariance, PTL

(* A sort returns what it was given, in ascending order (BL_Heap.c, lines   *)
(* 72-81), whatever that is and however long.                               *)
THEOREM SortsWhatItGot == Spec => []Sorted
<1>1. IInv => Sorted
  BY DEF IInv, SortInv, Sorted, TypeOK, IsSort
<1> QED
  BY <1>1, Invariance, PTL
=============================================================================
