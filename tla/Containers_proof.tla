--------------------------- MODULE Containers_proof ---------------------------
(***************************************************************************)
(* What the containers promise, in the module that holds all of them: each  *)
(* of them behaves as its own specification says, so that what is proved of *)
(* that holds here.                                                         *)
(***************************************************************************)
EXTENDS Lists_proof

HP == INSTANCE Heap_proof
UP == INSTANCE UnorderedContainer_proof

-----------------------------------------------------------------------------
(* Heap                                                                     *)

\* The module that was proved about and the one that Containers has are one.
LEMMA SameHeap ==
    /\ H!Init <=> HP!Init
    /\ H!Next <=> HP!Next
    /\ H!TypeOK /\ H!HeapOrder <=> HP!TypeOK /\ HP!HeapOrder
    /\ H!Sorted <=> HP!Sorted
<1>1. H!Init <=> HP!Init
  BY Zenon DEF H!Init, HP!Init, H!HeapInit, HP!HeapInit, H!SortInit, HP!SortInit
<1>2. H!Next <=> HP!Next
  BY Zenon DEF H!Next, HP!Next, H!BubbleUp, HP!BubbleUp, H!Rises, HP!Rises, H!Compare, HP!Compare,
     H!Swap, HP!Swap, H!BubbleUpEnds, HP!BubbleUpEnds, H!IsSort, HP!IsSort, H!BubbleDown,
     HP!BubbleDown, H!Sunk, HP!Sunk, H!Sinks, HP!Sinks, H!BestChild, HP!BestChild,
     H!BubbleDownEnds, HP!BubbleDownEnds, H!DownReturns, HP!DownReturns, H!Insert,
     HP!Insert, H!Pop, HP!Pop, H!StartRise, HP!StartRise, H!RisingEnds, HP!RisingEnds,
     H!StartSink, HP!StartSink, H!Return, HP!Return
<1>3. H!TypeOK /\ H!HeapOrder <=> HP!TypeOK /\ HP!HeapOrder
  BY Zenon DEF H!TypeOK, HP!TypeOK, H!IsSort, HP!IsSort, H!HeapOrder, HP!HeapOrder, H!OrderedBut,
     HP!OrderedBut, H!Compare, HP!Compare, H!HeapSize, HP!HeapSize, H!Bridged, HP!Bridged
<1>4. H!Sorted <=> HP!Sorted
  BY Zenon DEF H!Sorted, HP!Sorted, H!InOrder, HP!InOrder, H!Compare, HP!Compare, H!Times, HP!Times,
     H!Cardinality, HP!Cardinality
<1> QED
  BY <1>1, <1>2, <1>3, <1>4

\* Another container's heap is one at rest, that nothing is called on.
LEMMA HeapBehaves == Spec => HP!Spec
<1>1. Init => HP!Init
  <2>1. Init => H!Init
    BY DEF Init, HeapAtRest, H!Init, H!HeapInit
  <2> QED
    BY <2>1, SameHeap
<1>2. [Next]_vars => [HP!Next]_(HP!vars)
  <2>1. [Next]_vars => H!Next \/ UNCHANGED heap
    BY DEF Next, vars
  <2> QED
    BY <2>1, SameHeap DEF heap, HP!vars
<1> QED
  BY <1>1, <1>2, PTL DEF Spec, HP!Spec

(* Between calls no element of a heap is greater than its parent, and while *)
(* one runs the indices stay within the array (BL_Heap.c, lines 20-57).     *)
THEOREM HeapsKeepOrder == Spec => []HeapOrder
<1>1. HeapOrder <=> HP!TypeOK /\ HP!HeapOrder
  BY SameHeap DEF HeapOrder
<1> QED
  BY <1>1, HeapBehaves, HP!KeepsHeapOrder, WeightAssumption, InputsAssumption, PTL

(* A sort that is done has sorted what it was given (lines 72-81).          *)
THEOREM SortsAll == Spec => []Sorted
<1>1. Sorted <=> HP!Sorted
  BY SameHeap DEF Sorted
<1> QED
  BY <1>1, HeapBehaves, HP!SortsWhatItGot, WeightAssumption, InputsAssumption, PTL

-----------------------------------------------------------------------------
(* UnorderedContainer                                                       *)

\* As for the heap.
LEMMA SameUnordered ==
    /\ U!Init <=> UP!Init
    /\ U!Next <=> UP!Next
    /\ U!TypeOK /\ U!SizeUnlessReserved /\ U!NeverUndercounts
         <=> UP!TypeOK /\ UP!SizeUnlessReserved /\ UP!NeverUndercounts
    /\ \A s : U!Cardinality(s) = UP!Cardinality(s)
    /\ \A x : U!Put(x) <=> UP!Put(x)
    /\ \A n : U!Get(n) = UP!Get(n) /\ U!Get(n)' = UP!Get(n)'
    /\ U!Gettable = UP!Gettable /\ U!Gettable' = UP!Gettable'
<1>1. U!Init <=> UP!Init
  BY DEF U!Init, UP!Init
<1>2. \A s : U!Cardinality(s) = UP!Cardinality(s)
  BY DEF U!Cardinality, UP!Cardinality
<1>3. \A s, pages : U!AvailableIndex(s, pages) = UP!AvailableIndex(s, pages)
  <2>1. \A word : U!Skipped(word) = UP!Skipped(word)
    BY DEF U!Skipped, UP!Skipped, U!PastFull, UP!PastFull
  <2>2. \A word : U!Candidates(word) = UP!Candidates(word)
    BY <2>1 DEF U!Candidates, UP!Candidates
  <2>3. \A s, pages : U!WordsWithRoom(s, pages) = UP!WordsWithRoom(s, pages)
    BY DEF U!WordsWithRoom, UP!WordsWithRoom, U!WordCount, UP!WordCount, U!Word, UP!Word
  <2>4. \A s, w : U!Word(s, w) = UP!Word(s, w)
    BY DEF U!Word, UP!Word
  <2>5. \A I : U!Least(I) = UP!Least(I)
    BY DEF U!Least, UP!Least
  <2> QED
    BY <2>2, <2>3, <2>4, <2>5 DEF U!AvailableIndex, UP!AvailableIndex
<1>4. \A pages : U!SlotsReserved(pages) = UP!SlotsReserved(pages)
  BY Zenon DEF U!SlotsReserved, UP!SlotsReserved, U!Without, UP!Without, U!Cleared, UP!Cleared,
     U!BitsOfByte, UP!BitsOfByte, U!WordBytes, UP!WordBytes, U!WordCount, UP!WordCount,
     U!Occupied, UP!Occupied
<1>5. U!SlotsForPut = UP!SlotsForPut /\ U!PagesForPut = UP!PagesForPut
  BY Zenon DEF U!SlotsForPut, UP!SlotsForPut, U!IsFull, UP!IsFull, U!Without, UP!Without,
     U!Occupied,
     UP!Occupied, U!Capacity, UP!Capacity, U!PagesForPut, UP!PagesForPut
<1>6. \A s, n, x : U!With(s, n, x) = UP!With(s, n, x)
  BY Zenon DEF U!With, UP!With
<1>7. \A x : U!Put(x) <=> UP!Put(x)
  BY <1>3, <1>5, <1>6 DEF U!Put, UP!Put
<1>8. \A n, x : (U!Set(n, x) <=> UP!Set(n, x)) /\ (U!SetTry(n, x) <=> UP!SetTry(n, x))
  BY Zenon DEF U!Set, UP!Set, U!Capacity, UP!Capacity, U!MayAdd, UP!MayAdd, U!Occupied, UP!Occupied,
     U!With, UP!With, U!Counted, UP!Counted, U!SetTry, UP!SetTry
<1>9. \A n, x : U!SetFar(n, x) <=> UP!SetFar(n, x)
  BY <1>4, <1>6 DEF U!SetFar, UP!SetFar, U!Capacity, UP!Capacity, U!PagesFor, UP!PagesFor
<1>10. \A n : U!Reserve(n) <=> UP!Reserve(n)
  BY <1>4 DEF U!Reserve, UP!Reserve, U!Capacity, UP!Capacity, U!PagesFor, UP!PagesFor
<1>11. \A n : U!Remove(n) <=> UP!Remove(n)
  BY Zenon DEF U!Remove, UP!Remove, U!Capacity, UP!Capacity, U!Occupied, UP!Occupied, U!Without,
     UP!Without
<1>12. U!Next <=> UP!Next
  BY <1>7, <1>8, <1>9, <1>10, <1>11 DEF U!Next, UP!Next, U!Indices, UP!Indices
<1>13. U!TypeOK <=> UP!TypeOK
  BY Zenon DEF U!TypeOK, UP!TypeOK, U!Occupied, UP!Occupied, U!Indices, UP!Indices
<1>14. \A n : U!Get(n) = UP!Get(n) /\ U!Get(n)' = UP!Get(n)'
  BY Zenon DEF U!Get, UP!Get, U!Capacity, UP!Capacity, U!Occupied, UP!Occupied
<1>15. U!Gettable = UP!Gettable /\ U!Gettable' = UP!Gettable'
  BY Zenon DEF U!Gettable, UP!Gettable, U!Indices, UP!Indices, U!Get, UP!Get, U!Capacity,
     UP!Capacity, U!Occupied, UP!Occupied
<1>16. U!SizeUnlessReserved <=> UP!SizeUnlessReserved
  BY <1>2, <1>15 DEF U!SizeUnlessReserved, UP!SizeUnlessReserved, U!SizeIsAmount, UP!SizeIsAmount
<1>17. U!NeverUndercounts <=> UP!NeverUndercounts
  BY <1>2, <1>15 DEF U!NeverUndercounts, UP!NeverUndercounts
<1> QED
  BY <1>1, <1>2, <1>7, <1>12, <1>13, <1>14, <1>15, <1>16, <1>17

\* And what is promised of a put.
LEMMA SamePromise == U!PutTakesFree <=> UP!PutTakesFree
<1>1. [\A x \in Values : ~reserves /\ U!Put(x) =>
          /\ U!Cardinality(U!Gettable') = U!Cardinality(U!Gettable) + 1
          /\ \A n \in U!Gettable : U!Get(n)' = U!Get(n)]_(U!vars)
      <=>
      [\A x \in Values : ~reserves /\ UP!Put(x) =>
          /\ UP!Cardinality(UP!Gettable') = UP!Cardinality(UP!Gettable) + 1
          /\ \A n \in UP!Gettable : UP!Get(n)' = UP!Get(n)]_(UP!vars)
  BY SameUnordered DEF U!vars, UP!vars
<1> QED
  BY <1>1, PTL DEF U!PutTakesFree, UP!PutTakesFree

\* Another container's pages are at rest.
LEMMA UnorderedBehaves == Spec => UP!Spec
<1>1. Init => UP!Init
  <2>1. Init => U!Init
    <3>1. <<>> = [n \in {} |-> NULL]
      OBVIOUS
    <3> QED
      BY <3>1 DEF Init, UnorderedAtRest, U!Init
  <2> QED
    BY <2>1, SameUnordered
<1>2. [Next]_vars => [UP!Next]_(UP!vars)
  <2>1. [Next]_vars => U!Next \/ UNCHANGED unordered
    BY DEF Next, vars
  <2> QED
    BY <2>1, SameUnordered DEF unordered, UP!vars
<1> QED
  BY <1>1, <1>2, PTL DEF Spec, UP!Spec

(* The size counts the elements there are, until something is reserved, and *)
(* never too few (BL_UnorderedContainer.c, lines 81, 93-96 and 123-124).    *)
THEOREM CountsAll == Spec => []SizesRight
<1>1. SizesRight <=> UP!TypeOK /\ UP!SizeUnlessReserved /\ UP!NeverUndercounts
  BY SameUnordered DEF SizesRight
<1> QED
  BY <1>1, UnorderedBehaves, UP!CountsRight, NullAssumption, SizesAssumption,
     HalvesAssumption, PTL

(* A put adds its element and overwrites no other, unless something was    *)
(* reserved (BL_UnorderedContainer.c, lines 32-82).                         *)
THEOREM PutsApartAll == Spec => PutsApart
<1>1. UP!Spec => UP!PutTakesFree
  BY UP!PutsWhereFree, NullAssumption, SizesAssumption, HalvesAssumption
<1> QED
  BY <1>1, SamePromise, UnorderedBehaves DEF PutsApart

-----------------------------------------------------------------------------
(* The heap is a priority queue: what its array holds, each as often as it  *)
(* is there, is a bag that gives up one of the greatest.                    *)

\* The elements of an array, counted.
BagOf(a) == [e \in { a[k] : k \in 1 .. Len(a) } |-> HP!Times(e, a)]

\* How often one occurs.
LEMMA BagFacts ==
    ASSUME NEW a \in Seq(Elements)
    PROVE  /\ \A x : HP!Times(x, a) \in Nat /\ (x \in DOMAIN BagOf(a) <=> HP!Times(x, a) # 0)
           /\ \A x \in DOMAIN BagOf(a) : BagOf(a)[x] = HP!Times(x, a)
BY HP!TimesFacts, WeightAssumption, InputsAssumption DEF BagOf

\* A swap leaves the bag.
LEMMA BagOfSame ==
    ASSUME NEW a \in Seq(Elements), NEW b \in Seq(Elements), HP!SameTimes(a, b)
    PROVE  BagOf(b) = BagOf(a)
<1>1. DOMAIN BagOf(b) = DOMAIN BagOf(a)
  BY BagFacts DEF HP!SameTimes
<1>2. \A x \in DOMAIN BagOf(a) : BagOf(b)[x] = BagOf(a)[x]
  BY <1>1, BagFacts DEF HP!SameTimes
<1> QED
  BY <1>1, <1>2 DEF BagOf

\* One element more in the array is one more in the bag.
LEMMA BagOfMore ==
    ASSUME NEW a \in Seq(Elements), NEW b \in Seq(Elements), NEW e, HP!OneMore(a, b, e)
    PROVE  /\ BagOf(b) = BagOf(a) (+) SetToBag({e})
           /\ BagOf(a) = BagOf(b) (-) SetToBag({e})
<1> DEFINE First == BagOf(a)
           D == BagOf(b)
           One == SetToBag({e})
<1>1. /\ \A x : /\ HP!Times(x, a) \in Nat /\ HP!Times(x, b) \in Nat
                /\ x \in DOMAIN First <=> HP!Times(x, a) # 0
                /\ x \in DOMAIN D <=> HP!Times(x, b) # 0
                /\ HP!Times(x, b) = HP!Times(x, a) + (IF e = x THEN 1 ELSE 0)
      /\ \A x \in DOMAIN First : First[x] = HP!Times(x, a)
      /\ \A x \in DOMAIN D : D[x] = HP!Times(x, b)
  BY BagFacts DEF HP!OneMore
<1>2. First = [x \in DOMAIN First |-> First[x]] /\ D = [x \in DOMAIN D |-> D[x]]
  BY DEF BagOf
<1>3. DOMAIN One = {e} /\ One[e] = 1
  BY DEF SetToBag
<1> HIDE DEF First, D, One
<1>4. D = First (+) One
  <2>1. ASSUME NEW x PROVE x \in DOMAIN D <=> x \in DOMAIN First \union {e}
    <3>1. HP!Times(x, a) \in Nat /\ HP!Times(x, b) = HP!Times(x, a) + (IF e = x THEN 1 ELSE 0)
      BY <1>1
    <3> QED
      BY <1>1, <3>1
  <2>2. \A x \in DOMAIN D : D[x] = (IF x \in DOMAIN First THEN First[x] ELSE 0)
                                     + (IF x \in DOMAIN One THEN One[x] ELSE 0)
    BY <1>1, <1>3
  <2> QED
    BY <1>2, <1>3, <2>1, <2>2 DEF (+)
<1>5. First = D (-) One
  <2> DEFINE Left == [x \in DOMAIN D |-> IF x \in DOMAIN One THEN D[x] - One[x] ELSE D[x]]
  <2>1. \A x \in DOMAIN D : Left[x] = HP!Times(x, a)
    BY <1>1, <1>3
  <2>2. ASSUME NEW x PROVE x \in DOMAIN First <=> x \in DOMAIN D /\ Left[x] > 0
    <3>1. /\ HP!Times(x, a) \in Nat
          /\ HP!Times(x, b) = HP!Times(x, a) + (IF e = x THEN 1 ELSE 0)
      BY <1>1
    <3>2. x \in DOMAIN First => x \in DOMAIN D
      BY <1>1, <3>1
    <3> QED
      BY <1>1, <2>1, <3>1, <3>2
  <2>3. \A x \in DOMAIN First : First[x] = Left[x]
    BY <1>1, <2>1
  <2> QED
    BY <1>2, <2>2, <2>3 DEF (-)
<1> QED
  BY <1>4, <1>5 DEF First, D, One

\* What the priority queue has, as Containers maps it.
Pending == IF which # "heap" \/ H!IsSort THEN EmptyBag
           ELSE [e \in ToSet(array) |-> H!Times(e, array)]

\* While the heap holds it, that is the bag of its array.
LEMMA PendingIsBag ==
    ASSUME array \in Seq(Elements), which = "heap", ~H!IsSort
    PROVE  Pending = BagOf(array)
<1>1. \A s : H!Cardinality(s) = HP!Cardinality(s)
  BY DEF H!Cardinality, HP!Cardinality
<1>2. \A x : H!Times(x, array) = HP!Times(x, array)
  BY <1>1 DEF H!Times, HP!Times
<1> QED
  BY <1>2 DEF Pending, BagOf, ToSet

\* Every step of a heap leaves the bag, or is one of a priority queue.
LEMMA PriorityStep ==
    ASSUME HP!IInv, which' = which, [HP!Next]_(HP!vars), which = "heap"
    PROVE  \/ Pending' = Pending
           \/ \E x \in Elements : Queue!Insert(x) \/ Queue!Pop(x)
<1> USE WeightAssumption, InputsAssumption
<1>1. array \in Seq(Elements) /\ (H!IsSort <=> HP!IsSort) /\ (H!IsSort' <=> HP!IsSort')
  BY DEF HP!IInv, HP!TypeOK, H!IsSort, HP!IsSort
<1>2. CASE UNCHANGED HP!vars
  BY <1>2 DEF HP!vars, Pending, H!IsSort, H!Times, ToSet
<1>3. CASE HP!Next /\ HP!IsSort
  <2>1. HP!IsSort'
    BY <1>3 DEF HP!Next, HP!BubbleUp, HP!BubbleUpEnds, HP!BubbleDown, HP!BubbleDownEnds,
       HP!DownReturns, HP!Insert, HP!Pop, HP!StartRise, HP!RisingEnds, HP!StartSink, HP!Return,
       HP!IsSort, HP!IInv, HP!TypeOK
  <2> QED
    BY <1>1, <1>3, <2>1 DEF Pending
<1>4. CASE HP!Next /\ ~HP!IsSort
  <2>1. /\ ~HP!IsSort' /\ array' \in Seq(Elements)
        /\ \/ HP!SameTimes(array, array')
           \/ \E e \in Elements : HP!OneMore(array, array', e)
           \/ /\ array # <<>>
              /\ \A k \in 1 .. Len(array) : HP!Compare(array[k], array[1])
              /\ HP!OneMore(array', array, array[1])
    BY <1>4, HP!StepTimes
  <2>2. Pending = BagOf(array)
    BY <1>1, <1>4, PendingIsBag
  <2>3. Pending' = BagOf(array')
    <3>1. \A s : H!Cardinality(s) = HP!Cardinality(s)
      BY DEF H!Cardinality, HP!Cardinality
    <3>2. \A x : H!Times(x, array') = HP!Times(x, array')
      BY <3>1 DEF H!Times, HP!Times
    <3>3. ToSet(array') = { array'[k] : k \in 1 .. Len(array') }
      BY <2>1 DEF ToSet
    <3>4. Pending' = [e \in ToSet(array') |-> H!Times(e, array')]
      BY <1>1, <2>1 DEF Pending
    <3> QED
      BY <3>2, <3>3, <3>4 DEF BagOf
  <2>4. CASE HP!SameTimes(array, array')
    BY <1>1, <2>1, <2>2, <2>3, <2>4, BagOfSame
  <2>5. ASSUME NEW e \in Elements, HP!OneMore(array, array', e)
        PROVE  Queue!Insert(e)
    <3>1. Pending' = Pending (+) SetToBag({e})
      BY <1>1, <2>1, <2>2, <2>3, <2>5, BagOfMore
    <3> QED
      BY <3>1 DEF Queue!Insert, Pending, (+), Queue!(+), SetToBag, Queue!SetToBag
  <2>6. CASE /\ array # <<>>
             /\ \A k \in 1 .. Len(array) : HP!Compare(array[k], array[1])
             /\ HP!OneMore(array', array, array[1])
    <3> DEFINE top == array[1]
    <3>1. top \in Elements /\ top \in { array[k] : k \in 1 .. Len(array) }
      BY <1>1, <2>6
    <3>2. Pending' = Pending (-) SetToBag({top})
      BY <1>1, <2>1, <2>2, <2>3, <2>6, BagOfMore
    <3>3. DOMAIN Pending = { array[k] : k \in 1 .. Len(array) }
      BY <2>2 DEF BagOf
    <3>4. Queue!Greatest(top)
      BY <2>6, <3>1, <3>3 DEF Queue!Greatest, Queue!BagIn, Queue!BagToSet, Pending, HP!Compare
    <3>5. Queue!Pop(top)
      BY <3>2, <3>4 DEF Queue!Pop, Pending, (-), Queue!(-), SetToBag, Queue!SetToBag
    <3> QED
      BY <3>1, <3>5
  <2> QED
    BY <2>1, <2>4, <2>5, <2>6
<1> QED
  BY <1>2, <1>3, <1>4

(* Whatever is inserted and popped, an insertion adds what it is given and  *)
(* a pop takes one of the greatest (BL_Heap.c, lines 40-69).                *)
THEOREM HeapsArePriorityQueues == Spec => ImplementsPriorityQueue
<1>1. Init => Pending = EmptyBag
  <2>1. Init /\ which = "heap" /\ ~H!IsSort => array = <<>>
    BY InputsAssumption DEF Init, H!Init, H!HeapInit, H!SortInit, H!IsSort
  <2>2. ToSet(<<>>) = {}
    BY DEF ToSet
  <2> QED
    BY <2>1, <2>2 DEF Pending, EmptyBag, SetToBag
<1>2. Init => Queue!Init
  BY <1>1 DEF Queue!Init, Pending, EmptyBag, SetToBag, Queue!EmptyBag, Queue!SetToBag
<1>3. HP!IInv /\ [Next]_vars => [HP!Next]_(HP!vars) /\ which' = which
  BY SameHeap DEF Next, vars, heap, HP!vars
<1>4. HP!IInv /\ [Next]_vars
        => Pending' = Pending \/ \E x \in Elements : Queue!Insert(x) \/ Queue!Pop(x)
  <2>1. CASE which = "heap"
    BY <1>3, <2>1, PriorityStep
  <2>2. CASE which # "heap"
    BY <1>3, <2>2 DEF Pending
  <2> QED
    BY <2>1, <2>2
<1>5. HP!IInv /\ [Next]_vars
        => [Queue!Next]_(IF which # "heap" \/ H!IsSort THEN EmptyBag
                         ELSE [e \in ToSet(array) |-> H!Times(e, array)])
  BY <1>4 DEF Queue!Next, Pending
<1>6. Spec => []HP!IInv
  BY HeapBehaves, HP!Invariance, WeightAssumption, InputsAssumption, PTL
<1> QED
  BY <1>2, <1>5, <1>6, PTL DEF Spec, ImplementsPriorityQueue, Queue!Spec

-----------------------------------------------------------------------------
(* Bitset                                                                   *)

\* The bits of a set's elements are among those of its bytes.
LEMMA BitsOfElements ==
    ASSUME NEW n \in Nat \ {0}
    PROVE  0 .. n - 1 \subseteq S!Bits(n)
<1>1. ByteSize \in Nat \ {0}
  BY BitsetAssumption
<1>2. (n - 1) \div ByteSize \in Nat /\ n - 1 < ByteSize * ((n - 1) \div ByteSize) + ByteSize
  BY <1>1
<1> DEFINE q == (n - 1) \div ByteSize
<1>3. ByteSize * (q + 1) = ByteSize * q + ByteSize
  BY <1>1, <1>2
<1> HIDE DEF q
<1>4. ByteSize * (q + 1) - 1 >= n - 1 /\ ByteSize * (q + 1) - 1 \in Int
  BY <1>1, <1>2, <1>3 DEF q
<1> QED
  BY <1>4 DEF S!Bits, q

\* What the bytes hold; nothing above the amount before a set is inverted.
BitsInv ==
    /\ object = [amount |-> object.amount, high |-> object.high, inverted |-> object.inverted]
    /\ object.inverted \in BOOLEAN
    /\ object.amount \in [1 .. 2 -> Nat \ {0}]
    /\ object.high \in [1 .. 2 -> SUBSET Int]
    /\ ~object.inverted => \A k \in 1 .. 2 : object.high[k] \subseteq 0 .. object.amount[k] - 1

\* It holds when the two sets were created.
LEMMA BitsInit == S!Init => BitsInv
BY BitsetAssumption DEF S!Init, BitsInv

\* What every call makes of a set: bits that stay, and others, which are only above
\* the amount where there were some or where they are inverted.
LEMMA BitsBecome ==
    ASSUME BitsInv, NEW k \in 1 .. 2, NEW bits \in SUBSET Int, NEW inverted \in BOOLEAN,
           object' = [object EXCEPT !.high[k] = bits, !.inverted = inverted],
           object.inverted => inverted, ~inverted => bits \subseteq 0 .. object.amount[k] - 1
    PROVE  /\ BitsInv'
           /\ object'.amount = object.amount /\ object'.high[k] = bits
           /\ \A l \in (1 .. 2) \ {k} : object'.high[l] = object.high[l]
BY DEF BitsInv

\* The members of a set are its bits below the amount.
LEMMA BitsMembers ==
    ASSUME BitsInv, NEW k \in 1 .. 2
    PROVE  S!Members(k) = object.high[k] \cap 0 .. object.amount[k] - 1
<1>1. object.amount[k] \in Nat \ {0}
  BY DEF BitsInv
<1> QED
  BY <1>1 DEF S!Members, S!Holds, S!Amount, S!High

\* A call keeps the other set's members, and makes those of its own the bits it leaves
\* below the amount.
LEMMA MembersBecome ==
    ASSUME BitsInv, NEW k \in 1 .. 2, NEW bits \in SUBSET Int, NEW inverted \in BOOLEAN,
           object' = [object EXCEPT !.high[k] = bits, !.inverted = inverted],
           object.inverted => inverted, ~inverted => bits \subseteq 0 .. object.amount[k] - 1
    PROVE  /\ BitsInv'
           /\ S!Members(k)' = bits \cap 0 .. object.amount[k] - 1
           /\ \A l \in (1 .. 2) \ {k} : S!Members(l)' = S!Members(l)
<1>1. BitsInv' /\ object'.amount = object.amount /\ object'.high[k] = bits
  BY BitsBecome
<1>2. \A l \in (1 .. 2) \ {k} : object'.high[l] = object.high[l]
  BY BitsBecome
<1>3. \A l \in 1 .. 2 : S!Members(l)' = object'.high[l] \cap 0 .. object'.amount[l] - 1
  <2>1. SUFFICES ASSUME NEW l \in 1 .. 2
                 PROVE  S!Members(l)' = object'.high[l] \cap 0 .. object'.amount[l] - 1
    OBVIOUS
  <2>2. object'.amount[l] \in Nat \ {0}
    BY <1>1 DEF BitsInv
  <2> QED
    BY <2>2 DEF S!Members, S!Holds, S!Amount, S!High
<1>4. \A l \in 1 .. 2 : S!Members(l) = object.high[l] \cap 0 .. object.amount[l] - 1
  BY BitsMembers
<1>5. S!Members(k)' = bits \cap 0 .. object.amount[k] - 1
  BY <1>1, <1>3
<1>6. ASSUME NEW l \in (1 .. 2) \ {k} PROVE S!Members(l)' = S!Members(l)
  BY <1>1, <1>2, <1>3, <1>4
<1> QED
  BY <1>1, <1>5, <1>6

\* Every call is one of the algebra of sets.
LEMMA BitsStep ==
    ASSUME BitsInv, S!Next
    PROVE  BitsInv' /\ S!SetStep
<1>1. PICK k \in 1 .. 2 :
        \/ \E n \in 0 .. S!Amount(k) - 1 : S!Add(k, n) \/ S!Remove(k, n)
        \/ \E l \in 1 .. 2 : S!Both(k, l) \/ S!Either(k, l) \/ S!OneOf(k, l)
        \/ S!Invert(k)
  BY DEF S!Next, S!Which
<1> DEFINE below == 0 .. object.amount[k] - 1
           all   == S!Bits(object.amount[k])
<1>2. object.amount[k] \in Nat \ {0} /\ \A l \in 1 .. 2 : object.high[l] \in SUBSET Int
  BY DEF BitsInv
<1>3. object.inverted \in BOOLEAN
  BY DEF BitsInv
<1>4. below \subseteq all
  BY <1>2, BitsOfElements
<1>5. ~object.inverted => \A l \in 1 .. 2 : object.high[l] \subseteq 0 .. object.amount[l] - 1
  BY DEF BitsInv
<1>6. all \subseteq Int /\ below \subseteq Int
  BY <1>2 DEF S!Bits
<1>7. \A l \in 1 .. 2 : S!Members(l) = object.high[l] \cap 0 .. object.amount[l] - 1
  BY BitsMembers
<1>8. ASSUME NEW bits \in SUBSET Int, NEW inverted \in BOOLEAN,
             object' = [object EXCEPT !.high[k] = bits, !.inverted = inverted],
             object.inverted => inverted, ~inverted => bits \subseteq below
      PROVE  /\ BitsInv'
             /\ S!Members(k)' = bits \cap below
             /\ \A l \in (1 .. 2) \ {k} : S!Members(l)' = S!Members(l)
  BY <1>8, MembersBecome
<1>9. ASSUME NEW bits \in SUBSET Int, S!Becomes(k, bits),
             ~object.inverted => bits \subseteq below
      PROVE  /\ BitsInv'
             /\ S!Members(k)' = bits \cap below
             /\ \A l \in (1 .. 2) \ {k} : S!Members(l)' = S!Members(l)
  <2>1. object' = [object EXCEPT !.high[k] = bits, !.inverted = object.inverted]
    BY <1>9 DEF S!Becomes, BitsInv
  <2> QED
    BY <1>3, <1>8, <1>9, <2>1
<1> HIDE DEF below, all
<1>10. ASSUME NEW n \in 0 .. S!Amount(k) - 1, S!Add(k, n) \/ S!Remove(k, n)
       PROVE  BitsInv' /\ S!SetStep
  <2>1. n \in Int /\ n \in below
    BY DEF S!Amount, below
  <2>2. CASE S!Add(k, n)
    <3>1. S!Members(k)' = S!Members(k) \union {n} /\ BitsInv'
              /\ \A l \in (1 .. 2) \ {k} : S!Members(l)' = S!Members(l)
      BY <1>2, <1>5, <1>7, <1>9, <2>1, <2>2 DEF S!Add, S!High, below
    <3> QED
      BY <3>1 DEF S!SetStep, S!Which
  <2>3. CASE S!Remove(k, n)
    <3>1. S!Members(k)' = S!Members(k) \ {n} /\ BitsInv'
              /\ \A l \in (1 .. 2) \ {k} : S!Members(l)' = S!Members(l)
      BY <1>2, <1>5, <1>7, <1>9, <2>1, <2>3 DEF S!Remove, S!High, below
    <3> QED
      BY <3>1 DEF S!SetStep, S!Which
  <2> QED
    BY <1>10, <2>2, <2>3
\* A loop over the bytes leaves the bits it computes below the amount.
<1>11. ASSUME NEW bits \in SUBSET Int
       PROVE  /\ S!Looped(k, bits) \in SUBSET Int
              /\ S!Looped(k, bits) \cap below = bits \cap below
              /\ ~object.inverted /\ bits \subseteq below => S!Looped(k, bits) \subseteq below
  BY <1>2, <1>4, <1>5, <1>6 DEF S!Looped, S!High, S!Amount, below, all
<1>12. ASSUME NEW l \in 1 .. 2, S!Both(k, l) \/ S!Either(k, l) \/ S!OneOf(k, l)
       PROVE  BitsInv' /\ S!SetStep
  <2>1. PICK bits \in { S!High(k) \cap S!High(l), S!High(k) \union S!High(l),
                        (S!High(k) \ S!High(l)) \union (S!High(l) \ S!High(k)) } :
          S!Becomes(k, S!Looped(k, bits))
    BY <1>12 DEF S!Both, S!Either, S!OneOf
  <2>2. object.amount[l] = object.amount[k]
    BY <1>12 DEF S!Both, S!Either, S!OneOf, S!Amount
  <2>3. S!High(k) \in SUBSET Int /\ S!High(l) \in SUBSET Int /\ bits \in SUBSET Int
    BY <1>2 DEF S!High
  <2>4. ~object.inverted => bits \subseteq below
    BY <1>5, <2>2 DEF S!High, below
  <2>5. /\ BitsInv'
        /\ S!Members(k)' = bits \cap below
        /\ \A m \in (1 .. 2) \ {k} : S!Members(m)' = S!Members(m)
    BY <1>9, <1>11, <2>1, <2>3, <2>4
  <2>6. S!Members(k) = S!High(k) \cap below /\ S!Members(l) = S!High(l) \cap below
    BY <1>7, <2>2 DEF S!High, below
  <2>7. S!Members(k)' \in { S!Members(k) \cap S!Members(l), S!Members(k) \union S!Members(l),
            (S!Members(k) \ S!Members(l)) \union (S!Members(l) \ S!Members(k)) }
    BY <2>5, <2>6
  <2> QED
    BY <2>5, <2>7 DEF S!SetStep, S!Which
<1>13. CASE S!Invert(k)
  <2> DEFINE bits == S!Bits(S!Amount(k)) \ S!High(k)
  <2>1. bits \in SUBSET Int
    BY <1>6 DEF all, S!Amount
  <2>2. /\ BitsInv'
        /\ S!Members(k)' = S!Looped(k, bits) \cap below
        /\ \A m \in (1 .. 2) \ {k} : S!Members(m)' = S!Members(m)
    BY <1>8, <1>11, <1>13, <2>1 DEF S!Invert
  <2>3. S!Members(k)' = (0 .. S!Amount(k) - 1) \ S!Members(k)
    BY <1>4, <1>7, <1>11, <2>1, <2>2 DEF S!Amount, S!High, below, all
  <2> QED
    BY <2>2, <2>3 DEF S!SetStep, S!Which
<1> QED
  BY <1>1, <1>10, <1>12, <1>13

\* A set with no bit in its bytes has no members, and one with no members has no bit
\* there unless a set was inverted.
LEMMA EmptyIsKnown ==
    ASSUME BitsInv
    PROVE  S!EmptyUnlessInverted
<1>1. SUFFICES ASSUME NEW k \in 1 .. 2
               PROVE  /\ S!IsEmpty(k) => S!Members(k) = {}
                      /\ ~object.inverted /\ S!Members(k) = {} => S!IsEmpty(k)
  BY DEF S!EmptyUnlessInverted, S!EmptyKnown, S!Which
<1>2. object.amount[k] \in Nat \ {0} /\ object.high[k] \in SUBSET Int
  BY DEF BitsInv
<1>3. 0 .. object.amount[k] - 1 \subseteq S!Bits(object.amount[k])
  BY <1>2, BitsOfElements
<1>4. S!Members(k) = object.high[k] \cap 0 .. object.amount[k] - 1
  BY BitsMembers
<1>5. ~object.inverted => object.high[k] \subseteq 0 .. object.amount[k] - 1
  BY DEF BitsInv
<1> QED
  BY <1>3, <1>4, <1>5 DEF S!IsEmpty, S!Amount, S!High

-----------------------------------------------------------------------------
(* Trie                                                                     *)

\* A prefix of a sequence has its first elements.
LEMMA PrefixMeans ==
    ASSUME NEW Items, NEW p \in Seq(Items), NEW q \in Seq(Items)
    PROVE  T!IsPrefix(p, q) <=> Len(p) <= Len(q) /\ \A k \in 1 .. Len(p) : p[k] = q[k]
<1> DEFINE m == Len(p)
<1>1. CASE ~(m <= Len(q))
  BY <1>1 DEF T!IsPrefix
<1>2. CASE m <= Len(q)
  <2>1. m \in Nat /\ 1 <= m + 1 /\ m <= Len(p)
    OBVIOUS
  <2>2. SubSeq(p, 1, m) = p
    BY SubSeqFull
  <2> HIDE DEF m
  <2>3. /\ SubSeq(q, 1, m) \in Seq(Items) /\ Len(SubSeq(q, 1, m)) = m - 1 + 1
        /\ \A k \in 1 .. m - 1 + 1 : SubSeq(q, 1, m)[k] = q[1 + k - 1]
    BY <1>2, <2>1, Part
  <2> DEFINE first == SubSeq(q, 1, m)
  <2> HIDE DEF first
  <2>4. first \in Seq(Items) /\ Len(first) = m /\ \A k \in 1 .. m : first[k] = q[k]
    <3>1. m - 1 + 1 = m /\ \A k \in 1 .. m : 1 + k - 1 = k
      BY <2>1
    <3> QED
      BY <2>3, <3>1 DEF first
  <2>5. p = first <=> \A k \in 1 .. m : p[k] = q[k]
    <3>1. (\A k \in 1 .. m : p[k] = q[k]) => p = first
      BY <2>4, SeqEqual DEF m
    <3> QED
      BY <2>4, <3>1
  <2>6. T!IsPrefix(p, q) <=> p = first
    BY <1>2, <2>2 DEF T!IsPrefix, m, first
  <2> QED
    BY <1>2, <2>5, <2>6 DEF m
<1> QED
  BY <1>1, <1>2

\* A prefix of a prefix is one, and prefixes of each other are the same.
LEMMA PrefixOrder ==
    ASSUME NEW Items, NEW p \in Seq(Items), NEW q \in Seq(Items), NEW r \in Seq(Items)
    PROVE  /\ T!IsPrefix(p, p) /\ T!IsPrefix(<<>>, p)
           /\ T!IsPrefix(p, q) /\ T!IsPrefix(q, r) => T!IsPrefix(p, r)
           /\ T!IsPrefix(p, <<>>) => p = <<>>
<1>1. T!IsPrefix(p, p)
  BY PrefixMeans
<1> DEFINE root == <<>>
<1>2. root \in Seq(Items) /\ Len(root) = 0 /\ (Len(p) = 0 => p = root)
  BY EmptySeq
<1> HIDE DEF root
<1>3. T!IsPrefix(root, p)
  <2>1. Len(root) <= Len(p) /\ \A k \in 1 .. Len(root) : root[k] = p[k]
    BY <1>2
  <2> QED
    BY <1>2, <2>1, PrefixMeans
<1>4. ASSUME T!IsPrefix(p, q), T!IsPrefix(q, r)
      PROVE  T!IsPrefix(p, r)
  <2>1. Len(p) <= Len(q) /\ \A k \in 1 .. Len(p) : p[k] = q[k]
    BY <1>4, PrefixMeans
  <2>2. Len(q) <= Len(r) /\ \A k \in 1 .. Len(q) : q[k] = r[k]
    BY <1>4, PrefixMeans
  <2>3. Len(p) <= Len(r) /\ \A k \in 1 .. Len(p) : p[k] = r[k]
    BY <2>1, <2>2
  <2> QED
    BY <2>3, PrefixMeans
<1>5. T!IsPrefix(p, root) => p = root
  <2>1. Len(p) <= Len(root) => Len(p) = 0
    BY <1>2
  <2> QED
    BY <1>2, <2>1, PrefixMeans
<1> QED
  BY <1>1, <1>3, <1>4, <1>5 DEF root

\* The prefixes that the model takes are all there are.
LEMMA PrefixesAre ==
    ASSUME NEW Items, NEW q \in Seq(Items)
    PROVE  T!Prefixes(q) = { p \in Seq(Items) : T!IsPrefix(p, q) }
<1>1. ASSUME NEW l \in 0 .. Len(q)
      PROVE  SubSeq(q, 1, l) \in Seq(Items) /\ T!IsPrefix(SubSeq(q, 1, l), q)
  <2>1. l \in Nat /\ 1 <= l + 1 /\ l <= Len(q)
    OBVIOUS
  <2>2. /\ SubSeq(q, 1, l) \in Seq(Items) /\ Len(SubSeq(q, 1, l)) = l - 1 + 1
        /\ \A k \in 1 .. l - 1 + 1 : SubSeq(q, 1, l)[k] = q[1 + k - 1]
    BY <2>1, Part
  <2>3. l - 1 + 1 = l /\ \A k \in 1 .. l : 1 + k - 1 = k
    BY <2>1
  <2> DEFINE first == SubSeq(q, 1, l)
  <2>4. first \in Seq(Items) /\ Len(first) = l /\ \A k \in 1 .. l : first[k] = q[k]
    BY <2>2, <2>3
  <2> HIDE DEF first
  <2>5. T!IsPrefix(first, q)
    BY SMTT(20), <2>1, <2>4, PrefixMeans
  <2> QED
    BY <2>4, <2>5 DEF first
<1>2. ASSUME NEW p \in Seq(Items), T!IsPrefix(p, q)
      PROVE  \E l \in 0 .. Len(q) : p = SubSeq(q, 1, l)
  <2>1. Len(p) \in 0 .. Len(q)
    BY <1>2 DEF T!IsPrefix
  <2>2. SubSeq(p, 1, Len(p)) = p
    BY SubSeqFull
  <2> QED
    BY <1>2, <2>1, <2>2 DEF T!IsPrefix
<1> QED
  BY <1>1, <1>2 DEF T!Prefixes

\* The strings of a trie, as indices.
Indexed == Seq(0 .. AmountOfChars - 1)

\* Those that are inserted are among them.
LEMMA PathsAreSequences == T!Paths \subseteq Indexed
<1>1. ASSUME NEW m \in 0 .. MaxDepth, NEW p \in [1 .. m -> 0 .. AmountOfChars - 1]
      PROVE  p \in Indexed
  <2>1. m \in Nat
    BY TrieAssumption
  <2>2. \A any : [1 .. m -> any] \subseteq Seq(any)
    BY <2>1
  <2> QED
    BY <2>2 DEF Indexed
<1> QED
  BY <1>1 DEF T!Paths, T!BoundedSeq, T!SeqOf

\* Every node's way from the root is there; and unless an allocation failed it leads on
\* to something that is stored.
Holds(node) == object.nodes[node] # 0

IsTrie(trie) ==
    trie = [nodes |-> trie.nodes, lost |-> trie.lost, amountOfElements |-> trie.amountOfElements,
            pages |-> trie.pages, failed |-> trie.failed]

TrieInv ==
    /\ IsTrie(object)
    /\ object.failed \in BOOLEAN
    /\ object.nodes = [path \in DOMAIN object.nodes |-> object.nodes[path]]
    /\ DOMAIN object.nodes \subseteq Indexed
    /\ <<>> \in DOMAIN object.nodes
    /\ \A p \in DOMAIN object.nodes : \A q \in Indexed :
           T!IsPrefix(q, p) => q \in DOMAIN object.nodes
    /\ ~object.failed =>
           \A p \in DOMAIN object.nodes \ {<<>>} :
               \E q \in DOMAIN object.nodes : Holds(q) /\ T!IsPrefix(p, q)

\* A trie has its root only at first.
LEMMA TrieInit == T!Init => TrieInv
<1> SUFFICES ASSUME T!Init PROVE TrieInv
  OBVIOUS
<1>1. /\ IsTrie(object) /\ object.failed = FALSE
      /\ object.nodes = [path \in {<<>>} |-> 0]
  BY DEF T!Init, IsTrie
<1>2. <<>> \in Indexed /\ DOMAIN object.nodes = {<<>>}
  BY <1>1 DEF Indexed
<1>3. \A q \in Indexed : T!IsPrefix(q, <<>>) => q = <<>>
  BY PrefixOrder DEF Indexed
<1> QED
  BY <1>1, <1>2, <1>3 DEF TrieInv

\* What is stored.
LEMMA TrieHolds ==
    ASSUME TrieInv
    PROVE  /\ \A p \in DOMAIN object.nodes : T!Get(p) = object.nodes[p]
           /\ \A p \in Indexed \ DOMAIN object.nodes : T!Get(p) = 0
           /\ T!Stored = { p \in DOMAIN object.nodes : Holds(p) }
<1>1. ASSUME NEW p \in DOMAIN object.nodes
      PROVE  T!GetPrefix(p)
  <2>1. p \in Indexed
    BY DEF TrieInv
  <2>2. T!Prefixes(p) = { q \in Indexed : T!IsPrefix(q, p) }
    BY <2>1, PrefixesAre DEF Indexed
  <2> QED
    BY <2>2 DEF TrieInv, T!GetPrefix, T!nodes
<1>2. ASSUME NEW p \in Indexed \ DOMAIN object.nodes
      PROVE  ~T!GetPrefix(p)
  <2>1. p \in T!Prefixes(p)
    BY PrefixesAre, PrefixOrder DEF Indexed
  <2> QED
    BY <2>1 DEF T!GetPrefix, T!nodes
<1> QED
  BY <1>1, <1>2 DEF T!Get, T!Stored, T!nodes, Holds

\* The same after a call.
LEMMA TrieHoldsThen == (TrieInv =>
    /\ \A p \in DOMAIN object.nodes : T!Get(p) = object.nodes[p]
    /\ \A p \in Indexed \ DOMAIN object.nodes : T!Get(p) = 0
    /\ T!Stored = { p \in DOMAIN object.nodes : Holds(p) })'
BY TrieHolds, PTL

\* A prefix is found exactly when something stored begins with it.
LEMMA TrieLeads == TrieInv => T!NoDeadNodes
<1> SUFFICES ASSUME TrieInv, ~object.failed, NEW path \in T!Paths \ {<<>>}
             PROVE  T!GetPrefix(path) <=> \E q \in T!Stored : T!IsPrefix(path, q)
  BY DEF T!NoDeadNodes
<1>1. path \in Indexed /\ T!Prefixes(path) = { p \in Indexed : T!IsPrefix(p, path) }
  BY PathsAreSequences, PrefixesAre DEF Indexed
<1>2. T!Stored = { p \in DOMAIN object.nodes : Holds(p) }
  BY TrieHolds
<1>3. ASSUME T!GetPrefix(path)
      PROVE  \E q \in T!Stored : T!IsPrefix(path, q)
  <2>1. T!IsPrefix(path, path)
    BY <1>1, PrefixOrder DEF Indexed
  <2>2. path \in DOMAIN object.nodes
    BY <1>1, <1>3, <2>1 DEF T!GetPrefix, T!nodes
  <2> QED
    BY <1>2, <2>2 DEF TrieInv
<1>4. ASSUME NEW q \in T!Stored, T!IsPrefix(path, q)
      PROVE  T!GetPrefix(path)
  <2>1. q \in DOMAIN object.nodes /\ q \in Indexed
    BY <1>2 DEF TrieInv
  <2>2. path \in DOMAIN object.nodes
    BY <1>1, <1>4, <2>1 DEF TrieInv
  <2> QED
    BY <1>1, <2>2 DEF TrieInv, T!GetPrefix, T!nodes
<1> QED
  BY <1>3, <1>4

\* The way to a path is made, with nothing on it.
LEMMA WayThere ==
    ASSUME TrieInv, NEW last \in Indexed
    PROVE  /\ DOMAIN T!WithWay(last) = DOMAIN object.nodes \union { p \in Indexed : T!IsPrefix(p,
              last) }
           /\ \A p \in DOMAIN object.nodes : T!WithWay(last)[p] = object.nodes[p]
           /\ \A p \in DOMAIN T!WithWay(last) \ DOMAIN object.nodes : T!WithWay(last)[p] = 0
           /\ T!WithWay(last) = [p \in DOMAIN T!WithWay(last) |-> T!WithWay(last)[p]]
<1>1. T!Prefixes(last) = { p \in Indexed : T!IsPrefix(p, last) }
  BY PrefixesAre DEF Indexed
<1>2. DOMAIN object.nodes \subseteq Indexed
  BY DEF TrieInv
<1> QED
  BY <1>1, <1>2, TrieHolds DEF T!WithWay, T!nodes

\* Prefixes among the nodes when the way to a path is made.
LEMMA WayClosed ==
    ASSUME TrieInv, NEW last \in Indexed
    PROVE  LET all == DOMAIN object.nodes \union { p \in Indexed : T!IsPrefix(p, last) } IN
           /\ all \subseteq Indexed /\ <<>> \in all
           /\ \A p \in all : \A q \in Indexed : T!IsPrefix(q, p) => q \in all
<1>1. ASSUME NEW p \in Indexed, T!IsPrefix(p, last), NEW q \in Indexed, T!IsPrefix(q, p)
      PROVE  T!IsPrefix(q, last)
  BY <1>1, PrefixOrder DEF Indexed
<1> QED
  BY <1>1 DEF TrieInv

\* What a sequence has behind the char that comes after a prefix.
LEMMA BehindIs ==
    ASSUME NEW path \in Indexed, NEW last \in T!Prefixes(path) \ {path}
    PROVE  T!Behind(last, path) \in Indexed
<1>1. last \in Indexed /\ T!IsPrefix(last, path)
  BY PrefixesAre DEF Indexed
<1>2. Len(last) <= Len(path) /\ \A k \in 1 .. Len(last) : last[k] = path[k]
  BY <1>1, PrefixMeans DEF Indexed
<1>3. Len(last) # Len(path)
  BY <1>1, <1>2, SeqEqual DEF Indexed
<1>4. Len(last) + 2 \in Nat /\ 1 <= Len(last) + 2 /\ Len(last) + 2 <= Len(path) + 1
  BY <1>1, <1>2, <1>3 DEF Indexed
<1> DEFINE from == Len(last) + 2
<1>5. from \in Nat /\ 1 <= from /\ from <= Len(path) + 1
  BY <1>4
<1> HIDE DEF from
<1>6. path \in Seq(0 .. AmountOfChars - 1) /\ Len(path) \in Nat /\ Len(path) <= Len(path)
  BY DEF Indexed
<1>7. SubSeq(path, from, Len(path)) \in Seq(0 .. AmountOfChars - 1)
  BY <1>5, <1>6, Part
<1> QED
  BY <1>7 DEF Indexed, T!Behind, from

\* What a put that gives slot 0 leaves of the record.
LEMMA WipedIs ==
    ASSUME TrieInv, NEW rest
    PROVE  IsTrie(T!Wiped(rest)) /\ T!Wiped(rest).failed = object.failed
<1>1. PICK lost, amount, pages :
        T!Wiped(rest) = [object EXCEPT !.lost = lost, !.amountOfElements = amount,
                                       !.pages = pages]
  BY Zenon DEF T!Wiped
<1> DEFINE wiped == T!Wiped(rest)
<1> HIDE DEF wiped
<1>2. wiped = [object EXCEPT !.lost = lost, !.amountOfElements = amount, !.pages = pages]
  BY <1>1 DEF wiped
<1>3. IsTrie(object)
  BY DEF TrieInv
<1>4. IsTrie(wiped) /\ wiped.failed = object.failed
  BY <1>2, <1>3 DEF IsTrie
<1> QED
  BY <1>4 DEF wiped

\* An insertion that succeeds.
LEMMA InsertStep ==
    ASSUME TrieInv, NEW path \in T!Paths, NEW data \in Data, T!Insert(path, data)
    PROVE  TrieInv' /\ T!D!Put(path, data)
<1> DEFINE way == T!WithWay(path)
<1>1. path \in Indexed /\ data # 0 /\ T!IsPrefix(path, path)
  BY PathsAreSequences, TrieAssumption, PrefixOrder DEF Indexed
<1>2. /\ DOMAIN way = DOMAIN object.nodes \union { p \in Indexed : T!IsPrefix(p, path) }
      /\ \A p \in DOMAIN object.nodes : way[p] = object.nodes[p]
      /\ \A p \in DOMAIN way \ DOMAIN object.nodes : way[p] = 0
      /\ path \in DOMAIN way
  BY <1>1, WayThere
<1>3. /\ object'.nodes = [way EXCEPT ![path] = data] /\ object'.failed = object.failed
      /\ IsTrie(object')
  <2>1. PICK amount, pages :
          object' = [object EXCEPT !.nodes = [way EXCEPT ![path] = data],
                                   !.amountOfElements = amount, !.pages = pages]
    BY Zenon DEF T!Insert
  <2> HIDE DEF way
  <2> QED
    BY <2>1 DEF TrieInv, IsTrie
<1>4. /\ DOMAIN way \subseteq Indexed /\ <<>> \in DOMAIN way
      /\ \A p \in DOMAIN way : \A q \in Indexed : T!IsPrefix(q, p) => q \in DOMAIN way
  BY <1>1, <1>2, WayClosed
<1> HIDE DEF way
<1>5. /\ DOMAIN object'.nodes = DOMAIN way
      /\ \A p \in DOMAIN way : object'.nodes[p] = IF p = path THEN data ELSE way[p]
      /\ object'.nodes = [p \in DOMAIN object'.nodes |-> object'.nodes[p]]
  BY <1>3
<1>6. ASSUME ~object.failed, NEW p \in DOMAIN way \ {<<>>}
      PROVE  \E q \in DOMAIN way : object'.nodes[q] # 0 /\ T!IsPrefix(p, q)
  <2>1. CASE T!IsPrefix(p, path)
    BY <1>1, <1>2, <1>5, <2>1
  <2>2. CASE ~T!IsPrefix(p, path)
    <3>1. PICK q \in DOMAIN object.nodes : Holds(q) /\ T!IsPrefix(p, q)
      BY <1>2, <1>6, <2>2 DEF TrieInv
    <3> QED
      BY <1>2, <1>5, <2>2, <3>1 DEF Holds
  <2> QED
    BY <2>1, <2>2
<1>7. TrieInv'
  BY <1>3, <1>4, <1>5, <1>6 DEF TrieInv, Holds
<1>8. T!Stored = { p \in DOMAIN object.nodes : Holds(p) }
  BY TrieHolds
<1>9. T!Stored' = { p \in DOMAIN object'.nodes : object'.nodes[p] # 0 }
  BY <1>7, TrieHoldsThen DEF Holds
<1>10. T!Stored' = T!Stored \union {path}
  BY <1>1, <1>2, <1>5, <1>8, <1>9 DEF Holds
<1>11. \A p \in T!Stored \union {path} : object'.nodes[p] = IF p = path THEN data
         ELSE object.nodes[p]
  BY <1>2, <1>5, <1>8
<1> QED
  BY <1>7, <1>10, <1>11 DEF T!D!Put, T!nodes

\* One whose allocation failed leaves the way as far as it got.
LEMMA InsertFailsStep ==
    ASSUME TrieInv, NEW path \in T!Paths, T!InsertFails(path)
    PROVE  TrieInv' /\ T!D!Keep
<1>1. path \in Indexed
  BY PathsAreSequences
<1>2. PICK last \in T!Prefixes(path) : \E amount :
        object' = [object EXCEPT !.nodes = T!WithWay(last), !.failed = TRUE,
                                 !.amountOfElements = amount]
  BY Zenon DEF T!InsertFails
<1>3. last \in Indexed
  BY <1>1, PrefixesAre DEF Indexed
<1> DEFINE way == T!WithWay(last)
<1>4. /\ DOMAIN way = DOMAIN object.nodes \union { p \in Indexed : T!IsPrefix(p, last) }
      /\ \A p \in DOMAIN object.nodes : way[p] = object.nodes[p]
      /\ \A p \in DOMAIN way \ DOMAIN object.nodes : way[p] = 0
      /\ way = [p \in DOMAIN way |-> way[p]]
  BY <1>3, WayThere
<1>5. /\ DOMAIN way \subseteq Indexed /\ <<>> \in DOMAIN way
      /\ \A p \in DOMAIN way : \A q \in Indexed : T!IsPrefix(q, p) => q \in DOMAIN way
  BY <1>3, <1>4, WayClosed
<1> HIDE DEF way
<1>6. object'.nodes = way /\ object'.failed = TRUE /\ IsTrie(object')
  BY <1>2 DEF way, TrieInv, IsTrie
<1>7. TrieInv'
  BY <1>4, <1>5, <1>6 DEF TrieInv
<1>8. T!Stored = { p \in DOMAIN object.nodes : Holds(p) }
  BY TrieHolds
<1>9. T!Stored' = { p \in DOMAIN way : way[p] # 0 }
  BY <1>6, <1>7, TrieHoldsThen DEF Holds
<1>10. T!Stored' = T!Stored
  BY <1>4, <1>8, <1>9 DEF Holds
<1>11. \A p \in T!Stored : object'.nodes[p] = object.nodes[p]
  BY <1>4, <1>6, <1>8
<1> QED
  BY <1>7, <1>10, <1>11 DEF T!D!Keep, T!nodes

\* One that clears the root leaves the way behind it alone.
LEMMA InsertWipedStep ==
    ASSUME TrieInv, NEW path \in T!Paths, NEW data \in Data, T!InsertWiped(path, data)
    PROVE  TrieInv'
<1>1. path \in Indexed /\ data # 0
  BY PathsAreSequences, TrieAssumption
<1>2. PICK last \in T!Prefixes(path) \ {path} :
        object' = [T!Wiped(T!Behind(last, path)) EXCEPT
                      !.nodes = [q \in T!Prefixes(T!Behind(last, path)) |->
                                     IF q = T!Behind(last, path) THEN data ELSE 0]]
  BY Zenon DEF T!InsertWiped, T!IsLast
<1> DEFINE rest == T!Behind(last, path)
<1>3. rest \in Indexed
  BY <1>1, <1>2, BehindIs
<1> DEFINE wiped == T!Wiped(rest)
           made  == [q \in T!Prefixes(rest) |-> IF q = rest THEN data ELSE 0]
<1>4. object' = [wiped EXCEPT !.nodes = made]
  BY <1>2, Zenon
<1>5. /\ object'.nodes = [q \in T!Prefixes(rest) |-> IF q = rest THEN data ELSE 0]
      /\ object'.failed = object.failed /\ IsTrie(object')
  <2>1. IsTrie(wiped) /\ wiped.failed = object.failed
    BY WipedIs
  <2>2. object' = [wiped EXCEPT !.nodes = made]
    BY <1>4
  <2> HIDE DEF wiped, made, rest
  <2>3. object'.nodes = made /\ object'.failed = object.failed /\ IsTrie(object')
    BY <2>1, <2>2 DEF IsTrie
  <2> QED
    BY <2>3 DEF made
<1> HIDE DEF rest, wiped, made
<1>6. T!Prefixes(rest) = { p \in Indexed : T!IsPrefix(p, rest) }
  BY <1>3, PrefixesAre DEF Indexed
<1>7. /\ DOMAIN object'.nodes = { p \in Indexed : T!IsPrefix(p, rest) }
      /\ \A p \in DOMAIN object'.nodes : object'.nodes[p] = IF p = rest THEN data ELSE 0
      /\ object'.nodes = [p \in DOMAIN object'.nodes |-> object'.nodes[p]]
  BY <1>5, <1>6
<1>8. /\ <<>> \in DOMAIN object'.nodes /\ rest \in DOMAIN object'.nodes
      /\ \A p \in DOMAIN object'.nodes : \A q \in Indexed :
             T!IsPrefix(q, p) => q \in DOMAIN object'.nodes
  <2>1. <<>> \in Indexed
    BY DEF Indexed
  <2> QED
    BY <1>3, <1>7, <2>1, PrefixOrder DEF Indexed
<1>9. \A p \in DOMAIN object'.nodes :
        \E q \in DOMAIN object'.nodes : object'.nodes[q] # 0 /\ T!IsPrefix(p, q)
  BY <1>1, <1>7, <1>8
<1> QED
  BY <1>5, <1>7, <1>8, <1>9 DEF TrieInv, Holds

\* Or nothing but the root, when the next allocation fails.
LEMMA InsertWipedFailsStep ==
    ASSUME TrieInv, NEW path \in T!Paths, T!InsertWipedFails(path)
    PROVE  TrieInv'
<1> DEFINE wiped == T!Wiped(<<>>)
           made  == [q \in {<<>>} |-> 0]
<1>1. object' = [wiped EXCEPT !.nodes = made, !.failed = TRUE]
  BY Zenon DEF T!InsertWipedFails
<1>2. object'.nodes = [q \in {<<>>} |-> 0] /\ object'.failed = TRUE /\ IsTrie(object')
  <2>1. IsTrie(wiped)
    BY WipedIs
  <2>2. object' = [wiped EXCEPT !.nodes = made, !.failed = TRUE]
    BY <1>1
  <2> HIDE DEF wiped, made
  <2>3. object'.nodes = made /\ object'.failed = TRUE /\ IsTrie(object')
    BY <2>1, <2>2 DEF IsTrie
  <2> QED
    BY <2>3 DEF made
<1>3. <<>> \in Indexed /\ DOMAIN object'.nodes = {<<>>}
  BY <1>2 DEF Indexed
<1>4. \A q \in Indexed : T!IsPrefix(q, <<>>) => q = <<>>
  BY PrefixOrder DEF Indexed
<1> QED
  BY <1>2, <1>3, <1>4 DEF TrieInv

\* A removal frees what only leads to its path.
LEMMA RemoveStep ==
    ASSUME TrieInv, NEW path \in T!Paths, T!RemoveSequence(path)
    PROVE  /\ TrieInv'
           /\ T!IsPrefixFree(T!Stored) /\ path \in T!Stored => T!D!Drop(path)
<1> DEFINE freed == T!FreedBy(path)
           kept == DOMAIN object.nodes \ freed
<1>1. path \in Indexed /\ path \in DOMAIN object.nodes /\ DOMAIN object.nodes \subseteq Indexed
  BY PathsAreSequences DEF T!RemoveSequence, T!nodes, TrieInv
<1>2. freed = { p \in Indexed \ {<<>>} :
                  /\ T!IsPrefix(p, path)
                  /\ \A q \in DOMAIN object.nodes : T!IsPrefix(p, q) => T!IsPrefix(q, path) }
  <2>1. T!Prefixes(path) = { p \in Indexed : T!IsPrefix(p, path) }
    BY <1>1, PrefixesAre DEF Indexed
  <2> QED
    BY <2>1 DEF T!FreedBy, T!nodes
<1>3. /\ object'.nodes = [q \in kept |-> IF q = path THEN 0 ELSE object.nodes[q]]
      /\ object'.failed = object.failed
      /\ IsTrie(object')
  <2>1. PICK amount :
          object' = [object EXCEPT
                        !.nodes = [q \in kept |-> IF q = path THEN 0 ELSE object.nodes[q]],
                        !.amountOfElements = amount]
    BY Zenon DEF T!RemoveSequence, T!nodes
  <2> HIDE DEF kept
  <2> QED
    BY <2>1 DEF TrieInv, IsTrie
<1> HIDE DEF freed
<1>4. /\ DOMAIN object'.nodes = kept
      /\ \A p \in kept : object'.nodes[p] = IF p = path THEN 0 ELSE object.nodes[p]
      /\ object'.nodes = [p \in DOMAIN object'.nodes |-> object'.nodes[p]]
  BY <1>3
<1>5. \A p, q, r \in Indexed : T!IsPrefix(p, q) /\ T!IsPrefix(q, r) => T!IsPrefix(p, r)
  BY PrefixOrder DEF Indexed
<1>6. \A p \in Indexed : T!IsPrefix(p, <<>>) => p = <<>>
  BY PrefixOrder DEF Indexed
<1>7. ASSUME NEW p \in kept, NEW q \in Indexed, T!IsPrefix(q, p)
      PROVE  q \in kept
  <2> SUFFICES ASSUME q \in freed PROVE FALSE
    BY <1>7 DEF TrieInv
  <2>1. p \in Indexed /\ q \in Indexed /\ T!IsPrefix(p, path)
    BY <1>1, <1>2, <1>7
  <2>2. p # <<>>
    BY <1>2, <1>6, <1>7
  <2>3. \A r \in DOMAIN object.nodes : T!IsPrefix(p, r) => T!IsPrefix(r, path)
    BY <1>1, <1>2, <1>5, <1>7, <2>1
  <2> QED
    BY <1>2, <2>1, <2>2, <2>3
<1>8. ASSUME NEW p \in kept, ~T!IsPrefix(p, path)
      PROVE  object'.nodes[p] = object.nodes[p]
  <2>1. T!IsPrefix(path, path)
    BY <1>1, PrefixOrder DEF Indexed
  <2> QED
    BY <1>4, <1>8, <2>1
<1>9. ASSUME NEW q \in DOMAIN object.nodes, ~T!IsPrefix(q, path)
      PROVE  q \in kept
  BY <1>2, <1>9
<1>10. ASSUME ~object.failed, NEW p \in kept \ {<<>>}
       PROVE  \E q \in kept : object'.nodes[q] # 0 /\ T!IsPrefix(p, q)
  <2>1. PICK r \in DOMAIN object.nodes : T!IsPrefix(p, r) /\ ~T!IsPrefix(r, path)
    <3>1. CASE T!IsPrefix(p, path)
      BY <1>1, <1>2, <3>1
    <3>2. CASE ~T!IsPrefix(p, path)
      <4>1. T!IsPrefix(p, p)
        BY <1>1, PrefixOrder DEF Indexed
      <4> QED
        BY <3>2, <4>1
    <3> QED
      BY <3>1, <3>2
  <2>2. r # <<>>
    BY <1>1, <2>1, PrefixOrder DEF Indexed
  <2>3. PICK s \in DOMAIN object.nodes : Holds(s) /\ T!IsPrefix(r, s)
    BY <1>10, <2>2 DEF TrieInv
  <2>4. ~T!IsPrefix(s, path) /\ T!IsPrefix(p, s)
    BY <1>1, <1>5, <2>1, <2>3
  <2>5. s \in kept
    BY <1>9, <2>4
  <2> QED
    BY <1>8, <2>3, <2>4, <2>5 DEF Holds
<1>11. <<>> \in kept /\ kept \subseteq Indexed
  BY <1>1, <1>2 DEF TrieInv
<1>12. TrieInv'
  <2> HIDE DEF kept
  <2> QED
    BY <1>3, <1>4, <1>7, <1>10, <1>11 DEF TrieInv, Holds
<1>13. ASSUME T!IsPrefixFree(T!Stored), path \in T!Stored
       PROVE  T!D!Drop(path)
  <2>1. T!Stored = { p \in DOMAIN object.nodes : Holds(p) }
    BY TrieHolds
  <2>2. T!Stored' = { p \in kept : object'.nodes[p] # 0 }
    BY <1>4, <1>12, TrieHoldsThen DEF Holds
  <2>3. ASSUME NEW p \in T!Stored, p # path
        PROVE  p \in kept /\ object'.nodes[p] = object.nodes[p]
    <3>1. ~T!IsPrefix(p, path)
      BY <1>13, <2>3 DEF T!IsPrefixFree
    <3> QED
      BY <1>8, <1>9, <2>1, <3>1
  <2>4. T!Stored' = T!Stored \ {path}
    <3>1. \A p \in T!Stored' : p \in T!Stored /\ p # path
      BY <1>4, <2>1, <2>2 DEF Holds
    <3>2. \A p \in T!Stored \ {path} : p \in T!Stored'
      BY <2>1, <2>2, <2>3 DEF Holds
    <3> QED
      BY <3>1, <3>2
  <2> QED
    BY <1>13, <2>3, <2>4 DEF T!D!Drop, T!nodes
<1> QED
  BY <1>12, <1>13

\* Every call keeps the invariant.
LEMMA TrieStep ==
    ASSUME TrieInv, T!Next
    PROVE  TrieInv'
BY InsertStep, InsertWipedStep, InsertFailsStep, InsertWipedFailsStep, RemoveStep DEF T!Next

\* Every call does to what is stored what it does to a map.
LEMMA TrieIsDict == TrieInv => T!DictStep
BY InsertStep, InsertFailsStep, RemoveStep DEF T!DictStep

-----------------------------------------------------------------------------
(* HashMap                                                                  *)

\* The sizes of sets are the same there.
LEMMA SameMapSizes == \A s : M!Cardinality(s) = Cardinality(s)
BY DEF M!Cardinality, Cardinality

\* The place of a key is in the table.
LEMMA PlaceIn ==
    ASSUME NEW key \in Keys, NEW length \in Nat \ {0}
    PROVE  M!Place(key, length) \in 0 .. length - 1
<1>1. Hash[key] \in Nat
  BY MapAssumption
<1> DEFINE n == Hash[key]
<1> HIDE DEF n
<1>2. n \in Nat => n % length \in 0 .. length - 1
  OBVIOUS
<1> QED
  BY <1>1, <1>2 DEF M!Place, n

\* Every slot but the one at the end of the chains.
Nodes(map) == DOMAIN map.slots \ {0}

\* The place of the chain that a node is for, and the nodes for a place.
PlaceOf(map, length, z) == M!Place(map.slots[z].key, length)

At(map, length, h) == { z \in Nodes(map) : PlaceOf(map, length, z) = h }

\* The node of the highest rank, or 0 for none.
IsLast(rank, G, z) ==
    \/ G = {} /\ z = 0
    \/ z \in G /\ \A j \in G : rank[j] <= rank[z]

\* Those of its chain that come after it.
Under(map, length, rank, z) ==
    { j \in At(map, length, PlaceOf(map, length, z)) : rank[j] < rank[z] }

\* A node.
Entry == [key : Keys, element : Held, next : Nat]

\* Slots of different keys, and a table of a length.
Filled(map, length) ==
    /\ map = [slots |-> map.slots, table |-> map.table]
    /\ map.slots = [z \in DOMAIN map.slots |-> map.slots[z]]
    /\ IsFiniteSet(DOMAIN map.slots) /\ DOMAIN map.slots \subseteq Nat
    /\ 0 \in DOMAIN map.slots /\ map.slots[0] = [key |-> NULL, element |-> NULL, next |-> 0]
    /\ \A z \in Nodes(map) : map.slots[z] \in Entry
    /\ \A z, j \in Nodes(map) : map.slots[z].key = map.slots[j].key => z = j
    /\ length \in Nat \ {0} /\ DOMAIN map.table = 0 .. length - 1
    /\ map.table = [h \in 0 .. length - 1 |-> map.table[h]]

\* The chain at a place goes through the nodes of the keys that hash there, from rank to
\* rank: a rank tells how late a node was put in front of its chain.
Ranked(map, length, top, rank) ==
    /\ Filled(map, length)
    /\ top \in Nat /\ rank \in [Nodes(map) -> 0 .. top - 1]
    /\ \A z, j \in Nodes(map) : rank[z] = rank[j] => z = j
    /\ \A h \in 0 .. length - 1 : IsLast(rank, At(map, length, h), map.table[h])
    /\ \A z \in Nodes(map) : IsLast(rank, Under(map, length, rank, z), map.slots[z].next)

\* So it is the one that is taken.
LEMMA WalkIs ==
    ASSUME NEW links, NEW first, NEW n \in Nat
    PROVE  Walk(links, first, n) = WalkStep(links, first, n, Walk(links, first, n))
<1>1. \E place : place = WalkStep(links, first, n, place)
  BY WalkExists
<1>2. Walk(links, first, n) = CHOOSE place : place = WalkStep(links, first, n, place)
  BY Zenon DEF Walk, WalkStep
<1> QED
  BY Zenon, <1>1, <1>2

\* A chain is walked as far as there are slots.
LEMMA ChainWalks ==
    ASSUME NEW first, NEW map, NEW walk,
           walk = Walk(map.slots, first, M!Cardinality(DOMAIN map.slots))
    PROVE  M!ChainFrom(first, map) =
               [n \in 1 .. M!Cardinality({ m \in DOMAIN walk : walk[m] # 0 }) |-> walk[n - 1]]
<1> DEFINE place == Walk(map.slots, first, M!Cardinality(DOMAIN map.slots))
<1>1. M!ChainFrom(first, map) =
          [n \in 1 .. M!Cardinality({ m \in DOMAIN place : place[m] # 0 }) |-> place[n - 1]]
  BY Zenon DEF M!ChainFrom, Walk
<1> HIDE DEF place
<1> QED
  BY <1>1, Zenon DEF place

\* No chain has the end of the chains among its nodes.
LEMMA AtNodes ==
    ASSUME NEW map, NEW length, NEW h
    PROVE  At(map, length, h) \subseteq Nodes(map) /\ 0 \notin At(map, length, h)
BY DEF At, Nodes

\* Every element of a set, once.
Lists(f, G) ==
    \E c \in Nat :
        /\ f \in [1 .. c -> G]
        /\ \A k, l \in 1 .. c : f[k] = f[l] => k = l
        /\ \A j \in G : \E k \in 1 .. c : f[k] = j

\* What a walk has come to after m steps: it goes down in rank, and has left nothing out.
WalkedTo(walk, G, rank, m) ==
    /\ walk[m] \in G \union {0}
    /\ walk[m] # 0 => \A l \in 0 .. m - 1 : walk[l] \in G /\ rank[walk[m]] < rank[walk[l]]
    /\ \A j \in G : \/ \E l \in 0 .. m - 1 : walk[l] = j
                    \/ walk[m] # 0 /\ rank[j] <= rank[walk[m]]

\* So it does from step to step.
LEMMA WalkGoesOn ==
    ASSUME NEW map, NEW length, NEW top, NEW rank, Ranked(map, length, top, rank),
           NEW h \in 0 .. length - 1, NEW walk, NEW m \in Nat \ {0},
           WalkedTo(walk, At(map, length, h), rank, m - 1),
           walk[m] = map.slots[walk[m - 1]].next
    PROVE  WalkedTo(walk, At(map, length, h), rank, m)
<1> DEFINE G == At(map, length, h)
           n == m - 1
           l == walk[n]
<1>1. n \in Nat /\ m = n + 1 /\ n - 1 \in Int
  OBVIOUS
<1>2. G \subseteq Nodes(map) /\ 0 \notin G
  BY AtNodes
<1>3. \A j \in G : rank[j] \in Nat
  BY <1>2 DEF Ranked
<1>4. \A z, j \in G : rank[z] = rank[j] => z = j
  BY <1>2 DEF Ranked
<1>5. /\ l \in G \union {0}
      /\ l # 0 => \A k \in 0 .. n - 1 : walk[k] \in G /\ rank[l] < rank[walk[k]]
      /\ \A j \in G : (\E k \in 0 .. n - 1 : walk[k] = j) \/ (l # 0 /\ rank[j] <= rank[l])
  BY DEF WalkedTo
<1>6. \A k : k \in 0 .. n <=> k \in 0 .. n - 1 \/ k = n
  BY <1>1
<1>7. CASE l = 0
  <2>1. walk[m] = 0
    BY <1>7 DEF Ranked, Filled
  <2>2. \A j \in G : \E k \in 0 .. n : walk[k] = j
    BY <1>5, <1>6, <1>7
  <2> HIDE DEF G, n
  <2> QED
    BY <2>1, <2>2 DEF WalkedTo, G, n
<1>8. CASE l # 0
  <2>1. l \in G
    BY <1>5, <1>8
  <2>2. IsLast(rank, Under(map, length, rank, l), walk[m])
    BY <1>2, <2>1 DEF Ranked
  <2>3. Under(map, length, rank, l) = { j \in G : rank[j] < rank[l] }
    BY <2>1 DEF Under, At
  <2> HIDE DEF G, n
  <2>4. CASE Under(map, length, rank, l) = {} /\ walk[m] = 0
    <3>1. ASSUME NEW j \in G
          PROVE  \E k \in 0 .. n : walk[k] = j
      <4>1. CASE \E k \in 0 .. n - 1 : walk[k] = j
        BY <1>6, <4>1
      <4>2. CASE rank[j] <= rank[l]
        <5>1. rank[j] \in Nat /\ rank[l] \in Nat /\ ~(rank[j] < rank[l])
          BY <1>3, <2>1, <2>3, <2>4
        <5>2. rank[j] = rank[l]
          BY <4>2, <5>1
        <5>3. j = l
          BY SMTT(20), <1>4, <2>1, <5>2
        <5> QED
          BY <1>1, <1>6, <5>3
      <4> QED
        BY <1>5, <4>1, <4>2
    <3> QED
      BY <2>4, <3>1 DEF WalkedTo, G, n
  <2>5. CASE /\ walk[m] \in Under(map, length, rank, l)
             /\ \A j \in Under(map, length, rank, l) : rank[j] <= rank[walk[m]]
    <3>1. walk[m] \in G /\ rank[walk[m]] < rank[l] /\ walk[m] # 0
      BY <1>2, <2>3, <2>5
    <3>2. ASSUME NEW k \in 0 .. n
          PROVE  walk[k] \in G /\ rank[walk[m]] < rank[walk[k]]
      <4>1. CASE k = n
        BY <2>1, <3>1, <4>1
      <4>2. CASE k \in 0 .. n - 1
        <5>1. walk[k] \in G /\ rank[l] < rank[walk[k]]
          BY <1>5, <1>8, <4>2
        <5> QED
          BY <1>3, <2>1, <3>1, <5>1
      <4> QED
        BY <1>6, <4>1, <4>2
    <3>3. ASSUME NEW j \in G
          PROVE  (\E k \in 0 .. n : walk[k] = j) \/ rank[j] <= rank[walk[m]]
      <4>1. CASE \E k \in 0 .. n - 1 : walk[k] = j
        BY <1>6, <4>1
      <4>2. CASE rank[j] <= rank[l]
        <5>1. CASE rank[j] < rank[l]
          BY <2>3, <2>5, <5>1
        <5>2. CASE rank[j] = rank[l]
          <6>1. j = l
            BY <1>4, <2>1, <5>2
          <6> QED
            BY <1>1, <1>6, <6>1
        <5> QED
          BY <1>3, <2>1, <4>2, <5>1, <5>2
      <4> QED
        BY <1>5, <4>1, <4>2
    <3> QED
      BY <3>1, <3>2, <3>3 DEF WalkedTo, G, n
  <2> QED
    BY <2>2, <2>4, <2>5 DEF IsLast
<1> QED
  BY <1>7, <1>8

\* A chain has every node of its place.
LEMMA ChainIs ==
    ASSUME NEW map, NEW length, NEW top, NEW rank, Ranked(map, length, top, rank),
           NEW h \in 0 .. length - 1
    PROVE  Lists(M!ChainFrom(map.table[h], map), At(map, length, h))
<1> DEFINE G == At(map, length, h)
           total == Cardinality(DOMAIN map.slots)
           walk == Walk(map.slots, map.table[h], total)
<1>1. total \in Nat
  BY FS_CardinalityType DEF Ranked, Filled
<1>2. G \subseteq Nodes(map) /\ 0 \notin G
  BY AtNodes
<1> HIDE DEF total
<1>3. walk = [m \in 0 .. total |-> IF m = 0 THEN map.table[h] ELSE map.slots[walk[m - 1]].next]
  <2>1. walk = WalkStep(map.slots, map.table[h], total, walk)
    BY <1>1, WalkIs, Zenon
  <2> HIDE DEF walk
  <2> QED
    BY Zenon, <2>1 DEF WalkStep
<1> HIDE DEF walk
<1>4. DOMAIN walk = 0 .. total /\ walk[0] = map.table[h]
  BY <1>1, <1>3
<1>5. \A n \in 1 .. total : walk[n] = map.slots[walk[n - 1]].next
  BY <1>1, <1>3
<1> HIDE DEF G
<1>6. ASSUME NEW m \in 0 .. total
      PROVE  WalkedTo(walk, G, rank, m)
  <2> DEFINE Off == { n \in 0 .. total : ~WalkedTo(walk, G, rank, n) }
  <2> SUFFICES ASSUME Off # {} PROVE FALSE
    OBVIOUS
  <2>1. PICK n \in Off : \A k \in Off : n <= k
    <3>1. Off \in SUBSET Nat
      BY <1>1
    <3> HIDE DEF Off
    <3> QED
      BY <3>1, LeastNatural
  <2>2. n # 0
    <3>1. IsLast(rank, G, walk[0])
      BY <1>4 DEF Ranked, G
    <3>2. WalkedTo(walk, G, rank, 0)
      BY <1>2, <3>1 DEF IsLast, WalkedTo
    <3> QED
      BY <3>2
  <2>3. n \in Nat \ {0} /\ n \in 1 .. total /\ n - 1 \in 0 .. total /\ ~(n <= n - 1)
    BY <1>1, <2>2
  <2>4. WalkedTo(walk, G, rank, n - 1)
    BY <2>1, <2>3
  <2>5. WalkedTo(walk, G, rank, n)
    BY <1>5, <2>3, <2>4, WalkGoesOn DEF G
  <2> QED
    BY <2>1, <2>5
<1>7. \A k, m \in 0 .. total : k < m /\ walk[m] # 0 =>
          walk[k] \in G /\ walk[m] \in G /\ rank[walk[m]] < rank[walk[k]]
  <2>1. ASSUME NEW k \in 0 .. total, NEW m \in 0 .. total, k < m, walk[m] # 0
        PROVE  walk[k] \in G /\ walk[m] \in G /\ rank[walk[m]] < rank[walk[k]]
    <3>1. k \in 0 .. m - 1
      BY <1>1, <2>1
    <3> QED
      BY <1>6, <2>1, <3>1 DEF WalkedTo
  <2> QED
    BY <2>1
<1>8. \A j \in G : rank[j] \in Nat
  BY <1>2 DEF Ranked
<1>9. \A k, m \in 0 .. total : walk[k] # 0 /\ walk[k] = walk[m] => k = m
  <2> SUFFICES ASSUME NEW k \in 0 .. total, NEW m \in 0 .. total, k < m, walk[k] # 0,
                      walk[k] = walk[m]
               PROVE  FALSE
    BY <1>1
  <2> QED
    BY <1>7, <1>8
<1>10. walk[total] = 0
  <2> SUFFICES ASSUME walk[total] # 0 PROVE FALSE
    OBVIOUS
  <2>1. \A k \in 0 .. total : walk[k] \in Nodes(map)
    <3>1. \A k \in 0 .. total : k < total \/ k = total
      BY <1>1
    <3>2. total \in 0 .. total /\ walk[total] \in G
      BY <1>1, <1>6 DEF WalkedTo
    <3> QED
      BY <1>2, <1>7, <3>1, <3>2
  <2>2. walk \in Injection(0 .. total, Nodes(map))
    <3>1. walk = [k \in 0 .. total |-> walk[k]]
      BY <1>3, <1>4
    <3>2. 0 \notin Nodes(map)
      BY DEF Nodes
    <3> QED
      BY <1>9, <2>1, <3>1, <3>2 DEF Injection, IsInjective
  <2>3. IsFiniteSet(Nodes(map)) /\ Cardinality(Nodes(map)) = total - 1
    BY FS_RemoveElement DEF Nodes, Ranked, Filled, total
  <2>4. Cardinality(0 .. total) <= total - 1
    BY <2>2, <2>3, FS_Injection
  <2>5. Cardinality(0 .. total) = total + 1
    BY <1>1, FS_Interval
  <2> QED
    BY <1>1, <2>4, <2>5
<1>11. PICK c \in 0 .. total : walk[c] = 0 /\ \A m \in 0 .. total : walk[m] = 0 => c <= m
  <2> DEFINE Ends == { m \in 0 .. total : walk[m] = 0 }
  <2>1. Ends \in SUBSET Nat /\ Ends # {}
    BY <1>1, <1>10
  <2> HIDE DEF Ends
  <2>2. PICK c \in Ends : \A m \in Ends : c <= m
    BY <2>1, LeastNatural
  <2> QED
    BY <2>2 DEF Ends
<1>12. \A m \in 0 .. total : walk[m] # 0 <=> m \in 0 .. c - 1
  <2>1. ASSUME NEW m \in 0 .. total, walk[m] # 0
        PROVE  m < c
    <3>1. 0 \notin G
      BY <1>2
    <3>2. m = c \/ m < c \/ c < m
      BY <1>1
    <3> QED
      BY <1>7, <1>11, <2>1, <3>1, <3>2
  <2>2. ASSUME NEW m \in 0 .. total, m \in 0 .. c - 1
        PROVE  walk[m] # 0
    BY <1>1, <1>11, <2>2
  <2> QED
    BY <1>1, <2>1, <2>2
<1>13. c \in Nat /\ 0 .. c - 1 \subseteq 0 .. total
  BY <1>1
<1>14. { m \in DOMAIN walk : walk[m] # 0 } = 0 .. c - 1
  BY <1>4, <1>12, <1>13
<1>15. Cardinality(0 .. c - 1) = c
  <2>1. 0 .. c - 1 = {} => c = 0
    BY <1>13
  <2> QED
    BY <1>13, <2>1, FS_Interval
<1> DEFINE chain == M!ChainFrom(map.table[h], map)
<1>16. chain = [n \in 1 .. c |-> walk[n - 1]]
  <2>1. walk = Walk(map.slots, map.table[h], M!Cardinality(DOMAIN map.slots))
    BY SameMapSizes DEF walk, total
  <2>2. M!Cardinality({ m \in DOMAIN walk : walk[m] # 0 }) = c
    BY <1>14, <1>15, SameMapSizes
  <2> DEFINE first == map.table[h]
  <2>3. walk = Walk(map.slots, first, M!Cardinality(DOMAIN map.slots))
    BY <2>1
  <2> HIDE DEF first
  <2>4. M!ChainFrom(first, map)
            = [n \in 1 .. M!Cardinality({ m \in DOMAIN walk : walk[m] # 0 }) |-> walk[n - 1]]
    BY <2>3, ChainWalks
  <2> QED
    BY <2>2, <2>4 DEF first
<1> HIDE DEF chain
<1>17. ASSUME NEW n \in 1 .. c
       PROVE  chain[n] = walk[n - 1] /\ n - 1 \in 0 .. c - 1 /\ chain[n] \in G /\ chain[n] # 0
  <2>1. n - 1 \in 0 .. c - 1 /\ chain[n] = walk[n - 1]
    BY <1>13, <1>16
  <2>2. n - 1 \in 0 .. total
    BY <1>13, <2>1
  <2>3. walk[n - 1] # 0
    BY <1>12, <2>1, <2>2
  <2> QED
    BY <1>6, <2>1, <2>2, <2>3 DEF WalkedTo
<1>18. chain \in [1 .. c -> G]
  BY <1>16, <1>17
<1>19. ASSUME NEW k \in 1 .. c, NEW l \in 1 .. c, chain[k] = chain[l]
       PROVE  k = l
  <2>1. k - 1 = l - 1
    BY <1>9, <1>13, <1>17, <1>19
  <2> QED
    BY <2>1
<1>20. ASSUME NEW j \in G
       PROVE  \E k \in 1 .. c : chain[k] = j
  <2>1. PICK l \in 0 .. c - 1 : walk[l] = j
    BY <1>6, <1>11 DEF WalkedTo
  <2>2. l + 1 \in 1 .. c /\ (l + 1) - 1 = l
    BY <1>13
  <2> QED
    BY <1>17, <2>1, <2>2
<1> QED
  BY <1>13, <1>18, <1>19, <1>20 DEF Lists, chain, G

\* How a rehash goes on from the chains it has taken.
JoinStep(map, n, walk) ==
    [m \in 0 .. n |-> IF m = 0 THEN <<>> ELSE walk[m - 1] \o M!ChainFrom(map.table[m - 1], map)]

\* There is such a sequence of lists, by induction on its length.
LEMMA JoinExists ==
    ASSUME NEW map, NEW n \in Nat
    PROVE  \E walk : walk = JoinStep(map, n, walk)
<1> DEFINE Step(k, walk) == [m \in 0 .. k |-> IF m = 0 THEN <<>>
      ELSE walk[m - 1] \o M!ChainFrom(map.table[m - 1], map)]
           Off == { k \in Nat : ~\E walk : walk = Step(k, walk) }
<1>1. SUFFICES ASSUME Off # {} PROVE FALSE
  BY DEF JoinStep
<1>2. PICK k \in Off : \A l \in Off : k <= l
  <2>1. Off \in SUBSET Nat
    OBVIOUS
  <2> HIDE DEF Off
  <2> QED
    BY <1>1, <2>1, LeastNatural
<1>3. CASE k = 0
  <2> DEFINE walk == [m \in 0 .. 0 |-> <<>>]
  <2>1. walk = Step(0, walk)
    OBVIOUS
  <2> QED
    BY <1>2, <1>3, <2>1
<1>4. CASE k # 0
  <2>1. k - 1 \in Nat /\ ~(k <= k - 1)
    BY <1>4
  <2>2. PICK walk : walk = Step(k - 1, walk)
    BY <1>2, <2>1, Zenon
  <2> DEFINE longer == [m \in 0 .. k |-> IF m = k
        THEN walk[k - 1] \o M!ChainFrom(map.table[k - 1], map) ELSE walk[m]]
  <2>3. ASSUME NEW m \in 0 .. k
        PROVE  longer[m] = IF m = 0 THEN <<>> ELSE longer[m - 1] \o M!ChainFrom(map.table[m - 1],
               map)
    <3>1. CASE m = k
      <4>1. k - 1 \in 0 .. k /\ k - 1 # k
        BY <1>4
      <4> QED
        BY <1>4, <3>1, <4>1
    <3>2. CASE m # k
      <4>1. m \in 0 .. k - 1 /\ (m # 0 => m - 1 \in 0 .. k /\ m - 1 # k)
        BY <3>2
      <4>2. walk[m] = IF m = 0 THEN <<>> ELSE walk[m - 1] \o M!ChainFrom(map.table[m - 1], map)
        BY <2>2, <4>1
      <4> QED
        BY <3>2, <4>1, <4>2
    <3> QED
      BY <3>1, <3>2
  <2>4. longer = Step(k, longer)
    <3>1. longer = [m \in 0 .. k |-> longer[m]]
      OBVIOUS
    <3> HIDE DEF longer
    <3> QED
      BY <2>3, <3>1
  <2> HIDE DEF longer, Step
  <2> QED
    BY <1>2, <2>4
<1> QED
  BY <1>3, <1>4 DEF JoinStep

\* The nodes that it has taken from the first places.
Joined(map, n) == CHOOSE before : before = JoinStep(map, n, before)

\* So it is the one that is taken.
LEMMA JoinIs ==
    ASSUME NEW map, NEW n \in Nat
    PROVE  Joined(map, n) = JoinStep(map, n, Joined(map, n))
BY Zenon, JoinExists DEF Joined

\* From every place, that is all it takes.
LEMMA VisitedJoined ==
    ASSUME NEW map
    PROVE  M!Visited(map) = Joined(map,
           M!Cardinality(DOMAIN map.table))[M!Cardinality(DOMAIN map.table)]
BY Zenon DEF M!Visited, Joined, JoinStep

\* One list after another lists the elements of both.
LEMMA ListsBoth ==
    ASSUME NEW G, NEW R, NEW f, NEW g, Lists(f, G), Lists(g, R), G \cap R = {}
    PROVE  Lists(f \o g, G \union R)
<1>1. PICK c \in Nat :
        /\ f \in [1 .. c -> G]
        /\ \A k, l \in 1 .. c : f[k] = f[l] => k = l
        /\ \A j \in G : \E k \in 1 .. c : f[k] = j
  BY DEF Lists
<1>2. PICK d \in Nat :
        /\ g \in [1 .. d -> R]
        /\ \A k, l \in 1 .. d : g[k] = g[l] => k = l
        /\ \A j \in R : \E k \in 1 .. d : g[k] = j
  BY DEF Lists
<1> DEFINE Items == G \union R
           both == f \o g
<1>3. f \in Seq(Items) /\ Len(f) = c /\ g \in Seq(Items) /\ Len(g) = d
  BY <1>1, <1>2
<1>4. /\ both \in Seq(Items) /\ Len(both) = Len(f) + Len(g)
      /\ \A k \in 1 .. Len(f) + Len(g) : both[k] = IF k <= Len(f) THEN f[k] ELSE g[k - Len(f)]
  BY <1>3, ConcatProperties
<1>5. Len(f) + Len(g) = c + d
  BY <1>3
<1> HIDE DEF both
<1>6. both \in Seq(Items) /\ Len(both) = c + d /\ c + d \in Nat
  BY <1>4, <1>5
<1>7. both \in [1 .. c + d -> Items]
  <2> DEFINE n == c + d
  <2>1. n \in Nat /\ Len(both) = n
    BY <1>6
  <2> HIDE DEF n
  <2>2. both \in [1 .. n -> Items]
    BY <1>6, <2>1
  <2> QED
    BY <2>2 DEF n
<1>8. ASSUME NEW k \in 1 .. c
      PROVE  k \in 1 .. c + d /\ both[k] = f[k] /\ both[k] \in G
  <2>1. k \in 1 .. c + d /\ k <= c
    OBVIOUS
  <2> QED
    BY <1>1, <1>3, <1>4, <1>5, <2>1
<1>9. ASSUME NEW k \in 1 .. d
      PROVE  c + k \in 1 .. c + d /\ both[c + k] = g[k] /\ both[c + k] \in R
  <2>1. c + k \in 1 .. c + d /\ ~(c + k <= c) /\ (c + k) - c = k
    OBVIOUS
  <2> QED
    BY <1>2, <1>3, <1>4, <1>5, <2>1
<1>10. ASSUME NEW k \in 1 .. c + d
       PROVE  k \in 1 .. c \/ \E l \in 1 .. d : k = c + l
  <2>1. CASE k <= c
    BY <2>1
  <2>2. CASE ~(k <= c)
    <3>1. k - c \in 1 .. d /\ k = c + (k - c)
      BY <2>2
    <3> QED
      BY <3>1
  <2> QED
    BY <2>1, <2>2
<1>11. ASSUME NEW k \in 1 .. c + d, NEW l \in 1 .. c + d, both[k] = both[l]
       PROVE  k = l
  <2>1. CASE k \in 1 .. c /\ l \in 1 .. c
    BY <1>1, <1>8, <1>11, <2>1
  <2>2. CASE k \in 1 .. c /\ \E m \in 1 .. d : l = c + m
    BY <1>8, <1>9, <1>11, <2>2
  <2>3. CASE l \in 1 .. c /\ \E m \in 1 .. d : k = c + m
    BY <1>8, <1>9, <1>11, <2>3
  <2>4. CASE (\E m \in 1 .. d : k = c + m) /\ (\E m \in 1 .. d : l = c + m)
    <3>1. PICK m \in 1 .. d, n \in 1 .. d : k = c + m /\ l = c + n
      BY <2>4
    <3>2. g[m] = g[n]
      BY <1>9, <1>11, <3>1
    <3> QED
      BY <1>2, <3>1, <3>2
  <2> QED
    BY <1>10, <2>1, <2>2, <2>3, <2>4
<1>12. ASSUME NEW j \in Items
       PROVE  \E k \in 1 .. c + d : both[k] = j
  <2>1. CASE j \in G
    BY <1>1, <1>8, <2>1
  <2>2. CASE j \in R
    BY <1>2, <1>9, <2>2
  <2> QED
    BY <2>1, <2>2
<1> QED
  BY <1>6, <1>7, <1>11, <1>12 DEF Lists, both

\* The table has one place for each of its length.
LEMMA SamePlaces ==
    ASSUME NEW map, NEW length, Filled(map, length)
    PROVE  M!Cardinality(DOMAIN map.table) = length /\ length \in Nat \ {0}
<1>1. length \in Nat \ {0} /\ DOMAIN map.table = 0 .. length - 1
  BY DEF Filled
<1>2. Cardinality(0 .. length - 1) = length
  BY <1>1, FS_Interval
<1> QED
  BY <1>1, <1>2, SameMapSizes

\* The nodes of the first places.
Before(map, length, h) == { z \in Nodes(map) : PlaceOf(map, length, z) < h }

\* A rehash takes every node.
LEMMA VisitedIs ==
    ASSUME NEW map, NEW length, NEW top, NEW rank, Ranked(map, length, top, rank)
    PROVE  Lists(M!Visited(map), Nodes(map))
<1> DEFINE before == Joined(map, length)
<1>1. M!Cardinality(DOMAIN map.table) = length /\ length \in Nat \ {0}
  BY SamePlaces DEF Ranked
<1>2. before = [m \in 0 .. length |->
                   IF m = 0 THEN <<>> ELSE before[m - 1] \o M!ChainFrom(map.table[m - 1], map)]
  BY <1>1, JoinIs DEF JoinStep
<1> HIDE DEF before
<1>3. \A z \in Nodes(map) : PlaceOf(map, length, z) \in 0 .. length - 1
  <2> SUFFICES ASSUME NEW z \in Nodes(map) PROVE PlaceOf(map, length, z) \in 0 .. length - 1
    OBVIOUS
  <2>1. map.slots[z].key \in Keys
    BY DEF Ranked, Filled, Entry
  <2> QED
    BY <1>1, <2>1, PlaceIn DEF PlaceOf
<1>4. before[0] = <<>>
  BY <1>1, <1>2
<1>5. Lists(<<>>, Before(map, length, 0))
  <2>1. Before(map, length, 0) = {}
    <3>1. \A z \in Nodes(map) : ~(PlaceOf(map, length, z) < 0)
      BY <1>1, <1>3
    <3> QED
      BY <3>1 DEF Before
  <2>2. Lists(<<>>, {})
    <3>1. 0 \in Nat /\ 1 .. 0 = {}
      OBVIOUS
    <3>2. <<>> \in [1 .. 0 -> {}]
      BY <3>1
    <3> QED
      BY <3>1, <3>2, Zenon DEF Lists
  <2> QED
    BY <2>1, <2>2
<1>6. ASSUME NEW h \in 1 .. length, Lists(before[h - 1], Before(map, length, h - 1))
      PROVE  Lists(before[h], Before(map, length, h))
  <2> DEFINE g == h - 1
  <2>1. g \in 0 .. length - 1 /\ h \in 0 .. length /\ h # 0 /\ h = g + 1
    BY SMTT(20), <1>1
  <2>2. before[h] = before[g] \o M!ChainFrom(map.table[g], map)
    BY <1>2, <2>1
  <2> HIDE DEF g
  <2>3. Lists(M!ChainFrom(map.table[g], map), At(map, length, g))
    BY <2>1, ChainIs
  <2>4. Before(map, length, g) \cap At(map, length, g) = {}
    BY <1>3, <2>1 DEF Before, At
  <2>5. Before(map, length, h) = Before(map, length, g) \union At(map, length, g)
    <3>1. \A n \in 0 .. length - 1 : n < h <=> n < g \/ n = g
      BY <1>1, <2>1
    <3> QED
      BY <1>3, <3>1 DEF Before, At
  <2>6. Lists(before[g], Before(map, length, g))
    BY <1>6 DEF g
  <2> QED
    BY <2>2, <2>3, <2>4, <2>5, <2>6, ListsBoth
<1>7. ASSUME NEW h \in 0 .. length
      PROVE  Lists(before[h], Before(map, length, h))
  <2> DEFINE Off == { n \in 0 .. length : ~Lists(before[n], Before(map, length, n)) }
  <2> SUFFICES ASSUME Off # {} PROVE FALSE
    OBVIOUS
  <2>1. PICK n \in Off : \A k \in Off : n <= k
    <3>1. Off \in SUBSET Nat
      BY <1>1
    <3> HIDE DEF Off
    <3> QED
      BY <3>1, LeastNatural
  <2>2. n # 0
    BY <1>4, <1>5
  <2>3. n \in 1 .. length /\ n - 1 \in 0 .. length /\ ~(n <= n - 1)
    BY <1>1, <2>2
  <2>4. Lists(before[n - 1], Before(map, length, n - 1))
    BY <2>1, <2>3
  <2> QED
    BY <1>6, <2>1, <2>3, <2>4
<1>8. Lists(before[length], Before(map, length, length))
  BY <1>1, <1>7
<1>9. Before(map, length, length) = Nodes(map)
  BY <1>1, <1>3 DEF Before
<1>10. M!Visited(map) = before[length]
  BY <1>1, VisitedJoined DEF before
<1> QED
  BY <1>8, <1>9, <1>10

\* What the map holds for a key.
Holding(map, key, x) == \E z \in Nodes(map) : map.slots[z].key = key /\ map.slots[z].element = x

\* There are ranks: what links the chains whatever calls were made.
MapInv == \E length, top, rank : Ranked(object, length, top, rank)

\* The list of a chain's slots is their set.
LEMMA ListSet ==
    ASSUME NEW f, NEW G, Lists(f, G)
    PROVE  /\ { f[n] : n \in DOMAIN f } = G
           /\ Cardinality(G) = Len(f)
<1>1. PICK c \in Nat :
        /\ f \in [1 .. c -> G]
        /\ \A k, l \in 1 .. c : f[k] = f[l] => k = l
        /\ \A j \in G : \E k \in 1 .. c : f[k] = j
  BY DEF Lists
<1>2. { f[n] : n \in DOMAIN f } = G
  BY <1>1
<1>3. f \in Injection(1 .. c, G) /\ f \in Surjection(1 .. c, G)
  BY <1>1 DEF Injection, IsInjective, Surjection
<1>4. IsFiniteSet(1 .. c) /\ Cardinality(1 .. c) = c
  BY FS_Interval
<1>5. Cardinality(G) = c
  BY <1>3, <1>4, FS_Surjection
<1>6. Len(f) = c
  BY <1>1
<1> QED
  BY <1>2, <1>5, <1>6

\* The nodes that a chain is walked through are those of its place.
LEMMA InChainIs ==
    ASSUME NEW length, NEW top, NEW rank, Ranked(object, length, top, rank),
           NEW h \in 0 .. length - 1
    PROVE  /\ M!InChain(h) = At(object, length, h)
           /\ M!Cardinality(M!InChain(h)) = Len(M!Chain(h))
<1>1. M!Chain(h) = M!ChainFrom(object.table[h], object)
  BY DEF M!Chain, M!table
<1> DEFINE chain == M!ChainFrom(object.table[h], object)
<1>2. Lists(chain, At(object, length, h))
  BY ChainIs
<1> HIDE DEF chain
<1>3. M!Chain(h) = chain
  BY <1>1 DEF chain
<1>4. { chain[n] : n \in DOMAIN chain } = At(object, length, h) /\ Cardinality(At(object, length,
      h)) = Len(chain)
  BY <1>2, ListSet
<1>5. M!InChain(h) = { chain[n] : n \in DOMAIN chain }
  BY <1>3 DEF M!InChain
<1> QED
  BY <1>3, <1>4, <1>5, SameMapSizes

\* The length that the code keeps is that of the table.
LEMMA LengthIs ==
    ASSUME NEW length, NEW top, NEW rank, Ranked(object, length, top, rank)
    PROVE  M!Length = length /\ length \in Nat \ {0}
BY SamePlaces DEF Ranked, M!Length, M!table

\* Every node is in its chain, once.
LEMMA MapWhole == MapInv => M!ChainsWhole
<1> SUFFICES ASSUME NEW length, NEW top, NEW rank, Ranked(object, length, top, rank),
                    NEW z \in Nodes(object)
             PROVE  LET h == M!Place(object.slots[z].key, length) IN
                    z \in M!InChain(h) /\ M!Cardinality(M!InChain(h)) = Len(M!Chain(h))
  BY LengthIs DEF MapInv, M!ChainsWhole, M!slots, Nodes
<1> DEFINE h == M!Place(object.slots[z].key, length)
<1>1. h \in 0 .. length - 1
  BY LengthIs, PlaceIn DEF Ranked, Filled, Entry
<1>2. z \in At(object, length, h)
  BY DEF At, PlaceOf
<1> HIDE DEF h
<1>3. z \in M!InChain(h) /\ M!Cardinality(M!InChain(h)) = Len(M!Chain(h))
  BY <1>1, <1>2, InChainIs
<1> QED
  BY <1>3 DEF h

\* What get returns is what is held.
LEMMA FindIs ==
    ASSUME NEW length, NEW top, NEW rank, Ranked(object, length, top, rank), NEW key \in Keys
    PROVE  /\ \A z \in Nodes(object) : object.slots[z].key = key => M!Find(key) = z
           /\ M!Find(key) # 0 => M!Find(key) \in Nodes(object)
              /\ object.slots[M!Find(key)].key = key
<1> DEFINE h == M!Place(key, length)
           found == { z \in Nodes(object) : object.slots[z].key = key }
<1>1. h \in 0 .. length - 1 /\ M!Length = length
  BY LengthIs, PlaceIn
<1>2. M!InChain(h) = At(object, length, h)
  BY <1>1, InChainIs
<1>3. { z \in M!InChain(h) : object.slots[z].key = key } = found
  BY <1>2 DEF At, PlaceOf
<1>4. /\ found # {} => M!Find(key) \in found
      /\ found = {} => M!Find(key) = 0
  <2> DEFINE looked == { j \in M!InChain(M!Place(key, M!Length)) : M!slots[j].key = key }
  <2>1. looked = found
    BY <1>1, <1>3 DEF M!slots
  <2> HIDE DEF found
  <2>2. M!Find(key) = IF looked = {} THEN 0 ELSE CHOOSE j \in looked : TRUE
    BY Zenon DEF M!Find
  <2> HIDE DEF looked
  <2> QED
    BY <2>1, <2>2
<1>5. \A z, j \in found : z = j
  BY DEF Ranked, Filled
<1> HIDE DEF found
<1> QED
  BY <1>4, <1>5 DEF found

\* And get returns it: NULL when nothing is held.
LEMMA GetIs ==
    MapInv => \A key \in Keys :
        \/ M!Get(key) = NULL /\ M!Find(key) = 0 /\ \A x : ~Holding(object, key, x)
        \/ /\ M!Get(key) # NULL /\ M!Find(key) # 0
           /\ Holding(object, key, M!Get(key)) /\ \A x : Holding(object, key, x) => x = M!Get(key)
<1> SUFFICES ASSUME NEW length, NEW top, NEW rank, Ranked(object, length, top, rank),
                    NEW key \in Keys
             PROVE  \/ M!Get(key) = NULL /\ M!Find(key) = 0 /\ \A x : ~Holding(object, key, x)
                    \/ /\ M!Get(key) # NULL /\ M!Find(key) # 0
                       /\ Holding(object, key, M!Get(key))
                       /\ \A x : Holding(object, key, x) => x = M!Get(key)
  BY DEF MapInv
<1>1. /\ \A z \in Nodes(object) : object.slots[z].key = key => M!Find(key) = z
      /\ M!Find(key) # 0 => M!Find(key) \in Nodes(object) /\ object.slots[M!Find(key)].key = key
  BY FindIs
<1>2. M!Get(key) = IF M!Find(key) = 0 THEN NULL ELSE object.slots[M!Find(key)].element
  BY DEF M!Get, M!slots
<1>3. \A z \in Nodes(object) : z # 0 /\ object.slots[z].element \in Held
  BY DEF Nodes, Ranked, Filled, Entry
<1>4. CASE M!Find(key) = 0
  BY <1>1, <1>2, <1>3, <1>4 DEF Holding
<1>5. CASE M!Find(key) # 0
  <2>1. M!Get(key) # NULL /\ Holding(object, key, M!Get(key))
    BY <1>1, <1>2, <1>3, <1>5, MapAssumption DEF Holding
  <2>2. \A x : Holding(object, key, x) => x = M!Get(key)
    BY <1>1, <1>2, <1>5 DEF Holding
  <2> QED
    BY <1>5, <2>1, <2>2
<1> QED
  BY <1>4, <1>5

\* The same after a call.
LEMMA GetIsThen ==
    (MapInv => \A key \in Keys :
        \/ M!Get(key) = NULL /\ M!Find(key) = 0 /\ \A x : ~Holding(object, key, x)
        \/ /\ M!Get(key) # NULL /\ M!Find(key) # 0
           /\ Holding(object, key, M!Get(key)) /\ \A x : Holding(object, key, x) => x = M!Get(key))'
BY GetIs, PTL

\* A hash map is created with no nodes.
LEMMA MapInit == M!Init => MapInv
<1> SUFFICES ASSUME M!Init PROVE MapInv
  OBVIOUS
<1> DEFINE rank == [z \in {} |-> 0]
<1>1. /\ object.slots = [z \in {0} |-> [key |-> NULL, element |-> NULL, next |-> 0]]
      /\ object.table = [h \in {0} |-> 0]
      /\ object = [slots |-> object.slots, table |-> object.table]
  BY DEF M!Init
<1>2. Nodes(object) = {} /\ DOMAIN object.slots = {0} /\ DOMAIN object.table = 0 .. 1 - 1
  BY <1>1 DEF Nodes
<1>3. Filled(object, 1)
  <2>1. IsFiniteSet({0})
    BY FS_Singleton
  <2> QED
    BY <1>1, <1>2, <2>1 DEF Filled
<1>4. rank \in [Nodes(object) -> 0 .. 0 - 1]
  BY <1>2
<1>5. At(object, 1, 0) = {} /\ object.table[0] = 0 /\ \A h \in 0 .. 1 - 1 : h = 0
  BY <1>1, <1>2 DEF At
<1>6. Ranked(object, 1, 0, rank)
  BY <1>2, <1>3, <1>4, <1>5 DEF Ranked, IsLast
<1> QED
  BY <1>6 DEF MapInv

\* The slot of a new node is not that of another.
LEMMA FreeIs ==
    ASSUME NEW length, Filled(object, length)
    PROVE  M!FreeSlot \in Nat \ {0} /\ M!FreeSlot \notin DOMAIN object.slots
<1> DEFINE slots1 == DOMAIN object.slots
           n == Cardinality(slots1)
<1>1. n \in Nat /\ IsFiniteSet(slots1) /\ slots1 \subseteq Nat /\ 0 \in slots1
      /\ M!Cardinality(slots1) = n
  BY SameMapSizes, FS_CardinalityType DEF Filled
<1> HIDE DEF slots1
<1>2. \E z \in 0 .. n : z \notin slots1
  <2> SUFFICES ASSUME \A z \in 0 .. n : z \in slots1 PROVE FALSE
    OBVIOUS
  <2>1. 0 .. n \in SUBSET slots1
    OBVIOUS
  <2>2. Cardinality(0 .. n) <= n
    BY <1>1, <2>1, FS_Subset
  <2>3. Cardinality(0 .. n) = n + 1
    BY <1>1, FS_Interval
  <2> HIDE DEF n
  <2> QED
    BY <1>1, <2>2, <2>3
<1> HIDE DEF n
<1>3. \E z \in 0 .. n : /\ z \notin slots1
                        /\ \A j \in slots1 \union {z} : j < z => j \in slots1
  BY <1>1, <1>2
<1>4. M!FreeSlot = CHOOSE z \in 0 .. n : /\ z \notin slots1
                                         /\ \A j \in slots1 \union {z} : j < z => j \in slots1
  BY <1>1 DEF M!FreeSlot, M!slots, slots1
<1>5. M!FreeSlot \in 0 .. n /\ M!FreeSlot \notin slots1
  BY <1>3, <1>4
<1> QED
  BY <1>1, <1>5 DEF slots1

\* The last of some nodes is so in every ranking that ranks them the same.
LEMMA LastSame ==
    ASSUME NEW rank, NEW G, NEW z, IsLast(rank, G, z), NEW other, \A j \in G : other[j] = rank[j]
    PROVE  IsLast(other, G, z)
BY DEF IsLast

\* A new node goes in front of its chain, with a rank above all.
LEMMA LinkedIs ==
    ASSUME NEW length, NEW top, NEW rank, Ranked(object, length, top, rank),
           NEW key \in Keys, NEW x \in Held, \A y : ~Holding(object, key, y),
           NEW h, h = M!Place(key, length), NEW map, map = M!Linked(key, x, h)
    PROVE  /\ \E t, r : Ranked(map, length, t, r)
           /\ \A k, y : Holding(map, k, y) <=> Holding(object, k, y) \/ (k = key /\ y = x)
<1> DEFINE node == M!FreeSlot
           new == [key |-> key, element |-> x, next |-> object.table[h]]
           ranks == [j \in Nodes(object) \union {node} |-> IF j = node THEN top ELSE rank[j]]
<1>1. node \in Nat \ {0} /\ node \notin DOMAIN object.slots
  BY FreeIs DEF Ranked
<1>2. /\ map = [slots |-> map.slots, table |-> map.table]
      /\ map.slots = [j \in DOMAIN object.slots \union {node} |-> IF j = node THEN new
           ELSE object.slots[j]]
      /\ map.table = [object.table EXCEPT ![h] = node]
  BY DEF M!Linked, M!slots, M!table
<1> HIDE DEF node
<1>3. h \in 0 .. length - 1 /\ length \in Nat \ {0}
  BY LengthIs, PlaceIn
<1>4. /\ DOMAIN map.slots = DOMAIN object.slots \union {node}
      /\ Nodes(map) = Nodes(object) \union {node} /\ node \notin Nodes(object)
      /\ map.slots[node] = new
      /\ \A j \in DOMAIN object.slots : map.slots[j] = object.slots[j]
  BY <1>1, <1>2 DEF Nodes
<1>5. object.table[h] \in Nat
  <2>1. IsLast(rank, At(object, length, h), object.table[h])
    BY <1>3 DEF Ranked
  <2>2. At(object, length, h) \subseteq Nat
    BY AtNodes DEF Nodes, Ranked, Filled
  <2> QED
    BY <2>1, <2>2 DEF IsLast
<1>6. \A z \in Nodes(object) : object.slots[z].key # key
  BY DEF Holding
<1>7. Filled(map, length)
  <2>1. IsFiniteSet(DOMAIN map.slots)
    BY <1>4, FS_AddElement DEF Ranked, Filled
  <2>2. new \in Entry
    BY <1>5 DEF Entry
  <2>3. \A z \in Nodes(map) : map.slots[z] \in Entry
    BY <1>4, <2>2 DEF Ranked, Filled, Nodes
  <2>4. \A z, j \in Nodes(map) : map.slots[z].key = map.slots[j].key => z = j
    <3>1. map.slots[node].key = key
      BY <1>4
    <3>2. \A z \in Nodes(object) : map.slots[z] = object.slots[z]
      BY <1>4 DEF Nodes
    <3> QED
      BY <1>4, <1>6, <3>1, <3>2 DEF Ranked, Filled
  <2>5. map.slots = [z \in DOMAIN map.slots |-> map.slots[z]]
    BY <1>2
  <2>6. DOMAIN map.table = 0 .. length - 1 /\ map.table = [g \in 0 .. length - 1 |-> map.table[g]]
    BY <1>2 DEF Ranked, Filled
  <2>7. map.slots[0] = object.slots[0] /\ 0 \in DOMAIN map.slots /\ DOMAIN map.slots \subseteq Nat
    BY <1>1, <1>4 DEF Ranked, Filled
  <2> QED
    BY <1>2, <1>3, <2>1, <2>3, <2>4, <2>5, <2>6, <2>7 DEF Ranked, Filled
<1>8. /\ PlaceOf(map, length, node) = h
      /\ \A j \in Nodes(object) : PlaceOf(map, length, j) = PlaceOf(object, length, j)
  BY <1>4 DEF PlaceOf, Nodes
<1>9. \A g : At(map, length, g) = IF g = h THEN At(object, length, h) \union {node}
        ELSE At(object, length, g)
  BY <1>4, <1>8 DEF At
<1>10. \A j \in Nodes(object) : ranks[j] = rank[j] /\ rank[j] \in 0 .. top - 1 /\ rank[j] \in Nat
       /\ rank[j] < top
  BY <1>4 DEF Ranked
<1>11. ranks[node] = top /\ top \in Nat
  BY DEF Ranked
<1>12. DOMAIN ranks = Nodes(map) /\ ranks = [j \in DOMAIN ranks |-> ranks[j]]
  BY <1>4
<1> HIDE DEF ranks
<1>13. ranks \in [Nodes(map) -> 0 .. top + 1 - 1]
  <2>1. \A j \in Nodes(map) : ranks[j] \in 0 .. top + 1 - 1
    BY <1>4, <1>10, <1>11
  <2> QED
    BY <1>12, <2>1
<1>14. \A z, j \in Nodes(map) : ranks[z] = ranks[j] => z = j
  BY <1>4, <1>10, <1>11 DEF Ranked
<1>15. ASSUME NEW g \in 0 .. length - 1
       PROVE  IsLast(ranks, At(map, length, g), map.table[g])
  <2>1. CASE g = h
    <3>1. map.table[g] = node
      BY <1>2, <2>1 DEF Ranked, Filled
    <3>2. \A j \in At(object, length, h) : ranks[j] <= top
      BY <1>10, <1>11, AtNodes
    <3> DEFINE G == At(map, length, g)
    <3>3. G = At(object, length, h) \union {node}
      BY <1>9, <2>1
    <3> HIDE DEF G
    <3>4. node \in G /\ \A j \in G : ranks[j] <= ranks[node]
      BY <1>11, <3>2, <3>3
    <3>5. IsLast(ranks, G, map.table[g])
      BY <3>1, <3>4 DEF IsLast
    <3> QED
      BY <3>5 DEF G
  <2>2. CASE g # h
    <3>1. map.table[g] = object.table[g]
      BY <1>2, <2>2 DEF Ranked, Filled
    <3>2. IsLast(rank, At(object, length, g), object.table[g])
      BY DEF Ranked
    <3>3. \A j \in At(object, length, g) : ranks[j] = rank[j]
      BY <1>10, AtNodes
    <3> QED
      BY <1>9, <2>2, <3>1, <3>2, <3>3, LastSame
  <2> QED
    BY <2>1, <2>2
<1>16. ASSUME NEW j \in Nodes(map)
       PROVE  IsLast(ranks, Under(map, length, ranks, j), map.slots[j].next)
  <2>1. CASE j = node
    <3>1. Under(map, length, ranks, j) = At(object, length, h)
      <4>1. \A k \in At(object, length, h) : ranks[k] < top
        BY <1>10, AtNodes
      <4>2. ~(top < top)
        BY <1>11
      <4> QED
        BY <1>8, <1>9, <1>11, <2>1, <4>1, <4>2 DEF Under
    <3>2. IsLast(rank, At(object, length, h), object.table[h])
      BY <1>3 DEF Ranked
    <3>3. \A k \in At(object, length, h) : ranks[k] = rank[k]
      BY <1>10, AtNodes
    <3>4. map.slots[j].next = object.table[h]
      BY <1>4, <2>1
    <3> QED
      BY <3>1, <3>2, <3>3, <3>4, LastSame
  <2>2. CASE j \in Nodes(object)
    <3> DEFINE g == PlaceOf(object, length, j)
    <3>1. Under(map, length, ranks, j) = { k \in At(map, length, g) : ranks[k] < rank[j] }
      BY <1>8, <1>10, <2>2 DEF Under
    <3>2. Under(object, length, rank, j) = { k \in At(object, length, g) : rank[k] < rank[j] }
      BY DEF Under
    <3>3. \A k \in At(object, length, g) : ranks[k] = rank[k]
      BY <1>10, AtNodes
    <3> HIDE DEF g
    <3>4. ~(ranks[node] < rank[j])
      BY <1>10, <1>11, <2>2
    <3>5. Under(map, length, ranks, j) = Under(object, length, rank, j)
      BY <1>9, <3>1, <3>2, <3>3, <3>4
    <3>6. IsLast(rank, Under(object, length, rank, j), object.slots[j].next)
      BY <2>2 DEF Ranked
    <3>7. \A k \in Under(object, length, rank, j) : ranks[k] = rank[k]
      BY <3>2, <3>3
    <3>8. map.slots[j].next = object.slots[j].next
      BY <1>4, <2>2 DEF Nodes
    <3> QED
      BY <3>5, <3>6, <3>7, <3>8, LastSame
  <2> QED
    BY <1>4, <2>1, <2>2
<1>17. Ranked(map, length, top + 1, ranks)
  BY <1>7, <1>11, <1>13, <1>14, <1>15, <1>16 DEF Ranked
<1>18. ASSUME NEW k, NEW y
       PROVE  Holding(map, k, y) <=> Holding(object, k, y) \/ (k = key /\ y = x)
  <2>1. \A z \in Nodes(object) : map.slots[z] = object.slots[z]
    BY <1>4 DEF Nodes
  <2>2. map.slots[node].key = key /\ map.slots[node].element = x
    BY <1>4
  <2> QED
    BY <1>4, <2>1, <2>2 DEF Holding
<1> QED
  BY <1>17, <1>18

\* A node taken out of its chain: what led to it leads to the one after it.
LEMMA UnlinkedIs ==
    ASSUME NEW length, NEW top, NEW rank, Ranked(object, length, top, rank),
           NEW z \in Nodes(object), NEW h, h = PlaceOf(object, length, z),
           NEW map, map = M!Unlinked(z, h, object.slots[z].next)
    PROVE  /\ \E t, r : Ranked(map, length, t, r)
           /\ \A k, y : Holding(map, k, y) <=> Holding(object, k, y) /\ k # object.slots[z].key
<1> DEFINE next == object.slots[z].next
           before == { j \in DOMAIN object.slots \ {0} : object.slots[j].next = z }
           ranks == [j \in Nodes(map) |-> rank[j]]
           Over(j) == Under(object, length, rank, j)
<1>1. /\ map = [slots |-> map.slots, table |-> map.table]
      /\ map.slots = [j \in DOMAIN object.slots \ {z} |->
                         IF j \in before THEN [object.slots[j] EXCEPT !.next = next]
                           ELSE object.slots[j]]
      /\ map.table = IF before = {} THEN [object.table EXCEPT ![h] = next] ELSE object.table
  BY DEF M!Unlinked, M!slots, M!table
<1>2. /\ z \in Nat /\ z # 0 /\ z \in DOMAIN object.slots /\ length \in Nat \ {0}
      /\ Nodes(object) \subseteq Nat /\ 0 \notin Nodes(object)
  BY DEF Nodes, Ranked, Filled
<1>3. h \in 0 .. length - 1
  BY <1>2, PlaceIn DEF PlaceOf, Ranked, Filled, Entry
<1>4. /\ DOMAIN map.slots = DOMAIN object.slots \ {z}
      /\ Nodes(map) = Nodes(object) \ {z}
  BY <1>1, <1>2 DEF Nodes
<1>5. before = { j \in Nodes(object) : object.slots[j].next = z }
  BY DEF Nodes
<1>6. \A j \in Nodes(object) : rank[j] \in Nat
  BY DEF Ranked
<1>7. \A j, k \in Nodes(object) : rank[j] = rank[k] => j = k
  BY DEF Ranked
<1> HIDE DEF before, next
<1>8. next \in Nat
  <2>1. object.slots[z] \in Entry
    BY DEF Ranked, Filled
  <2> QED
    BY <2>1 DEF Entry, next
<1>9. ASSUME NEW j \in Nodes(map)
      PROVE  /\ map.slots[j] \in Entry
             /\ map.slots[j].key = object.slots[j].key
                /\ map.slots[j].element = object.slots[j].element
             /\ map.slots[j].next = IF j \in before THEN next ELSE object.slots[j].next
  <2>1. object.slots[j] \in Entry /\ j \in DOMAIN object.slots \ {z}
    BY <1>4 DEF Ranked, Filled, Nodes
  <2>2. map.slots[j] = IF j \in before THEN [object.slots[j] EXCEPT !.next = next]
          ELSE object.slots[j]
    BY <1>1, <2>1
  <2>3. /\ object.slots[j].key \in Keys /\ object.slots[j].element \in Held
           /\ object.slots[j].next \in Nat
        /\ object.slots[j] = [key |-> object.slots[j].key, element |-> object.slots[j].element,
                              next |-> object.slots[j].next]
    BY <2>1 DEF Entry
  <2>4. map.slots[j] = [key |-> object.slots[j].key, element |-> object.slots[j].element,
                        next |-> IF j \in before THEN next ELSE object.slots[j].next]
    BY <2>2, <2>3
  <2>5. (IF j \in before THEN next ELSE object.slots[j].next) \in Nat
    BY <1>8, <2>3
  <2> QED
    BY <2>3, <2>4, <2>5 DEF Entry
<1>10. Filled(map, length)
  <2>1. IsFiniteSet(DOMAIN map.slots) /\ DOMAIN map.slots \subseteq Nat /\ 0 \in DOMAIN map.slots
    <3>1. IsFiniteSet(DOMAIN object.slots) /\ DOMAIN object.slots \subseteq Nat
          /\ 0 \in DOMAIN object.slots
      BY DEF Ranked, Filled
    <3> DEFINE taken == DOMAIN object.slots
    <3>2. IsFiniteSet(taken \ {z})
      <4>1. IsFiniteSet(taken)
        BY <3>1
      <4> HIDE DEF taken
      <4> QED
        BY <4>1, FS_RemoveElement
    <3> QED
      BY <1>2, <1>4, <3>1, <3>2
  <2>2. map.slots[0] = object.slots[0]
    <3>1. 0 \notin before /\ 0 \in DOMAIN object.slots \ {z}
      BY <1>2, <1>5 DEF Ranked, Filled
    <3> QED
      BY <1>1, <3>1
  <2>3. \A j, k \in Nodes(map) : map.slots[j].key = map.slots[k].key => j = k
    BY <1>4, <1>9 DEF Ranked, Filled
  <2>4. map.slots = [j \in DOMAIN map.slots |-> map.slots[j]]
    BY <1>1
  <2>5. DOMAIN map.table = 0 .. length - 1 /\ map.table = [g \in 0 .. length - 1 |-> map.table[g]]
    BY <1>1 DEF Ranked, Filled
  <2> QED
    BY <1>1, <1>2, <1>9, <2>1, <2>2, <2>3, <2>4, <2>5 DEF Ranked, Filled
<1>11. \A j \in Nodes(map) : PlaceOf(map, length, j) = PlaceOf(object, length, j)
  BY <1>9 DEF PlaceOf
<1>12. ASSUME NEW g PROVE At(map, length, g) = At(object, length, g) \ {z}
  BY <1>4, <1>11 DEF At
<1>13. z \in At(object, length, h)
  BY DEF At
<1>14. ASSUME NEW j \in before
       PROVE  /\ j \in At(object, length, h) /\ rank[z] < rank[j] /\ z \in Over(j)
              /\ \A k \in Over(j) : rank[k] <= rank[z]
  <2>1. j \in Nodes(object) /\ object.slots[j].next = z
    BY <1>5
  <2>2. IsLast(rank, Over(j), z)
    BY <2>1 DEF Ranked
  <2>3. z \in Over(j) /\ \A k \in Over(j) : rank[k] <= rank[z]
    BY <1>2, <2>2 DEF IsLast
  <2>4. z \in At(object, length, PlaceOf(object, length, j)) /\ rank[z] < rank[j]
    BY <2>3 DEF Under
  <2>5. PlaceOf(object, length, j) = h
    BY <2>4 DEF At
  <2> QED
    BY <2>1, <2>3, <2>4, <2>5 DEF At
<1>15. Over(z) = { k \in At(object, length, h) : rank[k] < rank[z] } /\ IsLast(rank, Over(z), next)
  BY DEF Under, Ranked, next
<1>16. At(object, length, h) \subseteq Nodes(object)
  BY AtNodes
<1>17. ASSUME NEW j \in before
       PROVE  Over(j) \ {z} = Over(z)
  <2>1. Over(j) = { k \in At(object, length, h) : rank[k] < rank[j] }
    <3>1. PlaceOf(object, length, j) = h
      BY <1>14 DEF At
    <3> QED
      BY <3>1 DEF Under
  <2>2. ASSUME NEW k \in Over(j), k # z
        PROVE  k \in Over(z)
    <3>1. k \in At(object, length, h) /\ rank[k] <= rank[z]
      BY <1>14, <2>1
    <3>2. rank[k] # rank[z]
      BY <1>7, <1>13, <1>16, <2>2, <3>1
    <3>3. rank[k] < rank[z]
      BY <1>6, <1>13, <1>16, <3>1, <3>2
    <3> QED
      BY <1>15, <3>1, <3>3
  <2>3. ASSUME NEW k \in Over(z)
        PROVE  k \in Over(j) /\ k # z
    <3>1. k \in At(object, length, h) /\ rank[k] < rank[z]
      BY <1>15
    <3>2. rank[k] < rank[j] /\ k # z
      BY <1>6, <1>13, <1>14, <1>16, <3>1
    <3> QED
      BY <2>1, <3>1, <3>2
  <2> HIDE DEF Over
  <2> QED
    BY <2>2, <2>3
<1>18. before = {} <=> object.table[h] = z
  <2> DEFINE G == At(object, length, h)
             n == object.table[h]
  <2>1. n \in G /\ \A j \in G : rank[j] <= rank[n]
    <3>1. IsLast(rank, G, n)
      BY <1>3 DEF Ranked
    <3> QED
      BY <1>13, <3>1 DEF IsLast
  <2> HIDE DEF G, n
  <2>2. ASSUME n = z, before # {}
        PROVE  FALSE
    <3>1. PICK j \in before : TRUE
      BY <2>2
    <3>2. j \in G /\ rank[z] < rank[j]
      BY <1>14 DEF G
    <3> QED
      BY <1>6, <1>13, <1>16, <2>1, <2>2, <3>2 DEF G
  <2>3. ASSUME n # z
        PROVE  before # {}
    <3> DEFINE Above == { r \in Nat : r > rank[z] /\ \E j \in G : rank[j] = r }
    <3>1. rank[n] \in Above
      <4>1. rank[n] # rank[z] /\ rank[n] \in Nat /\ rank[z] \in Nat /\ rank[z] <= rank[n]
        BY <1>6, <1>7, <1>13, <1>16, <2>1, <2>3 DEF G
      <4> QED
        BY <2>1, <4>1
    <3>2. PICK r \in Above : \A s \in Above : r <= s
      <4>1. Above \in SUBSET Nat /\ Above # {}
        BY <3>1
      <4> HIDE DEF Above
      <4> QED
        BY <4>1, LeastNatural
    <3>3. PICK j \in G : rank[j] = r
      BY <3>2
    <3>4. j \in Nodes(object) /\ PlaceOf(object, length, j) = h /\ rank[z] < rank[j]
      BY <1>16, <3>2, <3>3 DEF G, At
    <3>5. Over(j) = { k \in G : rank[k] < rank[j] }
      BY <3>4 DEF Under, G
    <3>6. z \in Over(j)
      BY <1>13, <3>4, <3>5 DEF G
    <3> DEFINE q == object.slots[j].next
    <3>7. q \in Over(j) /\ rank[z] <= rank[q]
      <4>1. IsLast(rank, Over(j), q)
        BY <3>4 DEF Ranked
      <4> QED
        BY <3>6, <4>1 DEF IsLast
    <3> HIDE DEF q, Over
    <3>8. q \in G /\ rank[q] < rank[j]
      BY <3>5, <3>7
    <3>9. rank[q] \in Nat /\ rank[z] \in Nat /\ rank[j] \in Nat
      BY <1>6, <1>13, <1>16, <3>4, <3>8 DEF G
    <3>10. rank[q] \notin Above
      BY <3>2, <3>3, <3>8, <3>9
    <3>11. rank[q] = rank[z]
      BY <3>7, <3>8, <3>9, <3>10
    <3>12. q = z
      BY <1>7, <1>13, <1>16, <3>8, <3>11 DEF G
    <3> QED
      BY <1>5, <3>4, <3>12 DEF q
  <2> QED
    BY <2>2, <2>3 DEF n
<1>19. /\ top \in Nat /\ ranks \in [Nodes(map) -> 0 .. top - 1]
       /\ \A j \in Nodes(map) : ranks[j] = rank[j]
  BY <1>4 DEF Ranked
<1> HIDE DEF ranks
<1>20. \A j, k \in Nodes(map) : ranks[j] = ranks[k] => j = k
  BY <1>4, <1>7, <1>19
<1>21. ASSUME NEW G, NEW n, IsLast(rank, G, n), n # z
       PROVE  IsLast(rank, G \ {z}, n)
  BY <1>21 DEF IsLast
<1>22. ASSUME NEW g \in 0 .. length - 1
       PROVE  IsLast(ranks, At(map, length, g), map.table[g])
  <2>1. IsLast(rank, At(object, length, g) \ {z}, map.table[g])
    <3>1. IsLast(rank, At(object, length, g), object.table[g])
      BY DEF Ranked
    <3>2. CASE object.table[g] # z
      <4>1. map.table[g] = object.table[g]
        BY <1>1, <1>18, <3>2 DEF Ranked, Filled
      <4> QED
        BY <1>21, <3>1, <3>2, <4>1
    <3>3. CASE object.table[g] = z
      <4>1. g = h
        <5>1. z \in At(object, length, g)
          BY <1>2, <3>1, <3>3 DEF IsLast
        <5> QED
          BY <5>1 DEF At
      <4>2. map.table[g] = next
        BY <1>1, <1>18, <3>3, <4>1 DEF Ranked, Filled
      <4>3. At(object, length, h) \ {z} = Over(z)
        <5>1. ASSUME NEW k \in At(object, length, h), k # z
              PROVE  rank[k] < rank[z]
          <6>1. rank[k] <= rank[z]
            BY <1>13, <3>1, <3>3, <4>1 DEF IsLast
          <6>2. rank[k] # rank[z] /\ rank[k] \in Nat /\ rank[z] \in Nat
            BY <1>6, <1>7, <1>13, <1>16, <5>1
          <6> QED
            BY <6>1, <6>2
        <5>2. ~(rank[z] < rank[z])
          BY <1>6, <1>13, <1>16
        <5> HIDE DEF Over
        <5> QED
          BY <1>15, <5>1, <5>2
      <4> QED
        BY <1>15, <4>1, <4>2, <4>3
    <3> QED
      BY <3>2, <3>3
  <2>2. \A k \in At(map, length, g) : ranks[k] = rank[k]
    BY <1>19, AtNodes
  <2> QED
    BY <1>12, <2>1, <2>2, LastSame
<1>23. ASSUME NEW j \in Nodes(map)
       PROVE  IsLast(ranks, Under(map, length, ranks, j), map.slots[j].next)
  <2>1. j \in Nodes(object) /\ PlaceOf(map, length, j) = PlaceOf(object, length, j)
    BY <1>4, <1>11
  <2>2. Under(map, length, ranks, j) = Over(j) \ {z}
    <3> DEFINE g == PlaceOf(object, length, j)
    <3>1. Under(map, length, ranks, j) = { k \in At(map, length, g) : ranks[k] < ranks[j] }
      BY <2>1 DEF Under
    <3>2. Over(j) = { k \in At(object, length, g) : rank[k] < rank[j] }
      BY DEF Under
    <3>3. At(map, length, g) = At(object, length, g) \ {z}
      BY <1>12
    <3>4. \A k \in At(map, length, g) : ranks[k] = rank[k]
      BY <1>19, AtNodes
    <3> HIDE DEF g, Over
    <3> QED
      BY <1>19, <3>1, <3>2, <3>3, <3>4
  <2>3. IsLast(rank, Over(j) \ {z}, map.slots[j].next)
    <3>1. CASE j \in before
      BY <1>9, <1>15, <1>17, <3>1
    <3>2. CASE j \notin before
      <4>1. object.slots[j].next # z /\ IsLast(rank, Over(j), object.slots[j].next)
        BY <1>5, <2>1, <3>2 DEF Ranked
      <4> QED
        BY <1>9, <1>21, <3>2, <4>1
    <3> QED
      BY <3>1, <3>2
  <2>4. \A k \in Over(j) \ {z} : ranks[k] = rank[k]
    <3>1. Over(j) \subseteq Nodes(object)
      BY AtNodes DEF Under
    <3> QED
      BY <1>4, <1>19, <3>1
  <2> QED
    BY <2>2, <2>3, <2>4, LastSame
<1>24. Ranked(map, length, top, ranks)
  BY <1>10, <1>19, <1>20, <1>22, <1>23 DEF Ranked
<1>25. ASSUME NEW k, NEW y
       PROVE  Holding(map, k, y) <=> Holding(object, k, y) /\ k # object.slots[z].key
  <2>1. \A j \in Nodes(object) : object.slots[j].key = object.slots[z].key => j = z
    BY DEF Ranked, Filled
  <2> QED
    BY <1>4, <1>9, <2>1 DEF Holding
<1> QED
  BY <1>24, <1>25

\* A bounded set of natural numbers has a greatest.
LEMMA GreatestBelow ==
    ASSUME NEW n \in Nat, NEW G \in SUBSET (1 .. n), G # {}
    PROVE  \E m \in G : \A k \in G : k <= m
<1> DEFINE Left == { l \in Nat : \E m \in G : l = n - m }
<1>1. Left \in SUBSET Nat /\ Left # {}
  <2>1. PICK m \in G : TRUE
    OBVIOUS
  <2>2. n - m \in Left
    BY <2>1
  <2> QED
    BY <2>2
<1> HIDE DEF Left
<1>2. PICK l \in Left : \A k \in Left : l <= k
  BY <1>1, LeastNatural
<1>3. PICK m \in G : l = n - m
  BY <1>2 DEF Left
<1>4. ASSUME NEW k \in G
      PROVE  k <= m
  <2>1. n - k \in Left
    BY DEF Left
  <2>2. n - m <= n - k
    BY <1>2, <1>3, <2>1
  <2> QED
    BY <2>2
<1> QED
  BY <1>4

\* The order that a rehash takes the nodes in.
Index(visited, z) == CHOOSE n \in DOMAIN visited : visited[n] = z

Indices(map, visited) == [z \in Nodes(map) |-> Index(visited, z)]

\* They are different for different nodes.
LEMMA IndexIs ==
    ASSUME NEW map, NEW visited, NEW c \in Nat, visited \in [1 .. c -> Nodes(map)],
           \A k, l \in 1 .. c : visited[k] = visited[l] => k = l,
           \A j \in Nodes(map) : \E k \in 1 .. c : visited[k] = j
    PROVE  /\ \A z \in Nodes(map) : /\ Index(visited, z) \in 1 .. c
                                    /\ visited[Index(visited, z)] = z
           /\ \A k \in 1 .. c : Index(visited, visited[k]) = k
<1>1. ASSUME NEW z \in Nodes(map)
      PROVE  Index(visited, z) \in 1 .. c /\ visited[Index(visited, z)] = z
  <2>1. \E n \in DOMAIN visited : visited[n] = z
    OBVIOUS
  <2>2. Index(visited, z) \in DOMAIN visited /\ visited[Index(visited, z)] = z
    BY <2>1, Zenon DEF Index
  <2> QED
    BY <2>2
<1>2. ASSUME NEW k \in 1 .. c
      PROVE  Index(visited, visited[k]) = k
  <2>1. visited[k] \in Nodes(map)
    OBVIOUS
  <2> QED
    BY <1>1, <2>1
<1> QED
  BY <1>1, <1>2

\* The slot that was put last at a place.
LEMMA LastAtIs ==
    ASSUME NEW map, NEW visited, NEW c \in Nat, visited \in [1 .. c -> Nodes(map)],
           \A k, l \in 1 .. c : visited[k] = visited[l] => k = l,
           \A j \in Nodes(map) : \E k \in 1 .. c : visited[k] = j,
           NEW n \in 0 .. c, NEW h, NEW length
    PROVE  IsLast(Indices(map, visited),
                  { z \in Nodes(map) : PlaceOf(map, length, z) = h /\ Indices(map,
                  visited)[z] <= n },
                  M!LastAt(visited, n, h, map, length))
<1> DEFINE there == { m \in 1 .. n : M!Place(map.slots[visited[m]].key, length) = h }
           rank == Indices(map, visited)
           G == { z \in Nodes(map) : PlaceOf(map, length, z) = h /\ rank[z] <= n }
           last == CHOOSE m \in there : \A k \in there : k <= m
<1>1. /\ \A z \in Nodes(map) : rank[z] \in 1 .. c /\ visited[rank[z]] = z
      /\ \A k \in 1 .. c : visited[k] \in Nodes(map) /\ rank[visited[k]] = k
  BY IndexIs DEF Indices
<1> HIDE DEF rank
<1>2. M!LastAt(visited, n, h, map, length) = IF there = {} THEN 0 ELSE visited[last]
  BY DEF M!LastAt
<1>3. \A z \in G : rank[z] \in there
  BY <1>1 DEF PlaceOf
<1>4. \A m \in there : m \in 1 .. c /\ visited[m] \in G
  BY <1>1 DEF PlaceOf
<1>5. CASE there = {}
  BY <1>2, <1>3, <1>5 DEF IsLast, rank
<1>6. CASE there # {}
  <2>1. \E m \in there : \A k \in there : k <= m
    <3>1. there \in SUBSET (1 .. n) /\ n \in Nat
      OBVIOUS
    <3> HIDE DEF there
    <3> QED
      BY <1>6, <3>1, GreatestBelow
  <2> HIDE DEF there, G
  <2>2. last \in there /\ \A k \in there : k <= last
    BY <2>1, Zenon
  <2> HIDE DEF last
  <2>3. visited[last] \in G /\ rank[visited[last]] = last
    BY <1>1, <1>4, <2>2
  <2>4. \A z \in G : rank[z] <= rank[visited[last]]
    BY <1>3, <2>2, <2>3
  <2>5. M!LastAt(visited, n, h, map, length) = visited[last]
    BY <1>2, <1>6
  <2>6. IsLast(rank, G, M!LastAt(visited, n, h, map, length))
    BY <2>3, <2>4, <2>5 DEF IsLast
  <2> QED
    BY <2>6 DEF G, rank
<1> QED
  BY <1>5, <1>6

\* A rehash keeps every node, in the chain where its key now hashes.
LEMMA RehashedIs ==
    ASSUME NEW map, NEW length, NEW top, NEW rank, Ranked(map, length, top, rank)
    PROVE  /\ \E l, t, r : Ranked(M!Rehashed(map), l, t, r)
           /\ \A k, y : Holding(M!Rehashed(map), k, y) <=> Holding(map, k, y)
<1> DEFINE visited == M!Visited(map)
           longer == 2 * length + 1
           after == M!Rehashed(map)
           ranks == Indices(map, visited)
           Next1(z) == M!LastAt(visited, Index(visited, z) - 1,
                                M!Place(map.slots[visited[Index(visited, z)]].key, longer), map,
                                longer)
<1>1. M!Cardinality(DOMAIN map.table) = length /\ length \in Nat \ {0} /\ longer \in Nat \ {0}
  BY SamePlaces DEF Ranked
<1>2. PICK c \in Nat :
        /\ visited \in [1 .. c -> Nodes(map)]
        /\ \A k, l \in 1 .. c : visited[k] = visited[l] => k = l
        /\ \A j \in Nodes(map) : \E k \in 1 .. c : visited[k] = j
  BY VisitedIs DEF Lists
<1>3. /\ after = [slots |-> after.slots, table |-> after.table]
      /\ after.slots = [z \in DOMAIN map.slots |->
                           IF z = 0 THEN map.slots[0] ELSE [map.slots[z] EXCEPT !.next = Next1(z)]]
      /\ after.table = [h \in 0 .. longer - 1 |-> M!LastAt(visited, Len(visited), h, map, longer)]
  BY <1>1 DEF M!Rehashed, Index
<1> HIDE DEF visited, longer, after
<1>4. /\ DOMAIN after.slots = DOMAIN map.slots /\ Nodes(after) = Nodes(map)
      /\ DOMAIN after.table = 0 .. longer - 1
  BY <1>3 DEF Nodes
<1>5. /\ \A z \in Nodes(map) : /\ Index(visited, z) \in 1 .. c /\ Index(visited, z) - 1 \in 0 .. c
                               /\ visited[Index(visited, z)] = z /\ ranks[z] = Index(visited, z)
      /\ Len(visited) = c
  BY <1>2, IndexIs DEF Indices
<1>6. ASSUME NEW n \in 0 .. c, NEW h
      PROVE  IsLast(ranks, { z \in Nodes(map) : PlaceOf(map, longer, z) = h /\ ranks[z] <= n },
                    M!LastAt(visited, n, h, map, longer))
  BY <1>2, LastAtIs
<1>7. \A z \in Nodes(map) : z \in Nat
  BY DEF Nodes, Ranked, Filled
<1>8. ASSUME NEW n \in 0 .. c, NEW h
      PROVE  M!LastAt(visited, n, h, map, longer) \in Nat
  BY <1>6, <1>7 DEF IsLast
<1>9. ASSUME NEW z \in Nodes(map)
      PROVE  /\ after.slots[z] \in Entry
             /\ after.slots[z].key = map.slots[z].key
                /\ after.slots[z].element = map.slots[z].element
             /\ after.slots[z].next = M!LastAt(visited, ranks[z] - 1, PlaceOf(map, longer, z),
                map, longer)
  <2>1. map.slots[z] \in Entry /\ z \in DOMAIN map.slots /\ z # 0
    BY DEF Ranked, Filled, Nodes
  <2>2. /\ map.slots[z].key \in Keys /\ map.slots[z].element \in Held
        /\ map.slots[z] = [key |-> map.slots[z].key, element |-> map.slots[z].element,
                           next |-> map.slots[z].next]
    BY <2>1 DEF Entry
  <2> DEFINE next == M!LastAt(visited, ranks[z] - 1, PlaceOf(map, longer, z), map, longer)
  <2>3. Next1(z) = next
    BY <1>5 DEF PlaceOf
  <2>4. next \in Nat
    BY <1>5, <1>8
  <2> HIDE DEF next
  <2>5. after.slots[z] = [key |-> map.slots[z].key, element |-> map.slots[z].element, next |-> next]
    BY <1>3, <2>1, <2>2, <2>3
  <2>6. after.slots[z] \in Entry
    BY <2>2, <2>4, <2>5 DEF Entry
  <2> QED
    BY <2>5, <2>6 DEF next
<1>10. Filled(after, longer)
  <2>1. after.slots[0] = map.slots[0] /\ 0 \in DOMAIN after.slots
        /\ DOMAIN after.slots \subseteq Nat
    BY <1>3, <1>4 DEF Ranked, Filled
  <2>2. \A z, j \in Nodes(after) : after.slots[z].key = after.slots[j].key => z = j
    BY <1>4, <1>9 DEF Ranked, Filled
  <2>3. after.slots = [z \in DOMAIN after.slots |-> after.slots[z]]
        /\ IsFiniteSet(DOMAIN after.slots)
    BY <1>3, <1>4 DEF Ranked, Filled
  <2>4. after.table = [h \in 0 .. longer - 1 |-> after.table[h]]
    BY <1>3
  <2>5. \A z \in Nodes(after) : after.slots[z] \in Entry
    BY <1>4, <1>9
  <2>6. after.slots[0] = [key |-> NULL, element |-> NULL, next |-> 0]
    BY <2>1 DEF Ranked, Filled
  <2> QED
    BY <1>1, <1>3, <1>4, <2>1, <2>2, <2>3, <2>4, <2>5, <2>6, Zenon DEF Filled
<1>11. \A z \in Nodes(map) : PlaceOf(after, longer, z) = PlaceOf(map, longer, z)
  BY <1>9 DEF PlaceOf
<1>12. ASSUME NEW h PROVE At(after, longer, h) = { z \in Nodes(map) : PlaceOf(map, longer, z) = h }
  BY <1>4, <1>11 DEF At
<1>13. ranks \in [Nodes(after) -> 0 .. c + 1 - 1]
  <2>1. ranks = [z \in Nodes(after) |-> Index(visited, z)]
    BY <1>4 DEF Indices
  <2>2. \A z \in Nodes(after) : Index(visited, z) \in 0 .. c + 1 - 1
    BY <1>4, <1>5
  <2> HIDE DEF ranks
  <2> QED
    BY <2>1, <2>2
<1>14. \A z, j \in Nodes(after) : ranks[z] = ranks[j] => z = j
  BY <1>4, <1>5
<1> HIDE DEF ranks
<1>15. ASSUME NEW h \in 0 .. longer - 1
       PROVE  IsLast(ranks, At(after, longer, h), after.table[h])
  <2>1. after.table[h] = M!LastAt(visited, c, h, map, longer)
    BY <1>3, <1>5
  <2>2. At(after, longer, h) = { z \in Nodes(map) : PlaceOf(map, longer, z) = h /\ ranks[z] <= c }
    BY <1>5, <1>12
  <2>3. c \in 0 .. c
    OBVIOUS
  <2> QED
    BY <1>6, <2>1, <2>2, <2>3
<1>16. ASSUME NEW z \in Nodes(after)
       PROVE  IsLast(ranks, Under(after, longer, ranks, z), after.slots[z].next)
  <2> DEFINE n == ranks[z] - 1
             h == PlaceOf(map, longer, z)
  <2>1. z \in Nodes(map) /\ n \in 0 .. c /\ ranks[z] \in 1 .. c
    BY <1>4, <1>5
  <2>2. after.slots[z].next = M!LastAt(visited, n, h, map, longer)
    BY <1>9, <2>1
  <2>3. \A j \in Nodes(map) : ranks[j] \in 1 .. c /\ (ranks[j] < ranks[z] <=> ranks[j] <= n)
    BY <1>5, <2>1
  <2> HIDE DEF n
  <2>4. Under(after, longer, ranks, z) = { j \in At(after, longer, h) : ranks[j] < ranks[z] }
    <3>1. PlaceOf(after, longer, z) = h
      BY <1>11, <2>1
    <3> HIDE DEF h
    <3> QED
      BY <3>1 DEF Under
  <2> HIDE DEF h
  <2>5. Under(after, longer, ranks, z) = { j \in Nodes(map) : PlaceOf(map, longer, j) = h
        /\ ranks[j] <= n }
    BY <1>12, <2>3, <2>4
  <2> QED
    BY <1>6, <2>1, <2>2, <2>5
<1>17. Ranked(after, longer, c + 1, ranks)
  BY <1>10, <1>13, <1>14, <1>15, <1>16 DEF Ranked
<1>18. \A k, y : Holding(after, k, y) <=> Holding(map, k, y)
  BY <1>4, <1>9 DEF Holding
<1> QED
  BY <1>17, <1>18 DEF after

\* What an insertion adds.
LEMMA InsertMapStep ==
    ASSUME MapInv, NEW key \in Keys, NEW x \in Held, M!Insert(key, x)
    PROVE  /\ MapInv' /\ M!Find(key) = 0
           /\ \A k, y : Holding(object, k, y)' <=> Holding(object, k, y) \/ (k = key /\ y = x)
<1>1. PICK length, top, rank : Ranked(object, length, top, rank)
  BY DEF MapInv
<1> DEFINE map == M!Linked(key, x, M!Place(key, M!Length))
<1>2. M!Find(key) = 0 /\ (object' = map \/ object' = M!Rehashed(map))
  BY DEF M!Insert
<1>3. \A y : ~Holding(object, key, y)
  BY <1>2, GetIs
<1>4. M!Length = length
  BY <1>1, LengthIs
<1>5. /\ \E t, r : Ranked(map, length, t, r)
      /\ \A k, y : Holding(map, k, y) <=> Holding(object, k, y) \/ (k = key /\ y = x)
  BY <1>1, <1>3, <1>4, LinkedIs
<1> HIDE DEF map
<1>6. PICK new : new = object'
  OBVIOUS
<1>7. /\ \E l, t, r : Ranked(new, l, t, r)
      /\ \A k, y : Holding(new, k, y) <=> Holding(map, k, y)
  BY <1>2, <1>5, <1>6, RehashedIs
<1>8. (\E l, t, r : Ranked(object, l, t, r))'
  BY <1>6, <1>7
<1>9. \A k, y : Holding(object, k, y)' <=> Holding(map, k, y)
  BY <1>6, <1>7
<1> QED
  BY <1>2, <1>5, <1>8, <1>9 DEF MapInv

\* What a removal takes away.
LEMMA RemoveMapStep ==
    ASSUME MapInv, NEW key \in Keys, M!Remove(key)
    PROVE  /\ MapInv' /\ M!Find(key) # 0
           /\ \A k, y : Holding(object, k, y)' <=> Holding(object, k, y) /\ k # key
<1>1. PICK length, top, rank : Ranked(object, length, top, rank)
  BY DEF MapInv
<1>2. PICK z : z = M!Find(key)
  OBVIOUS
<1>3. PICK map : map = M!Unlinked(z, M!Place(key, M!Length), object.slots[z].next)
  OBVIOUS
<1>4. z # 0 /\ object' = map
  BY <1>2, <1>3 DEF M!Remove, M!slots
<1>5. z \in Nodes(object) /\ object.slots[z].key = key
  BY <1>1, <1>2, <1>4, FindIs
<1>6. M!Place(key, M!Length) = PlaceOf(object, length, z)
  BY <1>1, <1>5, LengthIs DEF PlaceOf
<1>7. /\ \E t, r : Ranked(map, length, t, r)
      /\ \A k, y : Holding(map, k, y) <=> Holding(object, k, y) /\ k # object.slots[z].key
  BY <1>1, <1>3, <1>5, <1>6, UnlinkedIs
<1>8. (\E l, t, r : Ranked(object, l, t, r))'
  BY <1>4, <1>7
<1>9. \A k, y : Holding(object, k, y)' <=> Holding(map, k, y)
  BY <1>4
<1> QED
  BY <1>2, <1>4, <1>5, <1>7, <1>8, <1>9 DEF MapInv

\* An element put in the place of another leaves the chains.
LEMMA ReplaceMapStep ==
    ASSUME MapInv, NEW key \in Keys, NEW x \in Held, M!Replace(key, x)
    PROVE  /\ MapInv' /\ M!Find(key) # 0
           /\ \A k, y : Holding(object, k, y)' <=> (Holding(object, k, y) /\ k # key) \/ (k = key
              /\ y = x)
<1>1. PICK length, top, rank : Ranked(object, length, top, rank)
  BY DEF MapInv
<1>2. PICK z : z = M!Find(key)
  OBVIOUS
<1>3. PICK map : map = [object EXCEPT !.slots[z].element = x]
  OBVIOUS
<1>4. z # 0 /\ object' = map
  BY <1>2, <1>3 DEF M!Replace
<1>5. z \in Nodes(object) /\ object.slots[z].key = key
  BY <1>1, <1>2, <1>4, FindIs
<1>6. /\ map = [slots |-> map.slots, table |-> map.table] /\ map.table = object.table
      /\ map.slots = [object.slots EXCEPT ![z].element = x]
  BY <1>1, <1>3 DEF Ranked, Filled
<1>7. /\ DOMAIN map.slots = DOMAIN object.slots /\ Nodes(map) = Nodes(object)
      /\ map.slots = [j \in DOMAIN map.slots |-> map.slots[j]]
  BY <1>6 DEF Nodes
<1>8. ASSUME NEW j \in Nodes(object)
      PROVE  /\ map.slots[j] \in Entry
             /\ map.slots[j].key = object.slots[j].key /\ map.slots[j].next = object.slots[j].next
             /\ map.slots[j].element = IF j = z THEN x ELSE object.slots[j].element
  <2>1. object.slots[j] \in Entry /\ j \in DOMAIN object.slots
    BY <1>1 DEF Ranked, Filled, Nodes
  <2>2. /\ object.slots[j].key \in Keys /\ object.slots[j].element \in Held
           /\ object.slots[j].next \in Nat
        /\ object.slots[j] = [key |-> object.slots[j].key, element |-> object.slots[j].element,
                              next |-> object.slots[j].next]
    BY <2>1 DEF Entry
  <2>3. map.slots[j] = [key |-> object.slots[j].key,
                        element |-> IF j = z THEN x ELSE object.slots[j].element,
                        next |-> object.slots[j].next]
    BY <1>6, <2>1, <2>2
  <2> QED
    BY <2>2, <2>3 DEF Entry
<1>9. Filled(map, length)
  <2>1. map.slots[0] = object.slots[0]
    BY <1>1, <1>4, <1>6 DEF Ranked, Filled
  <2>2. \A j, k \in Nodes(map) : map.slots[j].key = map.slots[k].key => j = k
    BY <1>1, <1>7, <1>8 DEF Ranked, Filled
  <2> QED
    BY <1>1, <1>6, <1>7, <1>8, <2>1, <2>2 DEF Ranked, Filled
<1>10. \A h : At(map, length, h) = At(object, length, h)
  BY <1>7, <1>8 DEF At, PlaceOf
<1>11. ASSUME NEW j \in Nodes(object) PROVE Under(map, length, rank, j) = Under(object, length,
              rank, j)
  BY <1>8, <1>10 DEF Under, PlaceOf
<1>12. Ranked(map, length, top, rank)
  BY <1>1, <1>6, <1>7, <1>8, <1>9, <1>10, <1>11 DEF Ranked
<1>13. ASSUME NEW k, NEW y
       PROVE  Holding(map, k, y) <=> (Holding(object, k, y) /\ k # key) \/ (k = key /\ y = x)
  <2>1. \A j \in Nodes(object) : object.slots[j].key = key => j = z
    BY <1>1, <1>5 DEF Ranked, Filled
  <2> QED
    BY <1>5, <1>7, <1>8, <2>1 DEF Holding
<1>14. (\E l, t, r : Ranked(object, l, t, r))'
  BY <1>4, <1>12
<1> QED
  BY <1>2, <1>4, <1>13, <1>14 DEF MapInv

\* Every call keeps the invariant.
LEMMA MapStep ==
    ASSUME MapInv, M!Next
    PROVE  MapInv'
BY InsertMapStep, RemoveMapStep, ReplaceMapStep DEF M!Next

\* Every call does to what get returns what it does to a map.
LEMMA MapIsDict == MapInv => M!DictStep
<1> SUFFICES ASSUME MapInv, NEW key \in Keys
             PROVE  /\ M!Remove(key) => M!D!Drop(key)
                    /\ \A x \in Held : /\ M!Insert(key, x) => M!D!Add(key, x)
                                       /\ M!Replace(key, x) => M!D!Put(key, x)
  BY DEF M!DictStep
<1> DEFINE There == { k \in Keys : M!Get(k) # NULL }
           Dict1 == [k \in There |-> M!Get(k)]
<1>1. \A k \in Keys :
        \/ M!Get(k) = NULL /\ M!Find(k) = 0 /\ \A x : ~Holding(object, k, x)
        \/ /\ M!Get(k) # NULL /\ M!Find(k) # 0
           /\ Holding(object, k, M!Get(k)) /\ \A x : Holding(object, k, x) => x = M!Get(k)
  BY GetIs
<1>2. ASSUME MapInv'
      PROVE  \A k \in Keys :
                \/ M!Get(k)' = NULL /\ \A x : ~Holding(object, k, x)'
                \/ /\ M!Get(k)' # NULL
                   /\ Holding(object, k, M!Get(k))' /\ \A x : Holding(object, k,
                      x)' => x = M!Get(k)'
  BY <1>2, GetIsThen
<1>3. ASSUME M!Remove(key)
      PROVE  M!D!Drop(key)
  <2>1. MapInv' /\ M!Find(key) # 0 /\ \A k, y : Holding(object, k, y)' <=> Holding(object, k, y)
        /\ k # key
    BY <1>3, RemoveMapStep
  <2>2. There' = There \ {key} /\ key \in There
    BY <1>1, <1>2, <2>1
  <2>3. \A k \in There \ {key} : M!Get(k)' = M!Get(k)
    BY <1>1, <1>2, <2>1
  <2> QED
    BY <2>2, <2>3 DEF M!D!Drop
<1>4. ASSUME NEW x \in Held, M!Insert(key, x)
      PROVE  M!D!Add(key, x)
  <2>1. MapInv' /\ M!Find(key) = 0
        /\ \A k, y : Holding(object, k, y)' <=> Holding(object, k, y) \/ (k = key /\ y = x)
    BY <1>4, InsertMapStep
  <2>2. There' = There \union {key} /\ key \notin There
    BY <1>1, <1>2, <2>1
  <2>3. \A k \in There \union {key} : M!Get(k)' = IF k = key THEN x ELSE M!Get(k)
    BY <1>1, <1>2, <2>1
  <2> QED
    BY <2>2, <2>3 DEF M!D!Add
<1>5. ASSUME NEW x \in Held, M!Replace(key, x)
      PROVE  M!D!Put(key, x)
  <2>1. MapInv' /\ M!Find(key) # 0
        /\ \A k, y : Holding(object, k, y)' <=> (Holding(object, k, y) /\ k # key) \/ (k = key
           /\ y = x)
    BY <1>5, ReplaceMapStep
  <2>2. There' = There \union {key}
    BY <1>1, <1>2, <2>1
  <2>3. \A k \in There \union {key} : M!Get(k)' = IF k = key THEN x ELSE M!Get(k)
    BY <1>1, <1>2, <2>1
  <2> QED
    BY <2>2, <2>3 DEF M!D!Put
<1> QED
  BY <1>3, <1>4, <1>5

-----------------------------------------------------------------------------
(* All of them                                                              *)

\* What each of the maps and sets keeps.
DictInv ==
    /\ which = "hash map" => MapInv
    /\ which = "trie" => TrieInv
    /\ which = "bitset" => BitsInv

\* It holds at first.
LEMMA DictInit == Init => DictInv
BY MapInit, TrieInit, BitsInit DEF Init, DictInv

\* A hash map that no call is made on stays, and so do a trie and a bitset.
LEMMA DictStays ==
    ASSUME object' = object
    PROVE  (MapInv => MapInv') /\ (TrieInv => TrieInv') /\ (BitsInv => BitsInv')
<1>1. MapInv => MapInv'
  BY Zenon DEF MapInv
<1>2. TrieInv => TrieInv'
  BY Zenon DEF TrieInv, Holds
<1>3. BitsInv => BitsInv'
  BY Zenon DEF BitsInv
<1> QED
  BY <1>1, <1>2, <1>3

\* Every call on any of them keeps it.
LEMMA DictNext ==
    ASSUME DictInv, [Next]_vars
    PROVE  DictInv'
<1>1. CASE UNCHANGED vars
  <2>1. which' = which /\ object' = object
    BY <1>1 DEF vars
  <2> QED
    BY <2>1, DictStays DEF DictInv
<1>2. CASE Next
  <2>1. which' = which
    BY <1>2 DEF Next
  <2>2. which = "hash map" => MapInv'
    BY <1>2, MapStep DEF Next, DictInv
  <2>3. which = "trie" => TrieInv'
    BY <1>2, TrieStep DEF Next, DictInv
  <2>4. which = "bitset" => BitsInv'
    BY <1>2, BitsStep DEF Next, DictInv
  <2> QED
    BY <2>1, <2>2, <2>3, <2>4 DEF DictInv
<1> QED
  BY <1>1, <1>2

\* And what it holds of makes each call one on a map, or of the algebra of sets.
LEMMA DictSteps ==
    ASSUME DictInv, [Next]_vars
    PROVE  [ /\ which = "hash map" => M!DictStep
             /\ which = "trie" => T!DictStep
             /\ which = "bitset" => S!SetStep ]_object
<1>1. which = "bitset" /\ object' # object => S!Next
  BY DEF Next, vars
<1>2. which = "bitset" /\ object' # object => S!SetStep
  BY <1>1, BitsStep DEF DictInv
<1>3. which = "hash map" => M!DictStep
  BY MapIsDict DEF DictInv
<1>4. which = "trie" => T!DictStep
  BY TrieIsDict DEF DictInv
<1> QED
  BY <1>2, <1>3, <1>4

(* Every call of the hash map and the trie does to what get returns what it *)
(* does to a map, with the same results, and every call of a bitset is one  *)
(* of the algebra of sets: the composition implements Dict                  *)
(* (BL_HashMap.c, BL_Trie.c, BL_Bitset.c).                                  *)
THEOREM DictsAll == Spec => ImplementsDict
<1>1. Spec => []DictInv
  BY DictInit, DictNext, PTL DEF Spec
<1> QED
  BY <1>1, DictSteps, PTL DEF Spec, ImplementsDict

(* Whatever calls were made, the elements of a dynamic container lie within *)
(* its memory, a queue is the same from both of its ends, the chains of a   *)
(* hash map have each of its nodes once, in the place of its key, a node of *)
(* a trie leads to something stored unless an allocation failed, and a      *)
(* bitset that says it is empty is.                                         *)
THEOREM WholeAll == Spec => []StructureWhole
<1>1. Spec => []DictInv
  BY DictInit, DictNext, PTL DEF Spec
<1>2. Spec => []ListInv
  BY ListInit, ListNext, PTL DEF Spec
<1>3. ListInv /\ DictInv => StructureWhole
  <2>1. FitsInv => C!Fits
    BY DEF FitsInv
  <2> QED
    BY <2>1, QueueEnds, MapWhole, TrieLeads, EmptyIsKnown
       DEF ListInv, DictInv, StructureWhole
<1> QED
  BY <1>1, <1>2, <1>3, PTL
=============================================================================
