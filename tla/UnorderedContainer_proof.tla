----------------------- MODULE UnorderedContainer_proof -----------------------
(***************************************************************************)
(* Theorems about UnorderedContainer, for every width of words and pages,   *)
(* those of the code among them: the search of a put finds the first free   *)
(* slot there is, and so the counts, the growth and the slots agree.        *)
(***************************************************************************)
EXTENDS UnorderedContainer, FiniteSetTheorems, WellFoundedInduction, TLAPS

(***************************************************************************)
(* The least of a set of naturals.                                          *)
(***************************************************************************)
NatOrder == OpToRel(<, Nat)

\* A set of natural numbers that is not empty has a least one.
LEMMA LeastNatural ==
    ASSUME NEW T \in SUBSET Nat, T # {}
    PROVE  \E n \in T : \A m \in T : n <= m
<1>1. IsWellFoundedOn(NatOrder, Nat)
  BY NatLessThanWellFounded, Zenon DEF NatOrder
<1>2. \E n \in T : \A m \in T : ~ (<<m, n>> \in NatOrder)
  BY <1>1, WFMin, Zenon
<1>3. \A n, m \in Nat : m < n => <<m, n>> \in NatOrder
  BY DEF OpToRel, NatOrder
<1>4. \A n, m \in Nat : n <= m \/ m < n
  OBVIOUS
<1> QED
  BY <1>2, <1>3, <1>4

\* The least of a set is in it.
LEMMA LeastInSet ==
    ASSUME NEW T \in SUBSET Nat, T # {}
    PROVE  Least(T) \in T /\ \A m \in T : Least(T) <= m
  BY LeastNatural DEF Least

\* And there is only one.
LEMMA LeastIs ==
    ASSUME NEW T \in SUBSET Nat, NEW n \in T, \A m \in T : n <= m
    PROVE  Least(T) = n
<1>1. T # {}
  OBVIOUS
<1>2. Least(T) \in T /\ \A m \in T : Least(T) <= m
  BY <1>1, LeastInSet
<1>3. Least(T) <= n /\ n <= Least(T) /\ n \in Nat /\ Least(T) \in Nat
  BY <1>2
<1> QED
  BY <1>3

-----------------------------------------------------------------------------
(* The search for a free bit.                                               *)

\* A half that is skipped is full, and one that is not holds the first free bit.
LEMMA Halving ==
    ASSUME NEW word, NEW first \in Nat, first \notin word,
           \A c \in 0 .. first - 1 : c \in word,
           NEW b \in Nat, NEW half \in Nat \ {0}, b <= first, first < b + half + half
    PROVE  /\ PastFull(word, b, half) \in Nat
           /\ PastFull(word, b, half) <= first
           /\ first < PastFull(word, b, half) + half
<1>1. CASE b .. b + half - 1 \subseteq word
  <2>1. PastFull(word, b, half) = b + half
    BY <1>1 DEF PastFull
  <2>2. ~(first < b + half)
    BY <1>1
  <2> QED
    BY <2>1, <2>2
<1>2. CASE ~(b .. b + half - 1 \subseteq word)
  <2>1. PastFull(word, b, half) = b
    BY <1>2 DEF PastFull
  <2>2. PICK c \in b .. b + half - 1 : c \notin word
    BY <1>2
  <2>3. first <= c
    BY <2>2
  <2> QED
    BY <2>1, <2>2, <2>3
<1> QED
  BY <1>1, <1>2

\* The bits looked at one by one are those of the first free one.
LEMMA SearchInWord ==
    ASSUME NEW word \in SUBSET (0 .. WordBits - 1), NEW first \in 0 .. WordBits - 1,
           first \notin word, \A c \in 0 .. first - 1 : c \in word
    PROVE  Candidates(word) # {} /\ Least(Candidates(word)) = first
<1>1. /\ WordBits \in Nat \ {0}
      /\ Halves[1] \in Nat \ {0} /\ Halves[2] \in Nat \ {0} /\ Halves[3] \in Nat \ {0}
      /\ Halves[1] * 2 = WordBits
      /\ Halves[2] * 2 = Halves[1] \/ (Halves[2] = 1 /\ Halves[1] = 1)
      /\ Halves[3] * 2 = Halves[2] \/ (Halves[3] = 1 /\ Halves[2] = 1)
  BY SizesAssumption, HalvesAssumption
<1>0. first \in Nat /\ first < 0 + WordBits
  BY <1>1
<1> DEFINE one == PastFull(word, 0, Halves[1])
           two == PastFull(word, one, Halves[2])
           three == PastFull(word, two, Halves[3])
<1>2. one \in Nat /\ one <= first /\ first < one + Halves[1]
  <2>1. /\ 0 \in Nat /\ Halves[1] \in Nat \ {0} /\ first \in Nat
        /\ 0 <= first /\ first < 0 + Halves[1] + Halves[1]
    BY <1>0, <1>1
  <2> QED
    BY <2>1, Halving
<1> HIDE DEF one
<1>3. two \in Nat /\ two <= first /\ first < two + Halves[2]
  <2>1. /\ one \in Nat /\ Halves[2] \in Nat \ {0} /\ first \in Nat
        /\ one <= first /\ first < one + Halves[2] + Halves[2]
    BY <1>0, <1>1, <1>2
  <2> QED
    BY <2>1, Halving
<1> HIDE DEF two
<1>4. three \in Nat /\ three <= first /\ first < three + Halves[3]
  <2>1. /\ two \in Nat /\ Halves[3] \in Nat \ {0} /\ first \in Nat
        /\ two <= first /\ first < two + Halves[3] + Halves[3]
    BY <1>0, <1>1, <1>3
  <2> QED
    BY <2>1, Halving
<1> HIDE DEF three
<1>5. Skipped(word) = three
  BY DEF Skipped, one, two, three
<1>6. Candidates(word) = { c \in three .. three + Halves[3] - 1 : c \notin word }
  BY <1>5 DEF Candidates
<1>7. first \in Candidates(word) /\ Candidates(word) \in SUBSET Nat
  BY <1>1, <1>4, <1>6
<1>8. \A c \in Candidates(word) : first <= c
  BY <1>1, <1>4, <1>6
<1> QED
  BY <1>7, <1>8, LeastIs

-----------------------------------------------------------------------------
(* Words and bits.                                                          *)

\* A product divided by its factor.
LEMMA QuotientOfProduct ==
    ASSUME NEW m \in Nat, NEW d \in Nat \ {0}
    PROVE  (m * d) \div d = m
  OBVIOUS

\* A quotient and its remainder.
LEMMA Division ==
    ASSUME NEW n \in Nat, NEW d \in Nat \ {0}
    PROVE  n \div d \in Nat /\ n % d \in 0 .. d - 1 /\ n = (n \div d) * d + (n % d)
  OBVIOUS

\* A word further on begins where the one before ends.
LEMMA LessByProduct ==
    ASSUME NEW m \in Nat, NEW n \in Nat, NEW d \in Nat \ {0}, m < n
    PROVE  m * d + d <= n * d
<1>1. PICK k \in Nat : n = m + 1 + k
  <2>1. n - m - 1 \in Nat /\ n = m + 1 + (n - m - 1)
    OBVIOUS
  <2> QED
    BY <2>1
<1>2. n * d = m * d + d + k * d
  BY <1>1
<1>3. k * d \in Nat /\ m * d \in Nat
  OBVIOUS
<1> QED
  BY <1>2, <1>3

\* More pages have as many slots or more.
LEMMA ProductGrows ==
    ASSUME NEW m \in Nat, NEW n \in Nat, NEW d \in Nat \ {0}, m <= n
    PROVE  m * d \in Nat /\ n * d \in Nat /\ m * d <= n * d
<1>1. m * d \in Nat /\ n * d \in Nat
  OBVIOUS
<1>2. CASE m = n
  BY <1>1, <1>2
<1>3. CASE m < n
  BY <1>1, <1>3, LessByProduct
<1> QED
  BY <1>1, <1>2, <1>3

\* More slots contain the fewer.
LEMMA IntervalGrows ==
    ASSUME NEW m \in Nat, NEW n \in Nat, m <= n
    PROVE  0 .. m - 1 \subseteq 0 .. n - 1
  OBVIOUS

\* Fewer slots are of fewer words.
LEMMA ProductLess ==
    ASSUME NEW m \in Nat, NEW n \in Nat, NEW d \in Nat \ {0}, m * d < n * d
    PROVE  m < n
  OBVIOUS

\* The words of the bitset are those of the pages, to the bit.
LEMMA WordsOfPages ==
    ASSUME NEW pages \in Nat
    PROVE  WordCount(pages) \in Nat /\ WordCount(pages) * WordBits = pages * PageSize
<1>1. WordBits \in Nat \ {0} /\ PageSize \in Nat \ {0} /\ PageSize % WordBits = 0
  BY SizesAssumption
<1> DEFINE k == PageSize \div WordBits
<1>2. k \in Nat /\ PageSize = k * WordBits
  BY <1>1, Division
<1> HIDE DEF k
<1>3. pages * k \in Nat /\ pages * PageSize = (pages * k) * WordBits
  BY <1>1, <1>2
<1>4. WordCount(pages) = pages * k
  BY <1>1, <1>3, QuotientOfProduct DEF WordCount
<1> QED
  BY <1>3, <1>4

FreeBelow(s, top) == { n \in 0 .. top - 1 : n \notin DOMAIN s }

(***************************************************************************)
(* The search of bl_unordered_container_put, over the words and in the      *)
(* halves of a word, finds the first free slot whenever there is one.       *)
(***************************************************************************)
THEOREM FindsFirstFree ==
    ASSUME NEW s, NEW pages \in Nat, FreeBelow(s, pages * PageSize) # {}
    PROVE  AvailableIndex(s, pages) = Least(FreeBelow(s, pages * PageSize))
<1> DEFINE top == pages * PageSize
           n == Least(FreeBelow(s, top))
           w == n \div WordBits
           first == n % WordBits
<1>1. WordBits \in Nat \ {0} /\ PageSize \in Nat \ {0}
  BY SizesAssumption
<1>2. top \in Nat /\ FreeBelow(s, top) \in SUBSET Nat
  BY <1>1 DEF FreeBelow
<1>3. n \in FreeBelow(s, top) /\ \A m \in FreeBelow(s, top) : n <= m
  BY <1>2, LeastInSet
<1>4. n \in Nat /\ n < top /\ n \notin DOMAIN s
  BY <1>2, <1>3 DEF FreeBelow
<1>5. \A m \in 0 .. n - 1 : m \in DOMAIN s
  BY <1>2, <1>3, <1>4 DEF FreeBelow
<1> HIDE DEF n
<1>6. w \in Nat /\ first \in 0 .. WordBits - 1 /\ n = w * WordBits + first
  BY <1>1, <1>4, Division
<1>7. WordCount(pages) \in Nat /\ WordCount(pages) * WordBits = top
  BY WordsOfPages
<1> HIDE DEF w, first, top
<1>8. w * WordBits \in Nat /\ w < WordCount(pages)
  <2>1. w * WordBits \in Nat /\ w * WordBits < WordCount(pages) * WordBits
    BY <1>1, <1>4, <1>6, <1>7
  <2> QED
    BY <1>1, <1>6, <1>7, <2>1, ProductLess
<1>9. first \notin Word(s, w) /\ Word(s, w) \in SUBSET (0 .. WordBits - 1)
  BY <1>4, <1>6 DEF Word
<1>10. \A c \in 0 .. first - 1 : c \in Word(s, w)
  BY <1>1, <1>5, <1>6, <1>8 DEF Word
<1>11. w \in WordsWithRoom(s, pages) /\ WordsWithRoom(s, pages) \in SUBSET Nat
  BY <1>1, <1>6, <1>7, <1>8, <1>9 DEF WordsWithRoom
<1>12. ASSUME NEW v \in WordsWithRoom(s, pages) PROVE w <= v
  <2>1. v \in Nat
    BY <1>11
  <2>2. PICK c \in 0 .. WordBits - 1 : v * WordBits + c \notin DOMAIN s
    BY DEF WordsWithRoom, Word
  <2>3. SUFFICES ASSUME v < w PROVE FALSE
    BY <1>6, <2>1
  <2>4. v * WordBits \in Nat /\ v * WordBits + WordBits <= w * WordBits
    BY <1>1, <1>6, <2>1, <2>3, LessByProduct
  <2>5. v * WordBits + c \in 0 .. n - 1
    BY <1>1, <1>6, <1>8, <2>4
  <2> QED
    BY <1>5, <2>2, <2>5
<1>13. Least(WordsWithRoom(s, pages)) = w
  BY <1>11, <1>12, LeastIs
<1>14. Candidates(Word(s, w)) # {} /\ Least(Candidates(Word(s, w))) = first
  BY <1>6, <1>9, <1>10, SearchInWord
<1>15. AvailableIndex(s, pages) = w * WordBits + first
  BY <1>11, <1>13, <1>14 DEF AvailableIndex
<1> QED
  BY <1>6, <1>15 DEF n, top

\* Without one it comes to slot 0.
LEMMA NoneFree ==
    ASSUME NEW s, NEW pages \in Nat, FreeBelow(s, pages * PageSize) = {}
    PROVE  AvailableIndex(s, pages) = 0
<1>1. WordBits \in Nat \ {0}
  BY SizesAssumption
<1>2. WordCount(pages) \in Nat /\ WordCount(pages) * WordBits = pages * PageSize
  BY WordsOfPages
<1>3. ASSUME NEW w \in 0 .. WordCount(pages) - 1 PROVE Word(s, w) = 0 .. WordBits - 1
  <2>1. w * WordBits \in Nat /\ w * WordBits + WordBits <= pages * PageSize
    <3>1. w \in Nat /\ w < WordCount(pages)
      BY <1>2
    <3> QED
      BY <1>1, <1>2, <3>1, LessByProduct
  <2>2. \A b \in 0 .. WordBits - 1 : w * WordBits + b \in 0 .. pages * PageSize - 1
    BY <1>1, <1>2, <2>1
  <2> QED
    BY <2>2 DEF FreeBelow, Word
<1> QED
  BY <1>3 DEF AvailableIndex, WordsWithRoom

\* The search of a put ends within the pages.
LEMMA IndexBelow ==
    ASSUME NEW s, NEW pages \in Nat \ {0}
    PROVE  AvailableIndex(s, pages) \in 0 .. pages * PageSize - 1
<1>1. PageSize \in Nat \ {0}
  BY SizesAssumption
<1>2. pages * PageSize \in Nat \ {0}
  BY <1>1
<1>3. CASE FreeBelow(s, pages * PageSize) = {}
  BY <1>2, <1>3, NoneFree
<1>4. CASE FreeBelow(s, pages * PageSize) # {}
  <2>1. FreeBelow(s, pages * PageSize) \in SUBSET Nat
    BY <1>2 DEF FreeBelow
  <2>2. AvailableIndex(s, pages) \in FreeBelow(s, pages * PageSize)
    BY <1>4, <2>1, FindsFirstFree, LeastInSet
  <2> QED
    BY <2>2 DEF FreeBelow
<1> QED
  BY <1>3, <1>4

-----------------------------------------------------------------------------
(* The counts.                                                              *)

\* The slots that get looks at.
Held == { n \in Occupied : n < Capacity }

\* No element too few is counted, and the count is exact if nothing is reserved.
CountInv ==
    /\ Cardinality(Held) <= amountOfElements
    /\ ~reserves => Held = Occupied /\ amountOfElements = Cardinality(Occupied)

\* The sizes that the types imply.
LEMMA Sizes ==
    ASSUME TypeOK
    PROVE  /\ PageSize \in Nat \ {0} /\ MaxPages \in Nat \ {0} /\ MaxAmount \in Nat
           /\ amountOfPages \in Nat \ {0} /\ amountOfElements \in Nat
           /\ Capacity \in Nat \ {0} /\ Capacity <= MaxPages * PageSize
           /\ Occupied \subseteq Nat
<1>1. PageSize \in Nat \ {0} /\ MaxPages \in Nat \ {0} /\ MaxAmount \in Nat
  BY SizesAssumption
<1>2. amountOfPages \in Nat \ {0} /\ amountOfElements \in Nat /\ amountOfPages <= MaxPages
  BY <1>1 DEF TypeOK
<1>3. MaxPages * PageSize \in Nat
  BY <1>1
<1>4. amountOfPages * PageSize <= MaxPages * PageSize
  BY <1>1, <1>2, ProductGrows
<1>5. amountOfPages * PageSize \in Nat \ {0}
  BY <1>1, <1>2
<1> QED
  BY <1>1, <1>2, <1>3, <1>4, <1>5 DEF TypeOK, Indices, Capacity

\* There are finitely many elements, as many as slots at most.
LEMMA FiniteHeld ==
    ASSUME TypeOK
    PROVE  /\ IsFiniteSet(Occupied) /\ Cardinality(Occupied) \in Nat
           /\ IsFiniteSet(Held) /\ Cardinality(Held) \in Nat
           /\ Cardinality(Held) <= Capacity
<1>1. MaxPages * PageSize \in Nat /\ Capacity \in Nat
  BY Sizes
<1>2. IsFiniteSet(Indices)
  BY <1>1, FS_Interval DEF Indices
<1>3. IsFiniteSet(Occupied)
  BY <1>2, FS_Subset DEF TypeOK
<1>4. IsFiniteSet(0 .. Capacity - 1) /\ Cardinality(0 .. Capacity - 1) = Capacity
  <2>1. 0 \in Int /\ Capacity - 1 \in Int /\ Capacity - 1 - 0 + 1 = Capacity
        /\ (0 > Capacity - 1 => Capacity = 0)
    BY <1>1
  <2> QED
    BY <2>1, FS_Interval
<1>5. Held \subseteq 0 .. Capacity - 1
  BY <1>1, Sizes DEF Held
<1> QED
  BY <1>3, <1>4, <1>5, FS_Subset, FS_CardinalityType

\* What get can return is what is held.
LEMMA GettableIsHeld == TypeOK => Gettable = Held
<1> SUFFICES ASSUME TypeOK PROVE Gettable = Held
  OBVIOUS
<1>1. \A n \in Occupied : n \in Indices /\ slots[n] # NULL
  BY NullAssumption DEF TypeOK
<1> QED
  BY <1>1 DEF Gettable, Held, Get

\* The same after a call.
LEMMA GettableIsHeldNext == TypeOK' => Gettable' = Held'
<1> SUFFICES ASSUME TypeOK' PROVE Gettable' = Held'
  OBVIOUS
<1>1. \A n \in Occupied' : n \in Indices /\ slots'[n] # NULL
  BY NullAssumption DEF TypeOK
<1> QED
  BY <1>1 DEF Gettable, Held, Get

-----------------------------------------------------------------------------
(* The steps.                                                               *)

\* A container that was created.
LEMMA CountsInit == Init => TypeOK /\ CountInv
<1> SUFFICES ASSUME Init PROVE TypeOK /\ CountInv
  OBVIOUS
<1>1. Occupied = {}
  BY DEF Init, Occupied
<1>2. TypeOK
  BY <1>1, SizesAssumption DEF Init, TypeOK
<1>3. Held = {} /\ Cardinality({}) = 0
  BY <1>1, FS_EmptySet DEF Held
<1> QED
  BY <1>1, <1>2, <1>3 DEF Init, CountInv

\* A put that is looked for a place with the pages there are after the growth.
LEMMA PutPlace ==
    ASSUME TypeOK, CountInv, NEW x \in Values, Put(x),
           NEW place, place = AvailableIndex(SlotsForPut, PagesForPut)
    PROVE  /\ Capacity' \in Nat /\ Capacity <= Capacity' /\ amountOfPages' \in 1 .. MaxPages
           /\ place \in 0 .. Capacity' - 1
           /\ Held' = Held \union {place}
           /\ Occupied' = DOMAIN SlotsForPut \union {place}
           /\ DOMAIN SlotsForPut \subseteq Occupied /\ Held \subseteq DOMAIN SlotsForPut
           /\ \A n \in DOMAIN SlotsForPut : SlotsForPut[n] = slots[n]
           /\ ~reserves => place \notin Held
<1>1. /\ PageSize \in Nat \ {0} /\ MaxPages \in Nat \ {0}
      /\ amountOfPages \in Nat \ {0} /\ amountOfElements \in Nat
      /\ Capacity \in Nat \ {0} /\ Occupied \subseteq Nat
  BY Sizes
<1>2. PagesForPut \in Nat \ {0} /\ amountOfPages' = PagesForPut /\ PagesForPut <= MaxPages
  BY <1>1 DEF Put, PagesForPut
<1>3. Capacity' = PagesForPut * PageSize
  BY <1>2 DEF Capacity
<1>4. Capacity' \in Nat \ {0}
  BY <1>1, <1>2, <1>3
<1>5. IF IsFull THEN Capacity < Capacity' ELSE Capacity' = Capacity
  <2>1. CASE IsFull
    <3>1. PagesForPut = 2 * amountOfPages + 1 /\ amountOfPages < PagesForPut
      BY <1>1, <2>1 DEF PagesForPut
    <3>2. amountOfPages * PageSize + PageSize <= PagesForPut * PageSize
      BY <1>1, <1>2, <3>1, LessByProduct
    <3> QED
      BY <1>1, <1>3, <1>4, <2>1, <3>2 DEF Capacity
  <2>2. CASE ~IsFull
    BY <1>3, <2>2 DEF PagesForPut, Capacity
  <2> QED
    BY <2>1, <2>2
<1>6. /\ DOMAIN SlotsForPut = IF IsFull THEN Held ELSE Occupied
      /\ \A n \in DOMAIN SlotsForPut : SlotsForPut[n] = slots[n]
  <2>1. CASE IsFull
    <3>1. Occupied \ { n \in Occupied : n >= Capacity } = Held
      <4>1. \A n \in Occupied : n >= Capacity <=> ~(n < Capacity)
        BY <1>1
      <4> QED
        BY <4>1 DEF Held
    <3> QED
      BY <2>1, <3>1 DEF SlotsForPut, Without, Occupied
  <2>2. CASE ~IsFull
    BY <2>2 DEF SlotsForPut, Occupied
  <2> QED
    BY <2>1, <2>2
<1>7. place \in 0 .. Capacity' - 1
  BY <1>2, <1>3, IndexBelow
<1>8. Occupied' = DOMAIN SlotsForPut \union {place}
  BY DEF Put, With, Occupied
<1>9. Held' = { n \in Occupied' : n < Capacity' }
  BY DEF Held
<1>10. Held' = Held \union {place}
  <2>1. Held \subseteq DOMAIN SlotsForPut /\ place < Capacity'
    BY <1>4, <1>6, <1>7 DEF Held
  <2>2. \A n \in DOMAIN SlotsForPut : n < Capacity' <=> n \in Held
    <3>1. CASE IsFull
      <4>1. DOMAIN SlotsForPut = Held /\ Capacity < Capacity'
        BY <1>5, <1>6, <3>1
      <4>2. \A n \in Held : n \in Nat /\ n < Capacity
        BY <1>1 DEF Held
      <4> QED
        BY <1>1, <1>4, <4>1, <4>2
    <3>2. CASE ~IsFull
      BY <1>5, <1>6, <3>2 DEF Held
    <3> QED
      BY <3>1, <3>2
  <2> QED
    BY <1>8, <1>9, <2>1, <2>2
<1>11. ASSUME ~reserves PROVE place \notin Held
  <2>1. Held = Occupied /\ amountOfElements = Cardinality(Held) /\ amountOfElements <= Capacity
    BY <1>11, FiniteHeld DEF CountInv
  <2>2. amountOfElements < Capacity'
    <3>1. CASE IsFull
      BY <1>1, <1>4, <1>5, <2>1, <3>1
    <3>2. CASE ~IsFull
      <4>1. amountOfElements # Capacity
        BY <1>1, <3>2, QuotientOfProduct DEF IsFull, Capacity
      <4> QED
        BY <1>1, <1>5, <2>1, <3>2, <4>1
    <3> QED
      BY <3>1, <3>2
  <2>3. DOMAIN SlotsForPut = Held
    BY <1>6, <2>1
  <2>4. FreeBelow(SlotsForPut, Capacity') # {}
    <3> SUFFICES ASSUME FreeBelow(SlotsForPut, Capacity') = {} PROVE FALSE
      OBVIOUS
    <3>1. 0 .. Capacity' - 1 \subseteq Held
      BY <2>3 DEF FreeBelow
    <3>2. Cardinality(0 .. Capacity' - 1) = Capacity'
      BY <1>4, FS_Interval
    <3>3. Cardinality(0 .. Capacity' - 1) <= Cardinality(Held)
      BY <3>1, FiniteHeld, FS_Subset
    <3> QED
      BY <1>1, <1>4, <2>1, <2>2, <3>2, <3>3
  <2>5. FreeBelow(SlotsForPut, Capacity') \in SUBSET Nat
    BY <1>4 DEF FreeBelow
  <2>6. place \in FreeBelow(SlotsForPut, Capacity')
    BY <1>2, <1>3, <2>4, <2>5, FindsFirstFree, LeastInSet
  <2> QED
    BY <2>3, <2>6 DEF FreeBelow
<1>12. Held \subseteq DOMAIN SlotsForPut /\ DOMAIN SlotsForPut \subseteq Occupied
  BY <1>6 DEF Held
<1>13. amountOfPages' \in 1 .. MaxPages
  BY <1>1, <1>2
<1>14. Capacity <= Capacity'
  BY <1>1, <1>4, <1>5
<1> QED
  BY <1>4, <1>6, <1>7, <1>8, <1>10, <1>11, <1>12, <1>13, <1>14

\* A step that only removes elements, and may put one where get does not look.
LEMMA OnlyFewer ==
    ASSUME TypeOK, CountInv, reserves, UNCHANGED <<amountOfPages, reserves>>,
           amountOfElements' \in 0 .. MaxAmount, amountOfElements <= amountOfElements',
           Occupied' \subseteq Indices, \A n \in Occupied' : slots'[n] \in Values,
           \A n \in Occupied' : n < Capacity => n \in Occupied
    PROVE  (TypeOK /\ CountInv)'
<1>1. TypeOK'
  BY DEF TypeOK
<1>2. Capacity' = Capacity
  BY DEF Capacity
<1>3. Held' \subseteq Held
  BY <1>2 DEF Held
<1>4. Cardinality(Held') <= Cardinality(Held) /\ Cardinality(Held') \in Nat
  BY <1>3, FiniteHeld, FS_Subset, FS_CardinalityType
<1>5. Cardinality(Held) \in Nat /\ amountOfElements \in Nat /\ amountOfElements' \in Nat
  BY FiniteHeld, Sizes
<1>6. Cardinality(Held') <= amountOfElements'
  BY <1>4, <1>5 DEF CountInv
<1> QED
  BY <1>1, <1>6 DEF CountInv

\* A put counts its element and leaves the others.
LEMMA PutCounts ==
    ASSUME TypeOK, CountInv, NEW x \in Values, Put(x)
    PROVE  /\ (TypeOK /\ CountInv)'
           /\ ~reserves => /\ Cardinality(Held') = Cardinality(Held) + 1
                           /\ \A n \in Held : slots'[n] = slots[n]
<1> DEFINE place == AvailableIndex(SlotsForPut, PagesForPut)
<1>1. /\ Capacity' \in Nat /\ Capacity <= Capacity' /\ amountOfPages' \in 1 .. MaxPages
      /\ place \in 0 .. Capacity' - 1
      /\ Held' = Held \union {place}
      /\ Occupied' = DOMAIN SlotsForPut \union {place}
      /\ DOMAIN SlotsForPut \subseteq Occupied /\ Held \subseteq DOMAIN SlotsForPut
      /\ \A n \in DOMAIN SlotsForPut : SlotsForPut[n] = slots[n]
      /\ ~reserves => place \notin Held
  BY PutPlace
<1>2. \A n \in Occupied' : slots'[n] = IF n = place THEN x ELSE SlotsForPut[n]
  BY <1>1 DEF Put, With
<1> HIDE DEF place
<1>3. /\ MaxPages \in Nat \ {0} /\ PageSize \in Nat \ {0} /\ MaxAmount \in Nat
      /\ amountOfElements \in Nat
  BY Sizes
<1>4. TypeOK'
  <2>0. amountOfPages' \in Nat /\ amountOfPages' <= MaxPages
    BY <1>1, <1>3
  <2>1. Capacity' <= MaxPages * PageSize
    BY <1>3, <2>0, ProductGrows DEF Capacity
  <2>2. place \in Indices
    <3>1. MaxPages * PageSize \in Nat
      BY <1>3
    <3>2. 0 .. Capacity' - 1 \subseteq 0 .. MaxPages * PageSize - 1
      BY <1>1, <2>1, <3>1, IntervalGrows
    <3> QED
      BY <1>1, <3>2 DEF Indices
  <2>3. Occupied' \subseteq Indices
    BY <1>1, <2>2 DEF TypeOK
  <2>4. \A n \in Occupied' : slots'[n] \in Values
    BY <1>1, <1>2 DEF TypeOK
  <2>5. amountOfElements' \in 0 .. MaxAmount
    BY <1>3 DEF Put, TypeOK
  <2>6. UNCHANGED reserves
    BY DEF Put
  <2> QED
    BY <1>1, <2>3, <2>4, <2>5, <2>6 DEF TypeOK
<1>5. Cardinality(Held') = IF place \in Held THEN Cardinality(Held) ELSE Cardinality(Held) + 1
  BY <1>1, FiniteHeld, FS_AddElement
<1>6. CountInv'
  <2>1. amountOfElements' = amountOfElements + 1 /\ reserves' = reserves
    BY DEF Put
  <2>2. Cardinality(Held') <= amountOfElements'
    BY <1>3, <1>5, <2>1, FiniteHeld DEF CountInv
  <2>3. ASSUME ~reserves PROVE Held' = Occupied' /\ amountOfElements' = Cardinality(Occupied')
    <3>1. Held' = Occupied'
      BY <1>1, <2>3 DEF CountInv
    <3>2. Cardinality(Held') = amountOfElements'
      BY <1>1, <1>5, <2>1, <2>3 DEF CountInv
    <3> QED
      BY <3>1, <3>2
  <2> QED
    BY <2>1, <2>2, <2>3 DEF CountInv
<1>7. ASSUME ~reserves
      PROVE  /\ Cardinality(Held') = Cardinality(Held) + 1
             /\ \A n \in Held : slots'[n] = slots[n]
  BY <1>1, <1>2, <1>5, <1>7
<1> QED
  BY <1>4, <1>6, <1>7

\* An element set at its index.
LEMMA SetCounts ==
    ASSUME TypeOK, CountInv, NEW n \in Indices, NEW x \in Values, Set(n, x)
    PROVE  (TypeOK /\ CountInv)'
<1>1. /\ n \in Nat /\ n < Capacity /\ amountOfElements \in Nat /\ MaxAmount \in Nat
      /\ UNCHANGED <<amountOfPages, reserves>>
      /\ amountOfElements' = IF n \in Occupied THEN amountOfElements ELSE amountOfElements + 1
      /\ n \in Occupied \/ amountOfElements < MaxAmount
  BY Sizes DEF Set, MayAdd, Counted, Indices
<1>2. /\ Occupied' = Occupied \union {n}
      /\ \A m \in Occupied' : slots'[m] = IF m = n THEN x ELSE slots[m]
  BY DEF Set, With, Occupied
<1>3. TypeOK'
  <2>1. amountOfElements' \in 0 .. MaxAmount
    BY <1>1 DEF TypeOK
  <2>2. Occupied' \subseteq Indices /\ \A m \in Occupied' : slots'[m] \in Values
    BY <1>2 DEF TypeOK
  <2> QED
    BY <1>1, <2>1, <2>2 DEF TypeOK
<1>4. Held' = Held \union {n} /\ (n \in Held <=> n \in Occupied)
  BY <1>1, <1>2 DEF Held, Capacity
<1>5. Cardinality(Held') = IF n \in Held THEN Cardinality(Held) ELSE Cardinality(Held) + 1
  BY <1>4, FiniteHeld, FS_AddElement
<1>6. Cardinality(Held') <= amountOfElements'
  BY <1>1, <1>4, <1>5, FiniteHeld DEF CountInv
<1>7. ASSUME ~reserves PROVE Held' = Occupied' /\ amountOfElements' = Cardinality(Held')
  BY <1>1, <1>2, <1>4, <1>5, <1>7 DEF CountInv
<1> QED
  BY <1>1, <1>3, <1>6, <1>7 DEF CountInv

\* An element removed.
LEMMA RemoveCounts ==
    ASSUME TypeOK, CountInv, NEW n \in Indices, Remove(n)
    PROVE  (TypeOK /\ CountInv)'
<1>1. /\ n < Capacity /\ n \in Occupied /\ amountOfElements \in Nat /\ MaxAmount \in Nat
      /\ UNCHANGED <<amountOfPages, reserves>>
      /\ amountOfElements' = amountOfElements - 1
  BY Sizes DEF Remove
<1>2. /\ Occupied' = Occupied \ {n}
      /\ \A m \in Occupied' : slots'[m] = slots[m]
  BY DEF Remove, Without, Occupied
<1>3. Held' = Held \ {n} /\ n \in Held
  BY <1>1, <1>2 DEF Held, Capacity
<1>4. Cardinality(Held') = Cardinality(Held) - 1 /\ Cardinality(Held') \in Nat
  BY <1>3, FiniteHeld, FS_RemoveElement, FS_CardinalityType
<1>5. Cardinality(Held') <= amountOfElements' /\ amountOfElements' \in 0 .. MaxAmount
  BY <1>1, <1>4, FiniteHeld DEF CountInv, TypeOK
<1>6. TypeOK'
  BY <1>1, <1>2, <1>5 DEF TypeOK
<1>7. ASSUME ~reserves PROVE Held' = Occupied' /\ amountOfElements' = Cardinality(Held')
  BY <1>1, <1>2, <1>3, <1>4, <1>7 DEF CountInv
<1> QED
  BY <1>1, <1>5, <1>6, <1>7 DEF CountInv

\* A reservation only takes bits away; an element it sets lies above the capacity.
LEMMA ReserveCounts ==
    ASSUME TypeOK, CountInv,
           \/ \E amount \in 1 .. MaxPages * PageSize : Reserve(amount)
           \/ \E n \in Indices, x \in Values : SetFar(n, x)
    PROVE  (TypeOK /\ CountInv)'
<1>1. \A pages : /\ DOMAIN SlotsReserved(pages) \subseteq Occupied
                 /\ \A n \in DOMAIN SlotsReserved(pages) : SlotsReserved(pages)[n] = slots[n]
  BY DEF SlotsReserved, Without, Occupied
<1>2. amountOfElements \in Nat /\ MaxAmount \in Nat /\ Capacity \in Nat
  BY Sizes
<1>3. CASE \E amount \in 1 .. MaxPages * PageSize : Reserve(amount)
  <2>1. PICK pages : slots' = SlotsReserved(pages)
    BY <1>3 DEF Reserve
  <2>2. reserves /\ UNCHANGED <<amountOfPages, amountOfElements, reserves>>
    BY <1>3 DEF Reserve
  <2>3. Occupied' \subseteq Occupied /\ \A n \in Occupied' : slots'[n] = slots[n]
    BY <1>1, <2>1 DEF Occupied
  <2>4. /\ Occupied' \subseteq Indices /\ \A n \in Occupied' : slots'[n] \in Values
        /\ amountOfElements' \in 0 .. MaxAmount /\ amountOfElements <= amountOfElements'
    BY <1>2, <2>2, <2>3 DEF TypeOK
  <2> QED
    BY <2>2, <2>3, <2>4, OnlyFewer
<1>4. CASE \E n \in Indices, x \in Values : SetFar(n, x)
  <2>1. PICK n \in Indices, x \in Values : SetFar(n, x)
    BY <1>4
  <2>2. PICK pages : slots' = With(SlotsReserved(pages), n, x)
    BY <2>1 DEF SetFar
  <2>3. /\ reserves /\ UNCHANGED <<amountOfPages, reserves>>
        /\ n >= Capacity /\ amountOfElements < MaxAmount
        /\ amountOfElements' = amountOfElements \/ amountOfElements' = amountOfElements + 1
    BY <2>1 DEF SetFar
  <2>4. /\ Occupied' = DOMAIN SlotsReserved(pages) \union {n}
        /\ \A m \in Occupied' : slots'[m] = IF m = n THEN x ELSE SlotsReserved(pages)[m]
    BY <2>2 DEF With, Occupied
  <2>5. /\ Occupied' \subseteq Indices /\ \A m \in Occupied' : slots'[m] \in Values
        /\ \A m \in Occupied' : m = n \/ m \in Occupied
    BY <1>1, <2>4 DEF TypeOK
  <2>6. amountOfElements' \in 0 .. MaxAmount /\ amountOfElements <= amountOfElements'
    BY <1>2, <2>3
  <2>7. ~(n < Capacity)
    <3>1. n \in Int
      BY DEF Indices
    <3> QED
      BY <1>2, <2>3, <3>1
  <2> QED
    BY <2>3, <2>5, <2>6, <2>7, OnlyFewer
<1> QED
  BY <1>3, <1>4

\* Every call keeps the count.
LEMMA CountsStep ==
    ASSUME TypeOK, CountInv, [Next]_vars
    PROVE  (TypeOK /\ CountInv)'
<1>1. CASE UNCHANGED vars
  BY <1>1 DEF vars, TypeOK, CountInv, Occupied, Held, Capacity
<1>2. ASSUME NEW x \in Values, NEW n \in Indices, Set(n, x) \/ SetTry(n, x)
      PROVE  (TypeOK /\ CountInv)'
  BY <1>2, SetCounts DEF SetTry
<1> QED
  BY <1>1, <1>2, PutCounts, RemoveCounts, ReserveCounts DEF Next

\* So it is always right.
LEMMA Counts == Spec => [](TypeOK /\ CountInv)
<1>1. TypeOK /\ CountInv /\ [Next]_vars => (TypeOK /\ CountInv)'
  BY CountsStep
<1> QED
  BY <1>1, CountsInit, PTL DEF Spec

(***************************************************************************)
(* The size is the number of elements get can return as long as nothing is  *)
(* reserved, and never less than it whatever is called.                     *)
(***************************************************************************)
THEOREM CountsRight ==
    Spec => [](TypeOK /\ SizeUnlessReserved /\ NeverUndercounts)
<1>1. TypeOK /\ CountInv => SizeUnlessReserved /\ NeverUndercounts
  <2> SUFFICES ASSUME TypeOK, CountInv PROVE SizeUnlessReserved /\ NeverUndercounts
    OBVIOUS
  <2>1. Gettable = Held
    BY GettableIsHeld
  <2>2. SizeUnlessReserved
    BY <2>1 DEF SizeUnlessReserved, SizeIsAmount, CountInv
  <2>3. Cardinality(Held) \in Nat /\ amountOfElements \in Nat
    BY FiniteHeld, Sizes
  <2>4. NeverUndercounts
    BY <2>1, <2>3 DEF NeverUndercounts, CountInv
  <2> QED
    BY <2>2, <2>4
<1> QED
  BY <1>1, Counts, PTL

(***************************************************************************)
(* A put, with its growth and its search, overwrites no element as long as  *)
(* nothing is reserved.                                                     *)
(***************************************************************************)
THEOREM PutsWhereFree == Spec => PutTakesFree
<1>1. TypeOK /\ CountInv /\ [Next]_vars =>
        [\A x \in Values : ~reserves /\ Put(x) =>
            /\ Cardinality(Gettable') = Cardinality(Gettable) + 1
            /\ \A n \in Gettable : Get(n)' = Get(n)]_vars
  <2> SUFFICES ASSUME TypeOK, CountInv, NEW x \in Values, ~reserves, Put(x)
               PROVE  /\ Cardinality(Gettable') = Cardinality(Gettable) + 1
                      /\ \A n \in Gettable : Get(n)' = Get(n)
    OBVIOUS
  <2>1. /\ TypeOK'
        /\ Cardinality(Held') = Cardinality(Held) + 1
        /\ \A n \in Held : slots'[n] = slots[n]
    BY PutCounts
  <2>2. Gettable = Held /\ Gettable' = Held'
    BY <2>1, GettableIsHeld, GettableIsHeldNext
  <2>3. Held \subseteq Held'
    BY PutPlace
  <2>4. ASSUME NEW n \in Held PROVE Get(n)' = Get(n)
    <3>1. n \in Held'
      BY <2>3
    <3>2. Get(n) = slots[n]
      BY DEF Get, Held
    <3>3. Get(n)' = slots'[n]
      BY <3>1 DEF Get, Held
    <3> QED
      BY <2>1, <3>2, <3>3
  <2> QED
    BY <2>1, <2>2, <2>4
<1> QED
  BY <1>1, Counts, PTL DEF Spec, PutTakesFree
=============================================================================
