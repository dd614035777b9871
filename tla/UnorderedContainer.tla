-------------------------- MODULE UnorderedContainer --------------------------
(***************************************************************************)
(* BL_UnorderedContainer of src/Types/BL_UnorderedContainer.c: pages of     *)
(* slots that never move, and a bitset that says which slots are occupied.  *)
(* A slot that is not occupied has no content here: no call returns it.     *)
(***************************************************************************)
EXTENDS SlotBits, FiniteSets

VARIABLES
    slots,             \* what the occupied slots hold, by index
    amountOfElements,
    amountOfPages,
    reserves           \* whether the caller reserves, or sets elements above the capacity

vars == <<slots, amountOfElements, amountOfPages, reserves>>

Capacity == amountOfPages * PageSize

Occupied == DOMAIN slots

\* bl_unordered_container_get
Get(i) == IF i < Capacity /\ i \in Occupied THEN slots[i] ELSE NULL

Init ==
    /\ slots = [i \in {} |-> NULL]
    /\ amountOfElements = 0
    /\ amountOfPages = 1
    /\ reserves \in BOOLEAN

-----------------------------------------------------------------------------
(* bl_unordered_container_put *)

\* Mutant: the growth is looked for one element late.
IsFullLate == amountOfElements \div PageSize > amountOfPages

IsFull == amountOfElements \div PageSize = amountOfPages

PagesForPut == IF IsFull THEN 2 * amountOfPages + 1 ELSE amountOfPages

\* The growth clears the bitset's new words and replaces the pages above the
\* capacity, reserved ones included.
SlotsForPut == IF IsFull THEN Without(slots, { i \in Occupied : i >= Capacity }) ELSE slots

\* The words with a free bit.
WordsWithRoom(s, pages) ==
    { w \in 0 .. WordCount(pages) - 1 : Word(s, w) # 0 .. WordBits - 1 }

AvailableIndex(s, pages) ==
    IF WordsWithRoom(s, pages) = {} THEN 0
    ELSE LET w == Least(WordsWithRoom(s, pages))
             free == Candidates(Word(s, w))
         IN  IF free = {} THEN 0 ELSE w * WordBits + Least(free)

Put(x) ==
    /\ PagesForPut <= MaxPages /\ amountOfElements < MaxAmount
    /\ slots' = With(SlotsForPut, AvailableIndex(SlotsForPut, PagesForPut), x)
    /\ amountOfElements' = amountOfElements + 1
    /\ amountOfPages' = PagesForPut
    /\ UNCHANGED reserves

-----------------------------------------------------------------------------
(* bl_unordered_container_set, _set_try and _remove *)

Counted(i) == IF i \in Occupied THEN amountOfElements ELSE amountOfElements + 1

\* The bound on the amount.
MayAdd(i) == i \in Occupied \/ amountOfElements < MaxAmount

\* Mutant: an element set at a free index is not counted.
SetUncounted(i, x) ==
    /\ i < Capacity /\ MayAdd(i)
    /\ slots' = With(slots, i, x)
    /\ UNCHANGED <<amountOfElements, amountOfPages, reserves>>

Set(i, x) ==
    /\ i < Capacity /\ MayAdd(i)
    /\ slots' = With(slots, i, x)
    /\ amountOfElements' = Counted(i)
    /\ UNCHANGED <<amountOfPages, reserves>>

\* bl_unordered_container_set_try: what it does where it does anything.
SetTry(i, x) == i \notin Occupied /\ Set(i, x)

\* Mutant: the bitset is not looked at.
RemoveUnasked(i) ==
    /\ i < Capacity
    /\ slots' = Without(slots, {i})
    /\ amountOfElements' = amountOfElements - 1
    /\ UNCHANGED <<amountOfPages, reserves>>

Remove(i) ==
    /\ i < Capacity /\ i \in Occupied
    /\ slots' = Without(slots, {i})
    /\ amountOfElements' = amountOfElements - 1
    /\ UNCHANGED <<amountOfPages, reserves>>

-----------------------------------------------------------------------------
(* bl_unordered_container_reserve.  amountOfPages stays what it was, and    *)
(* the memset that should clear the bitset's new words takes their numbers  *)
(* for numbers of bytes: on a little-endian machine byte k of the bitset is *)
(* the k % WordBytes-th from the end of its word.                           *)

Cleared(pages) == UNION { BitsOfByte(k) : k \in WordCount(amountOfPages) .. WordCount(pages) }

\* The bitset is cut to what `pages` pages and one word more need.
SlotsReserved(pages) ==
    Without(slots, Cleared(pages) \union { i \in Occupied : i >= (WordCount(pages) + 1) * WordBits })

\* A reservation that fails when it allocates a page has done the same.
Reserve(amount) ==
    LET pages == PagesFor(amountOfElements + amount) IN
    /\ reserves
    /\ amountOfElements + amount > Capacity
    /\ pages <= MaxPages
    /\ slots' = SlotsReserved(pages)
    /\ UNCHANGED <<amountOfElements, amountOfPages, reserves>>

\* bl_unordered_container_set at the capacity or above: it reserves the pages
\* the index needs, and its bit, if nothing set it before, is uninitialized.
SetFar(i, x) ==
    LET reserved == SlotsReserved(PagesFor(i + 1)) IN
    /\ reserves
    /\ i >= Capacity
    /\ amountOfElements < MaxAmount
    /\ slots' = With(reserved, i, x)
    /\ \/ UNCHANGED amountOfElements
       \/ i \notin DOMAIN reserved /\ amountOfElements' = amountOfElements + 1
    /\ UNCHANGED <<amountOfPages, reserves>>

-----------------------------------------------------------------------------
Indices == 0 .. MaxPages * PageSize - 1

Next ==
    \/ \E x \in Values :
           \/ Put(x)
           \/ \E i \in Indices : Set(i, x) \/ SetTry(i, x) \/ SetFar(i, x)
    \/ \E i \in Indices : Remove(i)
    \/ \E amount \in 1 .. MaxPages * PageSize : Reserve(amount)

Spec == Init /\ [][Next]_vars
-----------------------------------------------------------------------------
(* The types, and the counters within the slots there are (lines 32, 124).  *)
TypeOK ==
    /\ Occupied \subseteq Indices
    /\ \A i \in Occupied : slots[i] \in Values
    /\ amountOfElements \in 0 .. MaxAmount
    /\ amountOfPages \in 1 .. MaxPages
    /\ reserves \in BOOLEAN

Gettable == { i \in Indices : Get(i) # NULL }

(* bl_unordered_container_size returns the number of elements that get can  *)
(* return (lines 254-256 and 108-114).                                      *)
SizeIsAmount == amountOfElements = Cardinality(Gettable)

(* That holds as long as nothing is reserved: put, set, set_try and remove  *)
(* keep count and bitset together (lines 81, 93-96 and 123-124).            *)
SizeUnlessReserved == ~reserves => SizeIsAmount

(* Whatever is called, the amount counts no element too few: a put takes    *)
(* the container for full no later than it is (lines 32, 94 and 124).       *)
NeverUndercounts == amountOfElements >= Cardinality(Gettable)

(* A put, with its growth and its search for a free bit, adds an element    *)
(* and leaves every other where it was, as long as nothing is reserved      *)
(* (lines 32-82).                                                           *)
PutTakesFree ==
    [][\A x \in Values : ~reserves /\ Put(x) =>
          /\ Cardinality(Gettable') = Cardinality(Gettable) + 1
          /\ \A n \in Gettable : Get(n)' = Get(n)]_vars

(* An element can be got until it is removed (lines 108-125).  Violated: a   *)
(* reservation clears bits of occupied slots (line 146).                    *)
KeptUntilRemoved == [][\A i \in Gettable : i \in Gettable' \/ Remove(i)]_vars
=============================================================================
