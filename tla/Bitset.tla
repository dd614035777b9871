-------------------------------- MODULE Bitset --------------------------------
(***************************************************************************)
(* The bitsets of src/Types/Bitsets.c: bits in whole bytes, the last of     *)
(* which may have some above the amount the set was created with.           *)
(***************************************************************************)
EXTENDS Integers

CONSTANTS
    ByteSize,   \* bits of a byte: 8
    Amounts     \* the amounts of elements a set is created with

VARIABLE
    bitsets     \* two sets: their maxAmountOfElements, the bits in their bytes
                \* that are high, and (history) whether one was ever inverted

Which == {1, 2}

\* Mutant: the loops end a byte too early.
BitsBeforeLast(n) == 0 .. ByteSize * ((n - 1) \div ByteSize) - 1

\* The bits of the bytes the loops over a set go through.
Bits(n) == 0 .. ByteSize * ((n - 1) \div ByteSize + 1) - 1

Amount(k) == bitsets.amount[k]
High(k)   == bitsets.high[k]

\* bl_bitset_get
Holds(k, i) == i < Amount(k) /\ i \in High(k)

\* bl_bitset_is_empty
IsEmpty(k) == Bits(Amount(k)) \cap High(k) = {}

Init ==
    \E n, m \in Amounts :
        bitsets = [amount |-> <<n, m>>, high |-> <<{}, {}>>, inverted |-> FALSE]
-----------------------------------------------------------------------------
Becomes(k, bits) == bitsets' = [bitsets EXCEPT !.high[k] = bits]

\* bl_bitset_add and bl_bitset_remove; a bit that is so already stays so.
Add(k, i)    == i < Amount(k) /\ ~Holds(k, i) /\ Becomes(k, High(k) \union {i})
Remove(k, i) == Holds(k, i) /\ Becomes(k, High(k) \ {i})

\* What a loop over the bytes leaves: the bits it does not come to stay.
Looped(k, bits) == (High(k) \ Bits(Amount(k))) \union (bits \cap Bits(Amount(k)))

\* bl_bitset_and, _or and _xor, of sets of the same amount.
Both(k, l)   == Amount(k) = Amount(l) /\ Becomes(k, Looped(k, High(k) \cap High(l)))
Either(k, l) == Amount(k) = Amount(l) /\ Becomes(k, Looped(k, High(k) \union High(l)))
OneOf(k, l)  ==
    /\ Amount(k) = Amount(l)
    /\ Becomes(k, Looped(k, (High(k) \ High(l)) \union (High(l) \ High(k))))

\* bl_bitset_not, which inverts the bits above the amount too.
Invert(k) ==
    bitsets' = [bitsets EXCEPT !.high[k] = Looped(k, Bits(Amount(k)) \ High(k)),
                               !.inverted = TRUE]

Next ==
    \E k \in Which :
        \/ \E i \in 0 .. Amount(k) - 1 : Add(k, i) \/ Remove(k, i)
        \/ \E l \in Which : Both(k, l) \/ Either(k, l) \/ OneOf(k, l)
        \/ Invert(k)

Spec == Init /\ [][Next]_bitsets
-----------------------------------------------------------------------------
Members(k) == { i \in 0 .. Amount(k) - 1 : Holds(k, i) }

\* What HashMap.h, line 51, promises ("true if BitSet is empty").
EmptyKnown == \A k \in Which : IsEmpty(k) <=> Members(k) = {}

(* Sets that were never inverted keep that promise; an inversion sets the   *)
(* bits above the amount too, which the test looks at (lines 28 and 67).    *)
(* And no set says that it is empty when it is not (lines 27-33).           *)
EmptyUnlessInverted ==
    /\ ~bitsets.inverted => EmptyKnown
    /\ \A k \in Which : IsEmpty(k) => Members(k) = {}

(* Whatever is above the amount, the elements below it follow the algebra   *)
(* of sets: each is added or removed alone, or all are by the operation of  *)
(* the two sets, or each is inverted (lines 10-68).                         *)
SetStep ==
    LET M(k) == Members(k) IN
    \E k \in Which :
        /\ \A l \in Which \ {k} : M(l)' = M(l)
        /\ \/ \E i \in 0 .. Amount(k) - 1 : M(k)' \in {M(k) \union {i}, M(k) \ {i}}
           \/ \E l \in Which :
                M(k)' \in {M(k) \cap M(l), M(k) \union M(l),
                           (M(k) \ M(l)) \union (M(l) \ M(k))}
           \/ M(k)' = (0 .. Amount(k) - 1) \ M(k)
=============================================================================
