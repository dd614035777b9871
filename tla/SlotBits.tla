------------------------------- MODULE SlotBits -------------------------------
(***************************************************************************)
(* The slots of a BL_UnorderedContainer (src/Types/BL_UnorderedContainer.c) *)
(* and its bitset.  Slots are a function from the occupied indices; word w  *)
(* of the bitset has the bits of the indices from w * WordBits, the most    *)
(* significant first.                                                       *)
(***************************************************************************)
EXTENDS Integers

CONSTANTS
    Values,     \* what slots hold
    NULL,
    WordBits,   \* bits of a word: 64
    ByteBits,   \* bits of a byte: 8
    Halves,     \* the widths looked at in a word: 32, 16, 8
    PageSize,   \* BL_UNORDERED_CONTAINER_PAGE_SIZE_IN_AMOUNT: 256
    MaxPages,   \* bound: the pages the container and its reserved pages may come to
    MaxAmount   \* bound: amountOfElements

ASSUME NullAssumption == NULL \notin Values
ASSUME SizesAssumption ==
    /\ WordBits \in Nat \ {0} /\ ByteBits \in Nat \ {0} /\ PageSize \in Nat \ {0}
    /\ WordBits % ByteBits = 0 /\ PageSize % WordBits = 0
    /\ MaxPages \in Nat \ {0} /\ MaxAmount \in Nat
\* Each width is half of the one before; a single bit has no halves.
ASSUME HalvesAssumption ==
    /\ Halves \in [1 .. 3 -> Nat \ {0}]
    /\ Halves[1] * 2 = WordBits
    /\ \A k \in 2 .. 3 :
          Halves[k] * 2 = Halves[k - 1] \/ (Halves[k] = 1 /\ Halves[k - 1] = 1)

Without(s, I) == [i \in DOMAIN s \ I |-> s[i]]

With(s, i, x) == [j \in DOMAIN s \union {i} |-> IF j = i THEN x ELSE s[j]]

Least(I) == CHOOSE i \in I : \A j \in I : i <= j

WordCount(pages) == (pages * PageSize) \div WordBits

WordBytes == WordBits \div ByteBits

Word(s, w) == { b \in 0 .. WordBits - 1 : w * WordBits + b \in DOMAIN s }

\* The search in a word: a half of what is left of it is skipped when full,
\* three times ...
PastFull(word, b, h) == IF b .. b + h - 1 \subseteq word THEN b + h ELSE b

\* Mutant: once.
SkippedOnce(word) == PastFull(word, 0, Halves[1])

Skipped(word) ==
    PastFull(word, PastFull(word, PastFull(word, 0, Halves[1]), Halves[2]), Halves[3])

\* ... and as many bits as the last half has are looked at one by one.
Candidates(word) == { b \in Skipped(word) .. Skipped(word) + Halves[3] - 1 : b \notin word }

\* On a little-endian machine byte k of the bitset is the k % WordBytes-th from
\* the end of its word.
BitsOfByte(k) ==
    LET end == (k \div WordBytes + 1) * WordBits - (k % WordBytes) * ByteBits
    IN  end - ByteBits .. end - 1

PagesFor(amount) == (amount + PageSize - 1) \div PageSize
=============================================================================
