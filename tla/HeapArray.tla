------------------------------ MODULE HeapArray ------------------------------
(***************************************************************************)
(* The steps of the loops of src/Types/BL_Heap.c on the array of a heap:    *)
(* the parent of index i is i \div 2, counted from 1 as the code counts.     *)
(***************************************************************************)
EXTENDS Integers, Sequences

CONSTANTS
    Elements,  \* what is compared
    Weight,    \* what `compare` compares: compare(x, y) iff Weight[x] <= Weight[y]
    MaxSize,   \* bound: the elements a heap may hold in a run
    Inputs     \* the arrays that are sorted

ASSUME WeightAssumption == Weight \in [Elements -> Nat]
ASSUME InputsAssumption == Inputs \subseteq Seq(Elements)

Compare(x, y) == Weight[x] <= Weight[y]

\* internal_swap
\* Mutant: the second element is not written.
HalfSwap(a, i, j) == [a EXCEPT ![i] = a[j]]
Swap(a, i, j) == [a EXCEPT ![i] = a[j], ![j] = a[i]]

\* One iteration of internal_bubble_up at index c: whether it swaps.
Rises(a, c) == c > 1 /\ Compare(a[c \div 2], a[c])

\* One iteration of internal_bubble_down: the child it goes to, and whether the
\* element at c sinks there.
\* Mutant: the lesser child.
LesserChild(a, c) == IF Compare(a[2 * c], a[2 * c + 1]) THEN 2 * c ELSE 2 * c + 1
BestChild(a, c) == IF Compare(a[2 * c], a[2 * c + 1]) THEN 2 * c + 1 ELSE 2 * c
Sinks(a, c, child) == ~Compare(a[child], a[c])
Sunk(a, c, child)  == IF Sinks(a, c, child) THEN Swap(a, c, child) ELSE a

\* Every element but those at the indices of E is no greater than its parent.
OrderedBut(a, n, E) == \A i \in 2 .. n : i \notin E => Compare(a[i], a[i \div 2])

\* The elements below c are no greater than the one above it.
Bridged(a, n, c) ==
    c > 1 => \A i \in 2 .. n : i \div 2 = c => Compare(a[i], a[c \div 2])

\* An array in ascending order.
InOrder(a) == \A j, k \in 1 .. Len(a) : j <= k => Compare(a[j], a[k])
=============================================================================
