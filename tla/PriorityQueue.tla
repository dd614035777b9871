---------------------------- MODULE PriorityQueue ----------------------------
(***************************************************************************)
(* What BL_Heap promises: a bag of elements that gives up one of the        *)
(* greatest first.  Implemented by Heap.                                    *)
(***************************************************************************)
EXTENDS Naturals, Bags

CONSTANTS Elements, Weight

VARIABLE pending

Greatest(x) == /\ BagIn(x, pending)
               /\ \A y \in BagToSet(pending) : Weight[y] <= Weight[x]

Init == pending = EmptyBag

Insert(x) == pending' = pending (+) SetToBag({x})

Pop(x) == Greatest(x) /\ pending' = pending (-) SetToBag({x})

Next == \E x \in Elements : Insert(x) \/ Pop(x)

Spec == Init /\ [][Next]_pending
=============================================================================
