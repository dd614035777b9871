--------------------------------- MODULE Heap ---------------------------------
(***************************************************************************)
(* src/Types/BL_Heap.c: bl_heap_insert and bl_heap_pop on a BL_Heap, and    *)
(* bl_sort_heap on a container, one step per iteration of the two loops     *)
(* they share.  A behaviour is that of a heap or that of one sort.  An      *)
(* insertion that cannot grow the array changes nothing and is not a step.  *)
(***************************************************************************)
EXTENDS HeapArray, FiniteSets

VARIABLES
    array,  \* the elements of the heap, or of the container that is sorted
    input,  \* history: what the container held before it was sorted
    pc,     \* the loop that runs, "up" or "down", the call that runs it,
            \* "rising" or "sinking" for a sort, or "idle" between calls
    size,   \* sizeOfHeap: how much of the array internal_bubble_down looks at
    i,      \* the loop index of a sort; 0 for a heap
    at      \* currentIndex

vars == <<array, input, pc, size, i, at>>

HeapInit ==
    /\ array = <<>> /\ input = <<>>
    /\ pc = "idle"
    /\ size = 0 /\ i = 0 /\ at = 0

SortInit ==
    /\ array \in Inputs /\ input = array
    /\ pc = "rising"
    /\ size = 0 /\ i = 1 /\ at = 0

Init == HeapInit \/ SortInit

IsSort == i > 0
-----------------------------------------------------------------------------
(* internal_bubble_up *)

BubbleUp ==
    /\ pc = "up"
    /\ Rises(array, at)
    /\ array' = Swap(array, at \div 2, at)
    /\ at' = at \div 2
    /\ UNCHANGED <<input, pc, size, i>>

BubbleUpEnds ==
    /\ pc = "up"
    /\ ~Rises(array, at)
    /\ pc' = IF IsSort THEN "rising" ELSE "idle"
    /\ i' = IF IsSort THEN i + 1 ELSE i
    /\ UNCHANGED <<array, input, size, at>>

(* internal_bubble_down *)

BubbleDown ==
    /\ pc = "down"
    /\ 2 * at < size
    /\ array' = Sunk(array, at, BestChild(array, at))
    /\ at' = BestChild(array, at)
    /\ UNCHANGED <<input, pc, size, i>>

DownReturns ==
    /\ pc' = IF IsSort THEN "sinking" ELSE "idle"
    /\ i' = IF IsSort THEN i + 1 ELSE i
    /\ UNCHANGED <<input, size, at>>

\* Mutant: the loop stops one short, the element with one child not looked at.
BubbleDownEndsShort ==
    /\ pc = "down"
    /\ 2 * at >= size
    /\ UNCHANGED array
    /\ DownReturns

\* After the loop: an element with one child, the last of the heap.
BubbleDownEnds ==
    /\ pc = "down"
    /\ 2 * at >= size
    /\ array' = IF 2 * at = size THEN Sunk(array, at, 2 * at) ELSE array
    /\ DownReturns
-----------------------------------------------------------------------------
(* bl_heap_insert and bl_heap_pop *)

Insert(x) ==
    /\ pc = "idle" /\ ~IsSort
    /\ Len(array) < MaxSize
    /\ array' = Append(array, x)
    /\ pc' = "up"
    /\ at' = Len(array) + 1
    /\ UNCHANGED <<input, size, i>>

\* Mutant: the loop starts at the array's first index, 0.
PopFromZero ==
    /\ pc = "idle" /\ ~IsSort
    /\ array # <<>>
    /\ array' = SubSeq(Swap(array, 1, Len(array)), 1, Len(array) - 1)
    /\ pc' = "down"
    /\ size' = Len(array) - 1
    /\ at' = 0
    /\ UNCHANGED <<input, i>>

\* The last element takes the place of the first, which leaves.
Pop ==
    /\ pc = "idle" /\ ~IsSort
    /\ array # <<>>
    /\ array' = SubSeq(Swap(array, 1, Len(array)), 1, Len(array) - 1)
    /\ pc' = "down"
    /\ size' = Len(array) - 1
    /\ at' = 1
    /\ UNCHANGED <<input, i>>
-----------------------------------------------------------------------------
(* bl_sort_heap *)

\* The container becomes a heap, one more of its elements at a time ...
StartRise ==
    /\ pc = "rising" /\ i <= Len(array)
    /\ pc' = "up"
    /\ at' = i
    /\ UNCHANGED <<array, input, size, i>>

RisingEnds ==
    /\ pc = "rising" /\ i > Len(array)
    /\ pc' = "sinking"
    /\ i' = 1
    /\ UNCHANGED <<array, input, size, at>>

\* Mutant: the heap does not lose the element that went to the end.
StartSinkLong ==
    /\ pc = "sinking" /\ i < Len(array)
    /\ array' = Swap(array, 1, Len(array) - i + 1)
    /\ pc' = "down"
    /\ size' = Len(array) - i + 1
    /\ at' = 1
    /\ UNCHANGED <<input, i>>

\* ... and the greatest element of the heap goes to its end, and leaves it.
StartSink ==
    /\ pc = "sinking" /\ i < Len(array)
    /\ array' = Swap(array, 1, Len(array) - i + 1)
    /\ pc' = "down"
    /\ size' = Len(array) - i
    /\ at' = 1
    /\ UNCHANGED <<input, i>>

Return ==
    /\ pc = "sinking" /\ i >= Len(array)
    /\ pc' = "done"
    /\ UNCHANGED <<array, input, size, i, at>>

Next ==
    \/ BubbleUp \/ BubbleUpEnds \/ BubbleDown \/ BubbleDownEnds
    \/ (\E x \in Elements : Insert(x)) \/ Pop
    \/ StartRise \/ RisingEnds \/ StartSink \/ Return

Spec == Init /\ [][Next]_vars
-----------------------------------------------------------------------------
(* The types, and the indices the loops may come to: they stay within the   *)
(* array (lines 22-38 and 51-55).                                           *)
TypeOK ==
    /\ array \in Seq(Elements) /\ input \in Seq(Elements)
    /\ i \in Nat
    /\ pc \in IF IsSort THEN {"rising", "up", "sinking", "down", "done"}
              ELSE {"idle", "up", "down"}
    /\ size \in 0 .. Len(array) \/ pc # "down"
    /\ at \in Nat
    /\ pc = "rising" => i <= Len(array) + 1
    /\ pc = "up" => at \in 1 .. IF IsSort THEN i ELSE Len(array)
    /\ pc = "up" /\ IsSort => i <= Len(array)
    /\ pc = "down" => at \in 1 .. size + 1
    /\ pc = "down" => IF IsSort THEN size = Len(array) - i /\ i < Len(array)
                      ELSE size = Len(array)

\* How much of the array is a heap, but where a loop is at work.
HeapSize ==
    CASE pc = "rising"          -> i - 1
      [] pc = "up"              -> IF IsSort THEN i ELSE Len(array)
      [] pc = "down"            -> size
      [] pc = "sinking"         -> Len(array) - i + 1
      [] pc \in {"idle", "done"} -> IF IsSort THEN 0 ELSE Len(array)

(* No element of the heap is greater than its parent, but where a loop is   *)
(* at work: there the elements around the one that moves are ordered as if  *)
(* it were not there (lines 20-57).                                         *)
HeapOrder ==
    CASE pc = "up"   -> OrderedBut(array, HeapSize, {at}) /\ Bridged(array, HeapSize, at)
      [] pc = "down" -> OrderedBut(array, HeapSize, {2 * at, 2 * at + 1})
                        /\ Bridged(array, HeapSize, at)
      [] OTHER       -> OrderedBut(array, HeapSize, {})

\* How often x is in a.
Times(x, a) == Cardinality({k \in DOMAIN a : a[k] = x})

(* When a sort returns the container holds, in ascending order, what it     *)
(* held before (lines 72-81).                                               *)
Sorted ==
    pc = "done" => /\ InOrder(array)
                   /\ \A x \in Elements : Times(x, array) = Times(x, input)
=============================================================================
