--------------------------- MODULE DynamicContainer ---------------------------
(***************************************************************************)
(* The growing array of src/Types/BL_DynamicContainer.c, with the functions *)
(* of BL_Container.c it rests on, and the array list of BL_ArrayList.c,     *)
(* which makes the same calls under a mutex: each of them is one action.    *)
(* A call that returns an error has changed nothing.                        *)
(***************************************************************************)
EXTENDS Naturals, Sequences

CONSTANTS Values,
          Rooms,     \* the initial sizes
          MaxLength  \* bound on the elements

\* elements: the content, amountOfIndexes long; room: containerMaxSize.
VARIABLE container

elements == container.elements
room     == container.room

Is(content, places) ==
    container' = [container EXCEPT !.elements = content, !.room = places]

Init == container \in [kind : {"dynamic", "arraylist"}, elements : {<<>>}, room : Rooms]

\* bl_container_dynamic_size_check_add, for the new amount.
RoomFor(amount) == IF amount >= room THEN amount * 2 + 1 ELSE room

\* bl_container_dynamic_size_check_remove; its callers ignore a failure, which
\* freeing all of it cannot be.
RoomsAfterRemoval(amount) ==
    CASE room \div 4 <= amount -> {room}
      [] amount = 0            -> {0}
      [] OTHER                 -> {amount, room}

\* The tail is moved up, from its end, and the new elements are copied in.
Opened(index, new) ==
    [k \in 1 .. Len(elements) + Len(new) |->
        CASE k <= index            -> elements[k]
          [] k > index + Len(new)  -> elements[k - Len(new)]
          [] OTHER                 -> new[k - index]]

Closed(first, last) ==
    [k \in 1 .. Len(elements) - (last - first + 1) |->
        IF k <= first THEN elements[k] ELSE elements[k + (last - first + 1)]]

-----------------------------------------------------------------------------
\* Mutant: the room is made before the amount is known.
InsertLate(index, new) ==
    /\ index <= Len(elements) /\ Len(elements) + Len(new) <= MaxLength
    /\ Is(Opened(index, new), RoomFor(Len(elements)))

\* bl_container_dynamic_insert; append inserts at the end.
Insert(index, new) ==
    /\ index <= Len(elements) /\ Len(elements) + Len(new) <= MaxLength
    /\ Is(Opened(index, new), RoomFor(Len(elements) + Len(new)))

\* bl_container_dynamic_insert_container, of another container.
InsertContainer(index, other) ==
    /\ index <= Len(elements) /\ Len(elements) + Len(other) <= MaxLength
    /\ Is(Opened(index, other), RoomFor(Len(elements) + Len(other)))

\* Mutant: the tail is taken from one element early.
RemoveShort(first, last) ==
    /\ first <= last /\ last < Len(elements)
    /\ \E places \in RoomsAfterRemoval(Len(elements) - (last - first + 1)) :
           Is(Closed(first, last - 1), places)

Remove(first, last) ==
    /\ first <= last /\ last < Len(elements)
    /\ \E places \in RoomsAfterRemoval(Len(elements) - (last - first + 1)) :
           Is(Closed(first, last), places)

Pop ==
    /\ elements # <<>>
    /\ \E places \in RoomsAfterRemoval(Len(elements) - 1) :
           Is(SubSeq(elements, 1, Len(elements) - 1), places)

Clear == Is(<<>>, room)

Set(index, x) ==
    /\ index < Len(elements)
    /\ Is([elements EXCEPT ![index + 1] = x], room)

Reserve(amount) ==
    /\ room - Len(elements) < amount
    /\ Is(elements, amount + Len(elements))

\* bl_container_reverse exchanges the ends, then what is between them.
Reversed ==
    Is([k \in DOMAIN elements |-> elements[Len(elements) + 1 - k]], room)

\* bl_container_get_subarray, the copy taken in place of the container; its
\* cast leaves no spare room.  bl_container_copy asks for all of it.
Subarray(first, last, inReverse) ==
    /\ first <= last /\ last < Len(elements)
    /\ Is([k \in 1 .. last - first + 1 |->
              elements[IF inReverse THEN last + 2 - k ELSE first + k]],
          last - first + 1)

-----------------------------------------------------------------------------
Indices == 0 .. MaxLength
News == UNION { [1 .. n -> Values] : n \in 0 .. 2 }

\* The calls of the array list.
ArrayListCalls ==
    \/ Clear \/ Pop
    \/ \E i, j \in Indices : Remove(i, j)
    \/ \E i \in Indices : (\E new \in News : Insert(i, new)) \/ (\E x \in Values : Set(i, x))

Next ==
    \/ ArrayListCalls
    \/ /\ container.kind = "dynamic"
       /\ \/ Reversed
          \/ \E amount \in 1 .. MaxLength : Reserve(amount)
          \/ \E i, j \in Indices, r \in BOOLEAN : Subarray(i, j, r)
          \/ \E i \in Indices, other \in News : InsertContainer(i, other)

Spec == Init /\ [][Next]_container
-----------------------------------------------------------------------------
(* The elements lie within the memory allocated, whatever was inserted,     *)
(* removed, reserved or copied before (lines 42-79): a reservation leaves   *)
(* exact room, a shrinking that fails leaves the old one.                   *)
Fits == Len(elements) <= room

L == INSTANCE List WITH list <- elements

(* Every call does to the elements what it does to a list (lines 92-175).   *)
ListStep ==
    /\ \A i \in Indices, new \in News :
           Insert(i, new) \/ InsertContainer(i, new) => L!Splice(i, new)
    /\ \A i, j \in Indices :
           /\ Remove(i, j) => L!Cut(i, j)
           /\ Subarray(i, j, FALSE) => L!Keep(i, j)
           /\ Subarray(i, j, TRUE) => L!KeepTurned(i, j)
    /\ \A i \in Indices, x \in Values : Set(i, x) => L!Put(i, x)
    /\ Pop => L!Cut(Len(elements) - 1, Len(elements) - 1)
    /\ Reversed => L!Turn
    /\ Clear => L!Empty
=============================================================================
