--------------------------------- MODULE Queue ---------------------------------
(***************************************************************************)
(* The queue and the dequeue of src/Types/BL_Queue.c: a ring of slots of an *)
(* unordered container, linked by their indices.                            *)
(***************************************************************************)
EXTENDS Naturals, Sequences, FiniteSets

CONSTANTS NULL, Values, ElementSizes,
          MaxElements  \* bound on the elements

\* kind; elementSize: the size the queue was created for, in bytes; slots: the
\* occupied slots of the unordered container, by index; head and tail: indices.
VARIABLE queue

slots == queue.slots
Size  == Cardinality(DOMAIN slots)

Init == queue \in [kind : {"queue", "dequeue"}, elementSize : ElementSizes,
                   slots : {<<>>}, head : {0}, tail : {0}]

\* correctedElementSize, for words of 8 bytes: the conditional takes in the sum
\* after it.
SlotBytes ==
    8 + (IF queue.kind = "dequeue" THEN 8 ELSE queue.elementSize)
      + (8 - (queue.elementSize % 8))

\* The size check of every call, for an element of the size declared: the links
\* of either kind take 16 bytes with their alignment.
Accepted == queue.elementSize <= SlotBytes - 16

\* bl_unordered_container_put takes the lowest free slot.
FreeSlot == CHOOSE i \in 0 .. Size :
                /\ i \notin DOMAIN slots
                /\ \A j \in 0 .. Size : j \notin DOMAIN slots => i <= j

PutInSlot(i, slot, links) ==
    [j \in DOMAIN links \union {i} |-> IF j = i THEN slot ELSE links[j]]

Without(i, links) == [j \in DOMAIN links \ {i} |-> links[j]]

Links(links, first, last) ==
    queue' = [queue EXCEPT !.slots = links, !.head = first, !.tail = last]

-----------------------------------------------------------------------------
MayPut == Accepted /\ Size < MaxElements

\* The first element is linked to itself.
Lone(x) ==
    LET i == FreeSlot IN
    /\ Size = 0
    /\ Links(PutInSlot(i, [next |-> i, prev |-> i, element |-> x], slots), i, i)

\* The new element between the tail and the head.
Between(x) == [next |-> queue.head, prev |-> queue.tail, element |-> x]

Enqueue(x) ==
    /\ queue.kind = "queue" /\ MayPut
    /\ \/ Lone(x)
       \/ /\ Size > 0
          /\ Links(PutInSlot(FreeSlot, Between(x),
                             [slots EXCEPT ![queue.tail].next = FreeSlot]),
                   queue.head, FreeSlot)

\* The ring with the new element in it.
Ringed(x) ==
    PutInSlot(FreeSlot, Between(x),
              [slots EXCEPT ![queue.tail].next = FreeSlot, ![queue.head].prev = FreeSlot])

\* Mutant: the old head is not linked back to the new one.
EnqueueFrontOneWay(x) ==
    /\ queue.kind = "dequeue" /\ MayPut
    /\ \/ Lone(x)
       \/ /\ Size > 0
          /\ Links(PutInSlot(FreeSlot, Between(x), [slots EXCEPT ![queue.tail].next = FreeSlot]),
                   FreeSlot, queue.tail)

EnqueueFront(x) ==
    /\ queue.kind = "dequeue" /\ MayPut
    /\ Lone(x) \/ (Size > 0 /\ Links(Ringed(x), FreeSlot, queue.tail))

EnqueueBack(x) ==
    /\ queue.kind = "dequeue" /\ MayPut
    /\ Lone(x) \/ (Size > 0 /\ Links(Ringed(x), queue.head, FreeSlot))

-----------------------------------------------------------------------------
\* bl_queue_dequeue leaves the tail's link to the old head.
Dequeue ==
    /\ queue.kind = "queue" /\ Size > 0
    /\ Links(Without(queue.head, slots), slots[queue.head].next, queue.tail)

\* The neighbours of the element at i are linked to each other.
Unlinked(i) ==
    Without(i, [slots EXCEPT ![slots[i].next].prev = slots[i].prev,
                             ![slots[i].prev].next = slots[i].next])

\* Mutant: the head goes round the ring the wrong way.
DequeueFrontBackwards ==
    /\ queue.kind = "dequeue" /\ Size > 0
    /\ Links(Unlinked(queue.head), slots[queue.head].prev, queue.tail)

DequeueFront ==
    /\ queue.kind = "dequeue" /\ Size > 0
    /\ Links(Unlinked(queue.head), slots[queue.head].next, queue.tail)

DequeueBack ==
    /\ queue.kind = "dequeue" /\ Size > 0
    /\ Links(Unlinked(queue.tail), queue.head, slots[queue.tail].prev)

\* bl_queue_peak_front and bl_dequeue_peak_front; the offset is below the size.
PeakFront(offset) ==
    LET place[n \in 0 .. offset] ==
            IF n = 0 THEN queue.head ELSE slots[place[n - 1]].next
    IN  slots[place[offset]].element

PeakBack(offset) ==
    LET place[n \in 0 .. offset] ==
            IF n = 0 THEN queue.tail ELSE slots[place[n - 1]].prev
    IN  slots[place[offset]].element

\* bl_queue_peak_back
QueuePeakBack ==
    IF queue.tail \in DOMAIN slots THEN slots[queue.tail].element ELSE NULL

Next ==
    \/ \E x \in Values : Enqueue(x) \/ EnqueueFront(x) \/ EnqueueBack(x)
    \/ Dequeue \/ DequeueFront \/ DequeueBack

Spec == Init /\ [][Next]_queue
-----------------------------------------------------------------------------
Listed == [k \in 1 .. Size |-> PeakFront(k - 1)]

(* The elements seen from the back are those seen from the front, and the   *)
(* last of a queue is the one at its back (lines 185-221): both directions  *)
(* of the ring are whole after any calls at either end.                     *)
EndsAgree ==
    /\ queue.kind = "dequeue" =>
           \A k \in 1 .. Size : PeakBack(Size - k) = Listed[k]
    /\ queue.kind = "queue" =>
           QueuePeakBack = (IF Size = 0 THEN NULL ELSE Listed[Size])

L == INSTANCE List WITH list <- Listed

(* Elements come out in the order their ends of the queue promise, though   *)
(* they lie in slots that are freed and taken in any order (lines 63-183).  *)
InOrder ==
    /\ \A x \in Values :
           /\ Enqueue(x) \/ EnqueueBack(x) => L!Splice(Size, <<x>>)
           /\ EnqueueFront(x) => L!Splice(0, <<x>>)
    /\ Dequeue \/ DequeueFront => L!Cut(0, 0)
    /\ DequeueBack => L!Cut(Size - 1, Size - 1)
=============================================================================
