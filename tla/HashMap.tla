-------------------------------- MODULE HashMap --------------------------------
(***************************************************************************)
(* The hash map of src/Types/HashMapClosed.c: a table of chains, linked by  *)
(* index through the slots of an unordered container.  Slot 0 is set when   *)
(* the map is created, is never removed, and is the end of every chain.     *)
(* The keys are aligned to 8 bytes at most: the comparison looks for a key  *)
(* right after the link.                                                    *)
(***************************************************************************)
EXTENDS Naturals, Sequences, FiniteSets

CONSTANTS NULL, Keys, Values,
          Hash,      \* the client's hash function
          MaxTable   \* bound on the table

\* slots: the occupied slots; table: the first slot of each chain, 0 for none.
VARIABLE hashMap

slots    == hashMap.slots
table    == hashMap.table
Length   == Cardinality(DOMAIN table)
Place(key, length) == Hash[key] % length

Init == hashMap = [slots |-> [i \in {0} |-> [key |-> NULL, element |-> NULL, next |-> 0]],
                   table |-> [h \in {0} |-> 0]]

\* bl_unordered_container_put takes the lowest free slot.
FreeSlot ==
    CHOOSE i \in 0 .. Cardinality(DOMAIN slots) :
        /\ i \notin DOMAIN slots
        /\ \A j \in DOMAIN slots \union {i} : j < i => j \in DOMAIN slots

\* A chain, from its first slot on.
ChainFrom(i, map) ==
    LET slot[n \in 0 .. Cardinality(DOMAIN map.slots)] ==
            IF n = 0 THEN i ELSE map.slots[slot[n - 1]].next
    IN  [n \in 1 .. Cardinality({ m \in DOMAIN slot : slot[m] # 0 }) |-> slot[n - 1]]

Chain(h) == ChainFrom(table[h], hashMap)
InChain(h) == { Chain(h)[n] : n \in DOMAIN Chain(h) }

\* internal_hashArrayGetFromKey: the slot of a key, or 0.
Find(key) ==
    LET found == { j \in InChain(Place(key, Length)) : slots[j].key = key }
    IN  IF found = {} THEN 0 ELSE CHOOSE j \in found : TRUE

\* bl_hashmap_get
Get(key) == IF Find(key) = 0 THEN NULL ELSE slots[Find(key)].element

-----------------------------------------------------------------------------
(* internal_rehash takes the nodes chain by chain, and puts each in front   *)
(* of its new chain.                                                        *)

\* The nodes of the chains, in the order they are taken.
Visited(map) ==
    LET before[h \in 0 .. Cardinality(DOMAIN map.table)] ==
            IF h = 0 THEN <<>> ELSE before[h - 1] \o ChainFrom(map.table[h - 1], map)
    IN  before[Cardinality(DOMAIN map.table)]

\* The slot among the first n visited that was put last at place h.
LastAt(visited, n, h, map, length) ==
    LET there == { m \in 1 .. n : Place(map.slots[visited[m]].key, length) = h }
    IN  IF there = {} THEN 0 ELSE visited[CHOOSE m \in there : \A k \in there : k <= m]

Rehashed(map) ==
    LET visited == Visited(map)
        length  == 2 * Cardinality(DOMAIN map.table) + 1
        next(n) == LastAt(visited, n - 1, Place(map.slots[visited[n]].key, length), map, length)
    IN  [slots |-> [i \in DOMAIN map.slots |->
                       IF i = 0 THEN map.slots[0]
                       ELSE [map.slots[i] EXCEPT !.next =
                                next(CHOOSE n \in DOMAIN visited : visited[n] = i)]],
         table |-> [h \in 0 .. length - 1 |-> LastAt(visited, Len(visited), h, map, length)]]

-----------------------------------------------------------------------------
\* The map with a new node in front of the chain at h.
Linked(key, x, h) ==
    LET i == FreeSlot IN
    [slots |-> [j \in DOMAIN slots \union {i} |->
                   IF j = i THEN [key |-> key, element |-> x, next |-> table[h]] ELSE slots[j]],
     table |-> [table EXCEPT ![h] = i]]

\* The load the table may not reach; the container counts slot 0.
IsLoaded(map) == Cardinality(DOMAIN map.slots) >= Cardinality(DOMAIN map.table)

\* A table that cannot be allocated leaves the map with the node in it, and the
\* call reports a failure.
Insert(key, x) ==
    LET linked == Linked(key, x, Place(key, Length)) IN
    /\ Find(key) = 0
    /\ hashMap' \in (IF ~IsLoaded(linked) THEN {linked}
                     ELSE {linked} \union
                          IF 2 * Length + 1 <= MaxTable THEN {Rehashed(linked)} ELSE {})

\* The map without slot i, and what led to it leading to the slot given.
Unlinked(i, h, next) ==
    LET before == { j \in DOMAIN slots \ {0} : slots[j].next = i } IN
    [slots |-> [j \in DOMAIN slots \ {i} |->
                   IF j \in before THEN [slots[j] EXCEPT !.next = next] ELSE slots[j]],
     table |-> IF before = {} THEN [table EXCEPT ![h] = next] ELSE table]

\* Mutant: the chain is cut at the node removed.
RemoveTail(key) ==
    /\ Find(key) # 0
    /\ hashMap' = Unlinked(Find(key), Place(key, Length), 0)

Remove(key) ==
    /\ Find(key) # 0
    /\ hashMap' = Unlinked(Find(key), Place(key, Length), slots[Find(key)].next)

Replace(key, x) ==
    /\ Find(key) # 0
    /\ hashMap' = [hashMap EXCEPT !.slots[Find(key)].element = x]

Next == \E key \in Keys :
            Remove(key) \/ \E x \in Values : Insert(key, x) \/ Replace(key, x)

Spec == Init /\ [][Next]_hashMap
-----------------------------------------------------------------------------
(* Every node is in the chain its key hashes to, once, and no chain comes   *)
(* to a freed slot: what a rehash and a removal must leave (lines 76-87 and *)
(* 160-182).                                                                *)
ChainsWhole ==
    \A i \in DOMAIN slots \ {0} :
        LET h == Place(slots[i].key, Length) IN
        /\ i \in InChain(h)
        /\ Cardinality(InChain(h)) = Len(Chain(h))

D == INSTANCE Dict WITH
        dict <- [key \in { k \in Keys : Get(k) # NULL } |-> Get(key)]

(* Every call does to what get returns what it does to a map, whether or    *)
(* not the table could be rehashed (lines 94-198).                          *)
DictStep ==
    \A key \in Keys :
        /\ Remove(key) => D!Drop(key)
        /\ \A x \in Values :
               /\ Insert(key, x) => D!Add(key, x)
               /\ Replace(key, x) => D!Put(key, x)
=============================================================================
