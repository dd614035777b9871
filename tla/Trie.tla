--------------------------------- MODULE Trie ---------------------------------
(***************************************************************************)
(* The prefix tree of src/Types/BL_Trie.c.  A node is named by the path of  *)
(* child indices that leads to it, and a sequence by the indices that       *)
(* composeCharToIndex gives its characters, 0 for one out of range.  The    *)
(* nodes are elements of an unordered container, the root that of slot 0.   *)
(***************************************************************************)
EXTENDS Naturals, SequencesExt

CONSTANTS AmountOfChars, Data,  \* what may be stored: never 0
          PageSize,             \* BL_UNORDERED_CONTAINER_PAGE_SIZE_IN_AMOUNT
          MaxDepth, MaxStored   \* bounds on the sequences and on how many

Paths == BoundedSeq(0 .. AmountOfChars - 1, MaxDepth)

\* nodes: the data of every node, by its path; lost: the occupied slots that no
\* path leads to; amountOfElements and pages: the container's; failed: an
\* allocation has failed.
VARIABLE trie

nodes    == trie.nodes
Capacity == trie.pages * PageSize
Room     == Capacity - (Cardinality(DOMAIN nodes) + trie.lost)

\* The root's bit is set before bl_unordered_container_set looks at it, and so the
\* root is not counted.
Init == trie = [nodes |-> [path \in {<<>>} |-> 0], lost |-> 0, amountOfElements |-> 0,
                pages |-> 1, failed |-> FALSE]

\* bl_trie_get and bl_trie_get_prefix
GetPrefix(path) == Prefixes(path) \subseteq DOMAIN nodes
Get(path) == IF GetPrefix(path) THEN nodes[path] ELSE 0

Stored == { path \in DOMAIN nodes : Get(path) # 0 }
-----------------------------------------------------------------------------
(* bl_trie_insert: a bl_unordered_container_put for every node there is not. *)

Missing(path) == Prefixes(path) \ DOMAIN nodes

\* The nodes of a walk along path that has made those there were not.
WithWay(last) == [q \in DOMAIN nodes \union Prefixes(last) |-> Get(q)]

\* The put that finds no free slot grows the container, if the count has come to
\* the capacity.
Grows == (trie.amountOfElements + Room) \div PageSize = trie.pages

\* The node where the walk comes to that put.
IsLast(last, path) ==
    /\ last \in Prefixes(path) \ {path}
    /\ SubSeq(path, 1, Len(last) + 1) \notin DOMAIN nodes
    /\ Cardinality(Missing(last)) = Room

MayStore(path) == path \in Stored \/ Cardinality(Stored) < MaxStored

Insert(path, data) ==
    LET made == Cardinality(Missing(path)) IN
    /\ MayStore(path)
    /\ made <= Room \/ Grows
    /\ trie' = [trie EXCEPT !.nodes = [WithWay(path) EXCEPT ![path] = data],
                            !.amountOfElements = @ + made,
                            !.pages = IF made <= Room THEN @ ELSE 2 * @ + 1]

\* A put that finds no free slot and does not grow gives slot 0: the root is
\* cleared, and the walk goes on from it behind the char whose node that was.  The
\* count has then come to the capacity, and the next put grows.
Behind(last, path) == SubSeq(path, Len(last) + 2, Len(path))

Wiped(rest) ==
    [trie EXCEPT !.lost = Capacity - 1, !.amountOfElements = @ + Room + 1 + Len(rest),
                 !.pages = IF rest = <<>> THEN @ ELSE 2 * @ + 1]

InsertWiped(path, data) ==
    /\ MayStore(path) /\ ~Grows
    /\ \E last \in Prefixes(path) :
           LET rest == Behind(last, path) IN
           /\ IsLast(last, path)
           /\ trie' = [Wiped(rest) EXCEPT
                  !.nodes = [q \in Prefixes(rest) |-> IF q = rest THEN data ELSE 0]]

\* The growth fails.
InsertFails(path) ==
    /\ Grows
    /\ \E last \in Prefixes(path) :
           /\ IsLast(last, path)
           /\ trie' = [trie EXCEPT !.nodes = WithWay(last), !.failed = TRUE,
                                   !.amountOfElements = @ + Room]

InsertWipedFails(path) ==
    /\ ~Grows
    /\ \E last \in Prefixes(path) :
           /\ IsLast(last, path) /\ Behind(last, path) # <<>>
           /\ trie' = [Wiped(<<>>) EXCEPT !.nodes = [q \in {<<>>} |-> 0], !.failed = TRUE]
-----------------------------------------------------------------------------
(* bl_trie_remove *)

\* Mutant: a node is freed whatever other children it has.
FreedAnyway(path) == Prefixes(path) \ {<<>>}

\* What the recursion frees on its way back: nodes without children, whether or
\* not they hold data.
FreedBy(path) ==
    { p \in Prefixes(path) \ {<<>>} :
        \A q \in DOMAIN nodes : IsPrefix(p, q) => IsPrefix(q, path) }

\* It finds no index 0.
RemoveSequence(path) ==
    /\ path \in DOMAIN nodes
    /\ \A n \in DOMAIN path : path[n] # 0
    /\ trie' = [trie EXCEPT
                   !.nodes = [q \in DOMAIN nodes \ FreedBy(path) |->
                                  IF q = path THEN 0 ELSE nodes[q]],
                   !.amountOfElements = @ - Cardinality(FreedBy(path))]

Next == \E path \in Paths :
            \/ RemoveSequence(path) \/ InsertFails(path) \/ InsertWipedFails(path)
            \/ \E data \in Data : Insert(path, data) \/ InsertWiped(path, data)

Spec == Init /\ [][Next]_trie
-----------------------------------------------------------------------------
(* get_prefix answers for a path exactly when a stored sequence begins with *)
(* it: the nodes that a removal leaves without use are freed (lines 72-82   *)
(* and 107-126), unless an allocation failed on the way.                    *)
NoDeadNodes ==
    ~trie.failed =>
        \A path \in Paths \ {<<>>} :
            GetPrefix(path) <=> \E q \in Stored : IsPrefix(path, q)

D == INSTANCE Dict WITH dict <- [path \in Stored |-> nodes[path]]

IsPrefixFree(S) == \A p, q \in S : IsPrefix(p, q) => p = q

(* The trie is a map from sequences to data as long as no put gives slot 0, *)
(* no sequence stored is a prefix of another and none removed has a         *)
(* character out of range; an insertion that fails changes nothing that is  *)
(* stored (lines 44-133).                                                   *)
DictStep ==
    \A path \in Paths :
        /\ \A data \in Data : Insert(path, data) => D!Put(path, data)
        /\ IsPrefixFree(Stored) /\ path \in Stored /\ RemoveSequence(path) => D!Drop(path)
        /\ InsertFails(path) => D!Keep

(* An insertion that succeeds stores its sequence and leaves the others     *)
(* (BL_Trie.h, lines 32-39).  Violated: the root is not counted (line 20),  *)
(* and the put behind the last free slot clears it (line 62).               *)
InsertsOne ==
    \A path \in Paths, data \in Data :
        Insert(path, data) \/ InsertWiped(path, data) => D!Put(path, data)
=============================================================================
