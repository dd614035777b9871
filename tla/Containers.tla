------------------------------ MODULE Containers ------------------------------
(***************************************************************************)
(* The containers of src/Types, one of them in each behaviour, with what    *)
(* they promise; and the arguments and JSON objects of src/Parsing, which   *)
(* are searched as containers are.                                          *)
(***************************************************************************)
EXTENDS HeapArray, SlotBits, FiniteSets, Bags, SequencesExt

CONSTANTS
    Held,                        \* what all but the heap and the unordered container hold
    Rooms, MaxLength,            \* DynamicContainer
    ElementSizes, MaxElements,   \* Queue
    Keys, Hash, MaxTable,        \* HashMap
    MaxKey, MaxRemovals,         \* OrderedMap
    ByteSize, Amounts,           \* Bitset
    AmountOfChars, Data, MaxDepth, MaxStored,   \* Trie
    Chars, MaxString,            \* Strings
    Flags, Texts, ArgWords, MaxArgs,               \* Args
    Rank, Leaves, Unreadable,                   \* Json
    TextOf(_), IsCopied(_), MaxTokens, MaxText, MaxMembers

\* A dynamic container is created for a number of elements.
ASSUME RoomsAssumption == Rooms \subseteq Nat /\ MaxLength \in Nat

\* The hash function answers for every key; NULL stands for no element.
ASSUME MapAssumption == Hash \in [Keys -> Nat] /\ NULL \notin Held

\* The keys of an ordered map are numbered in their order.
ASSUME TreeAssumption == MaxKey \in Nat

\* A trie holds nothing where it holds 0.
ASSUME TrieAssumption == AmountOfChars \in Nat /\ MaxDepth \in Nat /\ 0 \notin Data

\* A sequence has no more characters than a page has slots, so that one growth is
\* enough for an insertion.
ASSUME DepthAssumption == MaxDepth <= PageSize

\* A char is an unsigned one and not the NUL that ends a string.
ASSUME CharsAssumption == Chars \subseteq Nat \ {0}

\* A bitset is for one element at least: (amount - 1) / 8 wraps around for none.
ASSUME BitsetAssumption == ByteSize \in Nat \ {0} /\ Amounts \subseteq Nat \ {0}

VARIABLES
    which,                                         \* the container of the behaviour
    array, input, pc, size, i, at,                 \* Heap
    slots, amountOfElements, amountOfPages, reserves,  \* UnorderedContainer
    object                                         \* any other

heap      == <<array, input, pc, size, i, at>>
unordered == <<slots, amountOfElements, amountOfPages, reserves>>
vars      == <<which, heap, unordered, object>>

H == INSTANCE Heap
U == INSTANCE UnorderedContainer
C == INSTANCE DynamicContainer WITH container <- object, Values <- Held
Q == INSTANCE Queue WITH queue <- object, Values <- Held
M == INSTANCE HashMap WITH hashMap <- object, Values <- Held
O == INSTANCE OrderedMap WITH tree <- object
S == INSTANCE Bitset WITH bitsets <- object
T == INSTANCE Trie WITH trie <- object
B == INSTANCE Strings WITH strings <- object, MaxLength <- MaxString
A == INSTANCE Args WITH args <- object
J == INSTANCE Json WITH json <- object

\* A program that parses its arguments has flags, which the model numbers in the
\* order of their names; NULL is none of them.
ASSUME FlagsAssumption == NULL \notin Nat /\ Flags \in Seq(A!Types) /\ Flags # <<>>

\* The order of strings is total (Strings), and the value of a string is one.
ASSUME JsonAssumption ==
    /\ Rank \in [J!Names -> Nat] /\ \A s, t \in J!Names : Rank[s] = Rank[t] => s = t
    /\ \A leaf \in Leaves : /\ leaf.type \in {"null", "boolean", "number", "string"}
                            /\ leaf.type = "string" => leaf.value \in J!Names

HeapAtRest ==
    array = <<>> /\ input = <<>> /\ pc = "idle" /\ size = 0 /\ i = 0 /\ at = 0

UnorderedAtRest ==
    /\ slots = <<>> /\ amountOfElements = 0 /\ amountOfPages = 1
    /\ reserves = FALSE

Init ==
    \/ which = "heap" /\ H!Init /\ UnorderedAtRest /\ object = NULL
    \/ which = "unordered" /\ U!Init /\ HeapAtRest /\ object = NULL
    \/ /\ HeapAtRest /\ UnorderedAtRest
       /\ \/ which = "dynamic container" /\ C!Init
          \/ which = "queue" /\ Q!Init
          \/ which = "hash map" /\ M!Init
          \/ which = "ordered map" /\ O!Init
          \/ which = "bitset" /\ S!Init
          \/ which = "trie" /\ T!Init
          \/ which = "strings" /\ B!Init
          \/ which = "arguments" /\ A!Init
          \/ which = "json" /\ J!Init

Next ==
    /\ UNCHANGED which
    /\ \/ which = "heap" /\ H!Next /\ UNCHANGED <<unordered, object>>
       \/ which = "unordered" /\ U!Next /\ UNCHANGED <<heap, object>>
       \/ /\ UNCHANGED <<heap, unordered>>
          /\ \/ which = "dynamic container" /\ C!Next
             \/ which = "queue" /\ Q!Next
             \/ which = "hash map" /\ M!Next
             \/ which = "ordered map" /\ O!Next
             \/ which = "bitset" /\ S!Next
             \/ which = "trie" /\ T!Next
             \/ which = "strings" /\ B!Next
             \/ which = "arguments" /\ A!Next
             \/ which = "json" /\ J!Next

Spec == Init /\ [][Next]_vars
-----------------------------------------------------------------------------
(* Heap: every element of a heap is as large as those under it, and a sort  *)
(* is done when what it sorts is.                                           *)
HeapOrder == H!TypeOK /\ H!HeapOrder
Sorted == H!Sorted

(* The heap is a priority queue of the elements its array holds             *)
(* (BL_Heap.c, lines 40-69).                                                *)
Queue == INSTANCE PriorityQueue WITH
    pending <- IF which # "heap" \/ H!IsSort THEN EmptyBag
               ELSE [e \in ToSet(array) |-> H!Times(e, array)]

ImplementsPriorityQueue == Queue!Spec

(* UnorderedContainer                                                       *)

(* The size is right unless something was reserved, and never too small     *)
(* (BL_UnorderedContainer.c, lines 81, 93-96 and 123-124).                  *)
SizesRight == U!TypeOK /\ U!SizeUnlessReserved /\ U!NeverUndercounts

(* An element is put where none is and leaves the others                    *)
(* (BL_UnorderedContainer.c, lines 32-82).                                  *)
PutsApart == U!PutTakesFree

(* What was put stays until it is removed: a reservation breaks it.         *)
KeptUntilRemoved == U!KeptUntilRemoved

(* A dynamic container's elements lie within its memory, and the links of a *)
(* queue, a hash map and a trie lead to what is there, and to all of it; a  *)
(* bitset knows when it is empty until it is inverted.                      *)
StructureWhole ==
    /\ which = "dynamic container" => C!Fits
    /\ which = "queue" => Q!EndsAgree
    /\ which = "hash map" => M!ChainsWhole
    /\ which = "trie" => T!NoDeadNodes
    /\ which = "bitset" => S!EmptyUnlessInverted

(* An ordered map is a search tree, which is iterated in the order of the   *)
(* keys; a removal removes its key alone.                                   *)
SearchTree == which = "ordered map" => O!SearchTree
IteratesInOrder == which = "ordered map" => O!IteratesInOrder
RemovesOne == which = "ordered map" => O!RemovesOne

(* A command line is parsed as its flags ask for.                           *)
ParsesArgs == which = "arguments" => A!ParsesArgs

(* JSON is read as its grammar says, and an object's members are found.     *)
ReadsGrammar == which = "json" => J!ReadsGrammar
FindsMembers == which = "json" => J!FindsMembers

(* Strings are split, stripped and ordered as their definitions say         *)
(* (BackerStrings.c, lines 58-69, 82-135 and 155-186).                      *)
StringsRight == which = "strings" => B!SplitsRight /\ B!AscendingIsTotal

(* Every call of the dynamic container, the array list, the queues and the  *)
(* strings does to the elements what List says it does.                     *)
ImplementsList ==
    [][ /\ which = "dynamic container" => C!ListStep
        /\ which = "queue" => Q!InOrder
        /\ which = "strings" => B!AppendsText ]_object

(* Every call of the hash map and the trie does to what get returns what    *)
(* Dict says it does, and every call of a bitset is one of the algebra of   *)
(* sets.                                                                    *)
ImplementsDict ==
    [][ /\ which = "hash map" => M!DictStep
        /\ which = "trie" => T!DictStep
        /\ which = "bitset" => S!SetStep ]_object

(* An insertion into a trie stores one sequence and keeps the others: a put *)
(* that overwrites the root breaks it.                                      *)
InsertsOne == [][which = "trie" => T!InsertsOne]_object
=============================================================================
