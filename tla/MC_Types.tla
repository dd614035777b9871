------------------------------- MODULE MC_Types -------------------------------
(***************************************************************************)
(* The sequential components, one of them in each behaviour: the containers *)
(* and instances of what src/Parsing and src/Textprocessing read and write. *)
(***************************************************************************)
EXTENDS Containers

CONSTANTS
    lo, lo2, middle, hi,     \* elements to compare; lo and lo2 compare equal
    x, y,                    \* elements of other containers
    a, b,                    \* names, in this order
    third, near, nan,        \* numbers; near is what the 7 digits of third say
    plain, number, minus     \* texts of a command line; minus is a negative number

Four == {lo, lo2, middle, hi}
FourWeights == [e \in Four |-> CASE e = hi -> 3 [] e = middle -> 2 [] OTHER -> 1]
ToSix == BoundedSeq(Four, 6)
Nothing == {}

\* Bitset words: small ones, and those of the code.
Quarters == <<2, 1, 1>>
Widths == <<32, 16, 8>>

Two == {x, y}
SmallRooms == {0, 2, 8}
TwoSizes == {4, 8}
MapKeys == {1, 2, 3}
TwoThree == {2, 3}
One == {1}
Hashes == <<3, 6, 10>>      \* all in one chain of a table of 1 or 3

\* An upper-case and two lower-case letters, one above ASCII: A, a and a with a diaeresis.
Cases == {65, 97, 228}

\* Both ends of every length of UTF-8 and UTF-16, without the surrogates.
Boundaries == {0, 127, 128, 2047, 2048, 55295, 57344, 65535, 65536, 1114111}

\* What JSON escapes and what it does not, and digits.
JsonChars == {0, 10, 34, 92, 110, 48, 57, 51}

JsonRank == a :> 1 @@ b :> 2
JsonLeaves == [type : {"string"}, value : {a, b}]
                  \union [type : {"number"}, value : {third, near, nan}]
Digits7 == [leaf \in JsonLeaves |-> IF leaf.value = third THEN [leaf EXCEPT !.value = near] ELSE leaf]
NotANumber == [type : {"number"}, value : {nan}]

\* An infix operator on each side of the others, prefixes and suffixes, one of
\* which is an infix too: + * ! ~ ?
Operator(binary, unary, left, right, lhs, rhs) ==
    [binary |-> binary, unary |-> unary, left |-> left, right |-> right, lhs |-> lhs, rhs |-> rhs]
FiveOperators ==
    43 :> Operator(TRUE, TRUE, 0, 5, 1, 2) @@ 42 :> Operator(TRUE, FALSE, 0, 0, 3, 4)
    @@ 33 :> Operator(FALSE, TRUE, 6, 0, 0, 0) @@ 126 :> Operator(FALSE, TRUE, 0, 5, 0, 0)
    @@ 63 :> Operator(TRUE, TRUE, 6, 5, 2, 1)

TwoWords == {plain, number}
ThreeFlags == <<"boolean", "string", "unsigned">>
TypesTexts == [type \in {"boolean", "integer", "unsigned", "floating", "string"} |->
    CASE type = "boolean" -> {} [] type = "unsigned" -> {number}
      [] type = "string" -> {number, minus, plain} [] OTHER -> {number, minus}]

-----------------------------------------------------------------------------
W == INSTANCE JsonWrite WITH json <- object, Rounded <- Digits7
WrittenText(members) == W!WrittenObject(members)
HasCopy(member) == W!Copies(member)

N == INSTANCE Unicode WITH unicode <- object, Codepoints <- Boundaries, MaxLength <- 3
X == INSTANCE JsonText WITH
        jsonText <- object, Chars <- JsonChars, Codepoints <- Boundaries, MaxLength <- 3
E == INSTANCE Expr WITH
        expr <- object, Operators <- FiveOperators, Letters <- {97}, MaxTokens <- 6

TypesInit ==
    \/ Init
    \/ /\ HeapAtRest /\ UnorderedAtRest
       /\ \/ which = "unicode" /\ N!Init
          \/ which = "json text" /\ X!Init
          \/ which = "expressions" /\ E!Init

TypesNext ==
    \/ Next
    \/ /\ UNCHANGED <<which, heap, unordered>>
       /\ \/ which = "unicode" /\ N!Next
          \/ which = "json text" /\ X!Next
          \/ which = "expressions" /\ E!Next

TypesSpec == TypesInit /\ [][TypesNext]_vars
-----------------------------------------------------------------------------
(* What is written reads back: an object, a string and a number of JSON,    *)
(* and a Unicode string in every encoding.                                  *)
ReadsBack ==
    /\ which = "json" => W!ReadsWhatItWrote
    /\ which = "json text" => X!StringsComeBack /\ X!NumbersComeBack
    /\ which = "unicode" => N!ComesBack

(* Expr: the tree has every token in its place, and every operand is the    *)
(* neighbour's that binds it tighter.                                       *)
ParsesExpressions ==
    which = "expressions" => E!ParsesExpressions /\ E!TokensInOrder /\ E!BindsTighter
=============================================================================
