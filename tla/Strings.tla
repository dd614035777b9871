-------------------------------- MODULE Strings --------------------------------
(***************************************************************************)
(* The byte strings of src/Types/BackerStrings.c: dynamic containers that   *)
(* end in NUL, which their size counts.  A string is modelled as the        *)
(* sequence of its bytes, NUL included.                                     *)
(***************************************************************************)
EXTENDS Integers, Sequences, FiniteSets
S == INSTANCE SequencesExt

CONSTANTS Chars,      \* bytes other than NUL
          MaxLength   \* bound on the bytes of a string

NUL == 0

\* subject: the string that calls change; other: their argument; replaced: a
\* call of bl_string_replace may have left a NUL or a stale byte inside.
VARIABLE strings

subject == strings.subject
other   == strings.other

\* bl_string_create
Create(text) == Append(text, NUL)

Init == strings \in [subject : { Create(t) : t \in S!BoundedSeq(Chars, 2) },
                     other : { Create(t) : t \in S!BoundedSeq(Chars, 2) },
                     replaced : {FALSE}]

\* bl_string_length
Length(string) == Len(string) - 1

\* The content before the NUL that ends it.
Text(string) == SubSeq(string, 1, Length(string))

\* bl_container_dynamic_insert
Inserted(string, index, bytes) ==
    SubSeq(string, 1, index) \o bytes \o SubSeq(string, index + 1, Len(string))

Becomes(string) ==
    /\ Len(string) <= MaxLength
    /\ strings' = [strings EXCEPT !.subject = string]

AppendCString(text) == Becomes(Inserted(subject, Length(subject), text))

InsertCString(text, index) ==
    /\ index <= Len(subject)
    /\ Becomes(Inserted(subject, index, text))

\* Mutant: the second NUL stays.
AppendStringUnpopped == Becomes(Inserted(subject, Length(subject), other))

\* The other string comes in with its NUL, and the last of the two is popped.
AppendString ==
    Becomes(S!Front(Inserted(subject, Length(subject), other)))

\* Refused at a byte above 127.  The string grows by one byte too many, which
\* nothing writes.
Replace(index) ==
    LET needed == Len(other) + index + 1
        grown  == IF Len(other) > Len(subject) - index - 1 THEN needed ELSE Len(subject)
    IN  /\ index < Len(subject) /\ subject[index + 1] <= 127
        /\ grown <= MaxLength
        /\ \E stale \in Chars \union {NUL} :
               strings' = [strings EXCEPT !.replaced = TRUE, !.subject =
                   [k \in 1 .. grown |-> IF k \in index + 1 .. index + Len(other)
                                         THEN other[k - index]
                                         ELSE IF k <= Len(subject) THEN subject[k] ELSE stale]]

-----------------------------------------------------------------------------
\* The indices of a string's text, in the order of a call.
Order(string, fromBack) ==
    [k \in 1 .. Length(string) |-> IF fromBack THEN Length(string) - k ELSE k - 1]

\* bl_string_strip: without the first `amount` of the char, 0 for all of them.
Strip(string, char, fromBack, amount) ==
    LET Step(acc, index) ==
            IF string[index + 1] # char \/ (amount # 0 /\ acc.stripped >= amount)
            THEN [acc EXCEPT !.kept = Append(@, string[index + 1])]
            ELSE [acc EXCEPT !.stripped = @ + 1]
        kept == S!FoldLeft(Step, [kept |-> <<>>, stripped |-> 0], Order(string, fromBack)).kept
    IN  Create(IF fromBack THEN S!Reverse(kept) ELSE kept)

\* Mutant: separators in a row split empty strings off.
SplitEmpty(string, separators, fromBack, amount) ==
    LET away == IF fromBack THEN -1 ELSE 1
        Piece(first, last) == Create(SubSeq(string, first + 1, last + 1))
        Between(begin, end) == IF fromBack THEN Piece(end + 1, begin) ELSE Piece(begin, end - 1)
        Step(acc, index) ==
            IF string[index + 1] \notin separators THEN acc
            ELSE [begin |-> index + away, pieces |-> Append(acc.pieces, Between(acc.begin, index))]
        begin == IF fromBack THEN Length(string) - 1 ELSE 0
    IN  S!FoldLeft(Step, [begin |-> begin, pieces |-> <<>>], Order(string, fromBack)).pieces

\* bl_string_split_multi: at the first `amount` of the separators, 0 for all;
\* two in a row split nothing off between them.
Split(string, separators, fromBack, amount) ==
    LET away == IF fromBack THEN -1 ELSE 1
        Piece(first, last) == Create(SubSeq(string, first + 1, last + 1))
        Between(begin, end) == IF fromBack THEN Piece(end + 1, begin) ELSE Piece(begin, end - 1)
        Step(acc, index) ==
            IF string[index + 1] \notin separators THEN acc
            ELSE IF amount # 0 /\ acc.split >= amount THEN acc
            ELSE [begin |-> index + away, split |-> acc.split + 1,
                  pieces |-> IF acc.begin = index THEN acc.pieces
                             ELSE Append(acc.pieces, Between(acc.begin, index))]
        end    == IF fromBack THEN -1 ELSE Length(string)
        begin  == IF fromBack THEN Length(string) - 1 ELSE 0
        folded == S!FoldLeft(Step, [begin |-> begin, split |-> 0, pieces |-> <<>>],
                             Order(string, fromBack))
        pieces == IF folded.begin = end THEN folded.pieces
                  ELSE Append(folded.pieces, Between(folded.begin, end))
    IN  IF fromBack THEN S!Reverse(pieces) ELSE pieces

-----------------------------------------------------------------------------
IsUpper(char) == char \in 65 .. 90
ToLower(char) == IF IsUpper(char) THEN char + 32 ELSE char

\* Letters before case, the upper first: what the two comparisons ask of the
\* first place where the strings differ.
Precedes(c, d) ==
    ToLower(c) < ToLower(d) \/ (ToLower(c) = ToLower(d) /\ IsUpper(c) /\ ~IsUpper(d))

Differing(first, second) ==
    { n \in 1 .. Length(first) : n > Length(second) \/ first[n] # second[n] }

\* Mutant: the end of the second string is not looked for.
AscendingEndless(first, second) ==
    LET differ == { n \in Differing(first, second) : n <= Length(second) } IN
    differ = {} \/ Precedes(first[S!Min(differ)], second[S!Min(differ)])

\* bl_string_compare_acending
Ascending(first, second) ==
    LET differ == Differing(first, second) IN
    \/ differ = {}
    \/ /\ S!Min(differ) <= Length(second)
       /\ Precedes(first[S!Min(differ)], second[S!Min(differ)])

\* bl_string_compare_decending: also true of a string that begins the second.
Descending(first, second) ==
    LET differ == Differing(first, second) IN
    \/ differ = {}
    \/ S!Min(differ) > Length(second)
    \/ Precedes(second[S!Min(differ)], first[S!Min(differ)])

Next ==
    \/ AppendString
    \/ \E text \in S!BoundedSeq(Chars, 1) :
           AppendCString(text) \/ \E index \in 0 .. MaxLength : InsertCString(text, index)
    \/ \E index \in 0 .. MaxLength : Replace(index)

Spec == Init /\ [][Next]_strings
-----------------------------------------------------------------------------
IsString(string) == string # <<>> /\ string[Len(string)] = NUL

\* The k-th of some places.
Nth(places, k) == CHOOSE n \in places : Cardinality({ m \in places : m < n }) = k - 1

\* The pieces of a text that a separator cuts off, by definition: what lies
\* between two neighbouring ends, where that is anything.
Ends(text, separator) ==
    {0, Len(text) + 1} \union { n \in DOMAIN text : text[n] = separator }

EndAfter(text, separator, n) == S!Min({ m \in Ends(text, separator) : m > n })

Starts(text, separator) ==
    { n \in Ends(text, separator) \ {Len(text) + 1} : EndAfter(text, separator, n) > n + 1 }

Cut(text, separator) ==
    LET starts   == Starts(text, separator)
        piece(n) == SubSeq(text, n + 1, EndAfter(text, separator, n) - 1)
    IN  [k \in 1 .. Cardinality(starts) |-> Create(piece(Nth(starts, k)))]

\* A text without one of its chars.
Without(text, char) ==
    LET others == { n \in DOMAIN text : text[n] # char } IN
    [k \in 1 .. Cardinality(others) |-> text[Nth(others, k)]]

(* Split and strip give the same from either end when they are not limited, *)
(* and what their definitions say, with empty pieces at any place (lines    *)
(* 58-69 and 82-135).                                                       *)
SplitsRight ==
    ~strings.replaced => \A c \in Chars, fromBack \in BOOLEAN :
        /\ Split(subject, {c}, fromBack, 0) = Cut(Text(subject), c)
        /\ Strip(subject, c, fromBack, 0) = Create(Without(Text(subject), c))

(* The comparison the sorts use orders strings totally (lines 155-186):     *)
(* case counts only where the letters agree, and a string comes after those *)
(* it begins with.                                                          *)
AscendingIsTotal ==
    ~strings.replaced =>
        /\ Ascending(subject, other) \/ Ascending(other, subject)
        /\ Ascending(subject, other) /\ Ascending(other, subject) => subject = other

(* An append puts the text of the other string after the text there was,    *)
(* and one NUL ends it (lines 33-47).                                       *)
AppendsText ==
    ~strings.replaced =>
        (AppendString => strings'.subject = Create(Text(subject) \o Text(other)))
=============================================================================
