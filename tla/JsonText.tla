-------------------------------- MODULE JsonText --------------------------------
(***************************************************************************)
(* The characters of JSON's strings and numbers (src/Parsing): how the      *)
(* tokenizer reads them and the writer writes them.  A character is its     *)
(* code; the four hexadecimal digits of an escape are one, Hex of the word  *)
(* they spell.                                                              *)
(***************************************************************************)
EXTENDS Integers, Sequences
LOCAL S == INSTANCE SequencesExt

CONSTANTS NULL, Chars, Codepoints, MaxLength   \* MaxLength: bound on a string

Encoding == INSTANCE Unicode WITH unicode <- <<>>

\* A string that is written, or the digits of a number that is.
VARIABLE jsonText

Init == jsonText = <<>>

\* A character joins the string (bl_container_dynamic_append).
Next == \E c \in Chars : Len(jsonText) < MaxLength /\ jsonText' = Append(jsonText, c)

Spec == Init /\ [][Next]_jsonText

-----------------------------------------------------------------------------
Quote == 34
Backslash == 92
Hex(word) == 256 + word

\* The characters with an escape: its letter, and the character.
Escapes == {<<110, 10>>, <<98, 8>>, <<116, 9>>, <<102, 12>>, <<92, 92>>, <<47, 47>>,
            <<114, 13>>, <<34, 34>>}

\* internal_printJsonString
WriteString(string) ==
    LET Written(c) == IF c = 0 THEN <<>>
                      ELSE IF \E escape \in Escapes : escape[2] = c
                      THEN <<Backslash, (CHOOSE escape \in Escapes : escape[2] = c)[1]>>
                      ELSE <<c>>
    IN  <<Quote>> \o S!FlattenSeq([n \in DOMAIN string |-> Written(string[n])]) \o <<Quote>>

\* internal_handleUnicodeEscape, after \u: its bytes of UTF-8 and the characters
\* it takes; a high surrogate takes the escape behind it, whatever word it spells.
UnicodeEscape(text) ==
    LET IsHex(n)  == n <= Len(text) /\ text[n] >= 256
        Bytes(n)  == <<(text[n] - 256) \div 256, (text[n] - 256) % 256>>
        isPair    == Bytes(1)[1] \in 216 .. 219
        wellPaired == Len(text) > 3 /\ SubSeq(text, 2, 3) = <<Backslash, 117>> /\ IsHex(4)
    IN  IF ~IsHex(1) \/ (isPair /\ ~wellPaired) THEN NULL
        ELSE IF isPair
        THEN [bytes |-> Encoding!Transcode(Bytes(1) \o Bytes(4), "UTF16BE", "UTF8"), taken |-> 4]
        ELSE [bytes |-> Encoding!Transcode(Bytes(1), "UTF16BE", "UTF8"), taken |-> 1]

\* internal_parseUTF8String, after the quote: NULL where it fails.
RECURSIVE ReadString(_, _)
ReadString(text, string) ==
    LET From(n) == SubSeq(text, n, Len(text))
        named   == { escape \in Escapes : escape[1] = text[2] }
        unicode == UnicodeEscape(From(3))
    IN  IF text = <<>> \/ text = <<Backslash>> THEN NULL
        ELSE IF text[1] = Quote THEN [string |-> Append(string, 0), rest |-> From(2)]
        ELSE IF text[1] # Backslash THEN ReadString(From(2), Append(string, text[1]))
        ELSE IF named # {} THEN ReadString(From(3), Append(string, (CHOOSE e \in named : TRUE)[2]))
        ELSE IF text[2] # 117 \/ unicode = NULL THEN NULL
        ELSE ReadString(From(3 + unicode.taken), string \o unicode.bytes)

-----------------------------------------------------------------------------
\* A number as it is read: its digits and how many of them follow the point,
\* and the same of its exponent.
Part(digits, places) == [digits |-> digits, places |-> places]

Digits == 48 .. 57
Point == 46
Plus == 43
Minus == 45
Exponents == {101, 69}
Ends == {125, 93, 44, 32}   \* } ] , and white space

\* Mutant: a digit behind the point counts as one before it.
WithDigitUnplaced(part, c, hitPoint) == Part(part.digits * 10 + (c - 48), part.places)

WithDigit(part, c, hitPoint) ==
    Part(part.digits * 10 + (c - 48), part.places + (IF hitPoint THEN 1 ELSE 0))

\* internal_parseNumber, after its first character: NULL for NaN.
RECURSIVE ReadNumber(_, _)
ReadNumber(text, number) ==
    LET c       == text[1]
        From(n) == SubSeq(text, n, Len(text))
        inside  == IF number.hitE THEN "exponent" ELSE "mantissa"
    IN  IF text = <<>> THEN NULL
        ELSE IF c \in Ends THEN [number |-> number, rest |-> text]
        ELSE IF c \in Exponents
        THEN IF number.hitE \/ Len(text) = 1 THEN NULL
             ELSE IF text[2] \notin Digits \union {Plus, Minus} THEN NULL
             ELSE ReadNumber(From(3), [number EXCEPT !.hitE = TRUE, !.hitPoint = FALSE,
                      !.sinks = text[2] = Minus,
                      !.exponent = IF text[2] \in Digits THEN Part(text[2] - 48, 0) ELSE @])
        ELSE IF c = Point /\ ~number.hitPoint
        THEN ReadNumber(From(2), [number EXCEPT !.hitPoint = TRUE])
        ELSE IF c \notin Digits THEN NULL
        ELSE ReadNumber(From(2), [number EXCEPT ![inside] = WithDigit(@, c, number.hitPoint)])

\* bl_json_tokenize_file's call: the first is a digit or a minus.
NumberFrom(text) ==
    ReadNumber(Tail(text),
        [mantissa |-> Part(IF text[1] = Minus THEN 0 ELSE text[1] - 48, 0),
         exponent |-> Part(0, 0), negative |-> text[1] = Minus, sinks |-> FALSE,
         hitE |-> FALSE, hitPoint |-> FALSE])

\* fprintf of %le: a digit, the others behind the point, a signed exponent of two.
WriteNumber(negative, digits, exponent) ==
    LET size == IF exponent < 0 THEN -exponent ELSE exponent IN
    (IF negative THEN <<Minus>> ELSE <<>>)
        \o <<Head(digits), Point>> \o Tail(digits)
        \o <<101, IF exponent < 0 THEN Minus ELSE Plus, 48 + size \div 10, 48 + (size % 10)>>

-----------------------------------------------------------------------------
(* A string comes back from its text without its NULs, but the one that     *)
(* ends it (JsonWrite.c, lines 11-46, and JsonParser.c, lines 124-192), and *)
(* a codepoint from its escapes (lines 84-122).                             *)
StringsComeBack ==
    /\ LET text == Tail(WriteString(jsonText)) \o <<Quote>> IN
       ReadString(text, <<>>) = [string |-> Append(SelectSeq(jsonText, LAMBDA c : c # 0), 0),
                                 rest |-> <<Quote>>]
    /\ \A codepoint \in Codepoints :
           LET bytes == Encoding!Encode(codepoint, "UTF16BE")
               Escape(n) == <<Backslash, 117, Hex(bytes[n] * 256 + bytes[n + 1])>>
               text  == Escape(1) \o (IF Len(bytes) > 2 THEN Escape(3) ELSE <<>>)
           IN  ReadString(text \o <<Quote>>, <<>>)
                   = [string |-> Append(Encoding!Encode(codepoint, "UTF8"), 0), rest |-> <<>>]

(* A number comes back from its text: its sign, the digits on both sides of *)
(* the point and the exponent (JsonWrite.c, lines 87 and 150, and           *)
(* JsonParser.c, lines 16-82).                                              *)
NumbersComeBack ==
    jsonText # <<>> /\ S!ToSet(jsonText) \subseteq Digits =>
        \A negative \in BOOLEAN, exponent \in {-12, -1, 0, 20}, end \in Ends :
            LET read  == NumberFrom(WriteNumber(negative, jsonText, exponent) \o <<end>>)
                value == S!FoldLeft(LAMBDA acc, c : acc * 10 + (c - 48), 0, jsonText)
                size  == IF exponent < 0 THEN -exponent ELSE exponent
            IN  /\ read # NULL /\ read.rest = <<end>>
                /\ read.number.mantissa = Part(value, Len(jsonText) - 1)
                /\ read.number.exponent = Part(size, 0)
                /\ read.number.negative = negative /\ (read.number.sinks <=> exponent < 0)
=============================================================================
