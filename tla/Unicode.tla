--------------------------------- MODULE Unicode ---------------------------------
(***************************************************************************)
(* Unicode strings and the UTF encodings (src/Textprocessing).              *)
(***************************************************************************)
EXTENDS Integers, Sequences
LOCAL S == INSTANCE SequencesExt

CONSTANTS NULL, Codepoints, MaxLength   \* MaxLength: bound on a string

Encodings == {"UTF8", "UTF16LE", "UTF16BE", "UTF32LE", "UTF32BE"}
Unknown == 65533   \* 0xfffd

\* A BL_UnicodeString: its codepoints, NULL when there is no saying what it holds,
\* and its capacity.
VARIABLE unicode

text == unicode.text

Init == unicode = [text |-> <<>>, capacity |-> 0]

\* internal_unicodestr_check_and_resize_up, and what is written behind the text.  A
\* growth does not keep the pointer that realloc returns: when the memory has moved,
\* what is written, and read from then on, is no longer the string's.
Becomes(string) ==
    /\ text # NULL /\ Len(string) <= MaxLength
    /\ \/ /\ Len(string) <= unicode.capacity
          /\ unicode' = [unicode EXCEPT !.text = string]
       \/ /\ Len(string) > unicode.capacity
          /\ \E left \in {string, NULL} :
                 unicode' = [text |-> left, capacity |-> 2 * Len(string)]

\* bl_unicodestr_append
AppendCodepoint(codepoint) == Becomes(Append(text, codepoint))

\* bl_unicodestr_extend: of the view of nothing, a codepoint is copied from NULL.
Extend(other) ==
    \/ other # <<>> /\ Becomes(text \o other)
    \/ /\ other = <<>> /\ text # NULL
       /\ unicode' = [unicode EXCEPT !.text = NULL]

\* bl_unicodestr_substr: the codepoints from begin to before end, none when the
\* bounds are no range of the string.
Substring(string, begin, end) ==
    IF begin >= end \/ end > Len(string) THEN <<>> ELSE SubSeq(string, begin + 1, end)

Next ==
    \/ \E codepoint \in Codepoints : AppendCodepoint(codepoint)
    \/ \E begin, end \in 0 .. MaxLength : text # NULL /\ Extend(Substring(text, begin, end))

Spec == Init /\ [][Next]_unicode

-----------------------------------------------------------------------------
\* The low 6 bits, of those from the shift on, that follow a leading byte.
Continuation(codepoint, shift) == 128 + ((codepoint \div 2 ^ shift) % 64)

Words(big, bytes) ==
    IF big THEN bytes
    ELSE [n \in DOMAIN bytes |-> bytes[n + (IF n % 2 = 1 THEN 1 ELSE -1)]]

\* bl_textprocessing_from_unicodepoint: the bytes of a codepoint.
Encode(codepoint, encoding) ==
    CASE encoding = "UTF8" ->
            IF codepoint < 128 THEN <<codepoint>>
            ELSE IF codepoint < 2048
                 THEN <<192 + codepoint \div 64, Continuation(codepoint, 0)>>
            ELSE IF codepoint < 65536
                 THEN <<224 + codepoint \div 4096, Continuation(codepoint, 6),
                        Continuation(codepoint, 0)>>
            ELSE <<240 + codepoint \div 262144, Continuation(codepoint, 12),
                   Continuation(codepoint, 6), Continuation(codepoint, 0)>>
      [] encoding \in {"UTF16BE", "UTF16LE"} ->
            Words(encoding = "UTF16BE",
                IF codepoint < 65536 THEN <<codepoint \div 256, codepoint % 256>>
                ELSE LET rest == codepoint - 65536 IN
                     <<216 + ((rest \div 262144) % 4), (rest \div 1024) % 256,
                       220 + ((rest \div 256) % 4), rest % 256>>)
      [] OTHER ->
            LET bytes == [n \in 1 .. 4 |-> (codepoint \div 256 ^ (4 - n)) % 256]
            IN  IF encoding = "UTF32BE" THEN bytes ELSE S!Reverse(bytes)

Value(bytes, base) == S!FoldLeft(LAMBDA acc, byte : acc * base + byte, 0, bytes)

\* bl_textprocessing_to_unicodepoint
Decode(bytes, encoding) ==
    CASE encoding = "UTF8" ->
            IF Len(bytes) = 1 THEN IF bytes[1] < 128 THEN bytes[1] ELSE Unknown
            ELSE IF \/ bytes[1] \notin 194 .. 247
                    \/ \E n \in 2 .. Len(bytes) : bytes[n] \notin 128 .. 191
                 THEN Unknown
            ELSE Value([n \in DOMAIN bytes |->
                            bytes[n] % (IF n = 1 THEN 2 ^ (8 - Len(bytes)) ELSE 64)], 64)
      [] encoding \in {"UTF16BE", "UTF16LE"} ->
            LET word == Words(encoding = "UTF16BE", bytes) IN
            IF Len(word) = 2
            THEN IF word[1] \in 216 .. 223 THEN Unknown ELSE Value(word, 256)
            ELSE IF word[1] \notin 216 .. 219 /\ word[3] \notin 220 .. 223
                 THEN Unknown
            ELSE 65536 + Value(<<word[1] % 4, word[2]>>, 256) * 1024
                       + Value(<<word[3] % 4, word[4]>>, 256)
      [] encoding = "UTF32BE" -> Value(bytes, 256)
      [] encoding = "UTF32LE" -> Value(S!Reverse(bytes), 256)

\* bl_textprocessing_transcode_utfcodepoint
Transcode(bytes, source, target) == Encode(Decode(bytes, source), target)

\* Mutant: a continuation byte is taken for a leading one.
AheadUnskipped(bytes, encoding) ==
    LET high   == IF encoding = "UTF16BE" THEN bytes[1] ELSE bytes[2]
        wanted == CASE encoding = "UTF8" ->
                           IF bytes[1] < 128 THEN 1 ELSE IF bytes[1] < 224 THEN 2
                           ELSE IF bytes[1] < 240 THEN 3 ELSE 4
                    [] encoding \in {"UTF16BE", "UTF16LE"} ->
                           IF Len(bytes) > 1 /\ high \in 216 .. 219 THEN 4 ELSE 2
                    [] OTHER -> 4
    IN  [skipped |-> 0, used |-> IF wanted > Len(bytes) THEN 0 ELSE wanted]

\* bl_textprocessing_get_next_utfcodepoint: the continuation bytes to leave out,
\* and the bytes the codepoint takes, 0 where they are not all there.
Ahead(bytes, encoding) ==
    LET begins  == { n \in DOMAIN bytes : bytes[n] \notin 128 .. 191 }
        skipped == IF encoding # "UTF8" THEN 0
                   ELSE IF begins = {} THEN Len(bytes) ELSE S!Min(begins) - 1
        first   == bytes[skipped + 1]
        high    == IF encoding = "UTF16BE" THEN bytes[1] ELSE bytes[2]
        wanted  == CASE encoding = "UTF8" ->
                            IF first < 128 THEN 1 ELSE IF first < 224 THEN 2
                            ELSE IF first < 240 THEN 3 ELSE 4
                     [] encoding \in {"UTF16BE", "UTF16LE"} ->
                            IF Len(bytes) > 1 /\ high \in 216 .. 219 THEN 4 ELSE 2
                     [] OTHER -> 4
    IN  [skipped |-> skipped,
         used |-> IF skipped = Len(bytes) \/ skipped + wanted > Len(bytes) THEN 0 ELSE wanted]

\* The units of an encoded text, each of a codepoint; NULL where one is cut off.
RECURSIVE Units(_, _)
Units(bytes, encoding) ==
    LET ahead == Ahead(bytes, encoding)
        end   == ahead.skipped + ahead.used
        rest  == Units(SubSeq(bytes, end + 1, Len(bytes)), encoding)
    IN  IF bytes = <<>> THEN <<>>
        ELSE IF ahead.used = 0 \/ rest = NULL THEN NULL
        ELSE <<SubSeq(bytes, ahead.skipped + 1, end)>> \o rest

\* bl_textprocessing_to_unicode
ToUnicode(bytes, encoding) ==
    LET units == Units(bytes, encoding) IN
    IF \/ encoding # "UTF8" /\ Len(bytes) % 2 # 0
       \/ encoding \in {"UTF32LE", "UTF32BE"} /\ Len(bytes) % 4 # 0
       \/ units = NULL
    THEN NULL
    ELSE [n \in DOMAIN units |-> Decode(units[n], encoding)]

\* bl_textprocessing_from_unicode
FromUnicode(string, encoding) ==
    S!FlattenSeq([n \in DOMAIN string |-> Encode(string[n], encoding)])

\* bl_unicodestr_comp_ascending and bl_unicodestr_comp_decending
Ascending(first, second) ==
    LET differ == { n \in DOMAIN first : n > Len(second) \/ first[n] # second[n] } IN
    \/ differ = {}
    \/ S!Min(differ) <= Len(second) /\ first[S!Min(differ)] < second[S!Min(differ)]

Descending(first, second) ==
    LET differ == { n \in DOMAIN second : n > Len(first) \/ first[n] # second[n] } IN
    /\ differ # {}
    /\ S!Min(differ) > Len(first) \/ first[S!Min(differ)] > second[S!Min(differ)]

-----------------------------------------------------------------------------
(* A string comes back from every encoding as it was, and one whose first   *)
(* byte of UTF-8 is lost comes back without its first codepoint             *)
(* (Conversions.c, line 13 with lines 7-222).                               *)
ComesBack ==
    text \notin {NULL, <<>>} =>
        /\ \A encoding \in Encodings : ToUnicode(FromUnicode(text, encoding), encoding) = text
        /\ LET cut == Tail(FromUnicode(text, "UTF8")) IN
           Len(text) > 1 => ToUnicode(cut, "UTF8") = Tail(text)
=============================================================================
