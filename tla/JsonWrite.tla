------------------------------- MODULE JsonWrite -------------------------------
(***************************************************************************)
(* The writer of JSON (src/Parsing/JsonWrite.c), the copies of its values,  *)
(* and what reading a text that was written gives.                          *)
(***************************************************************************)
EXTENDS Naturals, Sequences
LOCAL S == INSTANCE SequencesExt

CONSTANTS NULL,
          Rounded,     \* what the text of a leaf in an object says: 7 digits
          Unreadable   \* leaves whose text no reader takes: NaN, infinity

\* Json's.
VARIABLE json

Punctuation(type) == [type |-> type, value |-> NULL]

-----------------------------------------------------------------------------
(* bl_json_write_file                                                       *)

\* Mutant: a comma behind every member.
ListedWithEnd(texts) ==
    S!FlattenSeq([n \in DOMAIN texts |-> texts[n] \o <<Punctuation("Comma")>>])

Listed(texts) ==
    S!FlattenSeq([n \in DOMAIN texts |->
        IF n = 1 THEN texts[n] ELSE <<Punctuation("Comma")>> \o texts[n]])

RECURSIVE WrittenObject(_), WrittenArray(_)
WrittenArray(members) ==
    LET Text(m) == CASE m.type = "object" -> WrittenObject(m.value)
                     [] m.type = "array" -> WrittenArray(m.value)
                     [] OTHER -> <<[type |-> m.type, value |-> m.value]>>
    IN  <<Punctuation("OpenBracket")>> \o Listed([n \in DOMAIN members |-> Text(members[n])])
            \o <<Punctuation("CloseBracket")>>

WrittenObject(members) ==
    LET Body(m) == CASE m.type = "object" -> WrittenObject(m.value)
                     [] m.type = "array" -> WrittenArray(m.value)
                     [] OTHER -> <<Rounded[[type |-> m.type, value |-> m.value]]>>
        Text(m) == <<[type |-> "string", value |-> m.identifier], Punctuation("Colon")>> \o Body(m)
    IN  <<Punctuation("OpenCurlyBracket")>> \o Listed([n \in DOMAIN members |-> Text(members[n])])
            \o <<Punctuation("CloseCurlyBracket")>>

\* What is without members has no copy: the last index of it underflows.
RECURSIVE Copies(_)
Copies(m) ==
    m.type \in {"object", "array"} =>
        m.value # <<>> /\ \A n \in DOMAIN m.value : Copies(m.value[n])
-----------------------------------------------------------------------------
(* What the text of a member says, in whatever order objects list theirs.   *)
RECURSIVE Said(_, _)
Said(m, inObject) ==
    [identifier |-> m.identifier, type |-> m.type, value |->
        CASE m.type = "object" ->
                 S!ToBag([n \in DOMAIN m.value |-> Said(m.value[n], TRUE)])
          [] m.type = "array" -> [n \in DOMAIN m.value |-> Said(m.value[n], FALSE)]
          [] OTHER -> IF inObject THEN Rounded[[type |-> m.type, value |-> m.value]].value
                      ELSE m.value]

Whole(object) == Said([identifier |-> NULL, type |-> "object", value |-> object], TRUE)

RECURSIVE Readable(_)
Readable(m) ==
    IF m.type \in {"object", "array"}
    THEN m.value # <<>> /\ \A n \in DOMAIN m.value : Readable(m.value[n])
    ELSE [type |-> m.type, value |-> m.value] \notin Unreadable

(* The text of an object reads back as that object, but for the digits that *)
(* %le leaves of its numbers, unless part of it is empty or not a number    *)
(* (JsonWrite.c, lines 59-176, and JsonParser.c, lines 336-491).            *)
ReadsWhatItWrote ==
    json.written # NULL =>
        LET readable == Readable([type |-> "object", value |-> json.written]) IN
        /\ json.phase = "object" => Whole(json.object) = Whole(json.written)
        /\ readable => json.phase \in {"reading", "object"}
        /\ json.phase = "object" => readable
================================================================================
