---------------------------------- MODULE Json ----------------------------------
(***************************************************************************)
(* JSON (src/Parsing): the reader and the calls on objects and arrays.  The *)
(* text is modelled as its tokens; JsonWrite is the writer.                 *)
(***************************************************************************)
EXTENDS BinarySearch, Sequences, FiniteSets
S == INSTANCE SequencesExt

CONSTANTS NULL,
          Rank,        \* strings, and the order bl_string_compare_acending gives them
          Leaves,      \* values without members, as [type, value]
          Unreadable,  \* leaves whose text no reader takes: NaN, infinity
          TextOf(_),   \* the text of an object
          IsCopied(_), \* whether a member has a copy
          MaxTokens, MaxText, MaxMembers  \* bounds on the tokens read, on those of an object
                     \* after a call, and on the members of an object or an array

Names == DOMAIN Rank

Opening == {"OpenCurlyBracket", "OpenBracket"}
Closing == {"CloseCurlyBracket", "CloseBracket"}
Tokens  == [type : Opening \union Closing \union {"Colon", "Comma"}, value : {NULL}]
               \union Leaves

\* phase: "reading"; "object", with one in the caller's hands; "refused" by the
\* reader or "unread" by the tokenizer.  read: the text so far; depth, maxDepth:
\* the tokenizer's; scopes, expecting, identifier: the reader's, whose three
\* flags are never set two at a time; freed: how often a refusal freed the
\* identifier; written, left: an object that was written and what is left to read
\* of its text.
VARIABLE json

scopes  == json.scopes
scope   == S!Last(scopes)
InArray == scope.type = "OpenBracket"

Start == [phase |-> "reading", read |-> <<>>, depth |-> 0, maxDepth |-> 0,
          scopes |-> <<>>, expecting |-> "value", identifier |-> NULL,
          freed |-> 0, object |-> <<>>, written |-> NULL, left |-> <<>>]

Init == json = Start

-----------------------------------------------------------------------------
\* Mutant: any bracket closes a scope.
AcceptsAnyBracket(token) ==
    /\ token.type \in Opening \/ token \in Leaves =>
           \/ json.expecting = "value"
           \/ token.type = "string" /\ json.expecting = "identifier"
    /\ token.type = "Colon" => json.expecting = "colon"
    /\ token.type \in Closing \union {"Comma"} => json.expecting = "nothing"
    /\ token.type # "OpenCurlyBracket" => scopes # <<>>

(* The reader takes a token, or gives up: bl_json_read_file's switch.       *)
Accepts(token) ==
    /\ token.type \in Opening \/ token \in Leaves =>
           \/ json.expecting = "value"
           \/ token.type = "string" /\ json.expecting = "identifier"
    /\ token.type = "Colon" => json.expecting = "colon"
    /\ token.type \in Closing \union {"Comma"} => json.expecting = "nothing"
    /\ token.type # "OpenCurlyBracket" => scopes # <<>>
    /\ token.type = "CloseCurlyBracket" => ~InArray
    /\ token.type = "CloseBracket" => InArray

\* bl_container_dynamic_append on the scope
WithMember(stack, identifier, type, value) ==
    [stack EXCEPT ![Len(stack)].members = Append(@,
        [identifier |-> IF stack[Len(stack)].type = "OpenBracket" THEN NULL ELSE identifier,
         type |-> type, value |-> value])]

\* bl_sort_heap: the orders of the members by identifier, any of those that
\* equal identifiers allow.
Orders(members) ==
    { [n \in DOMAIN members |-> members[p[n]]] :
        p \in { q \in S!Injection(DOMAIN members, DOMAIN members) :
            \A n, k \in DOMAIN members : n < k =>
                Rank[members[q[n]].identifier] <= Rank[members[q[k]].identifier] } }

\* The text after a token; one that was written is read to its end.
After(token) == [json EXCEPT !.read = Append(@, token), !.left = IF @ = <<>> THEN @ ELSE Tail(@)]

Opened(token) ==
    [After(token) EXCEPT
        !.depth = @ + 1, !.maxDepth = IF @ = json.depth THEN @ + 1 ELSE @,
        !.scopes = Append(@, [type |-> token.type, identifier |-> json.identifier,
                              members |-> <<>>])]

OpenCurlyBracket(token) ==
    token.type = "OpenCurlyBracket" /\ json' = [Opened(token) EXCEPT !.expecting = "identifier"]

\* The array still expects a value, and so needs one.
OpenBracket(token) ==
    token.type = "OpenBracket" /\ json' = Opened(token)

\* The scope's container becomes the last member of the scope around it.
Closed(token, type, members) ==
    [After(token) EXCEPT !.depth = @ - 1, !.scopes =
        IF Len(scopes) = 1 THEN <<>>
        ELSE WithMember(S!Front(@), scope.identifier, type, members)]

\* The text ends where the tokenizer's depth is 0 again.
CloseCurlyBracket(token) ==
    /\ token.type = "CloseCurlyBracket"
    /\ \E members \in Orders(scope.members) :
           json' = IF json.depth > 1 THEN Closed(token, "object", members)
                   ELSE [Closed(token, "object", members) EXCEPT !.phase = "object",
                             !.object = members, !.expecting = "value", !.identifier = NULL]

CloseBracket(token) ==
    token.type = "CloseBracket" /\ json' = Closed(token, "array", scope.members)

Colon(token) ==
    token.type = "Colon" /\ json' = [After(token) EXCEPT !.expecting = "value"]

Comma(token) ==
    /\ token.type = "Comma"
    /\ json' = [After(token) EXCEPT !.expecting = IF InArray THEN "value" ELSE "identifier"]

Identifier(token) ==
    /\ token.type = "string" /\ json.expecting = "identifier"
    /\ json' = [After(token) EXCEPT !.identifier = token.value, !.expecting = "colon"]

Value(token) ==
    /\ token \in Leaves /\ json.expecting = "value"
    /\ json' = [After(token) EXCEPT !.expecting = "nothing",
           !.scopes = WithMember(@, json.identifier, token.type, token.value)]

\* The identifier is in a member of the object: it was read and is not waiting
\* for its value.
InMember ==
    /\ json.identifier # NULL
    /\ json.expecting # "colon" /\ (json.expecting = "value" => InArray)

\* ErrorExit: the object is destroyed with its members, and the identifier freed.
\* The tokens are not: their list is taken for one of them, and leaks.
Freed == IF json.identifier = NULL THEN 0 ELSE IF InMember THEN 2 ELSE 1

\* A number that is none is read as NaN and taken: it does not compare equal to NaN.
Read(token) ==
    /\ json.phase = "reading"
    /\ json.written = NULL => Len(json.read) < MaxTokens
    /\ IF json.left = <<>> THEN json.written = NULL
       ELSE token = Head(json.left) /\ token \notin Unreadable
    /\ \/ /\ Accepts(token)
          /\ \/ OpenCurlyBracket(token) \/ OpenBracket(token)
             \/ CloseCurlyBracket(token) \/ CloseBracket(token)
             \/ Colon(token) \/ Comma(token) \/ Identifier(token) \/ Value(token)
       \/ /\ ~Accepts(token)
          /\ json' = [After(token) EXCEPT !.phase = "refused", !.freed = Freed]

\* The text ends or holds a character that begins no token.
Unread ==
    /\ json.phase = "reading"
    /\ IF json.left = <<>> THEN json.written = NULL ELSE Head(json.left) \in Unreadable
    /\ json' = [json EXCEPT !.phase = "unread"]

\* An object is written and its text read back.
Write ==
    /\ json.phase = "object" /\ json.written = NULL
    /\ json' = [Start EXCEPT !.written = json.object, !.left = TextOf(json.object)]

-----------------------------------------------------------------------------
\* bl_json_object_get: the index of the member, NULL for none.  The search looks
\* at both ends of its interval.
Get(members, name) ==
    LET IsNamed(index) == index < Len(members) /\ members[index + 1].identifier = name
        interval == Halved({ mid \in 1 .. Len(members) - 1 :
                                 Rank[members[mid + 1].identifier] <= Rank[name] }, Len(members))
    IN  IF IsNamed(interval.begin) THEN interval.begin
        ELSE IF IsNamed(interval.end) THEN interval.end
        ELSE NULL

Becomes(members) ==
    /\ json.phase = "object" /\ json.written = NULL
    /\ Len(TextOf(members)) <= MaxText
    /\ json' = [json EXCEPT !.object = members, !.read = <<>>]

\* Mutant: the new member stays where it was appended.
AddUnsorted(name, type, value) ==
    /\ IsCopied([type |-> type, value |-> value])
    /\ Becomes(Append(json.object, [identifier |-> name, type |-> type, value |-> value]))

ObjectAdd(name, type, value) ==
    /\ IsCopied([type |-> type, value |-> value])
    /\ \E members \in Orders(Append(json.object,
                                    [identifier |-> name, type |-> type, value |-> value])) :
           Becomes(members)

ObjectRemove(name) ==
    /\ Get(json.object, name) # NULL
    /\ Becomes(S!RemoveAt(json.object, Get(json.object, name) + 1))

\* An array that is a member of the object.
ArrayAdd(at, index, leaf) ==
    /\ json.object[at].type = "array"
    /\ index <= Len(json.object[at].value) /\ Len(json.object[at].value) < MaxMembers
    /\ Becomes([json.object EXCEPT ![at].value =
           S!InsertAt(@, index + 1,
                               [identifier |-> NULL, type |-> leaf.type, value |-> leaf.value])])

ArrayRemove(at, index) ==
    /\ json.object[at].type = "array" /\ index < Len(json.object[at].value)
    /\ Becomes([json.object EXCEPT ![at].value = S!RemoveAt(@, index + 1)])

Calls ==
    LET members == json.object IN
    \/ \E name \in Names :
           \/ ObjectRemove(name)
           \/ /\ Len(members) < MaxMembers
              /\ \/ \E leaf \in Leaves : ObjectAdd(name, leaf.type, leaf.value)
                 \/ \E m \in S!ToSet(members) : ObjectAdd(name, m.type, m.value)
    \/ \E at \in DOMAIN members, index \in 0 .. MaxMembers :
           \/ ArrayRemove(at, index)
           \/ \E leaf \in Leaves : ArrayAdd(at, index, leaf)

Next == (\E token \in Tokens : Read(token)) \/ Unread \/ Write \/ Calls

Spec == Init /\ [][Next]_json
-----------------------------------------------------------------------------
(* The grammar of JSON, of an object at the top, by what may stand where.   *)
Count(text, i, types) == Cardinality({ k \in 1 .. i : text[k].type \in types })

DepthAt(text, i) == Count(text, i, Opening) - Count(text, i, Closing)

Around(text, i) ==
    LET opens == { k \in 1 .. i - 1 :
                       text[k].type \in Opening /\ DepthAt(text, k) = DepthAt(text, i - 1) }
    IN  text[S!Max(opens)].type

IsKey(text, k) ==
    /\ text[k].type = "string" /\ Around(text, k) = "OpenCurlyBracket"
    /\ text[k - 1].type \in {"OpenCurlyBracket", "Comma"}

IsValueEnd(text, k) ==
    text[k].type \in Closing \/ (text[k] \in Leaves /\ ~IsKey(text, k))

Legal(text, i) ==
    LET type == text[i].type
        last == text[i - 1].type
    IN  IF i = 1 THEN type = "OpenCurlyBracket"
        ELSE CASE type = "Colon" -> IsKey(text, i - 1)
               [] type = "Comma" -> IsValueEnd(text, i - 1)
               [] type = "CloseCurlyBracket" ->
                      /\ Around(text, i) = "OpenCurlyBracket"
                      /\ last = "OpenCurlyBracket" \/ IsValueEnd(text, i - 1)
               [] type = "CloseBracket" ->
                      /\ Around(text, i) = "OpenBracket"
                      /\ last = "OpenBracket" \/ IsValueEnd(text, i - 1)
               [] OTHER -> \/ last = "Colon" \/ IsKey(text, i)
                           \/ Around(text, i) = "OpenBracket" /\ last \in {"OpenBracket", "Comma"}

\* An empty object or array ends.
ClosesEmpty(text, i) ==
    i > 1 /\ <<text[i - 1].type, text[i].type>> \in {<<"OpenCurlyBracket", "CloseCurlyBracket">>,
                                                <<"OpenBracket", "CloseBracket">>}

(* The reader takes a token exactly where the grammar allows it, but for    *)
(* the end of an empty object or array, which it refuses: an opened bracket *)
(* expects what it holds (lines 342 and 367, with 403 and 411).  Its stack  *)
(* of scopes never passes the depth the tokenizer counted for it (lines     *)
(* 220-242 and 323-491).                                                    *)
ReadsGrammar ==
    LET text == json.read IN
    /\ \A i \in DOMAIN text : Legal(text, i) /\ ~ClosesEmpty(text, i)
                                 <=> ~(json.phase = "refused" /\ i = Len(text))
    /\ json.phase = "reading" => Len(scopes) = json.depth /\ json.depth <= json.maxDepth
    /\ json.phase = "object" /\ text # <<>> => DepthAt(text, Len(text)) = 0

(* The search finds a member with the name it is given when the object has  *)
(* one (JsonObjectManipulations.c, lines 35-53, with those that add, remove *)
(* and read members).                                                       *)
FindsMembers ==
    json.phase = "object" => \A name \in Names :
        LET found == Get(json.object, name)
            named == { n \in DOMAIN json.object : json.object[n].identifier = name }
        IN  IF named = {} THEN found = NULL ELSE found # NULL /\ found + 1 \in named
=============================================================================
