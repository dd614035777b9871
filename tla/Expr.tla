---------------------------------- MODULE Expr ----------------------------------
(***************************************************************************)
(* Expressions of unary and binary operators (src/Parsing/ExprParsing.c):   *)
(* their tokens, and the parser, by binding powers.  Operators are          *)
(* characters, and so are atoms.                                            *)
(***************************************************************************)
EXTENDS Integers, Sequences
LOCAL S == INSTANCE SequencesExt

CONSTANTS Operators,  \* operator -> [binary, unary, left, right, lhs, rhs]
          Letters,    \* the characters of atoms
          MaxTokens   \* bound on an expression

Space == 32
Characters == DOMAIN Operators \union Letters \union {Space}
IsAtom(token) == token \notin DOMAIN Operators

Text == INSTANCE Strings WITH
    Chars <- Characters, MaxLength <- MaxTokens, strings <- [subject |-> <<0>>]

\* The characters of the expression.
VARIABLE expr

Init == expr = <<>>

\* The expression is typed.
Next == \E c \in Characters : Len(expr) < MaxTokens /\ expr' = Append(expr, c)

Spec == Init /\ [][Next]_expr

-----------------------------------------------------------------------------
\* bl_expr_tokenize: the atoms are split off first; a space passes on the next
\* of them unless an operator came since the last.  An atom is named by its last
\* character.
Tokenize(text) ==
    LET atoms == Text!Split(Text!Create(text), DOMAIN Operators \union {Space}, FALSE, 0)
        WithAtom(acc) == [acc EXCEPT !.tokens = Append(@, S!Last(Text!Text(atoms[acc.atom]))),
                                     !.atom = @ + 1]
        Step(acc, c) ==
            CASE c \in Letters -> [acc EXCEPT !.inAtom = TRUE, !.found = FALSE]
              [] c = Space ->
                    [(IF ~acc.found /\ acc.atom <= Len(atoms) THEN WithAtom(acc) ELSE acc)
                        EXCEPT !.inAtom = FALSE]
              [] OTHER ->
                    LET before == IF acc.inAtom THEN WithAtom(acc) ELSE acc IN
                    [before EXCEPT !.found = TRUE, !.inAtom = FALSE,
                                   !.tokens = Append(@, c)]
        read == S!FoldLeft(Step, [tokens |-> <<>>, atom |-> 1, inAtom |-> FALSE, found |-> FALSE],
                           text)
    IN  read.tokens \o [n \in 1 .. Len(atoms) + 1 - read.atom |->
                            S!Last(Text!Text(atoms[read.atom + n - 1]))]

-----------------------------------------------------------------------------
\* Places of tokens: 0 is NULL, the place behind the last is their end.
NextToken(tokens, at) == IF at < Len(tokens) THEN at + 1 ELSE 0

\* internal_get_next_binary_op: from the atom at `begin` to the next one, the
\* operator between them that is binary; the end behind the last atom; 0 for an
\* error.
RECURSIVE Between(_, _, _, _)
Between(tokens, begin, at, seen) ==
    LET operator == Operators[tokens[at]]
        Binary(forced) == Between(tokens, begin, at + 1,
                              [binary |-> at, forced |-> forced, suffixed |-> FALSE])
        Past(changed) == Between(tokens, begin, at + 1, changed)
        isPrefix == operator.left = 0 /\ operator.right # 0
        isSuffix == operator.left # 0 /\ operator.right = 0
    IN  IF at > Len(tokens)
        THEN IF seen.forced \/ seen.binary # begin THEN 0 ELSE at
        ELSE IF IsAtom(tokens[at])
        THEN IF seen.suffixed \/ seen.binary = begin THEN 0 ELSE seen.binary
        ELSE IF operator.binary /\ operator.unary /\ operator.left = 0 /\ ~seen.forced
        THEN Binary(TRUE)
        ELSE IF operator.binary /\ ~operator.unary
        THEN IF seen.forced THEN 0 ELSE Binary(TRUE)
        ELSE IF operator.binary /\ ~seen.forced THEN Binary(FALSE)
        ELSE IF isPrefix
        THEN IF seen.suffixed THEN 0 ELSE Past([seen EXCEPT !.forced = TRUE])
        ELSE IF isSuffix
        THEN IF seen.forced THEN 0 ELSE Past([seen EXCEPT !.suffixed = TRUE])
        ELSE Past(seen)

NextBinaryOp(tokens, begin) ==
    Between(tokens, begin, begin + 1, [binary |-> begin, forced |-> FALSE, suffixed |-> FALSE])

\* Operands, and what internal_expr_parse appends to the tree for them.
Atom(at)      == [isAtom |-> TRUE, at |-> at]
Operation(at) == [isAtom |-> FALSE, at |-> at]
Node(token, kind, operands) == [token |-> token, kind |-> kind, operands |-> operands]

\* Mutant: an operand that both sides bind alike goes on to the right.
StopsLater(binding, power) == binding < power

\* An operator that binds no tighter than the one before leaves it the operand.
Stops(binding, power) == binding <= power

\* internal_expr_parse.  begin: the token it was called with; local: its token;
\* previous, lastAtom: its operation and atom, 0 for none; binary: *nextBinaryOp;
\* tree.  It returns the operation, or 0, and in local the caller's token.  behind:
\* what is read for the isAtom behind the last token.
RECURSIVE Parse(_, _, _, _), Operand(_, _, _, _, _)

\* The operation of the operator at s.local, on what is before it and the operand
\* behind it.  Where that is no operand it returns, and leaves the caller's token;
\* the end of the tokens, which stands for an error, may be taken for an atom.
Operand(tokens, behind, s, power, before) ==
    LET first == NextToken(tokens, s.local)
        inner == Parse(tokens, behind, power,
                       [s EXCEPT !.begin = first, !.local = first, !.previous = 0, !.lastAtom = 0])
        at      == inner.local
        isAtom  == IF at > Len(tokens) THEN behind ELSE at # 0 /\ IsAtom(tokens[at])
        operand == IF inner.previous # 0 THEN Operation(inner.previous) ELSE Atom(at)
        kind    == IF before = <<>> THEN "prefix" ELSE "binary"
        tree    == Append(inner.tree, Node(s.local, kind, Append(before, operand)))
    IN  IF inner.previous = 0 /\ ~isAtom THEN [inner EXCEPT !.local = s.begin]
        ELSE [inner EXCEPT !.tree = tree, !.previous = Len(tree), !.lastAtom = s.lastAtom,
                  !.begin = s.begin, !.local = IF inner.previous = 0 THEN @ - 1 ELSE @]

Parse(tokens, behind, power, s) ==
    LET operator == Operators[tokens[s.local]]
        Go(t)    == Parse(tokens, behind, power, [t EXCEPT !.local = NextToken(tokens, @)])
        Stop     == [s EXCEPT !.local = @ - 1]
        lhs      == IF s.previous # 0 THEN Operation(s.previous) ELSE Atom(s.lastAtom)
        done     == IF s.local = s.binary THEN Operand(tokens, behind, s, operator.rhs, <<lhs>>)
                    ELSE Operand(tokens, behind, s, operator.right, <<>>)
        operand  == IF s.previous # 0 THEN Operation(s.previous) ELSE Atom(s.local - 1)
        suffixed == Append(s.tree, Node(s.local, "suffix", <<operand>>))
        next     == NextBinaryOp(tokens, s.local)
    IN  IF s.local = 0 THEN [s EXCEPT !.local = Len(tokens)]
        ELSE IF IsAtom(tokens[s.local])
        THEN IF next = 0 THEN [s EXCEPT !.local = Len(tokens) + 1, !.previous = 0, !.binary = 0]
             ELSE Go([s EXCEPT !.lastAtom = s.local, !.binary = next])
        ELSE IF s.local = s.binary /\ Stops(operator.lhs, power) THEN Stop
        ELSE IF s.local < s.binary
        THEN IF Stops(operator.left, power) THEN Stop
             ELSE Go([s EXCEPT !.tree = suffixed, !.previous = Len(suffixed)])
        ELSE IF done.previous = 0 THEN done
        ELSE Go(done)

\* Mutant: the operators in front are not looked at.
BeginsAnyhow(tokens) == \E n \in DOMAIN tokens : IsAtom(tokens[n])

Begins(tokens) ==
    LET atoms == { n \in DOMAIN tokens : IsAtom(tokens[n]) } IN
    /\ atoms # {}
    /\ \A n \in 1 .. S!Min(atoms) - 1 :
           LET operator == Operators[tokens[n]] IN
           operator.binary => operator.unary /\ operator.right # 0

\* bl_expr_parse: the tree, its last the root; <<>> where it fails.
Tree(tokens, behind) ==
    LET parsed == Parse(tokens, behind, 0,
                        [begin |-> 1, local |-> 1, previous |-> 0, lastAtom |-> 0, binary |-> 0,
                         tree |-> <<>>])
    IN  IF Len(tokens) = 1
        THEN IF IsAtom(tokens[1]) THEN <<Node(0, "root", <<Atom(1)>>)>> ELSE <<>>
        ELSE IF ~Begins(tokens) \/ parsed.previous = 0 THEN <<>>
        ELSE Append(parsed.tree, Node(0, "root", <<Operation(parsed.previous)>>))

\* internal_expr_print, with the places of the tokens in the order of the text.
RECURSIVE InOrder(_, _)
InOrder(tree, operand) ==
    LET node     == tree[operand.at]
        Sub(n)   == InOrder(tree, node.operands[n])
    IN  IF operand.isAtom THEN <<operand.at>>
        ELSE CASE node.kind = "binary" -> Sub(1) \o <<node.token>> \o Sub(2)
               [] node.kind = "prefix" -> <<node.token>> \o Sub(1)
               [] node.kind = "suffix" -> Sub(1) \o <<node.token>>
               [] node.kind = "root"   -> Sub(1)
-----------------------------------------------------------------------------
Suffix(c) == Operators[c].unary /\ Operators[c].left # 0
Prefix(c) == Operators[c].unary /\ Operators[c].right # 0

\* Where the operator between the atoms at a and b may be binary.
Choices(tokens, a, b) ==
    { k \in a + 1 .. b - 1 : /\ Operators[tokens[k]].binary
                             /\ \A n \in a + 1 .. k - 1 : Suffix(tokens[n])
                             /\ \A n \in k + 1 .. b - 1 : Prefix(tokens[n]) }

Atoms(tokens) == { n \in DOMAIN tokens : IsAtom(tokens[n]) }
Neighbours(tokens) ==
    { pair \in Atoms(tokens) \X Atoms(tokens) :
        pair[1] < pair[2] /\ Atoms(tokens) \intersect (pair[1] + 1 .. pair[2] - 1) = {} }

IsExpression(tokens) ==
    /\ Atoms(tokens) # {}
    /\ \A n \in 1 .. S!Min(Atoms(tokens)) - 1 : Prefix(tokens[n])
    /\ \A pair \in Neighbours(tokens) : Choices(tokens, pair[1], pair[2]) # {}
    /\ \A n \in S!Max(Atoms(tokens)) + 1 .. Len(tokens) :
           Suffix(tokens[n]) /\ ~Operators[tokens[n]].binary

\* What stands in front of the first atom is looked at only where it is binary.
SuffixInFront(tokens) ==
    \E n \in DOMAIN tokens : /\ Atoms(tokens) \intersect 1 .. n = {}
                             /\ ~Operators[tokens[n]].binary /\ ~Prefix(tokens[n])

IsTyped == expr # <<>> /\ Space \notin S!ToSet(expr)

(* The parser takes the expressions: one binary operator between two atoms, *)
(* the last that is possible, as the header says (ExprParsing.h,            *)
(* bl_expr_parse).  Its tree holds every token once, in the order of the    *)
(* text, and each operation after its operands (ExprParsing.c, lines        *)
(* 76-301).  It refuses what is none, unless a suffix begins it, when the   *)
(* memory behind the tokens does not look like an atom (behind is FALSE).   *)
ParsesExpressions ==
    /\ IsTyped /\ IsExpression(expr) => \A behind \in BOOLEAN :
           LET tree == Tree(expr, behind) IN
           /\ tree # <<>>
           /\ InOrder(tree, Operation(Len(tree))) = [n \in DOMAIN expr |-> n]
           /\ \A n \in DOMAIN tree : \A o \in S!ToSet(tree[n].operands) : o.isAtom \/ o.at < n
           /\ { node.token : node \in { m \in S!ToSet(tree) : m.kind = "binary" } }
                  = { S!Max(Choices(expr, pair[1], pair[2])) : pair \in Neighbours(expr) }
    /\ IsTyped /\ ~IsExpression(expr) /\ ~SuffixInFront(expr) => Tree(expr, FALSE) = <<>>

\* The operations at the right edge of an operand, which an operator behind it
\* could have taken its operand from.
RECURSIVE RightEdge(_, _)
RightEdge(tree, operand) ==
    IF operand.isAtom \/ tree[operand.at].kind = "suffix" THEN {}
    ELSE {operand.at} \union RightEdge(tree, S!Last(tree[operand.at].operands))

(* An operand goes to the neighbour that binds it tighter, the left one     *)
(* when they bind alike (lines 217-251 and 266).                            *)
BindsTighter ==
    IsTyped =>
        LET tree     == Tree(expr, FALSE)
            Power(n) == Operators[expr[tree[n].token]]
            ToRight(n) == IF tree[n].kind = "binary" THEN Power(n).rhs ELSE Power(n).right
            ToLeft(n)  == IF tree[n].kind = "binary" THEN Power(n).lhs ELSE Power(n).left
        IN  \A n \in 1 .. Len(tree) - 1 :
                LET first == Head(tree[n].operands)
                    last  == S!Last(tree[n].operands)
                IN  /\ tree[n].kind # "prefix" =>
                           \A e \in RightEdge(tree, first) : ToLeft(n) <= ToRight(e)
                    /\ tree[n].kind # "suffix" /\ ~last.isAtom /\ tree[last.at].kind # "prefix" =>
                           ToLeft(last.at) > ToRight(n)

(* The tokens are those of the text, in its order, when spaces stand alone  *)
(* and not in front of it (lines 14-67).                                    *)
TokensInOrder ==
    (\A n \in DOMAIN expr : expr[n] = Space => n > 1 /\ expr[n - 1] # Space) =>
        LET Ends(n) == expr[n] # Space
                       /\ (expr[n] \in Letters /\ n < Len(expr) => expr[n + 1] \notin Letters)
            last    == S!FoldLeft(LAMBDA acc, n : IF Ends(n) THEN Append(acc, n) ELSE acc,
                                  <<>>, [n \in DOMAIN expr |-> n])
        IN  Tokenize(expr) = [n \in DOMAIN last |-> expr[last[n]]]
=============================================================================
