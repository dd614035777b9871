---------------------------------- MODULE Args ----------------------------------
(***************************************************************************)
(* The arguments of a command line (src/Parsing/Args.c): the flags a        *)
(* program registers, and the argv it is given.                             *)
(***************************************************************************)
EXTENDS BinarySearch, Sequences
S == INSTANCE SequencesExt

CONSTANTS NULL,
          Flags,      \* flag -> its type; flags in the order of their names, from 1
          Texts,      \* type -> the texts that strtod, strtoll and strtoull take for it
          ArgWords,      \* what may stand behind a flag
          MaxArgs     \* bound on argv

Types == {"boolean", "integer", "unsigned", "floating", "string"}

\* An element of argv: a word without a dash, or a flag with or without a text
\* behind a "=".  Flag 0 was never registered.
Arguments == [flag : {NULL}, text : ArgWords]
                \union [flag : {0} \union DOMAIN Flags, text : ArgWords \union {NULL}]

IsFlag(argument) == argument.flag # NULL

\* list: the flags as they were sorted; i: the argument to parse next; argDef:
\* the flag that expects it, or NULL; values; result: what bl_args_parse returns, after "parsing".
VARIABLE args

\* bl_internal_register_argslist: no flag begins another, and so the comparison
\* orders them.
Registered(flags) ==
    { list \in [DOMAIN flags -> DOMAIN flags] :
          \A n, k \in DOMAIN flags : n < k => list[n] < list[k] }

Init == args \in [list : Registered(Flags), argv : S!BoundedSeq(Arguments, MaxArgs), i : {1},
                  argDef : {NULL}, values : {[flag \in DOMAIN Flags |-> NULL]},
                  result : {"parsing"}]

\* bl_args_get
Get(list, flag) ==
    LET interval == Halved({ n \in 1 .. Len(list) - 1 : flag > list[n + 1] }, Len(list)) IN
    IF list[interval.begin + 1] = flag THEN flag
    ELSE IF interval.end # Len(list) /\ list[interval.end + 1] = flag THEN flag
    ELSE NULL

-----------------------------------------------------------------------------
\* bl_args_parse
argument == args.argv[args.i]

Goes(flag, value) == args' = [args EXCEPT !.i = @ + 1, !.argDef = NULL, !.values[flag] = value]

\* The flag before expects it, flag or not.
Expected ==
    /\ args.argDef # NULL
    /\ Goes(args.argDef, argument)

\* Mutant: a boolean flag takes a text.
FitsAnyText(flag) ==
    IF argument.text = NULL THEN Flags[flag] \in {"boolean", "string"}
    ELSE Flags[flag] = "boolean" \/ argument.text \in Texts[Flags[flag]]

\* What stands with the flag is what its type asks for.
Fits(flag) ==
    IF argument.text = NULL THEN Flags[flag] \in {"boolean", "string"}
    ELSE argument.text \in Texts[Flags[flag]]

FlagWithText(flag) == argument.text # NULL /\ Fits(flag) /\ Goes(flag, argument.text)

FlagAlone(flag) ==
    /\ argument.text = NULL /\ Fits(flag)
    /\ \/ Flags[flag] = "boolean" /\ Goes(flag, TRUE)
       \/ Flags[flag] = "string" /\ args' = [args EXCEPT !.i = @ + 1, !.argDef = flag]

Word == ~IsFlag(argument) /\ args' = [args EXCEPT !.i = @ + 1]

Unregistered ==
    /\ IsFlag(argument) /\ Get(args.list, argument.flag) = NULL
    /\ args' = [args EXCEPT !.result = "refused"]

\* A number that is none has been stored by then.
Unfit(flag) ==
    /\ ~Fits(flag)
    /\ args' = [args EXCEPT !.result = "refused",
           !.values[flag] = IF Flags[flag] = "boolean" \/ argument.text = NULL THEN @
                            ELSE argument.text]

Parse ==
    /\ args.result = "parsing" /\ args.i <= Len(args.argv)
    /\ \/ Expected
       \/ /\ args.argDef = NULL
          /\ \/ Word \/ Unregistered
             \/ \E flag \in DOMAIN Flags :
                    /\ argument.flag = flag /\ Get(args.list, flag) # NULL
                    /\ FlagWithText(flag) \/ FlagAlone(flag) \/ Unfit(flag)

End ==
    /\ args.result = "parsing" /\ args.i > Len(args.argv)
    /\ args' = [args EXCEPT !.result = IF args.argDef = NULL THEN "accepted" ELSE "refused"]

Next == Parse \/ End

Spec == Init /\ [][Next]_args

\* bl_args_next_arg: the place of the first word from `begin` on that no string
\* flag expects, NULL for none.
NextArg(list, argv, first) ==
    LET next[begin \in 1 .. Len(argv) + 2] ==
            LET at == argv[begin] IN
            IF begin > Len(argv) THEN NULL
            ELSE IF ~IsFlag(at) THEN begin
            ELSE IF /\ Get(list, at.flag) # NULL
                    /\ Flags[at.flag] = "string" /\ at.text = NULL
                 THEN next[begin + 2]
            ELSE next[begin + 1]
    IN  next[first]
-----------------------------------------------------------------------------
\* A string flag without a text.
Asks(arg) == arg.flag \in DOMAIN Flags /\ arg.text = NULL /\ Flags[arg.flag] = "string"

\* What a flag before it asks for: an odd number of those that ask stand there.
Taken(argv, n) ==
    \E k \in 1 .. n :
        /\ (n - k) % 2 = 1 /\ \A m \in k .. n - 1 : Asks(argv[m])
        /\ k > 1 => ~Asks(argv[k - 1])

\* The flags of a command line, what makes one right, and what it is given.
FlagAt(argv, n) == IsFlag(argv[n]) /\ ~Taken(argv, n)

Right(argv, n) ==
    /\ argv[n].flag # 0
    /\ IF argv[n].text # NULL THEN argv[n].text \in Texts[Flags[argv[n].flag]]
       ELSE \/ Flags[argv[n].flag] = "boolean"
            \/ Flags[argv[n].flag] = "string" /\ n < Len(argv)

Given(argv, n) ==
    IF argv[n].text # NULL THEN argv[n].text
    ELSE IF Flags[argv[n].flag] = "boolean" THEN TRUE ELSE argv[n + 1]

\* What the last of a flag's places among the first m arguments gave it.
LastGiven(argv, flag, m) ==
    LET places == { n \in 1 .. m : FlagAt(argv, n) /\ argv[n].flag = flag } IN
    IF places = {} THEN NULL ELSE Given(argv, S!Max(places))

\* The words that no flag takes.
FreeWords(argv) == { n \in DOMAIN argv : ~IsFlag(argv[n]) /\ ~Taken(argv, n) }

(* A command line is taken when every flag in it was registered and is given*)
(* what its type asks for; then each flag has what its last place gave it,  *)
(* and the first word no flag takes is the next argument (lines 24-147).    *)
ParsesArgs ==
    args.result # "parsing" =>
        LET argv == args.argv IN
            /\ args.result = "accepted"
                   <=> \A n \in DOMAIN argv : FlagAt(argv, n) => Right(argv, n)
            /\ args.result = "accepted" => \A flag \in DOMAIN Flags :
                   args.values[flag] = LastGiven(argv, flag, Len(argv))
            /\ NextArg(args.list, argv, 1)
                   = IF FreeWords(argv) = {} THEN NULL ELSE S!Min(FreeWords(argv))
=============================================================================
