----------------------------- MODULE BinarySearch -----------------------------
(***************************************************************************)
(* The search that bl_args_get and bl_json_object_get share.                *)
(***************************************************************************)
EXTENDS Integers

\* The interval that is halved until it has one index: what is searched for is
\* at an index in `right` or behind it.
Halved(right, size) ==
    LET interval[at \in [begin : 0 .. size, end : 0 .. size]] ==
            LET mid == (at.begin + at.end) \div 2 IN
            IF at.end - at.begin <= 1 THEN at
            ELSE interval[IF mid \in right THEN [at EXCEPT !.begin = mid]
                          ELSE [at EXCEPT !.end = mid]]
    IN  interval[[begin |-> 0, end |-> size]]
=============================================================================
