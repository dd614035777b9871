--------------------------------- MODULE List ---------------------------------
(***************************************************************************)
(* What a list promises, operation by operation.  Indices count from 0, as  *)
(* in the code.                                                             *)
(***************************************************************************)
EXTENDS Naturals, Sequences
S == INSTANCE SequencesExt

VARIABLE list

Splice(index, elements) ==
    list' = SubSeq(list, 1, index) \o elements \o SubSeq(list, index + 1, Len(list))

Cut(first, last) ==
    list' = SubSeq(list, 1, first) \o SubSeq(list, last + 2, Len(list))

Put(index, x) == list' = S!ReplaceAt(list, index + 1, x)

Turn == list' = S!Reverse(list)

Keep(first, last) == list' = SubSeq(list, first + 1, last + 1)

KeepTurned(first, last) == list' = S!Reverse(SubSeq(list, first + 1, last + 1))

Empty == list' = <<>>
===============================================================================
