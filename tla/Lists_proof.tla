------------------------------ MODULE Lists_proof -----------------------------
(***************************************************************************)
(* The queue, the dynamic container, the array list and the strings keep    *)
(* lists, and JSON is read from a list of tokens into lists of members.     *)
(* The links of a queue are in the order of its elements: Ring says so of   *)
(* an order, and every call makes another of it.  What the reader of JSON   *)
(* has open is what its text leaves open (ReadingText).                     *)
(***************************************************************************)
EXTENDS Containers, FiniteSetTheorems, SequenceTheorems, WellFoundedInduction, TLAPS

BS == INSTANCE BinarySearch

-----------------------------------------------------------------------------
(* Strings                                                                  *)

\* Part of a sequence.
LEMMA Part ==
    ASSUME NEW Items, NEW s \in Seq(Items), NEW m \in Nat, NEW n \in Nat, 1 <= m, m <= n + 1,
           n <= Len(s)
    PROVE  /\ SubSeq(s, m, n) \in Seq(Items)
           /\ Len(SubSeq(s, m, n)) = n - m + 1
           /\ \A k \in 1 .. n - m + 1 : SubSeq(s, m, n)[k] = s[m + k - 1]
<1>1. \A k \in m .. n : s[k] \in Items
  BY ElementOfSeq
<1>2. /\ SubSeq(s, m, n) \in Seq(Items)
      /\ Len(SubSeq(s, m, n)) = IF m <= n THEN n - m + 1 ELSE 0
      /\ \A k \in 1 .. n - m + 1 : SubSeq(s, m, n)[k] = s[m + k - 1]
  BY <1>1, SubSeqProperties
<1>3. (IF m <= n THEN n - m + 1 ELSE 0) = n - m + 1
  OBVIOUS
<1> QED
  BY <1>2, <1>3

\* What a string is made of.
Bytes == Chars \union {B!NUL}

\* A text that is copied in is shorter than the longest string.
LEMMA Short ==
    ASSUME NEW n \in Nat, NEW t \in B!S!BoundedSeq(Chars, n)
    PROVE  \E l \in Nat : t \in [1 .. l -> Chars]
<1>1. PICK Lists \in { [1 .. l -> Chars] : l \in 0 .. n } : t \in Lists
  BY DEF B!S!BoundedSeq, B!S!SeqOf
<1>2. PICK l \in 0 .. n : Lists = [1 .. l -> Chars]
  OBVIOUS
<1> QED
  BY <1>1, <1>2

\* The strings are not empty, and the other never changes and ends in NUL.
StringsInv ==
    /\ object = [subject |-> object.subject, other |-> object.other, replaced |-> object.replaced]
    /\ object.subject \in Seq(Bytes) /\ Len(object.subject) # 0
    /\ object.other \in Seq(Bytes) /\ Len(object.other) # 0
    /\ object.other[Len(object.other)] = B!NUL

\* It holds when the two strings were created.
LEMMA StringsInit == B!Init => StringsInv
<1>1. ASSUME NEW t \in B!S!BoundedSeq(Chars, 2)
      PROVE  /\ B!Create(t) \in Seq(Bytes) /\ Len(B!Create(t)) # 0
             /\ B!Create(t)[Len(B!Create(t))] = B!NUL
  <2>1. PICK n \in Nat : t \in [1 .. n -> Chars]
    BY Short
  <2>2. t \in Seq(Bytes)
    <3>1. t \in Seq(Chars)
      BY <2>1
    <3> QED
      BY <3>1, SeqMonotonic DEF Bytes
  <2>3. B!NUL \in Bytes
    BY DEF Bytes
  <2>4. Len(t) \in Nat
    BY <2>2, LenProperties
  <2> QED
    BY <2>2, <2>3, <2>4, AppendProperties DEF B!Create
<1> QED
  BY <1>1 DEF B!Init, StringsInv

\* The last of two strings one inside the other is the NUL that ended the outer one.
LEMMA AppendedText ==
    ASSUME NEW s \in Seq(Bytes), NEW o \in Seq(Bytes), NEW l \in Nat, NEW m \in Nat,
           Len(s) = l + 1, Len(o) = m + 1, o[m + 1] = B!NUL
    PROVE  /\ B!Inserted(s, l, o) \in Seq(Bytes) /\ Len(B!Inserted(s, l, o)) = l + m + 2
           /\ SubSeq(B!Inserted(s, l, o), 1, l + m + 1) = B!Create(B!Text(s) \o B!Text(o))
<1> DEFINE before == SubSeq(s, 1, l)
           after  == SubSeq(s, l + 1, l + 1)
           text   == SubSeq(o, 1, m)
           n      == l + m + 1
           w      == B!Inserted(s, l, o)
           c      == B!Create(B!Text(s) \o B!Text(o))
<1>1. n \in Nat /\ n = l + (m + 1) /\ m + 1 \in Nat /\ l + 1 \in Nat
  OBVIOUS
<1>2. before \in Seq(Bytes) /\ Len(before) = l
  BY Part
<1>3. after \in Seq(Bytes) /\ Len(after) = 1
  <2> DEFINE d == l + 1
  <2>1. d \in Nat /\ 1 <= d /\ d <= d + 1 /\ d <= Len(s) /\ d - d + 1 = 1
    OBVIOUS
  <2> HIDE DEF d
  <2>2. SubSeq(s, d, d) \in Seq(Bytes) /\ Len(SubSeq(s, d, d)) = 1
    BY <2>1, Part
  <2> QED
    BY <2>2 DEF d
<1>4. /\ text \in Seq(Bytes) /\ Len(text) = m
      /\ \A k \in 1 .. m : text[k] = o[k]
  BY Part
<1>5. w = (before \o o) \o after
  BY DEF B!Inserted
<1>6. c = Append(before \o text, B!NUL)
  <2>1. l + 1 - 1 = l /\ m + 1 - 1 = m
    OBVIOUS
  <2> QED
    BY <2>1 DEF B!Create, B!Text, B!Length
<1> HIDE DEF before, after, text, n, w, c
<1>7. /\ before \o o \in Seq(Bytes) /\ Len(before \o o) = n
      /\ \A k \in 1 .. n : (before \o o)[k] = IF k <= l THEN before[k] ELSE o[k - l]
  <2>1. /\ before \o o \in Seq(Bytes) /\ Len(before \o o) = Len(before) + Len(o)
        /\ \A k \in 1 .. Len(before) + Len(o) :
             (before \o o)[k] = IF k <= Len(before) THEN before[k] ELSE o[k - Len(before)]
    BY <1>2, ConcatProperties
  <2>2. Len(before) + Len(o) = n /\ Len(before) = l
    BY <1>1, <1>2
  <2> QED
    BY <2>1, <2>2
<1>8. /\ w \in Seq(Bytes) /\ Len(w) = n + 1
      /\ \A k \in 1 .. n + 1 : w[k] = IF k <= n THEN (before \o o)[k] ELSE after[k - n]
  <2> DEFINE u == before \o o
  <2>0. u \in Seq(Bytes) /\ Len(u) = n /\ w = u \o after
    BY <1>5, <1>7
  <2> HIDE DEF u
  <2>1. /\ u \o after \in Seq(Bytes) /\ Len(u \o after) = Len(u) + Len(after)
        /\ \A k \in 1 .. Len(u) + Len(after) :
             (u \o after)[k] = IF k <= Len(u) THEN u[k] ELSE after[k - Len(u)]
    BY <1>3, <2>0, ConcatProperties
  <2>2. Len(u) + Len(after) = n + 1 /\ Len(u) = n
    BY <1>1, <1>3, <2>0
  <2> QED
    BY <2>0, <2>1, <2>2 DEF u
<1>9. /\ before \o text \in Seq(Bytes) /\ Len(before \o text) = l + m
      /\ \A k \in 1 .. l + m : (before \o text)[k] = IF k <= l THEN before[k] ELSE text[k - l]
  <2>1. /\ before \o text \in Seq(Bytes) /\ Len(before \o text) = Len(before) + Len(text)
        /\ \A k \in 1 .. Len(before) + Len(text) :
             (before \o text)[k] = IF k <= Len(before) THEN before[k] ELSE text[k - Len(before)]
    BY <1>2, <1>4, ConcatProperties
  <2>2. Len(before) + Len(text) = l + m /\ Len(before) = l
    BY <1>2, <1>4
  <2> QED
    BY <2>1, <2>2
<1>10. /\ c \in Seq(Bytes) /\ Len(c) = n /\ c[n] = B!NUL
       /\ \A k \in 1 .. l + m : c[k] = (before \o text)[k]
  <2>1. B!NUL \in Bytes
    BY DEF Bytes
  <2> QED
    <3> DEFINE u == before \o text
    <3>1. u \in Seq(Bytes) /\ Len(u) = l + m /\ c = Append(u, B!NUL)
      BY <1>6, <1>9
    <3> HIDE DEF u
    <3>2. /\ Append(u, B!NUL) \in Seq(Bytes) /\ Len(Append(u, B!NUL)) = Len(u) + 1
          /\ \A k \in 1 .. Len(u) : Append(u, B!NUL)[k] = u[k]
          /\ Append(u, B!NUL)[Len(u) + 1] = B!NUL
      BY <2>1, <3>1, AppendProperties
    <3> QED
      BY <3>1, <3>2 DEF u, n
<1>11. /\ SubSeq(w, 1, n) \in Seq(Bytes) /\ Len(SubSeq(w, 1, n)) = n
       /\ \A k \in 1 .. n : SubSeq(w, 1, n)[k] = w[k]
  <2>1. 1 <= n + 1 /\ n <= Len(w) /\ n - 1 + 1 = n
    BY <1>1, <1>8
  <2>2. /\ SubSeq(w, 1, n) \in Seq(Bytes) /\ Len(SubSeq(w, 1, n)) = n - 1 + 1
        /\ \A k \in 1 .. n - 1 + 1 : SubSeq(w, 1, n)[k] = w[1 + k - 1]
    BY <1>1, <1>8, <2>1, Part
  <2> QED
    BY <1>1, <2>1, <2>2
<1>12. ASSUME NEW k \in 1 .. n
       PROVE  SubSeq(w, 1, n)[k] = c[k]
  <2>1. SubSeq(w, 1, n)[k] = IF k <= l THEN before[k] ELSE o[k - l]
    <3>1. k \in 1 .. n + 1 /\ k <= n
      BY <1>1
    <3>2. SubSeq(w, 1, n)[k] = w[k]
      BY <1>11
    <3>3. w[k] = (before \o o)[k]
      BY <1>8, <3>1
    <3> QED
      BY <1>7, <3>2, <3>3
  <2>2. CASE k = n
    <3>1. ~(k <= l) /\ k - l = m + 1
      BY <1>1, <2>2
    <3> QED
      BY <1>10, <2>1, <2>2, <3>1
  <2>3. CASE k # n
    <3>1. k \in 1 .. l + m
      BY <1>1, <2>3
    <3>2. ~(k <= l) => k - l \in 1 .. m
      BY <3>1
    <3> QED
      BY <1>4, <1>9, <1>10, <2>1, <3>1, <3>2
  <2> QED
    BY <2>2, <2>3
<1>13. SubSeq(w, 1, n) = c
  BY <1>10, <1>11, <1>12, SeqEqual
<1>14. Len(w) = l + m + 2
  BY <1>8 DEF n
<1> QED
  BY <1>8, <1>13, <1>14 DEF w, c, n

\* Neither is empty.
LEMMA OneLess ==
    ASSUME StringsInv
    PROVE  \E l \in Nat, m \in Nat : Len(object.subject) = l + 1 /\ Len(object.other) = m + 1
<1>1. Len(object.subject) \in Nat \ {0} /\ Len(object.other) \in Nat \ {0}
  BY DEF StringsInv
<1>2. Len(object.subject) - 1 \in Nat /\ Len(object.other) - 1 \in Nat
  BY <1>1
<1> DEFINE l == Len(object.subject) - 1
           m == Len(object.other) - 1
<1>3. Len(object.subject) = l + 1 /\ Len(object.other) = m + 1
  BY <1>1
<1> QED
  BY <1>2, <1>3

\* Every call keeps the invariant.
LEMMA StringsStep ==
    ASSUME StringsInv, B!Next
    PROVE  StringsInv'
<1>1. ASSUME NEW string \in Seq(Bytes), Len(string) # 0, B!Becomes(string)
      PROVE  StringsInv'
  BY <1>1 DEF B!Becomes, StringsInv
<1> DEFINE total == Len(object.subject)
<1>2. total \in Nat \ {0} /\ object.subject \in Seq(Bytes)
  BY DEF StringsInv
<1>3. ASSUME NEW k \in Nat, NEW text \in Seq(Bytes), NEW l \in Nat, Len(text) = l, k <= total
      PROVE  B!Inserted(object.subject, k, text) \in Seq(Bytes)
               /\ Len(B!Inserted(object.subject, k, text)) = total + l
  <2> DEFINE before == SubSeq(object.subject, 1, k)
             after  == SubSeq(object.subject, k + 1, total)
             d == k + 1
             m == total - k
  <2>1. before \in Seq(Bytes) /\ Len(before) = k
    BY <1>2, <1>3, Part
  <2>2. after \in Seq(Bytes) /\ Len(after) = m
    <3>1. d \in Nat /\ 1 <= d /\ d <= total + 1 /\ total - d + 1 = m
      BY <1>2, <1>3
    <3> HIDE DEF d, m
    <3>2. SubSeq(object.subject, d, total) \in Seq(Bytes) /\ Len(SubSeq(object.subject, d,
          total)) = m
      BY <1>2, <3>1, Part
    <3> QED
      BY <3>2 DEF d
  <2> HIDE DEF before, after
  <2>3. m \in Nat /\ (k + l) + m = total + l /\ k + l \in Nat
    <3> HIDE DEF total
    <3> QED
      BY <1>2, <1>3
  <2> HIDE DEF m
  <2>4. before \o text \in Seq(Bytes) /\ Len(before \o text) = k + l
  <3>1. before \o text \in Seq(Bytes) /\ Len(before \o text) = Len(before) + Len(text)
      BY <2>1, ConcatProperties
    <3> QED
      BY <1>3, <2>1, <3>1
  <2>5. (before \o text) \o after \in Seq(Bytes) /\ Len((before \o text) \o after) = (k + l) + m
    <3> DEFINE u == before \o text
    <3>1. u \in Seq(Bytes) /\ Len(u) = k + l
      BY <2>4
    <3> HIDE DEF u
    <3>2. u \o after \in Seq(Bytes) /\ Len(u \o after) = Len(u) + Len(after)
      BY <2>2, <3>1, ConcatProperties
    <3> QED
      BY <2>2, <3>1, <3>2 DEF u
  <2>6. B!Inserted(object.subject, k, text) = (before \o text) \o after
    BY DEF B!Inserted, before, after
  <2> HIDE DEF total
  <2> QED
    BY <2>3, <2>5, <2>6
<1>4. CASE B!AppendString
  <2>1. PICK l \in Nat, m \in Nat : Len(object.subject) = l + 1 /\ Len(object.other) = m + 1
    BY OneLess
  <2> DEFINE w == B!Inserted(object.subject, l, object.other)
             n == l + m + 1
  <2>2. w \in Seq(Bytes) /\ Len(w) = l + m + 2
    BY <2>1, AppendedText DEF StringsInv
  <2>3. B!Becomes(SubSeq(w, 1, n))
    BY <1>4, <2>1, <2>2 DEF B!AppendString, B!S!Front, B!Length, B!subject, B!other
  <2>4. n \in Nat /\ n # 0 /\ 1 <= n + 1 /\ n <= Len(w) /\ n - 1 + 1 = n
    BY <2>2
  <2> HIDE DEF w, n
  <2>5. SubSeq(w, 1, n) \in Seq(Bytes) /\ Len(SubSeq(w, 1, n)) = n
    BY <2>2, <2>4, Part
  <2> QED
    BY <1>1, <2>3, <2>4, <2>5
<1>5. ASSUME NEW text \in B!S!BoundedSeq(Chars, 1), NEW k \in Nat, k <= total,
             B!Becomes(B!Inserted(object.subject, k, text))
      PROVE  StringsInv'
  <2>1. PICK n \in Nat : text \in [1 .. n -> Chars]
    BY Short
  <2>2. text \in Seq(Bytes) /\ Len(text) = n
    <3>1. text \in Seq(Chars) /\ Len(text) = n
      BY <2>1
    <3> HIDE DEF total
    <3> QED
      BY <3>1, SeqMonotonic DEF Bytes
  <2>3. B!Inserted(object.subject, k, text) \in Seq(Bytes)
          /\ Len(B!Inserted(object.subject, k, text)) = total + n
    BY <1>3, <1>5, <2>2
  <2>4. total + n # 0
    BY <1>2
  <2> QED
    BY <1>1, <1>5, <2>3, <2>4
<1>6. ASSUME NEW text \in B!S!BoundedSeq(Chars, 1), B!AppendCString(text)
      PROVE  StringsInv'
  <2>1. total - 1 \in Nat /\ total - 1 <= total
    BY <1>2
  <2> QED
    BY <1>5, <1>6, <2>1 DEF B!AppendCString, B!Length, B!subject
<1>7. ASSUME NEW text \in B!S!BoundedSeq(Chars, 1), NEW k \in 0 .. MaxString,
             B!InsertCString(text, k)
      PROVE  StringsInv'
  BY <1>5, <1>7 DEF B!InsertCString, B!subject
<1>8. ASSUME NEW k \in 0 .. MaxString, B!Replace(k)
      PROVE  StringsInv'
  <2> DEFINE Changed(grown, stale) ==
        [n \in 1 .. grown |-> IF n \in k + 1 .. k + Len(object.other) THEN object.other[n - k]
                              ELSE IF n <= Len(object.subject) THEN object.subject[n] ELSE stale]
  <2>1. object.other \in Seq(Bytes) /\ Len(object.other) \in Nat
    BY DEF StringsInv
  <2>2. PICK stale \in Bytes :
          LET needed == Len(object.other) + k + 1
              grown  == IF Len(object.other) > total - k - 1 THEN needed ELSE total
          IN  object' = [object EXCEPT !.replaced = TRUE, !.subject = Changed(grown, stale)]
    BY Zenon, <1>8 DEF B!Replace, B!subject, B!other, Bytes
  <2> DEFINE grown == IF Len(object.other) > total - k - 1 THEN Len(object.other) + k + 1 ELSE total
  <2>3. grown \in Nat \ {0}
    BY <1>2, <2>1
  <2>4. object' = [object EXCEPT !.replaced = TRUE, !.subject = Changed(grown, stale)]
    BY <2>2
  <2> HIDE DEF grown
  <2>5. ASSUME NEW n \in 1 .. grown
        PROVE  (IF n \in k + 1 .. k + Len(object.other) THEN object.other[n - k]
                ELSE IF n <= Len(object.subject) THEN object.subject[n] ELSE stale) \in Bytes
    <3>1. n \in k + 1 .. k + Len(object.other) => n - k \in 1 .. Len(object.other)
      BY <2>1
    <3>2. n <= Len(object.subject) => n \in 1 .. Len(object.subject)
      BY <1>2
    <3> QED
      BY <1>2, <2>1, <3>1, <3>2, ElementOfSeq
  <2>6. Changed(grown, stale) \in [1 .. grown -> Bytes]
    BY <2>5
  <2> HIDE DEF Changed
  <2>7. Changed(grown, stale) \in Seq(Bytes) /\ Len(Changed(grown, stale)) = grown
    BY <2>6, <2>3
  <2> QED
    BY Zenon, <2>3, <2>4, <2>7 DEF StringsInv
<1> QED
  BY <1>4, <1>6, <1>7, <1>8 DEF B!Next

\* An append puts the other text after the one there was.
LEMMA AppendIsText == StringsInv => B!AppendsText
<1>1. SUFFICES ASSUME StringsInv, B!AppendString
               PROVE  object'.subject = B!Create(B!Text(object.subject) \o B!Text(object.other))
  BY DEF B!AppendsText, B!subject, B!other
<1>2. PICK l \in Nat, m \in Nat : Len(object.subject) = l + 1 /\ Len(object.other) = m + 1
  BY <1>1, OneLess
<1> DEFINE w == B!Inserted(object.subject, l, object.other)
<1>3. /\ Len(w) = l + m + 2
      /\ SubSeq(w, 1, l + m + 1) = B!Create(B!Text(object.subject) \o B!Text(object.other))
  BY <1>1, <1>2, AppendedText DEF StringsInv
<1>4. object'.subject = SubSeq(w, 1, l + m + 1)
  <2>1. Len(object.subject) - 1 = l /\ Len(w) - 1 = l + m + 1
    BY <1>2, <1>3
  <2>2. B!Becomes(SubSeq(w, 1, Len(w) - 1))
    BY <1>1, <2>1 DEF B!AppendString, B!S!Front, B!Length, B!subject, B!other
  <2> HIDE DEF w
  <2> QED
    BY <1>1, <2>1, <2>2 DEF B!Becomes, StringsInv
<1> QED
  BY <1>3, <1>4

-----------------------------------------------------------------------------
(* DynamicContainer and ArrayList                                           *)

\* The amount of memory is a number of places, and every element has one.
ElementsInv == object \in [kind : {"dynamic", "arraylist"}, elements : Seq(Held), room : Nat]

FitsInv == ElementsInv /\ C!Fits

-----------------------------------------------------------------------------
(* What the moves make of the elements.                                     *)

\* A place opened for new elements.
LEMMA OpenedIsList ==
    ASSUME ElementsInv, NEW index \in 0 .. Len(C!elements), NEW new \in Seq(Held)
    PROVE  /\ C!Opened(index, new) \in Seq(Held)
           /\ Len(C!Opened(index, new)) = Len(C!elements) + Len(new)
<1> DEFINE extent == Len(C!elements) + Len(new)
<1>1. C!elements \in Seq(Held) /\ Len(C!elements) \in Nat /\ Len(new) \in Nat /\ extent \in Nat
  BY DEF ElementsInv, C!elements
<1>2. ASSUME NEW k \in 1 .. extent
      PROVE  (CASE k <= index            -> C!elements[k]
                [] k > index + Len(new)  -> C!elements[k - Len(new)]
                [] OTHER                 -> new[k - index]) \in Held
  <2>1. CASE k <= index BY <1>1, <2>1
  <2>2. CASE k > index + Len(new)
    <3>1. k - Len(new) \in 1 .. Len(C!elements) BY <1>1, <2>2
    <3> QED BY <1>1, <2>2, <3>1
  <2>3. CASE k > index /\ k <= index + Len(new)
    <3>1. k - index \in 1 .. Len(new) BY <1>1, <2>3
    <3> QED BY <1>1, <2>3, <3>1
  <2> QED BY <1>1, <2>1, <2>2, <2>3
<1>3. C!Opened(index, new) = [k \in 1 .. extent |->
         CASE k <= index            -> C!elements[k]
           [] k > index + Len(new)  -> C!elements[k - Len(new)]
           [] OTHER                 -> new[k - index]]
  BY DEF C!Opened
<1> QED BY <1>1, <1>2, <1>3

\* The gap that a removal leaves is closed.
LEMMA ClosedIsList ==
    ASSUME ElementsInv, NEW first \in Nat, NEW last \in Nat, first <= last, last < Len(C!elements)
    PROVE  /\ C!Closed(first, last) \in Seq(Held)
           /\ Len(C!Closed(first, last)) = Len(C!elements) - (last - first + 1)
<1> DEFINE gap == last - first + 1
           extent == Len(C!elements) - gap
<1>1. C!elements \in Seq(Held) /\ Len(C!elements) \in Nat /\ gap \in Nat /\ extent \in Nat
  BY DEF ElementsInv, C!elements
<1>2. ASSUME NEW k \in 1 .. extent
      PROVE  (IF k <= first THEN C!elements[k] ELSE C!elements[k + gap]) \in Held
  <2>1. k \in 1 .. Len(C!elements) /\ k + gap \in 1 .. Len(C!elements) BY <1>1
  <2> QED BY <1>1, <2>1
<1>3. C!Closed(first, last) =
          [k \in 1 .. extent |-> IF k <= first THEN C!elements[k] ELSE C!elements[k + gap]]
  BY DEF C!Closed
<1> HIDE DEF gap, extent
<1>4. C!Closed(first, last) \in Seq(Held) /\ Len(C!Closed(first, last)) = extent
  BY <1>1, <1>2, <1>3
<1> QED BY <1>4 DEF gap, extent

-----------------------------------------------------------------------------
\* What the calls make of the memory holds what they make of the elements.
LEMMA IsFits ==
    ASSUME ElementsInv, NEW content \in Seq(Held), NEW places \in Nat, Len(content) <= places,
           C!Is(content, places)
    PROVE  FitsInv'
BY DEF ElementsInv, FitsInv, C!Fits, C!Is, C!elements, C!room

\* No removal leaves less memory than elements.
LEMMA RemovalFits ==
    ASSUME FitsInv, NEW amount \in 0 .. Len(C!elements), NEW places \in C!RoomsAfterRemoval(amount)
    PROVE  places \in Nat /\ amount <= places
<1>1. C!room \in Nat /\ Len(C!elements) \in Nat /\ Len(C!elements) <= C!room
  BY DEF FitsInv, ElementsInv, C!Fits, C!elements, C!room
<1> QED BY <1>1 DEF C!RoomsAfterRemoval

\* Every call keeps the elements within the memory.
LEMMA NextFits == ASSUME FitsInv, C!Next PROVE FitsInv'
<1>0. /\ ElementsInv /\ C!room \in Nat /\ C!elements \in Seq(Held) /\ Len(C!elements) \in Nat
      /\ Len(C!elements) <= C!room /\ C!Indices \subseteq Nat
  BY RoomsAssumption DEF FitsInv, ElementsInv, C!Fits, C!elements, C!room, C!Indices
<1>n. ASSUME NEW new \in C!News PROVE new \in Seq(Held) /\ Len(new) \in Nat
  <2>1. PICK n \in 0 .. 2 : new \in [1 .. n -> Held] BY DEF C!News
  <2>2. new \in Seq(Held) BY <2>1
  <2> QED BY <2>2
<1>1. ASSUME NEW index \in C!Indices, NEW new \in C!News, C!Insert(index, new) PROVE FitsInv'
  <2>1. index \in 0 .. Len(C!elements) BY <1>0, <1>1 DEF C!Insert
  <2>2. C!RoomFor(Len(C!elements) + Len(new)) \in Nat
        /\ Len(C!elements) + Len(new) <= C!RoomFor(Len(C!elements) + Len(new))
    BY <1>0, <1>n DEF C!RoomFor
  <2> QED BY <1>0, <1>n, <1>1, <2>1, <2>2, OpenedIsList, IsFits DEF C!Insert
<1>2. ASSUME NEW index \in C!Indices, NEW new \in C!News, C!InsertContainer(index, new)
      PROVE  FitsInv'
  <2>1. C!Insert(index, new) BY <1>2 DEF C!Insert, C!InsertContainer
  <2> QED BY <1>1, <2>1
<1>3. ASSUME NEW first \in C!Indices, NEW last \in C!Indices, C!Remove(first, last) PROVE FitsInv'
  <2>1. first \in Nat /\ last \in Nat /\ first <= last /\ last < Len(C!elements)
    BY <1>0, <1>3 DEF C!Remove
  <2>2. Len(C!elements) - (last - first + 1) \in 0 .. Len(C!elements) BY <1>0, <2>1
  <2>3. PICK places \in C!RoomsAfterRemoval(Len(C!elements) - (last - first + 1)) :
            C!Is(C!Closed(first, last), places)
    BY <1>3 DEF C!Remove
  <2>4. places \in Nat /\ Len(C!elements) - (last - first + 1) <= places
    BY <2>2, <2>3, RemovalFits
  <2> QED BY <1>0, <2>1, <2>3, <2>4, ClosedIsList, IsFits
<1>4. ASSUME C!Pop PROVE FitsInv'
  <2>1. Len(C!elements) - 1 \in 0 .. Len(C!elements) BY <1>0, <1>4 DEF C!Pop
  <2>2. PICK places \in C!RoomsAfterRemoval(Len(C!elements) - 1) :
            C!Is(SubSeq(C!elements, 1, Len(C!elements) - 1), places)
    BY <1>4 DEF C!Pop
  <2>3. places \in Nat /\ Len(C!elements) - 1 <= places BY <2>1, <2>2, RemovalFits
  <2>4. \A k \in 1 .. Len(C!elements) - 1 : C!elements[k] \in Held
    BY <1>0
  <2>5. /\ SubSeq(C!elements, 1, Len(C!elements) - 1) \in Seq(Held)
        /\ Len(SubSeq(C!elements, 1, Len(C!elements) - 1)) = Len(C!elements) - 1
    <3> DEFINE n == Len(C!elements) - 1
    <3>1. n \in Int /\ 1 \in Int /\ n >= 0 BY <1>0, <2>1
    <3>2. \A k \in 1 .. n : C!elements[k] \in Held BY <2>4
    <3> HIDE DEF n
    <3>3. /\ SubSeq(C!elements, 1, n) \in Seq(Held)
          /\ Len(SubSeq(C!elements, 1, n)) = IF 1 <= n THEN n - 1 + 1 ELSE 0
      BY <3>1, <3>2, SubSeqProperties
    <3>4. (IF 1 <= n THEN n - 1 + 1 ELSE 0) = n BY <3>1
    <3> QED BY <3>3, <3>4 DEF n
  <2> QED BY <1>0, <2>2, <2>3, <2>5, IsFits
<1>5. ASSUME C!Clear PROVE FitsInv'
  <2>1. <<>> \in Seq(Held) /\ Len(<<>>) = 0 /\ 0 <= C!room BY <1>0
  <2> QED BY <1>0, <1>5, <2>1, IsFits DEF C!Clear
<1>6. ASSUME NEW index \in C!Indices, NEW x \in Held, C!Set(index, x) PROVE FitsInv'
  <2>0. index + 1 \in 1 .. Len(C!elements) BY <1>0, <1>6 DEF C!Set
  <2>1. /\ [C!elements EXCEPT ![index + 1] = x] \in Seq(Held)
        /\ Len([C!elements EXCEPT ![index + 1] = x]) = Len(C!elements)
    BY <1>0, <2>0, ExceptSeq
  <2> QED BY <1>0, <1>6, <2>1, IsFits DEF C!Set
<1>7. ASSUME NEW amount \in 1 .. MaxLength, C!Reserve(amount) PROVE FitsInv'
  <2>1. amount + Len(C!elements) \in Nat /\ Len(C!elements) <= amount + Len(C!elements) BY <1>0
  <2> QED BY <1>0, <1>7, <2>1, IsFits DEF C!Reserve
<1>8. ASSUME C!Reversed PROVE FitsInv'
  <2> DEFINE turned == [k \in 1 .. Len(C!elements) |-> C!elements[Len(C!elements) + 1 - k]]
  <2>1. \A k \in 1 .. Len(C!elements) : C!elements[Len(C!elements) + 1 - k] \in Held
    <3> TAKE k \in 1 .. Len(C!elements)
    <3>1. Len(C!elements) + 1 - k \in 1 .. Len(C!elements) BY <1>0
    <3> QED BY <1>0, <3>1
  <2>2. turned \in Seq(Held) /\ Len(turned) = Len(C!elements) BY <1>0, <2>1
  <2>3. C!Is(turned, C!room)
    <3>1. DOMAIN C!elements = 1 .. Len(C!elements) BY <1>0
    <3>2. [k \in DOMAIN C!elements |-> C!elements[Len(C!elements) + 1 - k]] = turned BY <3>1
    <3> HIDE DEF turned
    <3> QED BY <1>8, <3>2, Zenon DEF C!Reversed
  <2> HIDE DEF turned
  <2> QED BY <1>0, <2>2, <2>3, IsFits
<1>9. ASSUME NEW first \in C!Indices, NEW last \in C!Indices, NEW turns \in BOOLEAN,
             C!Subarray(first, last, turns)
      PROVE  FitsInv'
  <2> DEFINE extent == last - first + 1
             taken == [k \in 1 .. extent |->
                          C!elements[IF turns THEN last + 2 - k ELSE first + k]]
  <2>1. first \in Nat /\ last \in Nat /\ extent \in Nat /\ last < Len(C!elements)
    BY <1>0, <1>9 DEF C!Subarray
  <2>2. \A k \in 1 .. extent : C!elements[IF turns THEN last + 2 - k ELSE first + k] \in Held
    <3> TAKE k \in 1 .. extent
    <3>1. last + 2 - k \in 1 .. Len(C!elements) /\ first + k \in 1 .. Len(C!elements) BY <1>0, <2>1
    <3> QED BY <1>0, <3>1
  <2>3. C!Is(taken, extent) BY <1>9 DEF C!Subarray
  <2>4. taken \in Seq(Held) /\ Len(taken) = extent
    <3> HIDE DEF extent
    <3> QED BY <2>1, <2>2
  <2> HIDE DEF extent, taken
  <2>5. Len(taken) <= extent BY <2>1, <2>4
  <2> QED BY <1>0, <2>1, <2>3, <2>4, <2>5, IsFits
<1> QED
  BY <1>1, <1>2, <1>3, <1>4, <1>5, <1>6, <1>7, <1>8, <1>9 DEF C!Next, C!ArrayListCalls

\* It holds of an empty container.
LEMMA InitFits == C!Init => FitsInv
<1>0. SUFFICES ASSUME C!Init PROVE FitsInv OBVIOUS
<1>1. <<>> \in Seq(Held) /\ Len(<<>>) = 0 OBVIOUS
<1>2. ElementsInv BY <1>0, <1>1, RoomsAssumption DEF C!Init, ElementsInv
<1>3. C!elements = <<>> /\ C!room \in Nat BY <1>0, RoomsAssumption DEF C!Init, C!elements, C!room
<1> QED BY <1>1, <1>2, <1>3 DEF FitsInv, C!Fits

\* Every step keeps it.
LEMMA StepFits == ASSUME FitsInv, [C!Next]_object PROVE FitsInv'
<1>1. ASSUME UNCHANGED object PROVE FitsInv'
  BY <1>1 DEF FitsInv, ElementsInv, C!Fits, C!elements, C!room
<1> QED BY <1>1, NextFits

(* For any elements, initial sizes and lengths, the elements lie within the *)
(* memory that was allocated for them (lines 42-79).                        *)
THEOREM ElementsFit == C!Spec => []C!Fits
<1>1. C!Init => FitsInv BY InitFits
<1>2. FitsInv /\ [C!Next]_object => FitsInv' BY StepFits
<1>3. FitsInv => C!Fits BY DEF FitsInv
<1> QED BY <1>1, <1>2, <1>3, PTL DEF C!Spec

-----------------------------------------------------------------------------
(* What the calls do is what a list does.                                   *)

\* The moves from the end and the copy put the new elements between the others.
LEMMA OpenedSplices ==
    ASSUME ElementsInv, NEW index \in 0 .. Len(C!elements), NEW new \in Seq(Held)
    PROVE  C!Opened(index, new) =
               SubSeq(C!elements, 1, index) \o new \o SubSeq(C!elements, index + 1, Len(C!elements))
<1> DEFINE before == SubSeq(C!elements, 1, index)
           after  == SubSeq(C!elements, index + 1, Len(C!elements))
           extent   == Len(C!elements) + Len(new)
<1>1. C!elements \in Seq(Held) /\ Len(C!elements) \in Nat /\ Len(new) \in Nat /\ index \in Nat
  BY DEF ElementsInv, C!elements
<1>2. /\ before \in Seq(Held) /\ Len(before) = index
      /\ \A k \in 1 .. index : before[k] = C!elements[k]
  BY <1>1, Part
<1>3. /\ after \in Seq(Held) /\ Len(after) = Len(C!elements) - index
      /\ \A k \in 1 .. Len(C!elements) - index : after[k] = C!elements[index + k]
  <2>1. /\ after \in Seq(Held) /\ Len(after) = Len(C!elements) - (index + 1) + 1
        /\ \A k \in 1 .. Len(C!elements) - (index + 1) + 1 :
               after[k] = C!elements[(index + 1) + k - 1]
    BY <1>1, Part
  <2> HIDE DEF after
  <2> QED BY <1>1, <2>1
<1> HIDE DEF before, after
<1>4. /\ before \o new \in Seq(Held) /\ Len(before \o new) = index + Len(new)
      /\ \A k \in 1 .. index + Len(new) :
             (before \o new)[k] = IF k <= index THEN before[k] ELSE new[k - index]
  BY <1>2, ConcatProperties
<1>5. /\ (before \o new) \o after \in Seq(Held)
      /\ Len((before \o new) \o after) = extent
      /\ \A k \in 1 .. extent :
             ((before \o new) \o after)[k] =
                 IF k <= index + Len(new) THEN (before \o new)[k] ELSE after[k - (index + Len(new))]
  <2> DEFINE left == before \o new
  <2>1. left \in Seq(Held) /\ Len(left) = index + Len(new) BY <1>4
  <2> HIDE DEF left
  <2>2. /\ left \o after \in Seq(Held)
        /\ Len(left \o after) = Len(left) + Len(after)
        /\ \A k \in 1 .. Len(left) + Len(after) :
               (left \o after)[k] = IF k <= Len(left) THEN left[k] ELSE after[k - Len(left)]
    BY <1>3, <2>1, ConcatProperties
  <2>3. Len(left) + Len(after) = extent BY <1>1, <1>3, <2>1
  <2> QED BY <2>1, <2>2, <2>3 DEF left
<1>6. C!Opened(index, new) \in Seq(Held) /\ Len(C!Opened(index, new)) = extent
  BY OpenedIsList
<1>7. ASSUME NEW k \in 1 .. extent PROVE C!Opened(index, new)[k] = ((before \o new) \o after)[k]
  <2>0. C!Opened(index, new)[k] =
            CASE k <= index            -> C!elements[k]
              [] k > index + Len(new)  -> C!elements[k - Len(new)]
              [] OTHER                 -> new[k - index]
    BY DEF C!Opened
  <2>1. CASE k <= index BY <1>1, <1>2, <1>4, <1>5, <2>0, <2>1
  <2>2. CASE k > index + Len(new)
    <3>1. k - (index + Len(new)) \in 1 .. Len(C!elements) - index BY <1>1, <2>2
    <3>2. index + (k - (index + Len(new))) = k - Len(new) BY <1>1
    <3>3. ((before \o new) \o after)[k] = after[k - (index + Len(new))] BY <1>1, <1>5, <2>2
    <3>4. C!Opened(index, new)[k] = C!elements[k - Len(new)] BY <1>1, <2>0, <2>2
    <3> QED BY <1>3, <3>1, <3>2, <3>3, <3>4
  <2>3. CASE k > index /\ k <= index + Len(new)
    <3>1. C!Opened(index, new)[k] = new[k - index] BY <1>1, <2>0, <2>3
    <3>2. ((before \o new) \o after)[k] = new[k - index] BY <1>1, <1>4, <1>5, <2>3
    <3> QED BY <3>1, <3>2
  <2>4. \/ k <= index \/ k > index + Len(new)
        \/ k > index /\ k <= index + Len(new)
    BY <1>1
  <2> QED BY <2>1, <2>2, <2>3, <2>4, Zenon
<1>8. C!Opened(index, new) = (before \o new) \o after
  <2> DEFINE s == C!Opened(index, new)
             u == (before \o new) \o after
  <2>1. s \in Seq(Held) /\ u \in Seq(Held) /\ Len(s) = Len(u) /\ Len(s) = extent BY <1>5, <1>6
  <2>2. \A k \in 1 .. Len(s) : s[k] = u[k] BY <1>7, <2>1
  <2> HIDE DEF s, u
  <2>3. s = u BY <2>1, <2>2, SeqEqual
  <2> QED BY <2>3 DEF s, u
<1> QED BY <1>8 DEF before, after

\* A removal closes the gap.
LEMMA ClosedCuts ==
    ASSUME ElementsInv, NEW first \in Nat, NEW last \in Nat, first <= last, last < Len(C!elements)
    PROVE  C!Closed(first, last) =
               SubSeq(C!elements, 1, first) \o SubSeq(C!elements, last + 2, Len(C!elements))
<1> DEFINE before == SubSeq(C!elements, 1, first)
           after  == SubSeq(C!elements, last + 2, Len(C!elements))
           gap    == last - first + 1
           extent   == Len(C!elements) - gap
<1>1. /\ C!elements \in Seq(Held) /\ Len(C!elements) \in Nat /\ gap \in Nat /\ extent \in Nat
      /\ first + gap = last + 1 /\ extent = first + (Len(C!elements) - last - 1)
  BY DEF ElementsInv, C!elements
<1>2. /\ before \in Seq(Held) /\ Len(before) = first
      /\ \A k \in 1 .. first : before[k] = C!elements[k]
  BY <1>1, Part
<1>3. /\ after \in Seq(Held) /\ Len(after) = Len(C!elements) - last - 1
      /\ \A k \in 1 .. Len(C!elements) - last - 1 : after[k] = C!elements[last + 1 + k]
  <2>1. /\ after \in Seq(Held) /\ Len(after) = Len(C!elements) - (last + 2) + 1
        /\ \A k \in 1 .. Len(C!elements) - (last + 2) + 1 :
               after[k] = C!elements[(last + 2) + k - 1]
    BY <1>1, Part
  <2> HIDE DEF after
  <2> QED BY <1>1, <2>1
<1>4. /\ before \o after \in Seq(Held) /\ Len(before \o after) = extent
      /\ \A k \in 1 .. extent :
             (before \o after)[k] = IF k <= first THEN before[k] ELSE after[k - first]
  <2>1. Len(before) + Len(after) = extent BY <1>1, <1>2, <1>3
  <2>2. before \in Seq(Held) /\ after \in Seq(Held) /\ Len(before) = first BY <1>2, <1>3
  <2> HIDE DEF before, after, extent
  <2>3. /\ before \o after \in Seq(Held) /\ Len(before \o after) = Len(before) + Len(after)
        /\ \A k \in 1 .. Len(before) + Len(after) :
               (before \o after)[k] =
                   IF k <= Len(before) THEN before[k] ELSE after[k - Len(before)]
    BY <2>2, ConcatProperties
  <2> QED BY <2>1, <2>2, <2>3
<1>5. C!Closed(first, last) \in Seq(Held) /\ Len(C!Closed(first, last)) = extent
  BY ClosedIsList
<1>6. ASSUME NEW k \in 1 .. extent PROVE C!Closed(first, last)[k] = (before \o after)[k]
  <2>0. C!Closed(first, last)[k] = IF k <= first THEN C!elements[k] ELSE C!elements[k + gap]
    BY DEF C!Closed
  <2> HIDE DEF before, after, gap, extent
  <2>1. CASE k <= first BY <1>1, <1>2, <1>4, <2>0, <2>1
  <2>2. CASE ~(k <= first)
    <3>1. k - first \in 1 .. Len(C!elements) - last - 1 BY <1>1, <2>2
    <3>2. last + 1 + (k - first) = k + gap BY <1>1
    <3> QED BY <1>3, <1>4, <2>0, <2>2, <3>1, <3>2
  <2> QED BY <2>1, <2>2
<1>7. C!Closed(first, last) = before \o after
  <2> DEFINE s == C!Closed(first, last)
             u == before \o after
  <2>1. s \in Seq(Held) /\ u \in Seq(Held) /\ Len(s) = Len(u) /\ Len(s) = extent BY <1>4, <1>5
  <2>2. \A k \in 1 .. Len(s) : s[k] = u[k] BY <1>6, <2>1
  <2> HIDE DEF s, u
  <2>3. s = u BY <2>1, <2>2, SeqEqual
  <2> QED BY <2>3 DEF s, u
<1> QED BY <1>7 DEF before, after

\* A call that any state takes does to the elements what List says.
LEMMA CallsAreList == ASSUME FitsInv PROVE C!ListStep
<1>0. /\ ElementsInv /\ C!elements \in Seq(Held) /\ Len(C!elements) \in Nat /\ C!Indices \subseteq Nat
  BY RoomsAssumption DEF FitsInv, ElementsInv, C!elements, C!Indices
<1>n. ASSUME NEW content, NEW places, C!Is(content, places) PROVE C!elements' = content
  BY <1>0, <1>n DEF ElementsInv, C!Is, C!elements
<1>1. ASSUME NEW p \in C!Indices, NEW new \in C!News, C!Insert(p, new) \/ C!InsertContainer(p, new)
      PROVE  C!L!Splice(p, new)
  <2>1. p \in 0 .. Len(C!elements) BY <1>0, <1>1 DEF C!Insert, C!InsertContainer
  <2>2. PICK n \in 0 .. 2 : new \in [1 .. n -> Held] BY DEF C!News
  <2>3. new \in Seq(Held) BY <2>2
  <2>4. C!elements' = C!Opened(p, new) BY <1>1, <1>n DEF C!Insert, C!InsertContainer
  <2> QED BY <1>0, <2>1, <2>3, <2>4, OpenedSplices DEF C!L!Splice
<1>2. ASSUME NEW p \in C!Indices, NEW q \in C!Indices, C!Remove(p, q) PROVE C!L!Cut(p, q)
  <2>1. p \in Nat /\ q \in Nat /\ p <= q /\ q < Len(C!elements) BY <1>0, <1>2 DEF C!Remove
  <2>2. C!elements' = C!Closed(p, q) BY <1>2, <1>n DEF C!Remove
  <2> QED BY <1>0, <2>1, <2>2, ClosedCuts DEF C!L!Cut
<1>3. ASSUME NEW p \in C!Indices, NEW q \in C!Indices, C!Subarray(p, q, FALSE) PROVE C!L!Keep(p, q)
  <2> DEFINE s == [k \in 1 .. q - p + 1 |-> C!elements[p + k]]
             u == SubSeq(C!elements, p + 1, q + 1)
  <2>1. p \in Nat /\ q \in Nat /\ p <= q /\ q < Len(C!elements) BY <1>0, <1>3 DEF C!Subarray
  <2>2. C!elements' = s BY <1>3, <1>n DEF C!Subarray
  <2>3. /\ u \in Seq(Held) /\ Len(u) = (q + 1) - (p + 1) + 1
        /\ \A k \in 1 .. (q + 1) - (p + 1) + 1 : u[k] = C!elements[(p + 1) + k - 1]
    BY <1>0, <2>1, Part
  <2>4. q - p + 1 \in Nat /\ (q + 1) - (p + 1) + 1 = q - p + 1 BY <2>1
  <2>5. \A k \in 1 .. q - p + 1 : C!elements[p + k] \in Held /\ (p + 1) + k - 1 = p + k
    BY <1>0, <2>1
  <2>6. s \in Seq(Held) /\ Len(s) = q - p + 1 BY <2>4, <2>5
  <2>7. \A k \in 1 .. q - p + 1 : s[k] = u[k] BY <2>3, <2>4, <2>5
  <2> HIDE DEF s, u
  <2>8. s = u BY <2>3, <2>4, <2>6, <2>7, SeqEqual
  <2> QED BY <2>2, <2>8 DEF u, C!L!Keep
<1>4. ASSUME NEW p \in C!Indices, NEW q \in C!Indices, C!Subarray(p, q, TRUE)
      PROVE  C!L!KeepTurned(p, q)
  <2> DEFINE s == [k \in 1 .. q - p + 1 |-> C!elements[q + 2 - k]]
             u == SubSeq(C!elements, p + 1, q + 1)
  <2>1. p \in Nat /\ q \in Nat /\ p <= q /\ q < Len(C!elements) BY <1>0, <1>4 DEF C!Subarray
  <2>2. C!elements' = s BY <1>4, <1>n DEF C!Subarray
  <2>3. /\ u \in Seq(Held) /\ Len(u) = (q + 1) - (p + 1) + 1
        /\ \A k \in 1 .. (q + 1) - (p + 1) + 1 : u[k] = C!elements[(p + 1) + k - 1]
    BY <1>0, <2>1, Part
  <2>4. q - p + 1 \in Nat /\ (q + 1) - (p + 1) + 1 = q - p + 1 BY <2>1
  <2>5. ASSUME NEW k \in 1 .. q - p + 1 PROVE C!elements[q + 2 - k] = u[(Len(u) - k) + 1]
    <3>1. (Len(u) - k) + 1 \in 1 .. q - p + 1 BY <2>3, <2>4
    <3>2. (p + 1) + ((Len(u) - k) + 1) - 1 = q + 2 - k BY <2>1, <2>3, <2>4
    <3> HIDE DEF u
    <3> QED BY <2>3, <2>4, <3>1, <3>2
  <2>6. s = [k \in 1 .. Len(u) |-> u[(Len(u) - k) + 1]] BY <2>3, <2>4, <2>5
  <2> QED BY <2>2, <2>6 DEF C!L!KeepTurned, C!L!S!Reverse
<1>5. ASSUME NEW p \in C!Indices, NEW x \in Held, C!Set(p, x) PROVE C!L!Put(p, x)
  BY <1>5, <1>n DEF C!Set, C!L!Put, C!L!S!ReplaceAt
<1>6. ASSUME C!Pop PROVE C!L!Cut(Len(C!elements) - 1, Len(C!elements) - 1)
  <2> DEFINE n == Len(C!elements) - 1
  <2>1. n \in Nat /\ n + 2 > Len(C!elements) BY <1>0, <1>6 DEF C!Pop
  <2>2. C!elements' = SubSeq(C!elements, 1, n) BY <1>6, <1>n DEF C!Pop
  <2>3. SubSeq(C!elements, n + 2, Len(C!elements)) = <<>> BY <1>0, <2>1, SubSeqEmpty
  <2>4. SubSeq(C!elements, 1, n) \in Seq(Held) BY <1>0, <2>1, Part
  <2>5. SubSeq(C!elements, 1, n) \o <<>> = SubSeq(C!elements, 1, n) BY <2>4, ConcatEmptySeq
  <2> QED BY <2>2, <2>3, <2>5 DEF C!L!Cut
<1>7. ASSUME C!Reversed PROVE C!L!Turn
  <2>1. C!elements' = [k \in DOMAIN C!elements |-> C!elements[Len(C!elements) + 1 - k]]
    BY <1>7, <1>n DEF C!Reversed
  <2>2. DOMAIN C!elements = 1 .. Len(C!elements) BY <1>0
  <2>3. \A k \in 1 .. Len(C!elements) : Len(C!elements) + 1 - k = (Len(C!elements) - k) + 1 BY <1>0
  <2> QED BY <2>1, <2>2, <2>3 DEF C!L!Turn, C!L!S!Reverse
<1>8. ASSUME C!Clear PROVE C!L!Empty BY <1>8, <1>n DEF C!Clear, C!L!Empty
<1> QED BY <1>1, <1>2, <1>3, <1>4, <1>5, <1>6, <1>7, <1>8 DEF C!ListStep

(* Every call of the dynamic container and of the array list does to the    *)
(* elements what List says it does: the moves of the tail lose no element   *)
(* and repeat none (lines 92-175).                                          *)
THEOREM CallsAreListSteps == C!Spec => [][C!ListStep]_object
<1>1. C!Spec => []FitsInv
  <2>1. C!Init => FitsInv BY InitFits
  <2>2. FitsInv /\ [C!Next]_object => FitsInv' BY StepFits
  <2> QED BY <2>1, <2>2, PTL DEF C!Spec
<1>2. FitsInv => [C!ListStep]_object BY CallsAreList
<1> QED BY <1>1, <1>2, PTL

-----------------------------------------------------------------------------
(* Walks from link to link, which are recursive functions                   *)

\* A set of natural numbers has a least one.
LEMMA LeastNatural ==
    ASSUME NEW Items \in SUBSET Nat, Items # {}
    PROVE  \E n \in Items : \A m \in Items : n <= m
<1> DEFINE Smaller == OpToRel(<, Nat)
<1>1. IsWellFoundedOn(Smaller, Nat)
  BY NatLessThanWellFounded, Zenon
<1> HIDE DEF Smaller
<1>2. PICK n \in Items : \A m \in Items : <<m, n>> \notin Smaller
  BY <1>1, WFMin, Zenon
<1>3. \A m \in Items : ~(m < n)
  BY <1>2 DEF OpToRel, Smaller
<1> QED
  BY <1>2, <1>3

\* Where a walk goes on from where it is.
WalkStep(links, first, n, walk) ==
    [m \in 0 .. n |-> IF m = 0 THEN first ELSE links[walk[m - 1]].next]

\* There is such a walk, by induction on its length.
LEMMA WalkExists ==
    ASSUME NEW links, NEW first, NEW n \in Nat
    PROVE  \E walk : walk = WalkStep(links, first, n, walk)
<1> DEFINE Step(k, walk) == [m \in 0 .. k |-> IF m = 0 THEN first ELSE links[walk[m - 1]].next]
           Off == { k \in Nat : ~\E walk : walk = Step(k, walk) }
<1>1. SUFFICES ASSUME Off # {} PROVE FALSE
  BY DEF WalkStep
<1>2. PICK k \in Off : \A l \in Off : k <= l
  <2>1. Off \in SUBSET Nat
    OBVIOUS
  <2> HIDE DEF Off
  <2> QED
    BY <1>1, <2>1, LeastNatural
<1>3. CASE k = 0
  <2> DEFINE walk == [m \in 0 .. 0 |-> first]
  <2>1. walk = Step(0, walk)
    OBVIOUS
  <2> QED
    BY <1>2, <1>3, <2>1
<1>4. CASE k # 0
  <2>1. k - 1 \in Nat /\ ~(k <= k - 1)
    BY <1>4
  <2>2. PICK walk : walk = Step(k - 1, walk)
    BY <1>2, <2>1
  <2> DEFINE longer == [m \in 0 .. k |-> IF m = k THEN links[walk[k - 1]].next ELSE walk[m]]
  <2>3. ASSUME NEW m \in 0 .. k
        PROVE  longer[m] = IF m = 0 THEN first ELSE links[longer[m - 1]].next
    <3>1. CASE m = k
      <4>1. k - 1 \in 0 .. k /\ k - 1 # k
        BY <1>4
      <4> QED
        BY <1>4, <3>1, <4>1
    <3>2. CASE m # k
      <4>1. m \in 0 .. k - 1 /\ (m # 0 => m - 1 \in 0 .. k /\ m - 1 # k)
        BY <3>2
      <4>2. walk[m] = IF m = 0 THEN first ELSE links[walk[m - 1]].next
        BY <2>2, <4>1
      <4> QED
        BY <3>2, <4>1, <4>2
    <3> QED
      BY <3>1, <3>2
  <2>4. longer = Step(k, longer)
    <3>1. longer = [m \in 0 .. k |-> longer[m]]
      OBVIOUS
    <3> HIDE DEF longer
    <3> QED
      BY <2>3, <3>1
  <2> HIDE DEF longer, Step
  <2> QED
    BY <1>2, <2>4
<1> QED
  BY <1>3, <1>4 DEF WalkStep

-----------------------------------------------------------------------------
(* Queue                                                                    *)

\* The sizes of sets are the same there.
LEMMA SameSizes == \A s : Q!Cardinality(s) = Cardinality(s)
BY DEF Q!Cardinality, Cardinality

\* A walk that goes from each place of an order to the next comes to them in turn.
Follows(walk, order, offset) ==
    /\ walk[0] = order[1]
    /\ \A n \in 1 .. offset : walk[n - 1] = order[n] => walk[n] = order[n + 1]

\* From its first place it comes to each, by induction on how far it has gone.
LEMMA StepByStep ==
    ASSUME NEW offset \in Nat, NEW order, NEW walk, Follows(walk, order, offset)
    PROVE  \A n \in 0 .. offset : walk[n] = order[n + 1]
<1> DEFINE Off == { n \in 0 .. offset : walk[n] # order[n + 1] }
<1>1. SUFFICES ASSUME Off # {} PROVE FALSE
  OBVIOUS
<1>2. PICK n \in Off : \A m \in Off : n <= m
  <2>1. Off \in SUBSET Nat
    OBVIOUS
  <2> QED
    BY <1>1, <2>1, LeastNatural
<1>3. n # 0
  BY DEF Follows
<1>4. n - 1 \in 0 .. offset /\ n \in 1 .. offset /\ (n - 1) + 1 = n /\ ~(n <= n - 1)
  BY <1>3
<1>5. walk[n - 1] = order[n]
  BY <1>2, <1>4
<1> QED
  BY <1>2, <1>4, <1>5 DEF Follows

\* The walk that a peek takes from the head, along the links.
Walk(links, first, offset) ==
    CHOOSE place : place = [n \in 0 .. offset |-> IF n = 0 THEN first ELSE links[place[n - 1]].next]

\* It follows an order whose places are linked so.
LEMMA WalkFollows ==
    ASSUME NEW links, NEW first, NEW offset \in Nat, NEW order,
           order[1] = first, \A k \in 1 .. offset : links[order[k]].next = order[k + 1]
    PROVE  \A m \in 0 .. offset : Walk(links, first, offset)[m] = order[m + 1]
<1> DEFINE Step(place) == [n \in 0 .. offset |-> IF n = 0 THEN first ELSE links[place[n - 1]].next]
           walk == Walk(links, first, offset)
           right == [n \in 0 .. offset |-> order[n + 1]]
<1>1. right = Step(right)
  <2>1. ASSUME NEW n \in 0 .. offset
        PROVE  order[n + 1] = IF n = 0 THEN first ELSE links[right[n - 1]].next
    <3>1. CASE n = 0
      BY <3>1
    <3>2. CASE n # 0
      <4>1. n - 1 \in 0 .. offset /\ n \in 1 .. offset /\ (n - 1) + 1 = n
        BY <3>2
      <4>2. right[n - 1] = order[n]
        BY <4>1
      <4> QED
        BY <3>2, <4>1, <4>2
    <3> QED
      BY <3>1, <3>2
  <2> QED
    BY <2>1
<1>2. walk = Step(walk)
  <2> HIDE DEF right
  <2>1. \E place : place = Step(place)
    BY <1>1
  <2> QED
    BY Zenon, <2>1 DEF Walk
<1> HIDE DEF walk
<1>3. walk[0] = first /\ \A n \in 1 .. offset : walk[n] = links[walk[n - 1]].next
  BY <1>2
<1>4. Follows(walk, order, offset)
  BY <1>3 DEF Follows
<1>5. \A n \in 0 .. offset : walk[n] = order[n + 1]
  BY <1>4, StepByStep
<1> QED
  BY <1>5 DEF walk

\* The walk from the tail, along the links back.
WalkBack(links, first, offset) ==
    CHOOSE place : place = [n \in 0 .. offset |-> IF n = 0 THEN first ELSE links[place[n - 1]].prev]

\* It follows an order whose places are linked back so.
LEMMA WalkBackFollows ==
    ASSUME NEW links, NEW first, NEW offset \in Nat, NEW order,
           order[1] = first, \A k \in 1 .. offset : links[order[k]].prev = order[k + 1]
    PROVE  \A m \in 0 .. offset : WalkBack(links, first, offset)[m] = order[m + 1]
<1> DEFINE Step(place) == [n \in 0 .. offset |-> IF n = 0 THEN first ELSE links[place[n - 1]].prev]
           walk == WalkBack(links, first, offset)
           right == [n \in 0 .. offset |-> order[n + 1]]
<1>1. right = Step(right)
  <2>1. ASSUME NEW n \in 0 .. offset
        PROVE  order[n + 1] = IF n = 0 THEN first ELSE links[right[n - 1]].prev
    <3>1. CASE n = 0
      BY <3>1
    <3>2. CASE n # 0
      <4>1. n - 1 \in 0 .. offset /\ n \in 1 .. offset /\ (n - 1) + 1 = n
        BY <3>2
      <4>2. right[n - 1] = order[n]
        BY <4>1
      <4> QED
        BY <3>2, <4>1, <4>2
    <3> QED
      BY <3>1, <3>2
  <2> QED
    BY <2>1
<1>2. walk = Step(walk)
  <2> HIDE DEF right
  <2>1. \E place : place = Step(place)
    BY <1>1
  <2> QED
    BY Zenon, <2>1 DEF WalkBack
<1> HIDE DEF walk
<1>3. walk[0] = first /\ \A n \in 1 .. offset : walk[n] = links[walk[n - 1]].prev
  BY <1>2
<1>4. Follows(walk, order, offset)
  BY <1>3 DEF Follows
<1>5. \A n \in 0 .. offset : walk[n] = order[n + 1]
  BY <1>4, StepByStep
<1> QED
  BY <1>5 DEF walk

\* That walk is what a peek takes (BL_Queue.c, lines 186-205).
LEMMA PeekWalks ==
    \A offset : Q!PeakFront(offset) =
        object.slots[Walk(object.slots, object.head, offset)[offset]].element
BY Zenon DEF Q!PeakFront, Walk, Q!slots

\* And from the back.
LEMMA PeekBackWalks ==
    \A offset : Q!PeakBack(offset) =
        object.slots[WalkBack(object.slots, object.tail, offset)[offset]].element
BY Zenon DEF Q!PeakBack, WalkBack, Q!slots

\* A slot of the queue.
Link(any) == [next : Nat, prev : Nat, element : any]

\* The slots of a queue of n elements, in the order of their elements: order[1] is its
\* head and order[n] its tail.  A dequeue's are linked both ways, in a ring.
Ring(n, order) ==
    /\ n \in Nat
    /\ order \in [1 .. n -> Nat]
    /\ \A k, l \in 1 .. n : order[k] = order[l] => k = l
    /\ DOMAIN object.slots = { order[k] : k \in 1 .. n }
    /\ \A k \in 1 .. n : object.slots[order[k]] \in Link(Held)
    /\ n # 0 => object.head = order[1] /\ object.tail = order[n]
    /\ \A k \in 1 .. n - 1 : object.slots[order[k]].next = order[k + 1]
    /\ object.kind = "dequeue" =>
           /\ \A k \in 1 .. n - 1 : object.slots[order[k + 1]].prev = order[k]
           /\ n # 0 => object.slots[order[n]].next = order[1]
              /\ object.slots[order[1]].prev = order[n]

\* Their elements in that order.
Content(n, order) == [k \in 1 .. n |-> object.slots[order[k]].element]

\* The orders that calls make of one.
Alone(z)               == [k \in 1 .. 1 |-> z]
WithLast(n, order, z)  == [k \in 1 .. n + 1 |-> IF k <= n THEN order[k] ELSE z]
WithFirst(n, order, z) == [k \in 1 .. n + 1 |-> IF k = 1 THEN z ELSE order[k - 1]]
ButFirst(n, order)     == [k \in 1 .. n - 1 |-> order[k + 1]]
ButLast(n, order)      == [k \in 1 .. n - 1 |-> order[k]]

\* There is such an order: what links a queue whatever calls were made.
QueueInv ==
    /\ object = [kind |-> object.kind, elementSize |-> object.elementSize,
                 slots |-> object.slots, head |-> object.head, tail |-> object.tail]
    /\ object.kind \in {"queue", "dequeue"}
    /\ \E n, order : Ring(n, order)

\* A queue that was created is empty.
LEMMA QueueInit == Q!Init => QueueInv
<1> SUFFICES ASSUME Q!Init PROVE QueueInv
  OBVIOUS
<1>1. /\ object = [kind |-> object.kind, elementSize |-> object.elementSize,
                   slots |-> object.slots, head |-> object.head, tail |-> object.tail]
      /\ object.kind \in {"queue", "dequeue"} /\ object.slots = <<>>
  BY DEF Q!Init
<1>2. DOMAIN object.slots = {}
  BY <1>1
<1>3. Ring(0, <<>>)
  BY <1>2 DEF Ring
<1> QED
  BY <1>1, <1>2, <1>3 DEF QueueInv

\* There are as many elements as occupied slots.
LEMMA RingSize ==
    ASSUME NEW n, NEW order, Ring(n, order)
    PROVE  Q!Size = n /\ IsFiniteSet(DOMAIN object.slots)
<1>1. n \in Nat /\ DOMAIN object.slots = { order[k] : k \in 1 .. n }
  BY DEF Ring
<1>2. order \in Surjection(1 .. n, DOMAIN object.slots)
  BY DEF Ring, Surjection
<1>3. order \in Injection(1 .. n, DOMAIN object.slots)
  BY <1>2 DEF Ring, Injection, IsInjective, Surjection
<1>4. IsFiniteSet(1 .. n) /\ Cardinality(1 .. n) = n
  BY <1>1, FS_Interval
<1>5. IsFiniteSet(DOMAIN object.slots) /\ Cardinality(DOMAIN object.slots) = n
  BY <1>2, <1>3, <1>4, FS_Surjection
<1> QED
  BY <1>5, SameSizes DEF Q!Size, Q!slots

\* There is a free slot among the first, and one of them is the lowest.
LEMMA SlotIsFree ==
    ASSUME NEW n, NEW order, Ring(n, order)
    PROVE  Q!FreeSlot \in Nat /\ Q!FreeSlot \notin DOMAIN object.slots
<1>1. n \in Nat /\ Q!Size = n /\ IsFiniteSet(DOMAIN object.slots)
  BY RingSize DEF Ring
<1> DEFINE Free == { z \in 0 .. n : z \notin DOMAIN object.slots }
<1>2. Free # {}
  <2> SUFFICES ASSUME Free = {} PROVE FALSE
    OBVIOUS
  <2>1. 0 .. n \in SUBSET DOMAIN object.slots
    OBVIOUS
  <2>2. Cardinality(0 .. n) <= Cardinality(DOMAIN object.slots)
    BY <1>1, <2>1, FS_Subset
  <2>3. Cardinality(0 .. n) = n + 1
    BY <1>1, FS_Interval
  <2>4. Cardinality(DOMAIN object.slots) = n
    BY <1>1, SameSizes DEF Q!Size, Q!slots
  <2> QED
    BY <1>1, <2>2, <2>3, <2>4
<1>3. PICK z \in Free : \A m \in Free : z <= m
  <2>1. Free \in SUBSET Nat
    BY <1>1
  <2> HIDE DEF Free
  <2> QED
    BY <1>2, <2>1, LeastNatural
<1>4. \E m \in 0 .. Q!Size : /\ m \notin DOMAIN Q!slots
                             /\ \A j \in 0 .. Q!Size : j \notin DOMAIN Q!slots => m <= j
  BY <1>1, <1>3 DEF Q!slots
<1>5. Q!FreeSlot \in 0 .. Q!Size /\ Q!FreeSlot \notin DOMAIN Q!slots
  BY <1>4 DEF Q!FreeSlot
<1> QED
  BY <1>1, <1>5 DEF Q!slots

\* What the peeks list is the elements in their order.
LEMMA RingListed ==
    ASSUME NEW n, NEW order, Ring(n, order)
    PROVE  Q!Listed = Content(n, order)
<1>1. n \in Nat /\ Q!Size = n
  BY RingSize DEF Ring
<1>2. ASSUME NEW k \in 1 .. n
      PROVE  Q!PeakFront(k - 1) = object.slots[order[k]].element
  <2> DEFINE m == k - 1
  <2>1. m \in Nat /\ m + 1 = k /\ m \in 0 .. m /\ 1 .. m \subseteq 1 .. n - 1 /\ n # 0
    BY <1>1
  <2> HIDE DEF m
  <2>2. order[1] = object.head /\ \A j \in 1 .. m : object.slots[order[j]].next = order[j + 1]
    BY <2>1 DEF Ring
  <2>3. Walk(object.slots, object.head, m)[m] = order[m + 1]
    BY <2>1, <2>2, WalkFollows
  <2> QED
    BY <2>1, <2>3, PeekWalks DEF m
<1> QED
  BY <1>1, <1>2 DEF Q!Listed, Content

\* Both ways round the ring the elements are the same.
LEMMA RingEnds ==
    ASSUME NEW n, NEW order, Ring(n, order)
    PROVE  Q!EndsAgree
<1>1. n \in Nat /\ Q!Size = n /\ DOMAIN object.slots = { order[k] : k \in 1 .. n }
  BY RingSize DEF Ring
<1>2. Q!Listed = Content(n, order)
  BY RingListed
<1>3. ASSUME object.kind = "dequeue", NEW k \in 1 .. n
      PROVE  Q!PeakBack(n - k) = object.slots[order[k]].element
  <2> DEFINE m == n - k
             turned == [j \in 1 .. n |-> order[n + 1 - j]]
  <2>1. m \in Nat /\ n # 0 /\ m + 1 \in 1 .. n /\ n + 1 - (m + 1) = k /\ m \in 0 .. m
    BY <1>1
  <2>2. turned[1] = object.tail
    <3>1. 1 \in 1 .. n /\ n + 1 - 1 = n
      BY <1>1, <2>1
    <3>2. object.tail = order[n]
      BY <2>1 DEF Ring
    <3> QED
      BY <3>1, <3>2
  <2>3. ASSUME NEW j \in 1 .. m
        PROVE  object.slots[turned[j]].prev = turned[j + 1]
    <3>1. j \in 1 .. n /\ j + 1 \in 1 .. n /\ n + 1 - j = (n - j) + 1 /\ n + 1 - (j + 1) = n - j
          /\ n - j \in 1 .. n - 1
      BY <1>1
    <3>2. object.slots[order[(n - j) + 1]].prev = order[n - j]
      BY <1>3, <3>1 DEF Ring
    <3> QED
      BY <3>1, <3>2
  <2>4. turned[m + 1] = order[k]
    BY <2>1
  <2> HIDE DEF m, turned
  <2>5. WalkBack(object.slots, object.tail, m)[m] = turned[m + 1]
    BY <2>1, <2>2, <2>3, WalkBackFollows
  <2> QED
    BY <2>4, <2>5, PeekBackWalks DEF m
<1>4. object.kind = "queue" => Q!QueuePeakBack = (IF n = 0 THEN NULL ELSE Q!Listed[n])
  <2>1. CASE n = 0
    <3>1. object.tail \notin DOMAIN object.slots
      BY <1>1, <2>1
    <3> QED
      BY <2>1, <3>1 DEF Q!QueuePeakBack, Q!slots
  <2>2. CASE n # 0
    <3>1. object.tail = order[n] /\ n \in 1 .. n
      BY <1>1, <2>2 DEF Ring
    <3> QED
      BY <1>1, <1>2, <2>2, <3>1 DEF Q!QueuePeakBack, Q!slots, Content
  <2> QED
    BY <2>1, <2>2
<1> QED
  BY <1>1, <1>2, <1>3, <1>4 DEF Q!EndsAgree, Content

\* The first element is linked to itself.
LEMMA LoneRing ==
    ASSUME NEW x \in Held, NEW z \in Nat, DOMAIN object'.slots = {z},
           object'.slots[z] = [next |-> z, prev |-> z, element |-> x],
           object'.head = z, object'.tail = z
    PROVE  Ring(1, Alone(z))'
BY DEF Ring, Link, Alone

\* A slot that is put between the tail and the head, at either of these.
Inserted(n, order, z, x) ==
    /\ n # 0 /\ z \in Nat /\ z \notin DOMAIN object.slots /\ x \in Held
    /\ object'.kind = object.kind
    /\ DOMAIN object'.slots = DOMAIN object.slots \union {z}
    /\ object'.slots[z] = [next |-> order[1], prev |-> order[n], element |-> x]
    /\ \A k \in 1 .. n :
         LET old == object.slots[order[k]]
             new == object'.slots[order[k]]
         IN  /\ new \in Link(Held) /\ new.element = old.element
             /\ new.next = IF k = n THEN z ELSE old.next
             /\ object.kind = "dequeue" => new.prev = IF k = 1 THEN z ELSE old.prev

\* Put at the back it is the last of the order.
LEMMA BackRing ==
    ASSUME NEW n, NEW order, Ring(n, order), NEW z, NEW x, Inserted(n, order, z, x),
           object'.head = order[1], object'.tail = z
    PROVE  Ring(n + 1, WithLast(n, order, z))'
<1> DEFINE longer == [k \in 1 .. n + 1 |-> IF k <= n THEN order[k] ELSE z]
<1>1. /\ n \in Nat \ {0} /\ n + 1 \in Nat /\ z \in Nat /\ order \in [1 .. n -> Nat]
      /\ DOMAIN object.slots = { order[k] : k \in 1 .. n }
      /\ \A k, l \in 1 .. n : order[k] = order[l] => k = l
  BY DEF Ring, Inserted
<1>2. \A k \in 1 .. n : longer[k] = order[k] /\ order[k] # z
  BY <1>1 DEF Inserted
<1>3. longer[n + 1] = z /\ longer \in [1 .. n + 1 -> Nat]
  BY <1>1
<1> HIDE DEF longer
<1>4. \A k \in 1 .. n + 1 : k \in 1 .. n \/ k = n + 1
  BY <1>1
<1>5. \A k, l \in 1 .. n + 1 : longer[k] = longer[l] => k = l
  BY <1>1, <1>2, <1>3, <1>4
<1>6. DOMAIN object'.slots = { longer[k] : k \in 1 .. n + 1 }
  BY <1>1, <1>2, <1>3, <1>4 DEF Inserted
<1>7. \A k \in 1 .. n + 1 : object'.slots[longer[k]] \in Link(Held)
  <2>1. object'.slots[z] \in Link(Held)
    BY <1>1 DEF Inserted, Link
  <2> QED
    BY <1>2, <1>3, <1>4, <2>1 DEF Inserted
<1>8. object'.head = longer[1] /\ object'.tail = longer[n + 1]
  BY <1>1, <1>2, <1>3
<1>9. \A k \in 1 .. n : object'.slots[longer[k]].next = longer[k + 1]
  <2>1. ASSUME NEW k \in 1 .. n, k # n
        PROVE  object'.slots[longer[k]].next = longer[k + 1]
    <3>1. k \in 1 .. n - 1 /\ k + 1 \in 1 .. n
      BY <1>1, <2>1
    <3>2. object.slots[order[k]].next = order[k + 1]
      BY <3>1 DEF Ring
    <3> QED
      BY <1>2, <2>1, <3>1, <3>2 DEF Inserted
  <2>2. object'.slots[longer[n]].next = longer[n + 1]
    BY <1>1, <1>2, <1>3 DEF Inserted
  <2> QED
    BY <2>1, <2>2
<1>10. ASSUME object.kind = "dequeue"
       PROVE  /\ \A k \in 1 .. n : object'.slots[longer[k + 1]].prev = longer[k]
              /\ object'.slots[longer[n + 1]].next = longer[1]
              /\ object'.slots[longer[1]].prev = longer[n + 1]
  <2>1. ASSUME NEW k \in 1 .. n, k # n
        PROVE  object'.slots[longer[k + 1]].prev = longer[k]
    <3>1. k \in 1 .. n - 1 /\ k + 1 \in 1 .. n /\ k + 1 # 1
      BY <1>1, <2>1
    <3>2. object.slots[order[k + 1]].prev = order[k]
      BY <1>10, <3>1 DEF Ring
    <3> QED
      BY <1>2, <1>10, <2>1, <3>1, <3>2 DEF Inserted
  <2>2. object'.slots[longer[n + 1]].prev = longer[n]
        /\ object'.slots[longer[n + 1]].next = longer[1]
    BY <1>1, <1>2, <1>3 DEF Inserted
  <2>3. object'.slots[longer[1]].prev = longer[n + 1]
    BY <1>1, <1>2, <1>3, <1>10 DEF Inserted
  <2> QED
    BY <2>1, <2>2, <2>3
<1>11. (n + 1) - 1 = n
  BY <1>1
<1>12. object'.kind = object.kind
  BY DEF Inserted
<1> DEFINE m == n + 1
<1>13. m \in Nat /\ m # 0 /\ m - 1 = n
  BY <1>1
<1> HIDE DEF m
<1>14. Ring(m, longer)'
  BY <1>3, <1>5, <1>6, <1>7, <1>8, <1>9, <1>10, <1>12, <1>13 DEF Ring, m
<1> QED
  BY <1>14 DEF longer, m, WithLast

\* Put at the front it is the first of the order.
LEMMA FrontRing ==
    ASSUME NEW n, NEW order, Ring(n, order), NEW z, NEW x, Inserted(n, order, z, x),
           object.kind = "dequeue", object'.head = z, object'.tail = order[n]
    PROVE  Ring(n + 1, WithFirst(n, order, z))'
<1> DEFINE longer == [k \in 1 .. n + 1 |-> IF k = 1 THEN z ELSE order[k - 1]]
<1>1. /\ n \in Nat \ {0} /\ n + 1 \in Nat /\ z \in Nat /\ order \in [1 .. n -> Nat]
      /\ DOMAIN object.slots = { order[k] : k \in 1 .. n }
      /\ \A k, l \in 1 .. n : order[k] = order[l] => k = l
  BY DEF Ring, Inserted
<1>2. \A k \in 1 .. n : longer[k + 1] = order[k] /\ order[k] # z
  <2>1. \A k \in 1 .. n : k + 1 \in 1 .. n + 1 /\ k + 1 # 1 /\ (k + 1) - 1 = k
    BY <1>1
  <2> QED
    BY <1>1, <2>1 DEF Inserted
<1>3. longer[1] = z /\ longer \in [1 .. n + 1 -> Nat]
  <2>1. ASSUME NEW k \in 1 .. n + 1
        PROVE  (IF k = 1 THEN z ELSE order[k - 1]) \in Nat
    <3>1. k # 1 => k - 1 \in 1 .. n
      BY <1>1
    <3> QED
      BY <1>1, <3>1
  <2> QED
    BY <1>1, <2>1
<1> HIDE DEF longer
<1>4. \A k \in 1 .. n + 1 : k = 1 \/ \E l \in 1 .. n : k = l + 1
  <2>1. ASSUME NEW k \in 1 .. n + 1, k # 1
        PROVE  k - 1 \in 1 .. n /\ k = (k - 1) + 1
    BY <1>1, <2>1
  <2> QED
    BY <2>1
<1>5. \A k, l \in 1 .. n + 1 : longer[k] = longer[l] => k = l
  <2>1. ASSUME NEW k \in 1 .. n + 1, NEW l \in 1 .. n + 1, longer[k] = longer[l]
        PROVE  k = l
    <3>1. CASE k = 1 \/ l = 1
      BY <1>2, <1>3, <1>4, <2>1, <3>1
    <3>2. CASE k # 1 /\ l # 1
      <4>1. PICK p \in 1 .. n, q \in 1 .. n : k = p + 1 /\ l = q + 1
        BY <1>4, <3>2
      <4>2. order[p] = order[q]
        BY <1>2, <2>1, <4>1
      <4> QED
        BY <1>1, <4>1, <4>2
    <3> QED
      BY <3>1, <3>2
  <2> QED
    BY <2>1
<1>6. DOMAIN object'.slots = { longer[k] : k \in 1 .. n + 1 }
  <2>1. \A j : j \in { longer[k] : k \in 1 .. n + 1 } <=> j = z \/ \E l \in 1 .. n : j = order[l]
    <3>1. 1 \in 1 .. n + 1 /\ \A l \in 1 .. n : l + 1 \in 1 .. n + 1
      BY <1>1
    <3>2. ASSUME NEW k \in 1 .. n + 1
          PROVE  longer[k] = z \/ \E l \in 1 .. n : longer[k] = order[l]
      BY <1>2, <1>3, <1>4
    <3>3. z \in { longer[k] : k \in 1 .. n + 1 }
      BY <1>3, <3>1
    <3>4. \A l \in 1 .. n : order[l] \in { longer[k] : k \in 1 .. n + 1 }
      BY <1>2, <3>1
    <3>5. ASSUME NEW j \in { longer[k] : k \in 1 .. n + 1 }
          PROVE  j = z \/ \E l \in 1 .. n : j = order[l]
      <4>1. PICK k \in 1 .. n + 1 : j = longer[k]
        OBVIOUS
      <4> QED
        BY <3>2, <4>1
    <3> QED
      BY Zenon, <3>3, <3>4, <3>5
  <2>2. \A j : j \in DOMAIN object'.slots <=> j = z \/ \E l \in 1 .. n : j = order[l]
    BY <1>1 DEF Inserted
  <2> QED
    BY <2>1, <2>2
<1>7. \A k \in 1 .. n + 1 : object'.slots[longer[k]] \in Link(Held)
  <2>1. object'.slots[z] \in Link(Held)
    BY <1>1 DEF Inserted, Link
  <2> QED
    BY <1>2, <1>3, <1>4, <2>1 DEF Inserted
<1>8. object'.head = longer[1] /\ object'.tail = longer[n + 1]
  BY <1>1, <1>2, <1>3
<1>9. \A k \in 1 .. n : object'.slots[longer[k]].next = longer[k + 1]
  <2>1. ASSUME NEW k \in 1 .. n, k # 1
        PROVE  object'.slots[longer[k]].next = longer[k + 1]
    <3>1. PICK l \in 1 .. n : k = l + 1
      BY <1>1, <1>4, <2>1
    <3>2. l \in 1 .. n - 1 /\ l # n /\ k \in 1 .. n
      BY <1>1, <3>1
    <3>3. object.slots[order[l]].next = order[l + 1]
      BY <3>2 DEF Ring
    <3> QED
      BY <1>2, <3>1, <3>2, <3>3 DEF Inserted
  <2>2. object'.slots[longer[1]].next = longer[1 + 1]
    BY <1>1, <1>2, <1>3 DEF Inserted
  <2> QED
    BY <2>1, <2>2
<1>10. \A k \in 1 .. n : object'.slots[longer[k + 1]].prev = longer[k]
  <2>1. ASSUME NEW k \in 1 .. n, k # 1
        PROVE  object'.slots[longer[k + 1]].prev = longer[k]
    <3>1. PICK l \in 1 .. n : k = l + 1
      BY <1>1, <1>4, <2>1
    <3>2. l \in 1 .. n - 1 /\ k \in 1 .. n
      BY <1>1, <3>1
    <3>3. object.slots[order[l + 1]].prev = order[l]
      BY <3>2 DEF Ring
    <3> QED
      BY <1>2, <2>1, <3>1, <3>2, <3>3 DEF Inserted
  <2>2. object'.slots[longer[1 + 1]].prev = longer[1]
    BY <1>1, <1>2, <1>3 DEF Inserted
  <2> QED
    BY <2>1, <2>2
<1>11. object'.slots[longer[n + 1]].next = longer[1]
       /\ object'.slots[longer[1]].prev = longer[n + 1]
  BY <1>1, <1>2, <1>3 DEF Inserted
<1>12. object'.kind = object.kind
  BY DEF Inserted
<1> DEFINE m == n + 1
<1>13. m \in Nat /\ m # 0 /\ m - 1 = n
  BY <1>1
<1> HIDE DEF m
<1>14. Ring(m, longer)'
  BY <1>3, <1>5, <1>6, <1>7, <1>8, <1>9, <1>10, <1>11, <1>12, <1>13 DEF Ring, m
<1> QED
  BY <1>14 DEF longer, m, WithFirst

\* A slot that is taken out at the head, and at the tail of a dequeue.
RemovedFront(n, order) ==
    /\ n # 0
    /\ object'.kind = object.kind /\ object'.tail = object.tail
    /\ object'.head = object.slots[order[1]].next
    /\ DOMAIN object'.slots = DOMAIN object.slots \ {order[1]}
    /\ \A k \in 2 .. n :
         LET old == object.slots[order[k]]
             new == object'.slots[order[k]]
         IN  /\ new \in Link(Held) /\ new.element = old.element
             /\ k # n => new.next = old.next
             /\ object.kind = "dequeue" =>
                  /\ k = n => new.next = order[2]
                  /\ new.prev = IF k = 2 THEN order[n] ELSE old.prev

RemovedBack(n, order) ==
    /\ n # 0
    /\ object'.kind = object.kind /\ object'.head = object.head
    /\ object'.tail = object.slots[order[n]].prev
    /\ DOMAIN object'.slots = DOMAIN object.slots \ {order[n]}
    /\ \A k \in 1 .. n - 1 :
         LET old == object.slots[order[k]]
             new == object'.slots[order[k]]
         IN  /\ new \in Link(Held) /\ new.element = old.element
             /\ new.next = IF k = n - 1 THEN order[1] ELSE old.next
             /\ new.prev = IF k = 1 THEN order[n - 1] ELSE old.prev

\* Without the head the order is the rest of it.
LEMMA RestRing ==
    ASSUME NEW n, NEW order, Ring(n, order), RemovedFront(n, order)
    PROVE  Ring(n - 1, ButFirst(n, order))'
<1> DEFINE m == n - 1
           rest == [k \in 1 .. m |-> order[k + 1]]
<1>1. /\ n \in Nat \ {0} /\ order \in [1 .. n -> Nat]
      /\ DOMAIN object.slots = { order[k] : k \in 1 .. n }
      /\ \A k, l \in 1 .. n : order[k] = order[l] => k = l
  BY DEF Ring, RemovedFront
<1>2. m \in Nat /\ n = m + 1 /\ \A k \in 1 .. m : k + 1 \in 2 .. n /\ k + 1 \in 1 .. n
  BY <1>1
<1> HIDE DEF m
<1>3. rest \in [1 .. m -> Nat] /\ \A k \in 1 .. m : rest[k] = order[k + 1]
  BY <1>1, <1>2
<1> HIDE DEF rest
<1>4. \A k, l \in 1 .. m : rest[k] = rest[l] => k = l
  <2>1. ASSUME NEW k \in 1 .. m, NEW l \in 1 .. m, rest[k] = rest[l]
        PROVE  k + 1 = l + 1
    BY <1>1, <1>2, <1>3, <2>1
  <2> QED
    BY <2>1
<1>5. DOMAIN object'.slots = { rest[k] : k \in 1 .. m }
  <2>1. \A k \in 1 .. n : k = 1 \/ \E l \in 1 .. m : k = l + 1
    <3>1. ASSUME NEW k \in 1 .. n, k # 1
          PROVE  k - 1 \in 1 .. m /\ k = (k - 1) + 1
      BY <1>2, <3>1
    <3> QED
      BY <3>1
  <2>2. \A j : j \in { rest[k] : k \in 1 .. m } <=> \E l \in 1 .. m : j = order[l + 1]
    BY <1>3
  <2>3. \A l \in 1 .. m : order[l + 1] # order[1]
    <3>1. \A l \in 1 .. m : l + 1 # 1
      BY <1>2
    <3>2. 1 \in 1 .. n
      BY <1>1
    <3> QED
      BY <1>1, <1>2, <3>1, <3>2
  <2>4. \A j : j \in DOMAIN object'.slots <=> (\E k \in 1 .. n : j = order[k]) /\ j # order[1]
    BY <1>1 DEF RemovedFront
  <2>5. \A j : j \in DOMAIN object'.slots <=> \E l \in 1 .. m : j = order[l + 1]
    BY <1>2, <2>1, <2>3, <2>4
  <2>6. \A j : j \in DOMAIN object'.slots <=> j \in { rest[k] : k \in 1 .. m }
    BY <2>2, <2>5
  <2> QED
    BY <2>6
<1>6. \A k \in 1 .. m : object'.slots[rest[k]] \in Link(Held)
  BY <1>2, <1>3 DEF RemovedFront
<1>7. m # 0 => object'.head = rest[1] /\ object'.tail = rest[m]
  <2>1. ASSUME m # 0
        PROVE  1 \in 1 .. n - 1 /\ 1 \in 1 .. m /\ m \in 1 .. m /\ n # 0
    BY <1>2, <2>1
  <2>2. m # 0 => object.slots[order[1]].next = order[1 + 1]
    BY <2>1 DEF Ring
  <2>3. m # 0 => object.tail = order[n]
    BY <2>1 DEF Ring
  <2> QED
    BY <1>2, <1>3, <2>1, <2>2, <2>3 DEF RemovedFront
<1>8. \A k \in 1 .. m - 1 : object'.slots[rest[k]].next = rest[k + 1]
  <2> TAKE k \in 1 .. m - 1
  <2>1. k \in 1 .. m /\ k + 1 \in 1 .. m /\ k + 1 # n /\ k + 1 \in 1 .. n - 1 /\ k + 1 \in 2 .. n
    BY <1>2
  <2>2. object.slots[order[k + 1]].next = order[(k + 1) + 1]
    BY <2>1 DEF Ring
  <2> QED
    BY <1>3, <2>1, <2>2 DEF RemovedFront
<1>9. ASSUME object.kind = "dequeue"
      PROVE  /\ \A k \in 1 .. m - 1 : object'.slots[rest[k + 1]].prev = rest[k]
             /\ m # 0 => object'.slots[rest[m]].next = rest[1]
                /\ object'.slots[rest[1]].prev = rest[m]
  <2>1. ASSUME NEW k \in 1 .. m - 1
        PROVE  object'.slots[rest[k + 1]].prev = rest[k]
    <3>1. /\ k \in 1 .. m /\ k + 1 \in 1 .. m /\ (k + 1) + 1 # 2
          /\ k + 1 \in 1 .. n - 1 /\ (k + 1) + 1 \in 2 .. n
      BY <1>2
    <3>2. object.slots[order[(k + 1) + 1]].prev = order[k + 1]
      BY <1>9, <3>1 DEF Ring
    <3> QED
      BY <1>3, <1>9, <3>1, <3>2 DEF RemovedFront
  <2>2. ASSUME m # 0
        PROVE  object'.slots[rest[m]].next = rest[1] /\ object'.slots[rest[1]].prev = rest[m]
    <3>1. 1 \in 1 .. m /\ m \in 1 .. m /\ n \in 2 .. n /\ 2 \in 2 .. n
      BY <1>2, <2>2
    <3>2. rest[1] = order[2] /\ rest[m] = order[n]
      BY <1>2, <1>3, <3>1
    <3> QED
      BY <1>9, <3>1, <3>2 DEF RemovedFront
  <2> QED
    BY <2>1, <2>2
<1>10. object'.kind = object.kind
  BY DEF RemovedFront
<1>11. Ring(m, rest)'
  BY <1>2, <1>3, <1>4, <1>5, <1>6, <1>7, <1>8, <1>9, <1>10 DEF Ring
<1> QED
  BY <1>11 DEF rest, m, ButFirst

\* Without the tail the order is all but the last of it.
LEMMA FirstRing ==
    ASSUME NEW n, NEW order, Ring(n, order), object.kind = "dequeue", RemovedBack(n, order)
    PROVE  Ring(n - 1, ButLast(n, order))'
<1> DEFINE m == n - 1
           rest == [k \in 1 .. m |-> order[k]]
<1>1. /\ n \in Nat \ {0} /\ order \in [1 .. n -> Nat]
      /\ DOMAIN object.slots = { order[k] : k \in 1 .. n }
      /\ \A k, l \in 1 .. n : order[k] = order[l] => k = l
  BY DEF Ring, RemovedBack
<1>2. m \in Nat /\ n = m + 1 /\ n - 1 = m /\ \A k \in 1 .. m : k \in 1 .. n /\ k # n
  BY <1>1
<1> HIDE DEF m
<1>3. rest \in [1 .. m -> Nat] /\ \A k \in 1 .. m : rest[k] = order[k]
  BY <1>1, <1>2
<1> HIDE DEF rest
<1>4. \A k, l \in 1 .. m : rest[k] = rest[l] => k = l
  BY <1>1, <1>2, <1>3
<1>5. DOMAIN object'.slots = { rest[k] : k \in 1 .. m }
  <2>1. \A k \in 1 .. n : k = n \/ k \in 1 .. m
    BY <1>2
  <2>2. \A j : j \in { rest[k] : k \in 1 .. m } <=> \E l \in 1 .. m : j = order[l]
    BY <1>3
  <2>3. \A l \in 1 .. m : order[l] # order[n]
    BY <1>1, <1>2
  <2>4. \A j : j \in DOMAIN object'.slots <=> (\E k \in 1 .. n : j = order[k]) /\ j # order[n]
    BY <1>1 DEF RemovedBack
  <2>5. \A j : j \in DOMAIN object'.slots <=> \E l \in 1 .. m : j = order[l]
    BY <1>2, <2>1, <2>3, <2>4
  <2>6. \A j : j \in DOMAIN object'.slots <=> j \in { rest[k] : k \in 1 .. m }
    BY <2>2, <2>5
  <2> QED
    BY <2>6
<1>6. \A k \in 1 .. m : object'.slots[rest[k]] \in Link(Held)
  BY <1>2, <1>3 DEF RemovedBack
<1>7. m # 0 => object'.head = rest[1] /\ object'.tail = rest[m]
  <2>1. ASSUME m # 0
        PROVE  1 \in 1 .. m /\ m \in 1 .. m /\ m \in 1 .. n - 1 /\ n # 0
    BY <1>2, <2>1
  <2>2. m # 0 => object.slots[order[n]].prev = order[m]
    BY <1>2, <2>1 DEF Ring
  <2>3. m # 0 => object.head = order[1]
    BY <2>1 DEF Ring
  <2> QED
    BY <1>2, <1>3, <2>1, <2>2, <2>3 DEF RemovedBack
<1>8. ASSUME NEW k \in 1 .. m - 1
      PROVE  /\ object'.slots[rest[k]].next = rest[k + 1]
             /\ object'.slots[rest[k + 1]].prev = rest[k]
  <2>1. k \in 1 .. m /\ k + 1 \in 1 .. m /\ k # m /\ k \in 1 .. n - 1 /\ k + 1 \in 1 .. n - 1
        /\ k + 1 # 1
    BY <1>2
  <2>2. object.slots[order[k]].next = order[k + 1] /\ object.slots[order[k + 1]].prev = order[k]
    BY <2>1 DEF Ring
  <2> QED
    BY <1>2, <1>3, <2>1, <2>2 DEF RemovedBack
<1>9. m # 0 => object'.slots[rest[m]].next = rest[1] /\ object'.slots[rest[1]].prev = rest[m]
  <2>1. ASSUME m # 0
        PROVE  1 \in 1 .. m /\ m \in 1 .. m
    BY <1>2, <2>1
  <2> QED
    BY <1>2, <1>3, <2>1 DEF RemovedBack
<1>10. object'.kind = object.kind
  BY DEF RemovedBack
<1>11. Ring(m, rest)'
  BY <1>2, <1>3, <1>4, <1>5, <1>6, <1>7, <1>8, <1>9, <1>10 DEF Ring
<1> QED
  BY <1>11 DEF rest, m, ButLast

\* The parts of a list that an operation takes.
LEMMA AddedLast ==
    ASSUME NEW Items, NEW s \in Seq(Items), NEW n \in Nat, Len(s) = n, NEW x \in Items
    PROVE  SubSeq(s, 1, n) \o <<x>> \o SubSeq(s, n + 1, Len(s))
             = [k \in 1 .. n + 1 |-> IF k <= n THEN s[k] ELSE x]
<1>1. SubSeq(s, 1, n) = s
  BY SubSeqFull
<1>2. SubSeq(s, n + 1, Len(s)) = <<>>
  <2> DEFINE m == n + 1
  <2>1. m \in Int /\ n \in Int /\ n < m
    OBVIOUS
  <2> HIDE DEF m
  <2>2. SubSeq(s, m, n) = <<>>
    BY <2>1, SubSeqEmpty
  <2> QED
    BY <2>2 DEF m
<1>3. s \o <<x>> = Append(s, x)
  BY AppendIsConcat
<1> DEFINE longer == Append(s, x)
<1>4. /\ longer \in Seq(Items) /\ Len(longer) = Len(s) + 1
      /\ \A k \in 1 .. Len(s) : longer[k] = s[k]
      /\ longer[Len(s) + 1] = x
  BY AppendProperties
<1> HIDE DEF longer
<1>5. longer \o <<>> = longer
  BY <1>4, ConcatEmptySeq
<1>6. longer = [k \in 1 .. n + 1 |-> longer[k]]
  BY <1>4
<1>7. \A k \in 1 .. n + 1 : longer[k] = IF k <= n THEN s[k] ELSE x
  <2>1. \A k \in 1 .. n + 1 : k \in 1 .. n \/ (k = n + 1 /\ ~(k <= n))
    OBVIOUS
  <2> QED
    BY <1>4, <2>1
<1> QED
  BY <1>1, <1>2, <1>3, <1>5, <1>6, <1>7 DEF longer

\* The same at the front.
LEMMA AddedFirst ==
    ASSUME NEW Items, NEW s \in Seq(Items), NEW n \in Nat, Len(s) = n, NEW x \in Items
    PROVE  SubSeq(s, 1, 0) \o <<x>> \o SubSeq(s, 0 + 1, Len(s))
             = [k \in 1 .. n + 1 |-> IF k = 1 THEN x ELSE s[k - 1]]
<1>1. SubSeq(s, 1, Len(s)) = s
  BY SubSeqFull
<1>2. SubSeq(s, 1, 0) = <<>>
  BY SubSeqEmpty
<1> DEFINE one == <<x>>
           longer == one \o s
<1>3. one \in Seq(Items) /\ Len(one) = 1 /\ one[1] = x
  OBVIOUS
<1> HIDE DEF one
<1>4. <<>> \o one = one
  BY <1>3, ConcatEmptySeq
<1>5. /\ longer \in Seq(Items) /\ Len(longer) = Len(one) + Len(s)
      /\ \A k \in 1 .. Len(one) + Len(s) :
            longer[k] = IF k <= Len(one) THEN one[k] ELSE s[k - Len(one)]
  BY <1>3, ConcatProperties
<1> HIDE DEF longer
<1>6. Len(one) + Len(s) = n + 1
  BY <1>3
<1>7. longer = [k \in 1 .. n + 1 |-> longer[k]]
  BY <1>5, <1>6
<1>8. \A k \in 1 .. n + 1 : longer[k] = IF k = 1 THEN x ELSE s[k - 1]
  <2>1. \A k \in 1 .. n + 1 : k <= Len(one) <=> k = 1
    BY <1>3
  <2> QED
    BY <1>3, <1>5, <1>6, <2>1
<1>9. 0 + 1 = 1
  OBVIOUS
<1> QED
  BY <1>1, <1>2, <1>4, <1>7, <1>8, <1>9 DEF longer, one

\* The same for an element that is taken from the front.
LEMMA CutFirst ==
    ASSUME NEW Items, NEW s \in Seq(Items), NEW n \in Nat \ {0}, Len(s) = n
    PROVE  SubSeq(s, 1, 0) \o SubSeq(s, 0 + 2, Len(s)) = [k \in 1 .. n - 1 |-> s[k + 1]]
<1> DEFINE rest == SubSeq(s, 2, n)
           m == n - 1
<1>1. SubSeq(s, 1, 0) = <<>>
  BY SubSeqEmpty
<1>2. 2 <= n + 1 /\ n - 2 + 1 = m /\ 0 + 2 = 2 /\ m \in Nat
  OBVIOUS
<1> HIDE DEF m
<1>3. rest \in Seq(Items) /\ Len(rest) = m /\ \A k \in 1 .. m : rest[k] = s[2 + k - 1]
  BY <1>2, Part
<1> HIDE DEF rest
<1>4. <<>> \o rest = rest
  BY <1>3, ConcatEmptySeq
<1>5. rest = [k \in 1 .. m |-> rest[k]]
  BY <1>2, <1>3
<1>6. \A k \in 1 .. m : rest[k] = s[k + 1]
  <2>1. \A k \in 1 .. m : 2 + k - 1 = k + 1
    BY <1>2
  <2> QED
    BY <1>3, <2>1
<1> QED
  BY <1>1, <1>2, <1>4, <1>5, <1>6 DEF rest, m

\* The same for an element that is taken from the back.
LEMMA CutLast ==
    ASSUME NEW Items, NEW s \in Seq(Items), NEW n \in Nat \ {0}, Len(s) = n
    PROVE  SubSeq(s, 1, n - 1) \o SubSeq(s, n - 1 + 2, Len(s)) = [k \in 1 .. n - 1 |-> s[k]]
<1> DEFINE m == n - 1
           l == n - 1 + 2
           rest == SubSeq(s, 1, m)
<1>1. m \in Nat /\ m - 1 + 1 = m /\ 1 <= m + 1 /\ m <= n /\ l \in Int /\ n \in Int /\ n < l
  OBVIOUS
<1> HIDE DEF m, l
<1>2. SubSeq(s, l, n) = <<>>
  BY <1>1, SubSeqEmpty
<1>3. rest \in Seq(Items) /\ Len(rest) = m - 1 + 1 /\ \A k \in 1 .. m - 1 + 1 : rest[k] = s[1 + k - 1]
  BY <1>1, Part
<1> HIDE DEF rest
<1>4. rest \o <<>> = rest
  BY <1>3, ConcatEmptySeq
<1>5. rest = [k \in 1 .. m |-> rest[k]]
  BY <1>1, <1>3
<1>6. \A k \in 1 .. m : rest[k] = s[k]
  <2>1. \A k \in 1 .. m : 1 + k - 1 = k
    BY <1>1
  <2> QED
    BY <1>1, <1>3, <2>1
<1> QED
  BY <1>2, <1>4, <1>5, <1>6 DEF rest, m, l

\* All that the order of a queue's slots says of what a client sees, before a call and after.
LEMMA RingSays ==
    \A n, order : Ring(n, order) =>
        /\ n \in Nat /\ Q!Size = n
        /\ Q!Listed = Content(n, order)
<1>1. SUFFICES ASSUME NEW n, NEW order, Ring(n, order)
               PROVE  /\ n \in Nat /\ Q!Size = n
                      /\ Q!Listed = Content(n, order)
  OBVIOUS
<1>2. n \in Nat
  BY <1>1 DEF Ring
<1> QED
  BY <1>1, <1>2, RingSize, RingListed

\* The same after the call.
LEMMA RingSaysThen ==
    (\A n, order : Ring(n, order) =>
        /\ n \in Nat /\ Q!Size = n
        /\ Q!Listed = Content(n, order))'
BY RingSays, PTL

\* The record of a queue that a call leaves.
LEMMA QueueBecomes ==
    ASSUME QueueInv, NEW links, NEW first, NEW last, Q!Links(links, first, last)
    PROVE  /\ object'.kind = object.kind /\ object'.slots = links
           /\ object'.head = first /\ object'.tail = last
           /\ (\E n, order : Ring(n, order)') => QueueInv'
BY DEF QueueInv, Q!Links

\* What a list of the slots' elements is.
LEMMA ListedIsList ==
    ASSUME NEW n, NEW order, Ring(n, order)
    PROVE  Q!Listed \in Seq(Held) /\ Len(Q!Listed) = n
<1>1. n \in Nat /\ Q!Listed = Content(n, order)
  BY RingSays
<1>2. \A k \in 1 .. n : object.slots[order[k]].element \in Held
  BY DEF Ring, Link
<1> QED
  BY <1>1, <1>2 DEF Content

\* The first element of a queue is put in.
LEMMA LoneStep ==
    ASSUME QueueInv, NEW x \in Held, Q!Lone(x)
    PROVE  /\ QueueInv' /\ Q!Size = 0
           /\ Q!L!Splice(Q!Size, <<x>>) /\ Q!L!Splice(0, <<x>>)
<1>1. PICK n, order : Ring(n, order)
  BY DEF QueueInv
<1>0. PICK z : z = Q!FreeSlot
  OBVIOUS
<1> DEFINE slot == [next |-> z, prev |-> z, element |-> x]
           links == Q!PutInSlot(z, slot, object.slots)
           one == Alone(z)
<1>2. n = 0 /\ Q!Size = 0 /\ z \in Nat /\ DOMAIN object.slots = {}
  <2>1. n \in Nat /\ Q!Size = n
    BY <1>1, RingSize DEF Ring
  <2>2. Q!Size = 0
    BY DEF Q!Lone
  <2>3. z \in Nat
    BY <1>0, <1>1, SlotIsFree
  <2>4. n = 0 => DOMAIN object.slots = {}
    BY <1>1 DEF Ring
  <2> QED
    BY <2>1, <2>2, <2>3, <2>4
<1>3. DOMAIN links = {z} /\ links[z] = slot
  BY <1>2 DEF Q!PutInSlot
<1>4. Q!Links(links, z, z)
  BY <1>0 DEF Q!Lone, Q!slots
<1> HIDE DEF links
<1>5. /\ object'.slots = links /\ object'.head = z /\ object'.tail = z
      /\ (\E m, o : Ring(m, o)') => QueueInv'
  BY <1>4, QueueBecomes
<1>6. Ring(1, one)'
  BY <1>2, <1>3, <1>5, LoneRing
<1>7. QueueInv'
  BY <1>5, <1>6
<1>8. Q!Listed' = Content(1, one)'
  BY <1>6, RingSaysThen
<1>9. Q!Listed' = [k \in 1 .. 1 |-> x]
  BY <1>3, <1>5, <1>8 DEF Content, Alone
<1>10. Q!Listed \in Seq(Held) /\ Len(Q!Listed) = 0
  BY <1>1, <1>2, ListedIsList
<1>11. SubSeq(Q!Listed, 1, 0) \o <<x>> \o SubSeq(Q!Listed, 0 + 1, Len(Q!Listed))
         = [k \in 1 .. 0 + 1 |-> IF k <= 0 THEN Q!Listed[k] ELSE x]
  BY <1>10, AddedLast
<1>12. [k \in 1 .. 0 + 1 |-> IF k <= 0 THEN Q!Listed[k] ELSE x] = [k \in 1 .. 1 |-> x]
  OBVIOUS
<1> QED
  BY <1>2, <1>7, <1>9, <1>11, <1>12 DEF Q!L!Splice

\* A slot put into the ring.
LEMMA RingedIsInserted ==
    ASSUME QueueInv, NEW n, NEW order, Ring(n, order), n # 0, NEW x \in Held,
           NEW links, NEW first, NEW last, Q!Links(links, first, last),
           \/ links = Q!Ringed(x)
           \/ /\ object.kind = "queue"
              /\ links = Q!PutInSlot(Q!FreeSlot, Q!Between(x),
                                     [object.slots EXCEPT ![object.tail].next = Q!FreeSlot])
    PROVE  Inserted(n, order, Q!FreeSlot, x)
<1> DEFINE z == Q!FreeSlot
           new == [next |-> order[1], prev |-> order[n], element |-> x]
           Then(j) == [next |-> IF j = order[n] THEN z ELSE object.slots[j].next,
                       prev |-> IF links = Q!Ringed(x) /\ j = order[1] THEN z
                         ELSE object.slots[j].prev,
                       element |-> object.slots[j].element]
<1>1. z \in Nat /\ z \notin DOMAIN object.slots
  BY SlotIsFree
<1>2. /\ n \in Nat \ {0} /\ object.head = order[1] /\ object.tail = order[n]
      /\ DOMAIN object.slots = { order[k] : k \in 1 .. n }
      /\ \A k \in 1 .. n : object.slots[order[k]] \in Link(Held)
      /\ \A k, l \in 1 .. n : order[k] = order[l] => k = l
      /\ order \in [1 .. n -> Nat]
  BY DEF Ring
<1>3. Q!Between(x) = new
  BY <1>2 DEF Q!Between
<1>4. order[1] \in DOMAIN object.slots /\ order[n] \in DOMAIN object.slots
  BY <1>2
<1>5. ASSUME NEW k \in 1 .. n
      PROVE  LET s == object.slots[order[k]] IN
             /\ s = [next |-> s.next, prev |-> s.prev, element |-> s.element]
             /\ s.next \in Nat /\ s.prev \in Nat /\ s.element \in Held
  BY <1>2 DEF Link
<1> HIDE DEF z
<1>6. DOMAIN links = DOMAIN object.slots \union {z} /\ links[z] = new
  BY <1>3 DEF Q!Ringed, Q!PutInSlot, Q!slots, z
<1>7. ASSUME NEW k \in 1 .. n
      PROVE  links[order[k]] = Then(order[k])
  <2> DEFINE j == order[k]
  <2>1. j \in DOMAIN object.slots /\ j # z
    BY <1>1, <1>2
  <2>2. object.slots[j] = [next |-> object.slots[j].next, prev |-> object.slots[j].prev,
                           element |-> object.slots[j].element]
    BY <1>5
  <2> HIDE DEF j
  <2>3. CASE links = Q!Ringed(x)
    <3> DEFINE ring == [object.slots EXCEPT ![order[n]].next = z, ![order[1]].prev = z]
    <3>1. links[j] = ring[j]
      BY <1>2, <1>4, <2>1, <2>3 DEF Q!Ringed, Q!PutInSlot, Q!slots, z
    <3>2. ring[j] = Then(j)
      <4> DEFINE half == [object.slots EXCEPT ![order[n]].next = z]
      <4>1. half[j] = [next |-> IF j = order[n] THEN z ELSE object.slots[j].next,
                       prev |-> object.slots[j].prev, element |-> object.slots[j].element]
        BY <1>4, <2>1, <2>2
      <4>2. DOMAIN half = DOMAIN object.slots /\ ring = [half EXCEPT ![order[1]].prev = z]
        OBVIOUS
      <4> HIDE DEF half, ring
      <4>3. ring[j] = IF j = order[1] THEN [half[j] EXCEPT !.prev = z] ELSE half[j]
        BY <2>1, <4>2
      <4> QED
        BY <2>3, <4>1, <4>3
    <3> QED
      BY <3>1, <3>2 DEF j
  <2>4. CASE /\ links # Q!Ringed(x)
             /\ links = Q!PutInSlot(Q!FreeSlot, Q!Between(x),
                                     [object.slots EXCEPT ![object.tail].next = Q!FreeSlot])
    <3> DEFINE half == [object.slots EXCEPT ![order[n]].next = z]
    <3>1. links[j] = half[j]
      BY <1>2, <1>4, <2>1, <2>4 DEF Q!PutInSlot, z
    <3>2. half[j] = [next |-> IF j = order[n] THEN z ELSE object.slots[j].next,
                     prev |-> object.slots[j].prev, element |-> object.slots[j].element]
      BY <1>4, <2>1, <2>2
    <3> HIDE DEF half
    <3> QED
      BY <2>4, <3>1, <3>2 DEF j
  <2> QED
    BY <2>3, <2>4
<1>8. object'.slots = links /\ object'.kind = object.kind
  BY <1>6, QueueBecomes
<1>9. ASSUME NEW k \in 1 .. n
      PROVE  LET old == object.slots[order[k]]
                 then == Then(order[k])
             IN  /\ then \in Link(Held) /\ then.element = old.element
                 /\ then.next = IF k = n THEN z ELSE old.next
                 /\ object.kind = "dequeue" => then.prev = IF k = 1 THEN z ELSE old.prev
  <2>1. order[k] = order[n] <=> k = n
    BY <1>2
  <2>2. order[k] = order[1] <=> k = 1
    BY <1>2
  <2>3. object.kind = "dequeue" => links = Q!Ringed(x)
    OBVIOUS
  <2> QED
    BY <1>1, <1>5, <2>1, <2>2, <2>3 DEF Link
<1> HIDE DEF Then
<1> QED
  BY <1>1, <1>2, <1>6, <1>7, <1>8, <1>9 DEF Inserted, z

\* An element that is put at the back comes last.
LEMMA BackStep ==
    ASSUME QueueInv, NEW x \in Held, Q!Enqueue(x) \/ Q!EnqueueBack(x)
    PROVE  QueueInv' /\ Q!L!Splice(Q!Size, <<x>>)
<1>1. PICK n, order : Ring(n, order)
  BY DEF QueueInv
<1>2. n \in Nat /\ Q!Size = n /\ Q!Listed = Content(n, order)
  BY <1>1, RingSays
<1>3. CASE Q!Lone(x)
  BY <1>3, LoneStep
<1>4. CASE ~Q!Lone(x)
  <2>1. PICK z : z = Q!FreeSlot
    OBVIOUS
  <2>2. n # 0
    BY <1>2, <1>4 DEF Q!Enqueue, Q!EnqueueBack
  <2>3. PICK links : /\ Q!Links(links, object.head, Q!FreeSlot)
                     /\ \/ links = Q!Ringed(x)
                        \/ /\ object.kind = "queue"
                           /\ links = Q!PutInSlot(Q!FreeSlot, Q!Between(x),
                                          [object.slots EXCEPT ![object.tail].next = Q!FreeSlot])
    BY <1>4 DEF Q!Enqueue, Q!EnqueueBack, Q!slots
  <2>4. Inserted(n, order, z, x)
    BY <1>1, <2>1, <2>2, <2>3, RingedIsInserted
  <2>5. object'.head = order[1] /\ object'.tail = z /\ ((\E m, o : Ring(m, o)') => QueueInv')
    <3>1. object.head = order[1]
      BY <1>1, <2>2 DEF Ring
    <3> QED
      BY <2>1, <2>3, <3>1, QueueBecomes
  <2>6. Ring(n + 1, WithLast(n, order, z))'
    BY <1>1, <2>4, <2>5, BackRing
  <2>7. Q!Listed' = Content(n + 1, WithLast(n, order, z))'
    BY <2>6, RingSaysThen
  <2>8. \A k \in 1 .. n + 1 :
           object'.slots[WithLast(n, order, z)[k]].element = IF k <= n THEN Q!Listed[k] ELSE x
    <3>1. ASSUME NEW k \in 1 .. n
          PROVE  object'.slots[order[k]].element = Q!Listed[k]
      BY <1>2, <2>4 DEF Inserted, Content
    <3>2. object'.slots[z].element = x
      BY <2>4 DEF Inserted
    <3>3. \A k \in 1 .. n + 1 : k \in 1 .. n \/ ~(k <= n)
      BY <1>2
    <3> QED
      BY <3>1, <3>2, <3>3 DEF WithLast
  <2>9. Q!Listed' = [k \in 1 .. n + 1 |-> IF k <= n THEN Q!Listed[k] ELSE x]
    BY <2>7, <2>8 DEF Content
  <2>10. SubSeq(Q!Listed, 1, n) \o <<x>> \o SubSeq(Q!Listed, n + 1, Len(Q!Listed))
           = [k \in 1 .. n + 1 |-> IF k <= n THEN Q!Listed[k] ELSE x]
    <3>1. Q!Listed \in Seq(Held) /\ Len(Q!Listed) = n
      BY <1>1, ListedIsList
    <3> QED
      BY <1>2, <3>1, AddedLast
  <2> QED
    BY <1>2, <2>5, <2>6, <2>9, <2>10 DEF Q!L!Splice
<1> QED
  BY <1>3, <1>4

\* An element that is put at the front comes first.
LEMMA FrontStep ==
    ASSUME QueueInv, NEW x \in Held, Q!EnqueueFront(x)
    PROVE  QueueInv' /\ Q!L!Splice(0, <<x>>)
<1>1. PICK n, order : Ring(n, order)
  BY DEF QueueInv
<1>2. n \in Nat /\ Q!Size = n /\ Q!Listed = Content(n, order)
  BY <1>1, RingSays
<1>3. CASE Q!Lone(x)
  BY <1>3, LoneStep
<1>4. CASE ~Q!Lone(x)
  <2>1. PICK z : z = Q!FreeSlot
    OBVIOUS
  <2>2. n # 0 /\ object.kind = "dequeue"
    BY <1>2, <1>4 DEF Q!EnqueueFront
  <2>3. Q!Links(Q!Ringed(x), Q!FreeSlot, object.tail)
    BY <1>4 DEF Q!EnqueueFront
  <2>4. Inserted(n, order, z, x)
    BY <1>1, <2>1, <2>2, <2>3, RingedIsInserted
  <2>5. object'.head = z /\ object'.tail = order[n] /\ ((\E m, o : Ring(m, o)') => QueueInv')
    <3>1. object.tail = order[n]
      BY <1>1, <2>2 DEF Ring
    <3> QED
      BY <2>1, <2>3, <3>1, QueueBecomes
  <2>6. Ring(n + 1, WithFirst(n, order, z))'
    BY <1>1, <2>2, <2>4, <2>5, FrontRing
  <2>7. Q!Listed' = Content(n + 1, WithFirst(n, order, z))'
    BY <2>6, RingSaysThen
  <2>8. \A k \in 1 .. n + 1 :
           object'.slots[WithFirst(n, order, z)[k]].element = IF k = 1 THEN x ELSE Q!Listed[k - 1]
    <3>1. ASSUME NEW k \in 1 .. n
          PROVE  object'.slots[order[k]].element = Q!Listed[k]
      BY <1>2, <2>4 DEF Inserted, Content
    <3>2. object'.slots[z].element = x
      BY <2>4 DEF Inserted
    <3>3. \A k \in 1 .. n + 1 : k = 1 \/ k - 1 \in 1 .. n
      BY <1>2
    <3> QED
      BY <3>1, <3>2, <3>3 DEF WithFirst
  <2>9. Q!Listed' = [k \in 1 .. n + 1 |-> IF k = 1 THEN x ELSE Q!Listed[k - 1]]
    BY <2>7, <2>8 DEF Content
  <2>10. SubSeq(Q!Listed, 1, 0) \o <<x>> \o SubSeq(Q!Listed, 0 + 1, Len(Q!Listed))
           = [k \in 1 .. n + 1 |-> IF k = 1 THEN x ELSE Q!Listed[k - 1]]
    <3>1. Q!Listed \in Seq(Held) /\ Len(Q!Listed) = n
      BY <1>1, ListedIsList
    <3> QED
      BY <1>2, <3>1, AddedFirst
  <2> QED
    BY <2>5, <2>6, <2>9, <2>10 DEF Q!L!Splice
<1> QED
  BY <1>3, <1>4

\* The slot of the head is taken out.
LEMMA HeadIsRemoved ==
    ASSUME NEW n, NEW order, Ring(n, order), QueueInv, Q!Dequeue \/ Q!DequeueFront
    PROVE  n # 0 /\ RemovedFront(n, order)
<1>1. /\ n \in Nat /\ Q!Size = n
  BY RingSays
<1>2. n # 0 /\ n \in Nat \ {0}
  BY <1>1 DEF Q!Dequeue, Q!DequeueFront
<1>3. /\ object.head = order[1] /\ object.tail = order[n]
      /\ DOMAIN object.slots = { order[k] : k \in 1 .. n }
      /\ \A k \in 1 .. n : object.slots[order[k]] \in Link(Held)
      /\ \A k, l \in 1 .. n : order[k] = order[l] => k = l
      /\ order \in [1 .. n -> Nat]
  BY <1>2 DEF Ring
<1>4. order[1] \in DOMAIN object.slots /\ order[n] \in DOMAIN object.slots
  BY <1>2, <1>3
<1>5. ASSUME NEW k \in 1 .. n
      PROVE  LET s == object.slots[order[k]] IN
             /\ s = [next |-> s.next, prev |-> s.prev, element |-> s.element]
             /\ s.next \in Nat /\ s.prev \in Nat /\ s.element \in Held
  BY <1>3 DEF Link
<1>6. CASE Q!Dequeue
  <2>1. object.kind = "queue" /\ Q!Links(Q!Without(object.head, object.slots),
                                         object.slots[object.head].next, object.tail)
    BY <1>6 DEF Q!Dequeue, Q!slots
  <2>2. /\ object'.kind = object.kind /\ object'.slots = Q!Without(order[1], object.slots)
        /\ object'.head = object.slots[order[1]].next /\ object'.tail = object.tail
    BY <1>3, <2>1, QueueBecomes
  <2>3. DOMAIN object'.slots = DOMAIN object.slots \ {order[1]}
    BY <2>2 DEF Q!Without
  <2>4. ASSUME NEW k \in 2 .. n
        PROVE  object'.slots[order[k]] = object.slots[order[k]] /\ k \in 1 .. n
    <3>1. k \in 1 .. n /\ 1 \in 1 .. n /\ k # 1
      BY <1>2
    <3>2. order[k] \in DOMAIN object.slots \ {order[1]}
      BY <1>3, <3>1
    <3> QED
      BY <2>2, <3>1, <3>2 DEF Q!Without
  <2>5. ASSUME NEW k \in 2 .. n
        PROVE  object'.slots[order[k]] \in Link(Held)
    BY <1>3, <2>4
  <2> QED
    BY <1>2, <2>1, <2>2, <2>3, <2>4, <2>5 DEF RemovedFront
<1>7. CASE Q!DequeueFront
  <2>1. object.kind = "dequeue" /\ Q!Links(Q!Unlinked(order[1]), object.slots[order[1]].next,
        object.tail)
    BY <1>3, <1>7 DEF Q!DequeueFront, Q!slots
  <2>2. /\ object'.kind = object.kind /\ object'.slots = Q!Unlinked(order[1])
        /\ object'.head = object.slots[order[1]].next /\ object'.tail = object.tail
    BY <2>1, QueueBecomes
  <2> DEFINE after == object.slots[order[1]].next
  <2>3. object.slots[order[1]].prev = order[n] /\ object.slots[order[n]].next = order[1]
    BY <1>2, <2>1 DEF Ring
  <2>4. after = IF n = 1 THEN order[1] ELSE order[2]
    <3>1. CASE n = 1
      BY <2>3, <3>1
    <3>2. CASE n # 1
      <4>1. 1 \in 1 .. n - 1 /\ 1 + 1 = 2
        BY <1>2, <3>2
      <4>2. object.slots[order[1]].next = order[1 + 1]
        BY SMTT(20), <4>1, <1>2 DEF Ring
      <4> QED
        BY <3>2, <4>1, <4>2
    <3> QED
      BY <3>1, <3>2
  <2> HIDE DEF after
  <2> DEFINE ring == [object.slots EXCEPT ![after].prev = order[n], ![order[n]].next = after]
  <2>5. object'.slots = Q!Without(order[1], ring)
    BY <2>2, <2>3 DEF Q!Unlinked, Q!slots, after
  <2>6. ASSUME NEW j \in DOMAIN object.slots,
               object.slots[j] = [next |-> object.slots[j].next, prev |-> object.slots[j].prev,
                                  element |-> object.slots[j].element]
        PROVE  ring[j] = [next |-> IF j = order[n] THEN after ELSE object.slots[j].next,
                          prev |-> IF j = after THEN order[n] ELSE object.slots[j].prev,
                          element |-> object.slots[j].element]
    <3> DEFINE half == [object.slots EXCEPT ![after].prev = order[n]]
    <3>1. half[j] = [next |-> object.slots[j].next,
                     prev |-> IF j = after THEN order[n] ELSE object.slots[j].prev,
                     element |-> object.slots[j].element]
      BY <2>6
    <3>2. DOMAIN half = DOMAIN object.slots /\ ring = [half EXCEPT ![order[n]].next = after]
      OBVIOUS
    <3> HIDE DEF half, ring
    <3>3. ring[j] = IF j = order[n] THEN [half[j] EXCEPT !.next = after] ELSE half[j]
      BY <3>2
    <3> QED
      BY <3>1, <3>3
  <2>7. DOMAIN ring = DOMAIN object.slots
    OBVIOUS
  <2> HIDE DEF ring
  <2>8. DOMAIN object'.slots = DOMAIN object.slots \ {order[1]}
    BY <2>5, <2>7 DEF Q!Without
  <2>9. ASSUME NEW k \in 2 .. n
        PROVE  LET old == object.slots[order[k]] IN
               object'.slots[order[k]] = [next |-> IF k = n THEN order[2] ELSE old.next,
                                          prev |-> IF k = 2 THEN order[n] ELSE old.prev,
                                          element |-> old.element]
    <3> DEFINE j == order[k]
    <3>1. k \in 1 .. n /\ 1 \in 1 .. n /\ 2 \in 1 .. n /\ n \in 1 .. n /\ k # 1 /\ n # 1
      BY <1>2
    <3>2. j \in DOMAIN object.slots /\ j # order[1] /\ (j = order[n] <=> k = n)
          /\ (j = order[2] <=> k = 2)
      BY <1>3, <3>1
    <3>3. object.slots[j] = [next |-> object.slots[j].next, prev |-> object.slots[j].prev,
                             element |-> object.slots[j].element]
      BY <1>5, <3>1
    <3> HIDE DEF j
    <3>4. ring[j] = [next |-> IF j = order[n] THEN after ELSE object.slots[j].next,
                     prev |-> IF j = after THEN order[n] ELSE object.slots[j].prev,
                     element |-> object.slots[j].element]
      BY <2>6, <3>2, <3>3
    <3>5. object'.slots[j] = ring[j]
      BY <2>5, <2>7, <3>2 DEF Q!Without
    <3>6. after = order[2]
      BY <2>4, <3>1
    <3> QED
      BY <3>2, <3>4, <3>5, <3>6 DEF j
  <2>10. ASSUME NEW k \in 2 .. n
         PROVE  LET new == object'.slots[order[k]] IN
                /\ new \in Link(Held) /\ new.element = object.slots[order[k]].element
                /\ new.next = IF k = n THEN order[2] ELSE object.slots[order[k]].next
                /\ new.prev = IF k = 2 THEN order[n] ELSE object.slots[order[k]].prev
    <3>1. k \in 1 .. n /\ 2 \in 1 .. n /\ n \in 1 .. n
      BY <1>2
    <3>2. order[2] \in Nat /\ order[n] \in Nat
      BY <1>3, <3>1
    <3> DEFINE old  == object.slots[order[k]]
               next == IF k = n THEN order[2] ELSE old.next
               prev == IF k = 2 THEN order[n] ELSE old.prev
    <3>3. old.next \in Nat /\ old.prev \in Nat /\ old.element \in Held
      BY <1>5, <3>1
    <3>4. object'.slots[order[k]] = [next |-> next, prev |-> prev, element |-> old.element]
      BY <2>9
    <3>5. next \in Nat /\ prev \in Nat
      BY <3>2, <3>3
    <3> HIDE DEF next, prev
    <3>6. [next |-> next, prev |-> prev, element |-> old.element] \in Link(Held)
      BY <3>3, <3>5 DEF Link
    <3>7. /\ object'.slots[order[k]] \in Link(Held) /\ object'.slots[order[k]].element = old.element
          /\ object'.slots[order[k]].next = next /\ object'.slots[order[k]].prev = prev
      BY <3>4, <3>6
    <3> QED
      BY <3>7 DEF next, prev
  <2> QED
    BY <1>2, <2>2, <2>8, <2>10 DEF RemovedFront
<1> QED
  BY <1>2, <1>6, <1>7

\* What is taken from the front is the first.
LEMMA HeadStep ==
    ASSUME QueueInv, Q!Dequeue \/ Q!DequeueFront
    PROVE  QueueInv' /\ Q!L!Cut(0, 0)
<1>1. PICK n, order : Ring(n, order)
  BY DEF QueueInv
<1>2. n \in Nat /\ Q!Size = n /\ Q!Listed = Content(n, order)
  BY <1>1, RingSays
<1>3. n # 0 /\ RemovedFront(n, order)
  BY <1>1, HeadIsRemoved
<1>4. Ring(n - 1, ButFirst(n, order))'
  BY <1>1, <1>3, RestRing
<1>5. PICK links, first, last : Q!Links(links, first, last)
  BY DEF Q!Dequeue, Q!DequeueFront
<1>6. (\E m, o : Ring(m, o)') => QueueInv'
  BY <1>5, QueueBecomes
<1>7. Q!Listed' = Content(n - 1, ButFirst(n, order))'
  BY <1>4, RingSaysThen
<1>8. \A k \in 1 .. n - 1 : object'.slots[ButFirst(n, order)[k]].element = Q!Listed[k + 1]
  <2>1. \A k \in 1 .. n - 1 : k + 1 \in 2 .. n /\ k + 1 \in 1 .. n
    BY <1>2
  <2> QED
    BY <1>2, <1>3, <2>1 DEF RemovedFront, Content, ButFirst
<1>9. Q!Listed' = [k \in 1 .. n - 1 |-> Q!Listed[k + 1]]
  BY <1>7, <1>8 DEF Content
<1>10. SubSeq(Q!Listed, 1, 0) \o SubSeq(Q!Listed, 0 + 2, Len(Q!Listed))
         = [k \in 1 .. n - 1 |-> Q!Listed[k + 1]]
  <2>1. Q!Listed \in Seq(Held) /\ Len(Q!Listed) = n
    BY <1>1, ListedIsList
  <2> QED
    BY <1>2, <1>3, <2>1, CutFirst
<1> QED
  BY <1>4, <1>6, <1>9, <1>10 DEF Q!L!Cut

\* The slot of the tail is taken out.
LEMMA TailIsRemoved ==
    ASSUME NEW n, NEW order, Ring(n, order), QueueInv, Q!DequeueBack
    PROVE  n # 0 /\ object.kind = "dequeue" /\ RemovedBack(n, order)
<1>1. /\ n \in Nat /\ Q!Size = n
  BY RingSays
<1>2. n # 0 /\ n \in Nat \ {0} /\ object.kind = "dequeue"
  BY <1>1 DEF Q!DequeueBack
<1>3. /\ object.head = order[1] /\ object.tail = order[n]
      /\ DOMAIN object.slots = { order[k] : k \in 1 .. n }
      /\ \A k \in 1 .. n : object.slots[order[k]] \in Link(Held)
      /\ \A k, l \in 1 .. n : order[k] = order[l] => k = l
      /\ order \in [1 .. n -> Nat]
  BY <1>2 DEF Ring
<1>4. order[1] \in DOMAIN object.slots /\ order[n] \in DOMAIN object.slots
  BY <1>2, <1>3
<1>5. ASSUME NEW k \in 1 .. n
      PROVE  LET s == object.slots[order[k]] IN
             /\ s = [next |-> s.next, prev |-> s.prev, element |-> s.element]
             /\ s.next \in Nat /\ s.prev \in Nat /\ s.element \in Held
  BY <1>3 DEF Link
<1>6. Q!Links(Q!Unlinked(order[n]), object.head, object.slots[order[n]].prev)
  BY <1>3 DEF Q!DequeueBack, Q!slots
<1>7. /\ object'.kind = object.kind /\ object'.slots = Q!Unlinked(order[n])
      /\ object'.head = object.head /\ object'.tail = object.slots[order[n]].prev
  BY <1>6, QueueBecomes
<1> DEFINE before == object.slots[order[n]].prev
<1>8. object.slots[order[n]].next = order[1] /\ object.slots[order[1]].prev = order[n]
  BY <1>2 DEF Ring
<1>9. before = IF n = 1 THEN order[1] ELSE order[n - 1]
  <2>1. n # 1 => n - 1 \in 1 .. n - 1 /\ (n - 1) + 1 = n
    BY <1>2
  <2> QED
    BY <1>2, <1>8, <2>1 DEF Ring
<1> HIDE DEF before
<1> DEFINE ring == [object.slots EXCEPT ![order[1]].prev = before, ![before].next = order[1]]
<1>10. object'.slots = Q!Without(order[n], ring)
  BY <1>7, <1>8 DEF Q!Unlinked, Q!slots, before
<1>11. ASSUME NEW j \in DOMAIN object.slots,
              object.slots[j] = [next |-> object.slots[j].next, prev |-> object.slots[j].prev,
                                 element |-> object.slots[j].element]
       PROVE  ring[j] = [next |-> IF j = before THEN order[1] ELSE object.slots[j].next,
                         prev |-> IF j = order[1] THEN before ELSE object.slots[j].prev,
                         element |-> object.slots[j].element]
  <2> DEFINE half == [object.slots EXCEPT ![order[1]].prev = before]
  <2>1. half[j] = [next |-> object.slots[j].next,
                   prev |-> IF j = order[1] THEN before ELSE object.slots[j].prev,
                   element |-> object.slots[j].element]
    BY <1>11
  <2>2. DOMAIN half = DOMAIN object.slots /\ ring = [half EXCEPT ![before].next = order[1]]
    OBVIOUS
  <2> HIDE DEF half, ring
  <2>3. ring[j] = IF j = before THEN [half[j] EXCEPT !.next = order[1]] ELSE half[j]
    BY <2>2
  <2> QED
    BY <2>1, <2>3
<1>12. DOMAIN ring = DOMAIN object.slots
  OBVIOUS
<1> HIDE DEF ring
<1>13. DOMAIN object'.slots = DOMAIN object.slots \ {order[n]}
  BY <1>10, <1>12 DEF Q!Without
<1>14. ASSUME NEW k \in 1 .. n - 1
       PROVE  LET old == object.slots[order[k]] IN
              object'.slots[order[k]] = [next |-> IF k = n - 1 THEN order[1] ELSE old.next,
                                         prev |-> IF k = 1 THEN order[n - 1] ELSE old.prev,
                                         element |-> old.element]
  <2> DEFINE j == order[k]
             m == n - 1
  <2>1. k \in 1 .. n /\ 1 \in 1 .. n /\ m \in 1 .. n /\ n \in 1 .. n /\ k # n /\ n # 1
    BY <1>2
  <2> HIDE DEF m
  <2>2. j \in DOMAIN object.slots /\ j # order[n] /\ (j = order[m] <=> k = m)
        /\ (j = order[1] <=> k = 1)
    BY <1>3, <2>1
  <2>3. object.slots[j] = [next |-> object.slots[j].next, prev |-> object.slots[j].prev,
                           element |-> object.slots[j].element]
    BY <1>5, <2>1
  <2> HIDE DEF j
  <2>4. ring[j] = [next |-> IF j = before THEN order[1] ELSE object.slots[j].next,
                   prev |-> IF j = order[1] THEN before ELSE object.slots[j].prev,
                   element |-> object.slots[j].element]
    BY <1>11, <2>2, <2>3
  <2>5. object'.slots[j] = ring[j]
    BY <1>10, <1>12, <2>2 DEF Q!Without
  <2>6. before = order[m]
    BY <1>9, <2>1 DEF m
  <2> QED
    BY <2>2, <2>4, <2>5, <2>6 DEF j, m
<1>15. ASSUME NEW k \in 1 .. n - 1
       PROVE  LET new == object'.slots[order[k]] IN
              /\ new \in Link(Held) /\ new.element = object.slots[order[k]].element
              /\ new.next = IF k = n - 1 THEN order[1] ELSE object.slots[order[k]].next
              /\ new.prev = IF k = 1 THEN order[n - 1] ELSE object.slots[order[k]].prev
  <2>1. k \in 1 .. n /\ 1 \in 1 .. n /\ n - 1 \in 1 .. n
    BY <1>2
  <2>2. order[1] \in Nat /\ order[n - 1] \in Nat
    BY <1>3, <2>1
  <2> DEFINE old  == object.slots[order[k]]
             next == IF k = n - 1 THEN order[1] ELSE old.next
             prev == IF k = 1 THEN order[n - 1] ELSE old.prev
  <2>3. old.next \in Nat /\ old.prev \in Nat /\ old.element \in Held
    BY <1>5, <2>1
  <2>4. object'.slots[order[k]] = [next |-> next, prev |-> prev, element |-> old.element]
    BY <1>14
  <2>5. next \in Nat /\ prev \in Nat
    BY <2>2, <2>3
  <2> HIDE DEF next, prev
  <2>6. [next |-> next, prev |-> prev, element |-> old.element] \in Link(Held)
    BY <2>3, <2>5 DEF Link
  <2>7. /\ object'.slots[order[k]] \in Link(Held) /\ object'.slots[order[k]].element = old.element
        /\ object'.slots[order[k]].next = next /\ object'.slots[order[k]].prev = prev
    BY <2>4, <2>6
  <2> QED
    BY <2>7 DEF next, prev
<1> QED
  BY <1>2, <1>7, <1>13, <1>15 DEF RemovedBack

\* What is taken from the back is the last.
LEMMA TailStep ==
    ASSUME QueueInv, Q!DequeueBack
    PROVE  QueueInv' /\ Q!L!Cut(Q!Size - 1, Q!Size - 1)
<1>1. PICK n, order : Ring(n, order)
  BY DEF QueueInv
<1>2. n \in Nat /\ Q!Size = n /\ Q!Listed = Content(n, order)
  BY <1>1, RingSays
<1>3. n # 0 /\ object.kind = "dequeue" /\ RemovedBack(n, order)
  BY <1>1, TailIsRemoved
<1>4. Ring(n - 1, ButLast(n, order))'
  BY <1>1, <1>3, FirstRing
<1>5. PICK links, first, last : Q!Links(links, first, last)
  BY DEF Q!DequeueBack
<1>6. (\E m, o : Ring(m, o)') => QueueInv'
  BY <1>5, QueueBecomes
<1>7. Q!Listed' = Content(n - 1, ButLast(n, order))'
  BY <1>4, RingSaysThen
<1>8. \A k \in 1 .. n - 1 : object'.slots[ButLast(n, order)[k]].element = Q!Listed[k]
  <2>1. \A k \in 1 .. n - 1 : k \in 1 .. n
    BY <1>2
  <2> QED
    BY <1>2, <1>3, <2>1 DEF RemovedBack, Content, ButLast
<1>9. Q!Listed' = [k \in 1 .. n - 1 |-> Q!Listed[k]]
  BY <1>7, <1>8 DEF Content
<1>10. SubSeq(Q!Listed, 1, n - 1) \o SubSeq(Q!Listed, n - 1 + 2, Len(Q!Listed))
         = [k \in 1 .. n - 1 |-> Q!Listed[k]]
  <2>1. Q!Listed \in Seq(Held) /\ Len(Q!Listed) = n
    BY <1>1, ListedIsList
  <2> QED
    BY <1>2, <1>3, <2>1, CutLast
<1> QED
  BY <1>2, <1>4, <1>6, <1>9, <1>10 DEF Q!L!Cut

\* Every call keeps a queue's order, and gives and takes elements where it says.
LEMMA QueueOrder ==
    ASSUME QueueInv PROVE Q!InOrder
<1>1. ASSUME NEW x \in Held
      PROVE  /\ Q!Enqueue(x) \/ Q!EnqueueBack(x) => Q!L!Splice(Q!Size, <<x>>)
             /\ Q!EnqueueFront(x) => Q!L!Splice(0, <<x>>)
  BY BackStep, FrontStep
<1>2. Q!Dequeue \/ Q!DequeueFront => Q!L!Cut(0, 0)
  BY HeadStep
<1>3. Q!DequeueBack => Q!L!Cut(Q!Size - 1, Q!Size - 1)
  BY TailStep
<1> QED
  BY <1>1, <1>2, <1>3 DEF Q!InOrder

\* Every call keeps the invariant.
LEMMA QueueStep ==
    ASSUME QueueInv, Q!Next PROVE QueueInv'
<1>1. ASSUME NEW x \in Held, Q!Enqueue(x) \/ Q!EnqueueFront(x) \/ Q!EnqueueBack(x)
      PROVE  QueueInv'
  BY <1>1, BackStep, FrontStep
<1>2. Q!Dequeue \/ Q!DequeueFront => QueueInv'
  BY HeadStep
<1>3. Q!DequeueBack => QueueInv'
  BY TailStep
<1> QED
  BY <1>1, <1>2, <1>3 DEF Q!Next

\* The queue from its head and the queue from its tail are one.
LEMMA QueueEnds ==
    QueueInv => Q!EndsAgree
BY RingEnds DEF QueueInv

-----------------------------------------------------------------------------
(* All of them                                                              *)

\* What each of the lists keeps.
ListInv ==
    /\ which = "dynamic container" => FitsInv
    /\ which = "queue" => QueueInv
    /\ which = "strings" => StringsInv

\* It holds at first.
LEMMA ListInit == Init => ListInv
<1>1. Init /\ which = "dynamic container" => FitsInv
  BY InitFits DEF Init
<1>2. Init /\ which = "queue" => QueueInv
  BY QueueInit DEF Init
<1>3. Init /\ which = "strings" => StringsInv
  BY StringsInit DEF Init
<1> QED
  BY <1>1, <1>2, <1>3 DEF ListInv

\* A queue that no call is made on stays.
LEMMA RingStays ==
    ASSUME object' = object
    PROVE  QueueInv => QueueInv'
<1>1. ASSUME NEW n, NEW order
      PROVE  Ring(n, order)' <=> Ring(n, order)
  <2>1. DOMAIN object'.slots = DOMAIN object.slots
    BY Zenon
  <2> QED
    BY Zenon, <2>1 DEF Ring
<1>2. (\E n, order : Ring(n, order)') <=> (\E n, order : Ring(n, order))
  BY Zenon, <1>1
<1> QED
  BY Zenon, <1>2 DEF QueueInv

\* Every call on any of them keeps it.
LEMMA ListNext ==
    ASSUME ListInv, [Next]_vars
    PROVE  ListInv'
<1>1. CASE UNCHANGED vars
  <2>1. which' = which /\ object' = object
    BY <1>1 DEF vars
  <2>2. FitsInv => FitsInv'
    BY Zenon, <2>1 DEF FitsInv, ElementsInv, C!Fits, C!elements, C!room
  <2>3. QueueInv => QueueInv'
    BY <2>1, RingStays
  <2>4. StringsInv => StringsInv'
    BY Zenon, <2>1 DEF StringsInv
  <2> QED
    BY <2>1, <2>2, <2>3, <2>4 DEF ListInv
<1>2. CASE Next
  <2>1. which' = which
    BY <1>2 DEF Next
  <2>2. which = "dynamic container" => FitsInv'
    BY <1>2, NextFits DEF Next, ListInv
  <2>3. which = "queue" => QueueInv'
    BY <1>2, QueueStep DEF Next, ListInv
  <2>4. which = "strings" => StringsInv'
    BY <1>2, StringsStep DEF Next, ListInv
  <2> QED
    BY <2>1, <2>2, <2>3, <2>4 DEF ListInv
<1> QED
  BY <1>1, <1>2

\* And what it holds of makes each call that of a list.
LEMMA ListSteps ==
    ListInv => /\ which = "dynamic container" => C!ListStep
               /\ which = "queue" => Q!InOrder
               /\ which = "strings" => B!AppendsText
<1>1. FitsInv => C!ListStep
  BY CallsAreList
<1> QED
  BY <1>1, QueueOrder, AppendIsText DEF ListInv

THEOREM ListsAll == Spec => ImplementsList
<1>1. Spec => []ListInv
  BY ListInit, ListNext, PTL DEF Spec
<1> QED
  BY <1>1, ListSteps, PTL DEF ImplementsList

-----------------------------------------------------------------------------
(* The order of strings                                                     *)

\* The first of some places.
LEMMA FirstIs ==
    ASSUME NEW places \in SUBSET Nat, places # {}
    PROVE  /\ B!S!Min(places) \in places
           /\ \A k \in places : B!S!Min(places) <= k
<1>1. PICK first \in places : \A k \in places : first <= k
  <2>1. PICK n \in places : \A m \in places : ~(m < n)
    BY LeastNatural
  <2> QED
    BY <2>1
<1> QED
  BY <1>1 DEF B!S!Min

\* Two texts as the comparison sees them: it is total, and what precedes each
\* other is the same before the last byte.
LEMMA TotallyOrdered ==
    ASSUME NEW s \in Seq(Nat), NEW t \in Seq(Nat), NEW l \in Nat, NEW m \in Nat,
           Len(s) = l + 1, Len(t) = m + 1
    PROVE  /\ B!Ascending(s, t) \/ B!Ascending(t, s)
           /\ B!Ascending(s, t) /\ B!Ascending(t, s) =>
                 l = m /\ \A n \in 1 .. l : s[n] = t[n]
<1> DEFINE Here  == { n \in 1 .. l : n > m \/ s[n] # t[n] }
           There == { n \in 1 .. m : n > l \/ t[n] # s[n] }
           h == B!S!Min(Here)
           w == B!S!Min(There)
<1>1. /\ B!Differing(s, t) = Here /\ B!Differing(t, s) = There
      /\ B!Length(s) = l /\ B!Length(t) = m
  <2>1. B!Length(s) = l /\ B!Length(t) = m
    BY DEF B!Length
  <2> QED
    BY <2>1 DEF B!Differing
<1>2. /\ \A n \in 1 .. l : s[n] \in Nat
      /\ \A n \in 1 .. m : t[n] \in Nat
  <2>1. 1 .. l \subseteq 1 .. Len(s) /\ 1 .. m \subseteq 1 .. Len(t)
    OBVIOUS
  <2> QED
    BY <2>1, ElementOfSeq
<1>3. /\ Here # {} => h \in Here /\ \A k \in Here : h <= k
      /\ There # {} => w \in There /\ \A k \in There : w <= k
  <2>1. Here \in SUBSET Nat /\ There \in SUBSET Nat
    OBVIOUS
  <2> HIDE DEF Here, There
  <2> QED
    BY <2>1, FirstIs
<1>4. /\ B!Ascending(s, t) <=> Here = {} \/ (h <= m /\ B!Precedes(s[h], t[h]))
      /\ B!Ascending(t, s) <=> There = {} \/ (w <= l /\ B!Precedes(t[w], s[w]))
  <2> HIDE DEF Here, There
  <2> QED
    BY <1>1 DEF B!Ascending
\* The first place where they differ is one of both, unless the texts end there.
<1>5. Here # {} /\ h <= m => /\ There # {} /\ w = h
                             /\ h \in 1 .. l /\ h \in 1 .. m /\ s[h] # t[h]
  <2>1. SUFFICES ASSUME Here # {}, h <= m
                 PROVE  /\ There # {} /\ w = h
                        /\ h \in 1 .. l /\ h \in 1 .. m /\ s[h] # t[h]
    OBVIOUS
  <2>2. h \in Here /\ h \in 1 .. l /\ h \in 1 .. m
    <3>1. h \in Here
      BY <1>3, <2>1
    <3> HIDE DEF h
    <3> QED
      BY <2>1, <3>1
  <2>3. s[h] # t[h] /\ h \in There
    <3> HIDE DEF h
    <3> QED
      BY <2>1, <2>2
  <2>4. w \in There /\ w <= h
    <3> HIDE DEF h, Here, There
    <3> QED
      BY <1>3, <2>3
  <2>9. w \in Int
    <3> HIDE DEF w
    <3> QED
      BY <2>4
  <2>5. w \in Here
    <3> HIDE DEF h, w
    <3> QED
      BY <2>2, <2>4
  <2>6. h <= w
    <3> HIDE DEF Here, There
    <3> QED
      BY <1>3, <2>5
  <2>7. There # {}
    BY <2>4
  <2> HIDE DEF h, w, Here, There
  <2>8. w = h
    <3>1. h \in Int /\ w \in Int
      BY <2>2, <2>9
    <3> QED
      BY <2>4, <2>6, <3>1
  <2> QED
    BY <2>2, <2>3, <2>7, <2>8
<1>6. There # {} /\ w <= l => Here # {} /\ h <= m
  <2>1. SUFFICES ASSUME There # {}, w <= l
                 PROVE  Here # {} /\ h <= m
    OBVIOUS
  <2>2. w \in There /\ w \in 1 .. l /\ w \in 1 .. m
    <3>1. w \in There
      BY <1>3, <2>1
    <3> HIDE DEF w
    <3> QED
      BY <2>1, <3>1
  <2>3. w \in Here
    <3> HIDE DEF w
    <3> QED
      BY <2>1, <2>2
  <2>4. h \in Here /\ h <= w
    <3> HIDE DEF w, Here, There
    <3> QED
      BY <1>3, <2>3
  <2>5. h \in Int
    <3> HIDE DEF h
    <3> QED
      BY <2>4
  <2>6. Here # {}
    BY <2>4
  <2> HIDE DEF h, w, Here, There
  <2> QED
    BY <2>2, <2>4, <2>5, <2>6
\* Where one text ends the other goes on.
<1>7. Here # {} /\ ~(h <= m) => There = {}
  <2>1. SUFFICES ASSUME Here # {}, ~(h <= m), There # {} PROVE FALSE
    OBVIOUS
  <2>2. h \in Here /\ w \in There
    <3> HIDE DEF Here, There
    <3> QED
      BY <1>3, <2>1
  <2>3. w \in Here
    <3> HIDE DEF h, w
    <3> QED
      BY <2>1, <2>2
  <2>4. h <= w
    <3> HIDE DEF Here, There
    <3> QED
      BY <1>3, <2>3
  <2> HIDE DEF h, w
  <2> QED
    BY <2>1, <2>2, <2>4
\* Of two bytes that differ one precedes the other.
<1>8. ASSUME NEW c \in Nat, NEW d \in Nat, c # d
      PROVE  /\ B!Precedes(c, d) \/ B!Precedes(d, c)
             /\ ~(B!Precedes(c, d) /\ B!Precedes(d, c))
  BY <1>8 DEF B!Precedes, B!ToLower, B!IsUpper
<1>9. Here = {} /\ There = {} => l = m /\ \A n \in 1 .. l : s[n] = t[n]
  <2>1. SUFFICES ASSUME Here = {}, There = {} PROVE l = m /\ \A n \in 1 .. l : s[n] = t[n]
    OBVIOUS
  <2>2. ASSUME NEW n \in 1 .. l
        PROVE  n <= m /\ s[n] = t[n]
    <3>1. n \notin Here
      BY <2>1
    <3> QED
      BY <3>1
  <2>3. ASSUME NEW n \in 1 .. m
        PROVE  n <= l
    <3>1. n \notin There
      BY <2>1
    <3> QED
      BY <3>1
  <2>4. l <= m
    BY <2>2
  <2>5. m <= l
    BY <2>3
  <2> QED
    BY <2>2, <2>4, <2>5
<1>10. Here # {} /\ h <= m =>
          /\ B!Precedes(s[h], t[h]) \/ B!Precedes(t[h], s[h])
          /\ ~(B!Precedes(s[h], t[h]) /\ B!Precedes(t[h], s[h]))
  <2> HIDE DEF h, Here, There, w
  <2> QED
    BY <1>2, <1>5, <1>8
<1>11. Here = {} /\ There # {} => ~(w <= l)
  BY <1>6
<1> HIDE DEF Here, There, h, w
<1>12. CASE Here = {}
  BY <1>4, <1>9, <1>11, <1>12
<1>13. CASE Here # {} /\ ~(h <= m)
  BY <1>4, <1>7, <1>13
<1>14. CASE Here # {} /\ h <= m
  <2>1. h <= l
    BY <1>5, <1>14
  <2> QED
    BY <1>4, <1>5, <1>10, <1>14, <2>1
<1> QED
  BY <1>12, <1>13, <1>14

\* A string with a NUL keeps one when a text is put into it.
LEMMA NulStays ==
    ASSUME NEW s \in Seq(Bytes), NEW text \in Seq(Bytes), NEW k \in Nat, k <= Len(s),
           NEW j \in 1 .. Len(s)
    PROVE  \E n \in 1 .. Len(B!Inserted(s, k, text)) : B!Inserted(s, k, text)[n] = s[j]
<1> DEFINE before == SubSeq(s, 1, k)
           after  == SubSeq(s, k + 1, Len(s))
           u      == before \o text
<1>1. Len(s) \in Nat /\ Len(text) \in Nat
  OBVIOUS
<1>2. /\ before \in Seq(Bytes) /\ Len(before) = k
      /\ \A n \in 1 .. k : before[n] = s[n]
  <2>1. 1 <= k + 1 /\ k - 1 + 1 = k
    OBVIOUS
  <2>2. /\ before \in Seq(Bytes) /\ Len(before) = k - 1 + 1
        /\ \A n \in 1 .. k - 1 + 1 : before[n] = s[1 + n - 1]
    BY <2>1, Part
  <2> HIDE DEF before
  <2> QED
    BY <2>1, <2>2
<1>3. /\ after \in Seq(Bytes) /\ Len(after) = Len(s) - k
      /\ \A n \in 1 .. Len(s) - k : after[n] = s[k + n]
  <2> DEFINE d == k + 1
  <2>1. /\ d \in Nat /\ 1 <= d /\ d <= Len(s) + 1 /\ Len(s) <= Len(s)
        /\ Len(s) - d + 1 = Len(s) - k /\ \A n \in Nat : d + n - 1 = k + n
    BY <1>1
  <2> HIDE DEF d
  <2>2. /\ SubSeq(s, d, Len(s)) \in Seq(Bytes)
        /\ Len(SubSeq(s, d, Len(s))) = Len(s) - d + 1
        /\ \A n \in 1 .. Len(s) - d + 1 : SubSeq(s, d, Len(s))[n] = s[d + n - 1]
    BY <1>1, <2>1, Part
  <2>3. \A n \in 1 .. Len(s) - k : n \in Nat
    BY <1>1
  <2>4. after = SubSeq(s, d, Len(s))
    BY DEF d
  <2> HIDE DEF after
  <2> QED
    BY <2>1, <2>2, <2>3, <2>4
<1> HIDE DEF before, after
<1>4. /\ u \in Seq(Bytes) /\ Len(u) = k + Len(text)
      /\ \A n \in 1 .. k : u[n] = before[n]
  <2>1. /\ u \in Seq(Bytes) /\ Len(u) = Len(before) + Len(text)
        /\ \A n \in 1 .. Len(before) + Len(text) :
              u[n] = IF n <= Len(before) THEN before[n] ELSE text[n - Len(before)]
    BY <1>2, ConcatProperties
  <2>2. \A n \in 1 .. k : n \in 1 .. k + Len(text) /\ n <= k
    BY <1>1
  <2> HIDE DEF u
  <2> QED
    BY <1>2, <2>1, <2>2
<1> HIDE DEF u
<1> DEFINE v == u \o after
<1>5. /\ Len(v) = Len(text) + Len(s)
      /\ \A n \in 1 .. Len(text) + Len(s) :
            v[n] = IF n <= k + Len(text) THEN u[n] ELSE after[n - (k + Len(text))]
  <2>1. /\ Len(v) = Len(u) + Len(after)
        /\ \A n \in 1 .. Len(u) + Len(after) :
              v[n] = IF n <= Len(u) THEN u[n] ELSE after[n - Len(u)]
    <3>1. u \in Seq(Bytes) /\ after \in Seq(Bytes)
      BY <1>3, <1>4
    <3> QED
      BY ONLY <3>1, ConcatProperties
  <2>2. Len(u) + Len(after) = Len(text) + Len(s) /\ Len(u) = k + Len(text)
    BY <1>1, <1>3, <1>4
  <2> HIDE DEF v
  <2> QED
    BY <2>1, <2>2
<1>6. B!Inserted(s, k, text) = v
  BY DEF B!Inserted, before, after, u
<1> HIDE DEF v
<1>7. CASE j <= k
  <2>1. j \in 1 .. k /\ j \in 1 .. Len(text) + Len(s) /\ j <= k + Len(text)
    BY <1>1, <1>7
  <2>2. v[j] = s[j]
    BY <1>2, <1>4, <1>5, <2>1
  <2> QED
    BY <1>5, <1>6, <2>1, <2>2
<1>8. CASE ~(j <= k)
  <2> DEFINE n == j + Len(text)
  <2>1. /\ n \in 1 .. Len(text) + Len(s) /\ ~(n <= k + Len(text))
        /\ n - (k + Len(text)) = j - k /\ j - k \in 1 .. Len(s) - k /\ k + (j - k) = j
    BY <1>1, <1>8
  <2> HIDE DEF n
  <2>2. v[n] = after[j - k]
    BY <1>5, <2>1
  <2>3. after[j - k] = s[j]
    BY <1>3, <2>1
  <2> QED
    BY <1>5, <1>6, <2>1, <2>2, <2>3
<1> QED
  BY <1>7, <1>8

\* The other string has one NUL, at its end, and until a replacement the
\* subject has one: where text is inserted behind it, it is not at the end.
NulInv ==
    /\ StringsInv
    /\ ~object.replaced => \E k \in 1 .. Len(object.subject) : object.subject[k] = B!NUL
    /\ \A k \in 1 .. Len(object.other) - 1 : object.other[k] # B!NUL

\* It holds when the two strings were created.
LEMMA NulInit == B!Init => NulInv
<1>1. ASSUME NEW t \in B!S!BoundedSeq(Chars, 2)
      PROVE  /\ \E k \in 1 .. Len(B!Create(t)) : B!Create(t)[k] = B!NUL
             /\ \A k \in 1 .. Len(B!Create(t)) - 1 : B!Create(t)[k] # B!NUL
  <2>1. PICK n \in Nat : t \in [1 .. n -> Chars]
    BY Short
  <2>2. t \in Seq(Bytes) /\ Len(t) = n /\ \A k \in 1 .. n : t[k] \in Chars
    <3>1. t \in Seq(Chars) /\ Len(t) = n
      BY <2>1
    <3> QED
      BY <2>1, <3>1, SeqMonotonic DEF Bytes
  <2>3. B!NUL \in Bytes /\ B!NUL \notin Chars
    BY CharsAssumption DEF Bytes, B!NUL
  <2>4. /\ Len(B!Create(t)) = n + 1 /\ B!Create(t)[n + 1] = B!NUL
        /\ \A k \in 1 .. n : B!Create(t)[k] = t[k]
    BY <2>2, <2>3, AppendProperties DEF B!Create
  <2>5. n + 1 - 1 = n /\ n + 1 \in 1 .. n + 1
    OBVIOUS
  <2> QED
    BY <2>2, <2>3, <2>4, <2>5
<1>2. SUFFICES ASSUME B!Init PROVE NulInv
  OBVIOUS
<1>3. StringsInv
  BY <1>2, StringsInit
<1>4. /\ \E t \in B!S!BoundedSeq(Chars, 2) : object.subject = B!Create(t)
      /\ \E t \in B!S!BoundedSeq(Chars, 2) : object.other = B!Create(t)
  BY <1>2 DEF B!Init
<1> QED
  BY <1>1, <1>3, <1>4 DEF NulInv

\* Every call keeps it.
LEMMA NulStep ==
    ASSUME NulInv, B!Next
    PROVE  NulInv'
<1>1. StringsInv /\ StringsInv'
  BY StringsStep DEF NulInv
<1>2. object'.other = object.other /\ (object'.replaced \/ object'.replaced = object.replaced)
  <2>1. object = [subject |-> object.subject, other |-> object.other, replaced |-> object.replaced]
    BY <1>1 DEF StringsInv
  <2>2. ASSUME NEW string, B!Becomes(string)
        PROVE  object'.other = object.other /\ object'.replaced = object.replaced
    BY <2>1, <2>2 DEF B!Becomes
  <2>3. ASSUME NEW k \in 0 .. MaxString, B!Replace(k)
        PROVE  object'.other = object.other /\ object'.replaced
    <3>1. PICK string : object' = [object EXCEPT !.replaced = TRUE, !.subject = string]
      BY <2>3 DEF B!Replace
    <3> QED
      BY <2>1, <3>1
  <2> QED
    BY <2>2, <2>3 DEF B!Next, B!AppendString, B!AppendCString, B!InsertCString
<1>3. ASSUME ~object'.replaced
      PROVE  \E k \in 1 .. Len(object'.subject) : object'.subject[k] = B!NUL
  <2>1. PICK j \in 1 .. Len(object.subject) : object.subject[j] = B!NUL
    BY <1>2, <1>3 DEF NulInv
  <2>2. /\ object.subject \in Seq(Bytes) /\ Len(object.subject) \in Nat \ {0}
        /\ object = [subject |-> object.subject, other |-> object.other, replaced |-> object.replaced]
    BY <1>1 DEF StringsInv
  <2>3. ASSUME NEW text \in B!S!BoundedSeq(Chars, 1), NEW k \in Nat, k <= Len(object.subject),
               B!Becomes(B!Inserted(object.subject, k, text))
        PROVE  \E n \in 1 .. Len(object'.subject) : object'.subject[n] = B!NUL
    <3>1. PICK n \in Nat : text \in [1 .. n -> Chars]
      BY Short
    <3>2. text \in Seq(Bytes)
      <4>1. text \in Seq(Chars)
        BY <3>1
      <4> QED
        BY <4>1, SeqMonotonic DEF Bytes
    <3>3. object'.subject = B!Inserted(object.subject, k, text)
      BY <2>2, <2>3 DEF B!Becomes
    <3>4. \E m \in 1 .. Len(B!Inserted(object.subject, k, text)) :
             B!Inserted(object.subject, k, text)[m] = object.subject[j]
      BY <2>2, <2>3, <3>2, NulStays
    <3> QED
      BY <2>1, <3>3, <3>4
  <2>4. CASE B!AppendString
    <3>1. object'.subject = B!Create(B!Text(object.subject) \o B!Text(object.other))
      BY <1>1, <1>2, <1>3, <2>4, AppendIsText DEF B!AppendsText, B!subject, B!other
    <3> DEFINE text == B!Text(object.subject) \o B!Text(object.other)
    <3>2. text \in Seq(Bytes)
      <4>1. ASSUME NEW s \in Seq(Bytes), Len(s) # 0
            PROVE  B!Text(s) \in Seq(Bytes)
        <5> DEFINE l == Len(s) - 1
        <5>1. l \in Nat /\ 1 <= l + 1 /\ l <= Len(s)
          BY <4>1
        <5> HIDE DEF l
        <5>2. SubSeq(s, 1, l) \in Seq(Bytes)
          BY <5>1, Part
        <5> QED
          BY <5>2 DEF l, B!Text, B!Length
      <4>2. B!Text(object.subject) \in Seq(Bytes) /\ B!Text(object.other) \in Seq(Bytes)
        BY <1>1, <4>1 DEF StringsInv
      <4> QED
        BY <4>2, ConcatProperties
    <3> HIDE DEF text
    <3>3. B!NUL \in Bytes
      BY DEF Bytes
    <3>4. /\ Len(B!Create(text)) = Len(text) + 1
          /\ B!Create(text)[Len(text) + 1] = B!NUL
      BY <3>2, <3>3, AppendProperties DEF B!Create
    <3>5. Len(text) + 1 \in 1 .. Len(text) + 1
      BY <3>2
    <3> QED
      BY <3>1, <3>4, <3>5 DEF text
  <2>5. ASSUME NEW text \in B!S!BoundedSeq(Chars, 1), B!AppendCString(text)
        PROVE  \E n \in 1 .. Len(object'.subject) : object'.subject[n] = B!NUL
    <3>1. Len(object.subject) - 1 \in Nat /\ Len(object.subject) - 1 <= Len(object.subject)
      BY <2>2
    <3> QED
      BY <2>3, <2>5, <3>1 DEF B!AppendCString, B!Length, B!subject
  <2>6. ASSUME NEW text \in B!S!BoundedSeq(Chars, 1), NEW k \in 0 .. MaxString,
               B!InsertCString(text, k)
        PROVE  \E n \in 1 .. Len(object'.subject) : object'.subject[n] = B!NUL
    BY <2>3, <2>6 DEF B!InsertCString, B!subject
  <2>7. ASSUME NEW k \in 0 .. MaxString, B!Replace(k)
        PROVE  FALSE
    <3>1. PICK string : object' = [object EXCEPT !.replaced = TRUE, !.subject = string]
      BY <2>7 DEF B!Replace
    <3> QED
      BY <1>3, <2>2, <3>1
  <2> QED
    BY <2>4, <2>5, <2>6, <2>7 DEF B!Next
<1>4. \A k \in 1 .. Len(object'.other) - 1 : object'.other[k] # B!NUL
  BY <1>2 DEF NulInv
<1> QED
  BY <1>1, <1>3, <1>4 DEF NulInv

\* Strings with one text are the same.
LEMMA OrderIsTotal == NulInv => B!AscendingIsTotal
<1>1. SUFFICES ASSUME NulInv, ~object.replaced
               PROVE  /\ B!Ascending(object.subject, object.other)
                            \/ B!Ascending(object.other, object.subject)
                      /\ B!Ascending(object.subject, object.other)
                            /\ B!Ascending(object.other, object.subject)
                         => object.subject = object.other
  BY DEF B!AscendingIsTotal, B!subject, B!other
<1>2. PICK l \in Nat, m \in Nat : Len(object.subject) = l + 1 /\ Len(object.other) = m + 1
  BY <1>1, OneLess DEF NulInv
<1>3. object.subject \in Seq(Nat) /\ object.other \in Seq(Nat)
  <2>1. Bytes \subseteq Nat
    BY CharsAssumption DEF Bytes, B!NUL
  <2> QED
    BY <1>1, <2>1, SeqMonotonic DEF NulInv, StringsInv
<1>4. ASSUME l = m, \A n \in 1 .. l : object.subject[n] = object.other[n]
      PROVE  object.subject = object.other
  <2>1. PICK k \in 1 .. l + 1 : object.subject[k] = B!NUL
    BY <1>1, <1>2 DEF NulInv
  <2>2. \A n \in 1 .. l : object.other[n] # B!NUL
    <3>1. m + 1 - 1 = l
      BY <1>4
    <3> QED
      BY <1>1, <1>2, <3>1 DEF NulInv
  <2>3. k = l + 1
    <3>1. k \notin 1 .. l
      BY <1>4, <2>1, <2>2
    <3> QED
      BY <3>1
  <2>4. object.subject[l + 1] = object.other[l + 1]
    BY <1>1, <1>2, <1>4, <2>1, <2>3 DEF NulInv, StringsInv
  <2>5. \A n \in 1 .. l + 1 : n \in 1 .. l \/ n = l + 1
    OBVIOUS
  <2>6. \A n \in 1 .. Len(object.subject) : object.subject[n] = object.other[n]
    BY <1>2, <1>4, <2>4, <2>5
  <2> QED
    BY <1>2, <1>3, <1>4, <2>6, SeqEqual
<1>5. /\ B!Ascending(object.subject, object.other) \/ B!Ascending(object.other, object.subject)
      /\ B!Ascending(object.subject, object.other) /\ B!Ascending(object.other, object.subject) =>
            l = m /\ \A n \in 1 .. l : object.subject[n] = object.other[n]
  <2> DEFINE s == object.subject
             t == object.other
  <2>1. s \in Seq(Nat) /\ t \in Seq(Nat) /\ Len(s) = l + 1 /\ Len(t) = m + 1
    BY <1>2, <1>3
  <2> HIDE DEF s, t
  <2>2. /\ B!Ascending(s, t) \/ B!Ascending(t, s)
        /\ B!Ascending(s, t) /\ B!Ascending(t, s) => l = m /\ \A n \in 1 .. l : s[n] = t[n]
    BY <2>1, TotallyOrdered
  <2> QED
    BY <2>2 DEF s, t
<1> QED
  BY <1>4, <1>5

-----------------------------------------------------------------------------
(* Splitting and stripping strings                                          *)

\* The places of a set one by one, upwards or downwards.
Listing(places, n, e, upwards) ==
    /\ n \in Nat /\ e \in [1 .. n -> places] /\ places \in SUBSET Nat
    /\ \A p \in places : \E k \in 1 .. n : e[k] = p
    /\ \A j, k \in 1 .. n : j < k => IF upwards THEN e[j] < e[k] ELSE e[k] < e[j]

\* A place beyond all of them is listed behind them.
LEMMA ListingGrows ==
    ASSUME NEW places, NEW n, NEW e, NEW upwards, Listing(places, n, e, upwards),
           NEW p \in Nat, \A q \in places : IF upwards THEN q < p ELSE p < q
    PROVE  Listing(places \union {p}, n + 1, [k \in 1 .. n + 1 |-> IF k <= n THEN e[k] ELSE p], upwards)
<1> DEFINE longer == [k \in 1 .. n + 1 |-> IF k <= n THEN e[k] ELSE p]
<1>1. /\ n \in Nat /\ n + 1 \in Nat /\ places \in SUBSET Nat
      /\ \A k \in 1 .. n + 1 : k \in 1 .. n \/ k = n + 1
      /\ \A k \in 1 .. n : k \in 1 .. n + 1 /\ k <= n /\ e[k] \in places
  BY DEF Listing
<1>2. /\ \A k \in 1 .. n : longer[k] = e[k]
      /\ longer[n + 1] = p
  BY <1>1
<1>3. longer \in [1 .. n + 1 -> places \union {p}]
  BY <1>1
<1> HIDE DEF longer
<1>4. ASSUME NEW q \in places \union {p}
      PROVE  \E k \in 1 .. n + 1 : longer[k] = q
  <2>1. CASE q = p
    BY <1>1, <1>2, <2>1
  <2>2. CASE q \in places
    BY <1>1, <1>2, <2>2 DEF Listing
  <2> QED
    BY <2>1, <2>2
<1>5. ASSUME NEW j \in 1 .. n + 1, NEW k \in 1 .. n + 1, j < k
      PROVE  IF upwards THEN longer[j] < longer[k] ELSE longer[k] < longer[j]
  <2>1. j \in 1 .. n
    BY <1>1, <1>5
  <2>2. CASE k \in 1 .. n
    BY <1>2, <1>5, <2>1, <2>2 DEF Listing
  <2>3. CASE k = n + 1
    BY <1>1, <1>2, <2>1, <2>3
  <2> QED
    BY <1>1, <2>2, <2>3
<1>6. places \union {p} \in SUBSET Nat
  BY <1>1
<1> QED
  BY <1>1, <1>3, <1>4, <1>5, <1>6 DEF Listing, longer

\* The other way round it is listed in the other direction.
LEMMA ListingTurned ==
    ASSUME NEW places, NEW n, NEW e, Listing(places, n, e, FALSE)
    PROVE  Listing(places, n, [k \in 1 .. n |-> e[n - k + 1]], TRUE)
<1> DEFINE turned == [k \in 1 .. n |-> e[n - k + 1]]
<1>1. /\ n \in Nat /\ places \in SUBSET Nat
      /\ \A k \in 1 .. n : n - k + 1 \in 1 .. n /\ n - (n - k + 1) + 1 = k
  BY DEF Listing
<1>2. turned \in [1 .. n -> places]
  BY <1>1 DEF Listing
<1>3. \A k \in 1 .. n : turned[k] = e[n - k + 1]
  OBVIOUS
<1> HIDE DEF turned
<1>4. ASSUME NEW q \in places
      PROVE  \E k \in 1 .. n : turned[k] = q
  <2>1. PICK k \in 1 .. n : e[k] = q
    BY DEF Listing
  <2>2. turned[n - k + 1] = q
    BY <1>1, <1>3, <2>1
  <2> QED
    BY <1>1, <2>2
<1>5. ASSUME NEW j \in 1 .. n, NEW k \in 1 .. n, j < k
      PROVE  turned[j] < turned[k]
  <2>1. n - k + 1 < n - j + 1
    BY <1>1, <1>5
  <2> QED
    BY <1>1, <1>3, <2>1 DEF Listing
<1> QED
  BY <1>1, <1>2, <1>4, <1>5 DEF Listing, turned

\* The sizes of sets are the same there.
LEMMA SizesAre == \A s : B!Cardinality(s) = Cardinality(s)
BY DEF B!Cardinality, Cardinality

\* A list upwards says what the k-th place is.
LEMMA NthIs ==
    ASSUME NEW places, NEW n, NEW e, Listing(places, n, e, TRUE)
    PROVE  /\ B!Cardinality(places) = n
           /\ \A k \in 1 .. n : B!Nth(places, k) = e[k]
<1>1. /\ n \in Nat /\ places \in SUBSET Nat /\ e \in [1 .. n -> places]
      /\ \A j, k \in 1 .. n : j < k => e[j] < e[k]
      /\ \A p \in places : \E k \in 1 .. n : e[k] = p
  BY DEF Listing
<1>2. ASSUME NEW k \in 1 .. n
      PROVE  e[k] \in Nat /\ k \in Nat
  <2>1. e[k] \in places
    BY <1>1
  <2>2. e[k] \in Nat
    BY <1>1, <2>1, Zenon
  <2> QED
    BY <2>2
<1>3. \A j, k \in 1 .. n : e[j] < e[k] <=> j < k
  <2>1. SUFFICES ASSUME NEW j \in 1 .. n, NEW k \in 1 .. n, e[j] < e[k] PROVE j < k
    BY <1>1
  <2>2. ~(k < j)
    BY <1>1, <1>2, <2>1
  <2>3. k # j
    BY <1>2, <2>1
  <2> QED
    BY <1>2, <2>2, <2>3
<1>4. ASSUME NEW m \in 0 .. n, NEW part, part = { p \in places : \E j \in 1 .. m : e[j] = p }
      PROVE  Cardinality(part) = m
  <2> DEFINE f == [j \in 1 .. m |-> e[j]]
  <2>1. m \in Nat /\ \A j \in 1 .. m : j \in 1 .. n
    BY <1>1
  <2>2. f \in [1 .. m -> part]
    BY <1>1, <1>4, <2>1
  <2>3. \A j, k \in 1 .. m : j # k => f[j] # f[k]
    <3>1. SUFFICES ASSUME NEW j \in 1 .. m, NEW k \in 1 .. m, j # k PROVE e[j] # e[k]
      OBVIOUS
    <3>2. j < k \/ k < j
      BY <2>1, <3>1
    <3>3. ~(e[j] < e[j]) /\ ~(e[k] < e[k])
      BY <1>2, <2>1
    <3> QED
      BY <1>3, <2>1, <3>2, <3>3
  <2>4. \A p \in part : \E j \in 1 .. m : f[j] = p
    BY <1>4
  <2>5. f \in Bijection(1 .. m, part)
    BY <2>2, <2>3, <2>4 DEF Bijection, Injection, Surjection, IsInjective
  <2>6. ExistsBijection(1 .. m, part)
    BY <2>5 DEF ExistsBijection
  <2> QED
    BY <2>1, <2>6, FS_CountingElements
<1>5. Cardinality(places) = n
  <2>1. places = { p \in places : \E j \in 1 .. n : e[j] = p }
    BY <1>1, Zenon
  <2>2. n \in 0 .. n
    BY <1>1
  <2> QED
    BY <1>4, <2>1, <2>2
<1>6. ASSUME NEW k \in 1 .. n
      PROVE  Cardinality({ m \in places : m < e[k] }) = k - 1
  <2>1. k - 1 \in 0 .. n /\ \A j \in 1 .. n : j < k <=> j \in 1 .. k - 1
    BY <1>1
  <2>2. ASSUME NEW m \in places
        PROVE  m < e[k] <=> \E j \in 1 .. k - 1 : e[j] = m
    <3>1. PICK j \in 1 .. n : e[j] = m
      BY <1>1
    <3>2. ASSUME m < e[k] PROVE \E l \in 1 .. k - 1 : e[l] = m
      BY <1>3, <2>1, <3>1, <3>2
    <3>3. ASSUME NEW l \in 1 .. k - 1, e[l] = m PROVE m < e[k]
      <4>1. l \in 1 .. n /\ l < k
        BY <1>1
      <4> QED
        BY <1>3, <3>3, <4>1
    <3> QED
      BY <3>2, <3>3
  <2>3. { m \in places : m < e[k] } = { p \in places : \E j \in 1 .. k - 1 : e[j] = p }
    BY <2>2
  <2> QED
    BY <1>4, <2>1, <2>3
<1>7. ASSUME NEW k \in 1 .. n
      PROVE  B!Nth(places, k) = e[k]
  <2> DEFINE P(q) == q \in places /\ B!Cardinality({ m \in places : m < q }) = k - 1
  <2>1. P(e[k])
    BY <1>1, <1>6, SizesAre
  <2>2. ASSUME NEW q, P(q) PROVE q = e[k]
    <3>1. PICK j \in 1 .. n : e[j] = q
      BY <1>1, <2>2
    <3>2. Cardinality({ m \in places : m < e[j] }) = j - 1
      BY <1>6
    <3>3. j - 1 = k - 1
      BY <2>2, <3>1, <3>2, SizesAre
    <3>4. j = k
      BY <1>2, <3>3
    <3> QED
      BY <3>1, <3>4
  <2>3. B!Nth(places, k) = CHOOSE q : P(q)
    BY DEF B!Nth
  <2> HIDE DEF P
  <2> QED
    BY <2>1, <2>2, <2>3
<1> QED
  BY <1>5, <1>7, SizesAre

\* What the greatest of a set of natural numbers is.
LEMMA LastIs ==
    ASSUME NEW Items \in SUBSET Nat, NEW greatest \in Items, \A m \in Items : greatest >= m
    PROVE  B!S!Max(Items) = greatest
<1> DEFINE P(k) == k \in Items /\ \A m \in Items : k >= m
<1>1. B!S!Max(Items) = CHOOSE k : P(k)
  BY DEF B!S!Max
<1>2. P(greatest)
  OBVIOUS
<1>3. \A k : P(k) => k = greatest
  OBVIOUS
<1> HIDE DEF P
<1> QED
  BY <1>1, <1>2, <1>3

\* One step of bl_string_strip, without a limit, and all of them.
StripStart == [kept |-> <<>>, stripped |-> 0]

StripStep(s, char, fromBack, acc, index) ==
    IF s[index + 1] # char \/ (0 # 0 /\ acc.stripped >= 0)
    THEN [acc EXCEPT !.kept = Append(@, s[index + 1])]
    ELSE [acc EXCEPT !.stripped = @ + 1]

Strips(n, s, char, fromBack, order, f) ==
    [t \in SUBSET (1 .. n) |->
        IF t = {} THEN StripStart
        ELSE StripStep(s, char, fromBack, f[t \ {B!S!Max(t)}], order[B!S!Max(t)])]

\* So there is a function that makes the steps of Strip on every set of places,
\* the greatest last.
LEMMA StripExists ==
    ASSUME NEW n \in Nat, NEW s, NEW char, NEW fromBack, NEW order
    PROVE  \E f : f = Strips(n, s, char, fromBack, order, f)
<1> DEFINE Made(m) == \E f : f = Strips(m, s, char, fromBack, order, f)
           Unmade  == { m \in Nat : ~Made(m) }
<1>1. SUFFICES ASSUME ~Made(n) PROVE FALSE
  OBVIOUS
<1>2. PICK least \in Unmade : \A m \in Unmade : least <= m
  <2>1. Unmade \in SUBSET Nat /\ n \in Unmade
    BY <1>1
  <2> HIDE DEF Unmade
  <2> QED
    BY <2>1, LeastNatural
<1>3. Made(0)
  <2>1. [t \in SUBSET (1 .. 0) |-> StripStart]
            = Strips(0, s, char, fromBack, order, [t \in SUBSET (1 .. 0) |-> StripStart])
    <3>1. \A t \in SUBSET (1 .. 0) : t = {}
      OBVIOUS
    <3> QED
      BY <3>1 DEF Strips
  <2> QED
    BY <2>1, Zenon
<1>4. least \in Nat /\ ~Made(least) /\ least # 0
  BY <1>2, <1>3
<1> DEFINE m == least - 1
<1>5. m \in Nat /\ least = m + 1 /\ m \notin Unmade
  <2>1. m \in Nat /\ least = m + 1 /\ ~(least <= m)
    BY <1>4
  <2> HIDE DEF m, Unmade
  <2> QED
    BY <1>2, <2>1
<1>6. PICK f : f = Strips(m, s, char, fromBack, order, f)
  <2>1. Made(m)
    BY <1>5
  <2> QED
    BY <2>1
<1> HIDE DEF m, Made, Unmade
<1> DEFINE g == [t \in SUBSET (1 .. m + 1) |->
                    IF m + 1 \notin t THEN f[t]
                    ELSE StripStep(s, char, fromBack, f[t \ {m + 1}], order[m + 1])]
<1>7. ASSUME NEW t \in SUBSET (1 .. m + 1)
      PROVE  g[t] = IF t = {} THEN StripStart
                    ELSE StripStep(s, char, fromBack, g[t \ {B!S!Max(t)}], order[B!S!Max(t)])
  <2>1. \A u \in SUBSET (1 .. m + 1) : m + 1 \notin u => u \in SUBSET (1 .. m)
    BY <1>5
  <2>2. CASE m + 1 \in t
    <3>1. B!S!Max(t) = m + 1
      <4>1. t \in SUBSET Nat /\ \A k \in t : m + 1 >= k
        BY <1>5
      <4> QED
        BY <2>2, <4>1, LastIs
    <3>2. t \ {m + 1} \in SUBSET (1 .. m + 1) /\ m + 1 \notin t \ {m + 1} /\ t # {}
      BY <2>2
    <3>3. g[t \ {m + 1}] = f[t \ {m + 1}]
      BY <3>2
    <3>4. g[t] = StripStep(s, char, fromBack, f[t \ {m + 1}], order[m + 1])
      BY <2>2
    <3> HIDE DEF g
    <3> QED
      BY <3>1, <3>2, <3>3, <3>4
  <2>3. CASE m + 1 \notin t
    <3>1. t \in SUBSET (1 .. m) /\ g[t] = f[t]
      BY <2>1, <2>3
    <3>2. f[t] = IF t = {} THEN StripStart
                 ELSE StripStep(s, char, fromBack, f[t \ {B!S!Max(t)}], order[B!S!Max(t)])
      BY <1>6, <3>1 DEF Strips
    <3>3. g[t \ {B!S!Max(t)}] = f[t \ {B!S!Max(t)}]
      <4>1. t \ {B!S!Max(t)} \in SUBSET (1 .. m + 1) /\ m + 1 \notin t \ {B!S!Max(t)}
        BY <2>3
      <4> QED
        BY <4>1
    <3> HIDE DEF g
    <3> QED
      BY <3>1, <3>2, <3>3
  <2> QED
    BY <2>2, <2>3
<1>8. g = Strips(m + 1, s, char, fromBack, order, g)
  <2>1. g = [t \in SUBSET (1 .. m + 1) |-> g[t]]
    BY Zenon
  <2> HIDE DEF g
  <2>2. [t \in SUBSET (1 .. m + 1) |-> g[t]] = Strips(m + 1, s, char, fromBack, order, g)
    BY <1>7 DEF Strips
  <2> QED
    BY <2>1, <2>2, Zenon
<1> QED
  BY <1>4, <1>5, <1>8 DEF Made

\* One step of bl_string_split_multi, at one char and without a limit, and all
\* of them.
Piece(s, first, last) == B!Create(SubSeq(s, first + 1, last + 1))

Portion(s, fromBack, begin, end) ==
    IF fromBack THEN Piece(s, end + 1, begin) ELSE Piece(s, begin, end - 1)

SplitStart(s, fromBack) ==
    [begin |-> IF fromBack THEN B!Length(s) - 1 ELSE 0, split |-> 0, pieces |-> <<>>]

SplitStep(s, char, fromBack, acc, index) ==
    IF s[index + 1] \notin {char} THEN acc
    ELSE IF 0 # 0 /\ acc.split >= 0 THEN acc
    ELSE [begin |-> index + (IF fromBack THEN -1 ELSE 1), split |-> acc.split + 1,
          pieces |-> IF acc.begin = index THEN acc.pieces
                     ELSE Append(acc.pieces, Portion(s, fromBack, acc.begin, index))]

Splits(n, s, char, fromBack, order, f) ==
    [t \in SUBSET (1 .. n) |->
        IF t = {} THEN SplitStart(s, fromBack)
        ELSE SplitStep(s, char, fromBack, f[t \ {B!S!Max(t)}], order[B!S!Max(t)])]

\* So there is a function that makes the steps of Split on every set of places,
\* the greatest last.
LEMMA SplitExists ==
    ASSUME NEW n \in Nat, NEW s, NEW char, NEW fromBack, NEW order
    PROVE  \E f : f = Splits(n, s, char, fromBack, order, f)
<1> DEFINE Made(m) == \E f : f = Splits(m, s, char, fromBack, order, f)
           Unmade  == { m \in Nat : ~Made(m) }
<1>1. SUFFICES ASSUME ~Made(n) PROVE FALSE
  OBVIOUS
<1>2. PICK least \in Unmade : \A m \in Unmade : least <= m
  <2>1. Unmade \in SUBSET Nat /\ n \in Unmade
    BY <1>1
  <2> HIDE DEF Unmade
  <2> QED
    BY <2>1, LeastNatural
<1>3. Made(0)
  <2>1. [t \in SUBSET (1 .. 0) |-> SplitStart(s, fromBack)]
            = Splits(0, s, char, fromBack, order, [t \in SUBSET (1 .. 0) |-> SplitStart(s, fromBack)])
    <3>1. \A t \in SUBSET (1 .. 0) : t = {}
      OBVIOUS
    <3> QED
      BY <3>1 DEF Splits
  <2> QED
    BY <2>1, Zenon
<1>4. least \in Nat /\ ~Made(least) /\ least # 0
  BY <1>2, <1>3
<1> DEFINE m == least - 1
<1>5. m \in Nat /\ least = m + 1 /\ m \notin Unmade
  <2>1. m \in Nat /\ least = m + 1 /\ ~(least <= m)
    BY <1>4
  <2> HIDE DEF m, Unmade
  <2> QED
    BY <1>2, <2>1
<1>6. PICK f : f = Splits(m, s, char, fromBack, order, f)
  <2>1. Made(m)
    BY <1>5
  <2> QED
    BY <2>1
<1> HIDE DEF m, Made, Unmade
<1> DEFINE g == [t \in SUBSET (1 .. m + 1) |->
                    IF m + 1 \notin t THEN f[t]
                    ELSE SplitStep(s, char, fromBack, f[t \ {m + 1}], order[m + 1])]
<1>7. ASSUME NEW t \in SUBSET (1 .. m + 1)
      PROVE  g[t] = IF t = {} THEN SplitStart(s, fromBack)
                    ELSE SplitStep(s, char, fromBack, g[t \ {B!S!Max(t)}], order[B!S!Max(t)])
  <2>1. \A u \in SUBSET (1 .. m + 1) : m + 1 \notin u => u \in SUBSET (1 .. m)
    BY <1>5
  <2>2. CASE m + 1 \in t
    <3>1. B!S!Max(t) = m + 1
      <4>1. t \in SUBSET Nat /\ \A k \in t : m + 1 >= k
        BY <1>5
      <4> QED
        BY <2>2, <4>1, LastIs
    <3>2. t \ {m + 1} \in SUBSET (1 .. m + 1) /\ m + 1 \notin t \ {m + 1} /\ t # {}
      BY <2>2
    <3>3. g[t \ {m + 1}] = f[t \ {m + 1}]
      BY <3>2
    <3>4. g[t] = SplitStep(s, char, fromBack, f[t \ {m + 1}], order[m + 1])
      BY <2>2
    <3> HIDE DEF g
    <3> QED
      BY <3>1, <3>2, <3>3, <3>4
  <2>3. CASE m + 1 \notin t
    <3>1. t \in SUBSET (1 .. m) /\ g[t] = f[t]
      BY <2>1, <2>3
    <3>2. f[t] = IF t = {} THEN SplitStart(s, fromBack)
                 ELSE SplitStep(s, char, fromBack, f[t \ {B!S!Max(t)}], order[B!S!Max(t)])
      BY <1>6, <3>1 DEF Splits
    <3>3. g[t \ {B!S!Max(t)}] = f[t \ {B!S!Max(t)}]
      <4>1. t \ {B!S!Max(t)} \in SUBSET (1 .. m + 1) /\ m + 1 \notin t \ {B!S!Max(t)}
        BY <2>3
      <4> QED
        BY <4>1
    <3> HIDE DEF g
    <3> QED
      BY <3>1, <3>2, <3>3
  <2> QED
    BY <2>2, <2>3
<1>8. g = Splits(m + 1, s, char, fromBack, order, g)
  <2>1. g = [t \in SUBSET (1 .. m + 1) |-> g[t]]
    BY Zenon
  <2> HIDE DEF g
  <2>2. [t \in SUBSET (1 .. m + 1) |-> g[t]] = Splits(m + 1, s, char, fromBack, order, g)
    BY <1>7 DEF Splits
  <2> QED
    BY <2>1, <2>2, Zenon
<1> QED
  BY <1>4, <1>5, <1>8 DEF Made

\* The step from one number of places to the next.
LEMMA FirstPlaces ==
    ASSUME NEW k \in Nat
    PROVE  /\ 1 .. k + 1 # {} /\ B!S!Max(1 .. k + 1) = k + 1
           /\ (1 .. k + 1) \ {B!S!Max(1 .. k + 1)} = 1 .. k
<1>1. B!S!Max(1 .. k + 1) = k + 1
  <2>1. 1 .. k + 1 \in SUBSET Nat /\ k + 1 \in 1 .. k + 1 /\ \A m \in 1 .. k + 1 : k + 1 >= m
    OBVIOUS
  <2> QED
    BY <2>1, LastIs
<1>2. 1 .. k + 1 # {} /\ (1 .. k + 1) \ {k + 1} = 1 .. k
  OBVIOUS
<1> QED
  BY <1>1, <1>2

LEMMA StripGoes ==
    ASSUME NEW l \in Nat, NEW s, NEW char, NEW fromBack, NEW order, NEW f,
           f = Strips(l, s, char, fromBack, order, f)
    PROVE  /\ f[1 .. 0] = StripStart
           /\ \A k \in Nat : k + 1 <= l =>
                 f[1 .. k + 1] = StripStep(s, char, fromBack, f[1 .. k], order[k + 1])
<1>1. \A t \in SUBSET (1 .. l) :
          f[t] = IF t = {} THEN StripStart
                 ELSE StripStep(s, char, fromBack, f[t \ {B!S!Max(t)}], order[B!S!Max(t)])
  BY DEF Strips
<1>2. 1 .. 0 = {} /\ {} \in SUBSET (1 .. l)
  OBVIOUS
<1>3. ASSUME NEW k \in Nat, k + 1 <= l
      PROVE  f[1 .. k + 1] = StripStep(s, char, fromBack, f[1 .. k], order[k + 1])
  <2>1. 1 .. k + 1 \in SUBSET (1 .. l)
    BY <1>3
  <2>2. /\ 1 .. k + 1 # {} /\ B!S!Max(1 .. k + 1) = k + 1
        /\ (1 .. k + 1) \ {B!S!Max(1 .. k + 1)} = 1 .. k
    BY FirstPlaces
  <2>3. f[1 .. k + 1] = StripStep(s, char, fromBack,
            f[(1 .. k + 1) \ {B!S!Max(1 .. k + 1)}], order[B!S!Max(1 .. k + 1)])
    BY <1>1, <2>1, <2>2, Zenon
  <2> QED
    BY <2>2, <2>3, Zenon
<1> QED
  BY <1>1, <1>2, <1>3

LEMMA SplitGoes ==
    ASSUME NEW l \in Nat, NEW s, NEW char, NEW fromBack, NEW order, NEW f,
           f = Splits(l, s, char, fromBack, order, f)
    PROVE  /\ f[1 .. 0] = SplitStart(s, fromBack)
           /\ \A k \in Nat : k + 1 <= l =>
                 f[1 .. k + 1] = SplitStep(s, char, fromBack, f[1 .. k], order[k + 1])
<1>1. \A t \in SUBSET (1 .. l) :
          f[t] = IF t = {} THEN SplitStart(s, fromBack)
                 ELSE SplitStep(s, char, fromBack, f[t \ {B!S!Max(t)}], order[B!S!Max(t)])
  BY DEF Splits
<1>2. 1 .. 0 = {} /\ {} \in SUBSET (1 .. l)
  OBVIOUS
<1>3. ASSUME NEW k \in Nat, k + 1 <= l
      PROVE  f[1 .. k + 1] = SplitStep(s, char, fromBack, f[1 .. k], order[k + 1])
  <2>1. 1 .. k + 1 \in SUBSET (1 .. l)
    BY <1>3
  <2>2. /\ 1 .. k + 1 # {} /\ B!S!Max(1 .. k + 1) = k + 1
        /\ (1 .. k + 1) \ {B!S!Max(1 .. k + 1)} = 1 .. k
    BY FirstPlaces
  <2>3. f[1 .. k + 1] = SplitStep(s, char, fromBack,
            f[(1 .. k + 1) \ {B!S!Max(1 .. k + 1)}], order[B!S!Max(1 .. k + 1)])
    BY <1>1, <2>1, <2>2, Zenon
  <2> QED
    BY <2>2, <2>3, Zenon
<1> QED
  BY <1>1, <1>2, <1>3

\* What the two calls give is what the last of the steps leaves.
StripMade(s, char, fromBack, l, f) ==
    /\ f[1 .. 0] = StripStart
    /\ \A k \in Nat : k + 1 <= l =>
          f[1 .. k + 1] = StripStep(s, char, fromBack, f[1 .. k], B!Order(s, fromBack)[k + 1])
    /\ B!Strip(s, char, fromBack, 0) =
          B!Create(IF fromBack THEN B!S!Reverse(f[1 .. l].kept) ELSE f[1 .. l].kept)

SplitMade(s, char, fromBack, l, f) ==
    /\ f[1 .. 0] = SplitStart(s, fromBack)
    /\ \A k \in Nat : k + 1 <= l =>
          f[1 .. k + 1] = SplitStep(s, char, fromBack, f[1 .. k], B!Order(s, fromBack)[k + 1])
    /\ LET end    == IF fromBack THEN -1 ELSE l
           folded == f[1 .. l]
           pieces == IF folded.begin = end THEN folded.pieces
                     ELSE Append(folded.pieces, Portion(s, fromBack, folded.begin, end))
       IN  B!Split(s, {char}, fromBack, 0) = IF fromBack THEN B!S!Reverse(pieces) ELSE pieces

LEMMA StripIs ==
    ASSUME NEW s, NEW char, NEW fromBack, NEW l \in Nat, B!Length(s) = l
    PROVE  \E f : StripMade(s, char, fromBack, l, f)
<1> DEFINE order == B!Order(s, fromBack)
           f == CHOOSE f : f = [t \in SUBSET DOMAIN order |->
                    IF t = {} THEN [kept |-> <<>>, stripped |-> 0]
                    ELSE StripStep(s, char, fromBack, f[t \ {B!S!Max(t)}], order[B!S!Max(t)])]
<1>1. DOMAIN order = 1 .. l
  BY DEF B!Order
<1>2. B!Strip(s, char, fromBack, 0) =
          B!Create(IF fromBack THEN B!S!Reverse(f[DOMAIN order].kept) ELSE f[DOMAIN order].kept)
  BY Zenon DEF B!Strip, B!S!FoldLeft, B!S!MapThenFoldSet, StripStep
<1> HIDE DEF order
<1>3. f = CHOOSE g : g = Strips(l, s, char, fromBack, order, g)
  BY <1>1, Zenon DEF Strips, StripStart
<1>4. f = Strips(l, s, char, fromBack, order, f)
  <2> HIDE DEF f
  <2> QED
    BY <1>3, StripExists
<1> HIDE DEF f
<1>5. /\ f[1 .. 0] = StripStart
      /\ \A k \in Nat : k + 1 <= l =>
            f[1 .. k + 1] = StripStep(s, char, fromBack, f[1 .. k], order[k + 1])
  BY <1>4, StripGoes
<1>6. B!Strip(s, char, fromBack, 0) =
          B!Create(IF fromBack THEN B!S!Reverse(f[1 .. l].kept) ELSE f[1 .. l].kept)
  BY <1>1, <1>2, Zenon
<1>7. \A k \in Nat : k + 1 <= l =>
          f[1 .. k + 1] = StripStep(s, char, fromBack, f[1 .. k], B!Order(s, fromBack)[k + 1])
  BY <1>5, Zenon DEF order
<1> QED
  BY <1>5, <1>6, <1>7, Zenon DEF StripMade

LEMMA SplitIs ==
    ASSUME NEW s, NEW char, NEW fromBack, NEW l \in Nat, B!Length(s) = l
    PROVE  \E f : SplitMade(s, char, fromBack, l, f)
<1> DEFINE order == B!Order(s, fromBack)
           f == CHOOSE f : f = [t \in SUBSET DOMAIN order |->
                    IF t = {} THEN SplitStart(s, fromBack)
                    ELSE SplitStep(s, char, fromBack, f[t \ {B!S!Max(t)}], order[B!S!Max(t)])]
           Result(all) == LET end    == IF fromBack THEN -1 ELSE B!Length(s)
                              folded == f[all]
                              pieces == IF folded.begin = end THEN folded.pieces
                                        ELSE Append(folded.pieces, Portion(s, fromBack, folded.begin, end))
                          IN  IF fromBack THEN B!S!Reverse(pieces) ELSE pieces
<1>1. DOMAIN order = 1 .. l
  BY DEF B!Order
<1>2. B!Split(s, {char}, fromBack, 0) = Result(DOMAIN order)
  BY Zenon DEF B!Split, B!S!FoldLeft, B!S!MapThenFoldSet, SplitStep, SplitStart, Portion, Piece
<1> HIDE DEF order
<1>3. f = CHOOSE g : g = Splits(l, s, char, fromBack, order, g)
  BY <1>1, Zenon DEF Splits
<1>4. f = Splits(l, s, char, fromBack, order, f)
  <2> HIDE DEF f
  <2> QED
    BY <1>3, SplitExists
<1> HIDE DEF f
<1>5. /\ f[1 .. 0] = SplitStart(s, fromBack)
      /\ \A k \in Nat : k + 1 <= l =>
            f[1 .. k + 1] = SplitStep(s, char, fromBack, f[1 .. k], order[k + 1])
  BY <1>4, SplitGoes
<1>6. B!Split(s, {char}, fromBack, 0) = Result(1 .. l)
  <2> HIDE DEF Result
  <2> QED
    BY <1>1, <1>2
<1>7. \A k \in Nat : k + 1 <= l =>
          f[1 .. k + 1] = SplitStep(s, char, fromBack, f[1 .. k], B!Order(s, fromBack)[k + 1])
  BY <1>5, Zenon DEF order
<1>8. LET end    == IF fromBack THEN -1 ELSE l
          folded == f[1 .. l]
          pieces == IF folded.begin = end THEN folded.pieces
                    ELSE Append(folded.pieces, Portion(s, fromBack, folded.begin, end))
      IN  B!Split(s, {char}, fromBack, 0) = IF fromBack THEN B!S!Reverse(pieces) ELSE pieces
  BY <1>6, Zenon
<1> QED
  BY <1>5, <1>7, <1>8, Zenon DEF SplitMade

\* One more of a list that a function gives.
LEMMA AppendMapped ==
    ASSUME NEW n \in Nat, NEW h, h = [j \in 1 .. n + 1 |-> h[j]]
    PROVE  Append([j \in 1 .. n |-> h[j]], h[n + 1]) = h
<1> DEFINE Items == { h[j] : j \in 1 .. n + 1 }
           q == [j \in 1 .. n |-> h[j]]
<1>1. /\ q \in Seq(Items) /\ Len(q) = n /\ h[n + 1] \in Items
      /\ h \in Seq(Items) /\ Len(h) = n + 1
  <2>1. n + 1 \in Nat /\ n + 1 \in 1 .. n + 1 /\ \A j \in 1 .. n : j \in 1 .. n + 1
    OBVIOUS
  <2>2. \A j \in 1 .. n + 1 : h[j] \in Items
    OBVIOUS
  <2>3. h \in [1 .. n + 1 -> Items] /\ q \in [1 .. n -> Items]
    <3> HIDE DEF Items
    <3> QED
      BY <2>1, <2>2
  <2> HIDE DEF Items, q
  <2> QED
    BY <2>1, <2>2, <2>3
<1>2. \A j \in 1 .. n : q[j] = h[j]
  OBVIOUS
<1> HIDE DEF Items, q
<1>3. /\ Append(q, h[n + 1]) \in Seq(Items) /\ Len(Append(q, h[n + 1])) = n + 1
      /\ \A j \in 1 .. n : Append(q, h[n + 1])[j] = q[j]
      /\ Append(q, h[n + 1])[n + 1] = h[n + 1]
  BY <1>1, AppendProperties
<1>4. \A j \in 1 .. n + 1 : Append(q, h[n + 1])[j] = h[j]
  <2>1. \A j \in 1 .. n + 1 : j \in 1 .. n \/ j = n + 1
    OBVIOUS
  <2> QED
    BY <1>2, <1>3, <2>1
<1>5. Append(q, h[n + 1]) = h
  BY <1>1, <1>3, <1>4, SeqEqual
<1> QED
  BY <1>5 DEF q

\* A string's text.
LEMMA TextIs ==
    ASSUME NEW s \in Seq(Nat), NEW l \in Nat, Len(s) = l + 1
    PROVE  /\ B!Length(s) = l
           /\ B!Text(s) \in Seq(Nat) /\ Len(B!Text(s)) = l /\ DOMAIN B!Text(s) = 1 .. l
           /\ \A p \in 1 .. l : B!Text(s)[p] = s[p]
           /\ \A a, b \in 0 .. l + 1 : a < b =>
                 SubSeq(B!Text(s), a + 1, b - 1) = SubSeq(s, a + 1, b - 1)
<1> DEFINE t == B!Text(s)
<1>1. B!Length(s) = l
  BY DEF B!Length
<1>2. /\ t \in Seq(Nat) /\ Len(t) = l
      /\ \A p \in 1 .. l : t[p] = s[p]
  <2>1. t = SubSeq(s, 1, l) /\ 1 <= l + 1 /\ l <= Len(s) /\ l - 1 + 1 = l
    BY <1>1 DEF B!Text
  <2>2. /\ SubSeq(s, 1, l) \in Seq(Nat) /\ Len(SubSeq(s, 1, l)) = l - 1 + 1
        /\ \A p \in 1 .. l - 1 + 1 : SubSeq(s, 1, l)[p] = s[1 + p - 1]
    BY <2>1, Part
  <2> HIDE DEF t
  <2> QED
    BY <2>1, <2>2
<1> HIDE DEF t
<1>3. DOMAIN t = 1 .. l
  BY <1>2
<1>4. ASSUME NEW a \in 0 .. l + 1, NEW b \in 0 .. l + 1, a < b
      PROVE  SubSeq(t, a + 1, b - 1) = SubSeq(s, a + 1, b - 1)
  <2> DEFINE m == a + 1
             n == b - 1
  <2>1. /\ m \in Nat /\ n \in Nat /\ 1 <= m /\ m <= n + 1 /\ n <= l /\ n <= Len(s)
        /\ n - m + 1 \in Nat
        /\ \A k \in 1 .. n - m + 1 : m + k - 1 \in 1 .. l
    BY <1>4
  <2> HIDE DEF m, n
  <2>2. /\ SubSeq(t, m, n) \in Seq(Nat) /\ Len(SubSeq(t, m, n)) = n - m + 1
        /\ \A k \in 1 .. n - m + 1 : SubSeq(t, m, n)[k] = t[m + k - 1]
    BY <1>2, <2>1, Part
  <2>3. /\ SubSeq(s, m, n) \in Seq(Nat) /\ Len(SubSeq(s, m, n)) = n - m + 1
        /\ \A k \in 1 .. n - m + 1 : SubSeq(s, m, n)[k] = s[m + k - 1]
    BY <2>1, Part
  <2>4. \A k \in 1 .. Len(SubSeq(t, m, n)) : SubSeq(t, m, n)[k] = SubSeq(s, m, n)[k]
    BY <1>2, <2>1, <2>2, <2>3
  <2>5. SubSeq(t, m, n) = SubSeq(s, m, n)
    BY <2>2, <2>3, <2>4, SeqEqual
  <2> QED
    BY <2>5 DEF m, n
<1> QED
  BY <1>1, <1>2, <1>3, <1>4 DEF t

\* The places that a call has come to after k steps, and the one it comes to next.
Passed(l, k, fromBack) == IF fromBack THEN l + 1 - k .. l ELSE 1 .. k

NextPlace(l, k, fromBack) == IF fromBack THEN l - k ELSE k + 1

LEMMA PassedIs ==
    ASSUME NEW l \in Nat, NEW k \in Nat, k + 1 <= l, NEW fromBack \in BOOLEAN,
           NEW s, B!Length(s) = l
    PROVE  LET p == NextPlace(l, k, fromBack) IN
           /\ p \in 1 .. l /\ p \in Nat /\ p \notin Passed(l, k, fromBack)
           /\ Passed(l, k + 1, fromBack) = Passed(l, k, fromBack) \union {p}
           /\ \A q \in Passed(l, k, fromBack) :
                 q \in 1 .. l /\ IF ~fromBack THEN q < p ELSE p < q
           /\ B!Order(s, fromBack)[k + 1] = p - 1 /\ p - 1 + 1 = p
<1>1. CASE fromBack = TRUE
  <2>1. k + 1 \in 1 .. l
    OBVIOUS
  <2>2. B!Order(s, TRUE)[k + 1] = l - (k + 1)
    BY <2>1 DEF B!Order
  <2>3. /\ l - k \in 1 .. l /\ l - k \in Nat /\ l - k \notin l + 1 - k .. l
        /\ l + 1 - (k + 1) .. l = (l + 1 - k .. l) \union {l - k}
        /\ \A q \in l + 1 - k .. l : q \in 1 .. l /\ l - k < q
        /\ l - (k + 1) = l - k - 1 /\ l - k - 1 + 1 = l - k
    OBVIOUS
  <2> QED
    BY <1>1, <2>2, <2>3 DEF Passed, NextPlace
<1>2. CASE fromBack = FALSE
  <2>1. k + 1 \in 1 .. l
    OBVIOUS
  <2>2. B!Order(s, FALSE)[k + 1] = k + 1 - 1
    BY <2>1 DEF B!Order
  <2>3. /\ k + 1 \in Nat /\ k + 1 \notin 1 .. k
        /\ 1 .. k + 1 = (1 .. k) \union {k + 1}
        /\ \A q \in 1 .. k : q \in 1 .. l /\ q < k + 1
        /\ k + 1 - 1 + 1 = k + 1
    OBVIOUS
  <2>4. /\ Passed(l, k, fromBack) = 1 .. k /\ Passed(l, k + 1, fromBack) = 1 .. k + 1
        /\ NextPlace(l, k, fromBack) = k + 1 /\ ~fromBack
        /\ B!Order(s, fromBack)[k + 1] = k + 1 - 1
    BY <1>2, <2>2 DEF Passed, NextPlace
  <2> QED
    BY <2>1, <2>3, <2>4
<1> QED
  BY <1>1, <1>2

\* What is kept after k steps: the chars at those of the places passed that have
\* another, in the order they were passed.
Others(l, s, char, k, fromBack) == { p \in Passed(l, k, fromBack) : s[p] # char }

Kept(l, s, char, k, fromBack, acc) ==
    /\ acc = [kept |-> acc.kept, stripped |-> acc.stripped]
    /\ \E n, e : /\ Listing(Others(l, s, char, k, fromBack), n, e, ~fromBack)
                 /\ acc.kept = [j \in 1 .. n |-> s[e[j]]]

\* An empty list lists no places.
LEMMA ListingNone == \A upwards : Listing({}, 0, <<>>, upwards)
<1>1. <<>> \in [1 .. 0 -> {}] /\ 1 .. 0 = {}
  OBVIOUS
<1> QED
  BY <1>1 DEF Listing

LEMMA KeptAtFirst ==
    ASSUME NEW l \in Nat, NEW s, NEW char, NEW fromBack \in BOOLEAN
    PROVE  Kept(l, s, char, 0, fromBack, StripStart)
<1>1. Passed(l, 0, fromBack) = {}
  BY DEF Passed
<1>2. Others(l, s, char, 0, fromBack) = {}
  BY <1>1 DEF Others
<1>3. <<>> = [j \in 1 .. 0 |-> s[<<>>[j]]]
  <2>1. 1 .. 0 = {}
    OBVIOUS
  <2> QED
    BY <2>1
<1>4. StripStart = [kept |-> <<>>, stripped |-> 0]
  BY DEF StripStart
<1>5. StripStart = [kept |-> StripStart.kept, stripped |-> StripStart.stripped] /\ StripStart.kept = <<>>
  BY <1>4
<1>6. Listing(Others(l, s, char, 0, fromBack), 0, <<>>, ~fromBack)
  BY <1>2, ListingNone
<1> QED
  BY <1>3, <1>5, <1>6 DEF Kept

LEMMA KeptNext ==
    ASSUME NEW l \in Nat, NEW k \in Nat, k + 1 <= l, NEW fromBack \in BOOLEAN,
           NEW s, B!Length(s) = l, NEW char, NEW acc, Kept(l, s, char, k, fromBack, acc)
    PROVE  Kept(l, s, char, k + 1, fromBack,
                StripStep(s, char, fromBack, acc, B!Order(s, fromBack)[k + 1]))
<1> DEFINE p == NextPlace(l, k, fromBack)
           then == StripStep(s, char, fromBack, acc, B!Order(s, fromBack)[k + 1])
<1>1. /\ p \in 1 .. l /\ p \in Nat
      /\ Passed(l, k + 1, fromBack) = Passed(l, k, fromBack) \union {p}
      /\ \A q \in Passed(l, k, fromBack) : IF ~fromBack THEN q < p ELSE p < q
      /\ B!Order(s, fromBack)[k + 1] = p - 1 /\ p - 1 + 1 = p
  BY PassedIs
<1> HIDE DEF p
<1>2. then = IF s[p] # char THEN [acc EXCEPT !.kept = Append(@, s[p])]
             ELSE [acc EXCEPT !.stripped = @ + 1]
  BY <1>1 DEF StripStep
<1> HIDE DEF then
<1>3. PICK n, e : /\ Listing(Others(l, s, char, k, fromBack), n, e, ~fromBack)
                  /\ acc.kept = [j \in 1 .. n |-> s[e[j]]]
  BY DEF Kept
<1>4. acc = [kept |-> acc.kept, stripped |-> acc.stripped]
  BY DEF Kept
<1>5. CASE s[p] = char
  <2>1. Others(l, s, char, k + 1, fromBack) = Others(l, s, char, k, fromBack)
    BY <1>1, <1>5 DEF Others
  <2>2. then = [kept |-> acc.kept, stripped |-> acc.stripped + 1]
    BY <1>2, <1>4, <1>5
  <2> QED
    BY <1>3, <2>1, <2>2 DEF Kept, then
<1>6. CASE s[p] # char
  <2> DEFINE longer == [j \in 1 .. n + 1 |-> IF j <= n THEN e[j] ELSE p]
             h == [j \in 1 .. n + 1 |-> s[longer[j]]]
  <2>1. Others(l, s, char, k + 1, fromBack) = Others(l, s, char, k, fromBack) \union {p}
    BY <1>1, <1>6 DEF Others
  <2>2. \A q \in Others(l, s, char, k, fromBack) : IF ~fromBack THEN q < p ELSE p < q
    BY <1>1 DEF Others
  <2>3. Listing(Others(l, s, char, k + 1, fromBack), n + 1, longer, ~fromBack)
    <3> DEFINE upwards == ~fromBack
               others == Others(l, s, char, k, fromBack)
    <3>1. /\ Listing(others, n, e, upwards)
          /\ \A q \in others : IF upwards THEN q < p ELSE p < q
      BY <1>3, <2>2
    <3> HIDE DEF upwards, others, longer
    <3>2. Listing(others \union {p}, n + 1, [j \in 1 .. n + 1 |-> IF j <= n THEN e[j] ELSE p], upwards)
      BY <1>1, <3>1, ListingGrows
    <3> QED
      BY <2>1, <3>2 DEF upwards, others, longer
  <2>4. n \in Nat
    BY <1>3 DEF Listing
  <2>5. /\ n + 1 \in 1 .. n + 1 /\ longer[n + 1] = p
        /\ \A j \in 1 .. n : j \in 1 .. n + 1 /\ longer[j] = e[j]
    BY <2>4
  <2> HIDE DEF longer
  <2>6. h[n + 1] = s[p] /\ [j \in 1 .. n |-> h[j]] = acc.kept
    BY <1>3, <2>5
  <2>7. h = [j \in 1 .. n + 1 |-> h[j]]
    BY Zenon
  <2> HIDE DEF h
  <2>8. Append(acc.kept, s[p]) = h
    <3>1. Append([j \in 1 .. n |-> h[j]], h[n + 1]) = h
      BY <2>4, <2>7, AppendMapped
    <3> QED
      BY <2>6, <3>1, Zenon
  <2>9. then = [kept |-> h, stripped |-> acc.stripped]
    BY <1>2, <1>4, <1>6, <2>8
  <2>10. then = [kept |-> then.kept, stripped |-> then.stripped] /\ then.kept = h
    BY <2>9
  <2> QED
    BY <2>3, <2>10 DEF Kept, h, then
<1> QED
  BY <1>5, <1>6

\* bl_string_strip gives the text without the char, from either end.
LEMMA StripsRight ==
    ASSUME NEW s \in Seq(Nat), NEW l \in Nat, Len(s) = l + 1, NEW char, NEW fromBack \in BOOLEAN
    PROVE  B!Strip(s, char, fromBack, 0) = B!Create(B!Without(B!Text(s), char))
<1>1. /\ B!Length(s) = l /\ DOMAIN B!Text(s) = 1 .. l
      /\ \A p \in 1 .. l : B!Text(s)[p] = s[p]
  BY TextIs
<1>2. PICK f : StripMade(s, char, fromBack, l, f)
  BY <1>1, StripIs, Zenon
<1>3. /\ f[1 .. 0] = StripStart
      /\ \A k \in Nat : k + 1 <= l =>
            f[1 .. k + 1] = StripStep(s, char, fromBack, f[1 .. k], B!Order(s, fromBack)[k + 1])
      /\ B!Strip(s, char, fromBack, 0) =
            B!Create(IF fromBack THEN B!S!Reverse(f[1 .. l].kept) ELSE f[1 .. l].kept)
  BY <1>2, Zenon DEF StripMade
<1> DEFINE Steps(k) == k <= l => Kept(l, s, char, k, fromBack, f[1 .. k])
           Unkept == { k \in Nat : ~Steps(k) }
<1>4. Steps(0)
  BY <1>3, KeptAtFirst
<1>5. ASSUME NEW k \in Nat, Steps(k) PROVE Steps(k + 1)
  <2>1. SUFFICES ASSUME k + 1 <= l PROVE Kept(l, s, char, k + 1, fromBack, f[1 .. k + 1])
    OBVIOUS
  <2>2. k <= l
    BY <2>1
  <2> DEFINE acc == f[1 .. k]
  <2>3. Kept(l, s, char, k, fromBack, acc)
    BY <1>5, <2>2
  <2>4. f[1 .. k + 1] = StripStep(s, char, fromBack, acc, B!Order(s, fromBack)[k + 1])
    BY <1>3, <2>1, Zenon
  <2> HIDE DEF acc
  <2>5. Kept(l, s, char, k + 1, fromBack,
             StripStep(s, char, fromBack, acc, B!Order(s, fromBack)[k + 1]))
    BY <1>1, <2>1, <2>3, KeptNext
  <2> QED
    BY <2>4, <2>5, Zenon
<1>6. Steps(l)
  <2>1. SUFFICES ASSUME ~Steps(l) PROVE FALSE
    OBVIOUS
  <2>2. Unkept \in SUBSET Nat /\ Unkept # {}
    BY <2>1
  <2>3. PICK least \in Unkept : \A m \in Unkept : least <= m
    <3> HIDE DEF Unkept
    <3> QED
      BY <2>2, LeastNatural
  <2>4. least \in Nat /\ ~Steps(least) /\ least # 0
    BY <1>4, <2>3
  <2> DEFINE m == least - 1
  <2>5. m \in Nat /\ least = m + 1 /\ ~(least <= m)
    BY <2>4
  <2> HIDE DEF m
  <2>6. Steps(m)
    <3>1. m \notin Unkept
      <4> HIDE DEF Unkept
      <4> QED
        BY <2>3, <2>5
    <3> HIDE DEF Steps
    <3> QED
      BY <2>5, <3>1
  <2> HIDE DEF Steps
  <2> QED
    BY <1>5, <2>4, <2>5, <2>6
<1> DEFINE acc    == f[1 .. l]
           others == { p \in DOMAIN B!Text(s) : B!Text(s)[p] # char }
<1>7. PICK n, e : /\ Listing(Others(l, s, char, l, fromBack), n, e, ~fromBack)
                  /\ acc.kept = [j \in 1 .. n |-> s[e[j]]]
  BY <1>6 DEF Kept
<1>8. Others(l, s, char, l, fromBack) = others
  <2>1. Passed(l, l, fromBack) = 1 .. l
    <3>1. l + 1 - l = 1
      OBVIOUS
    <3> QED
      BY <3>1 DEF Passed
  <2> QED
    BY <1>1, <2>1 DEF Others
<1>9. n \in Nat
  BY <1>7 DEF Listing
<1> HIDE DEF acc, others
<1>10. ASSUME NEW up, Listing(others, n, up, TRUE)
       PROVE  B!Without(B!Text(s), char) = [j \in 1 .. n |-> s[up[j]]]
  <2>1. B!Cardinality(others) = n /\ \A j \in 1 .. n : B!Nth(others, j) = up[j]
    BY <1>10, NthIs
  <2>2. \A j \in 1 .. n : up[j] \in others
    BY <1>10 DEF Listing
  <2>3. \A j \in 1 .. n : B!Text(s)[B!Nth(others, j)] = s[up[j]]
    BY <1>1, <2>1, <2>2 DEF others
  <2>4. B!Without(B!Text(s), char) =
            [j \in 1 .. B!Cardinality(others) |-> B!Text(s)[B!Nth(others, j)]]
    BY DEF B!Without, others
  <2> QED
    BY <2>1, <2>3, <2>4
<1>11. CASE fromBack = FALSE
  <2>1. Listing(others, n, e, TRUE)
    BY <1>7, <1>8, <1>11 DEF Listing
  <2>2. B!Without(B!Text(s), char) = acc.kept
    BY <1>7, <1>10, <2>1
  <2>3. B!Strip(s, char, fromBack, 0) = B!Create(acc.kept)
    BY <1>3, <1>11 DEF acc
  <2> QED
    BY <2>2, <2>3
<1>12. CASE fromBack = TRUE
  <2> DEFINE up == [j \in 1 .. n |-> e[n - j + 1]]
  <2>1. Listing(others, n, e, FALSE)
    BY <1>7, <1>8, <1>12 DEF Listing
  <2>2. Listing(others, n, up, TRUE)
    BY <2>1, ListingTurned
  <2>3. B!Without(B!Text(s), char) = [j \in 1 .. n |-> s[up[j]]]
    <3> HIDE DEF up
    <3> QED
      BY <1>10, <2>2
  <2>4. Len(acc.kept) = n
    BY <1>7, <1>9
  <2>5. B!S!Reverse(acc.kept) = [j \in 1 .. n |-> acc.kept[n - j + 1]]
    BY <2>4 DEF B!S!Reverse
  <2>6. \A j \in 1 .. n : n - j + 1 \in 1 .. n
    BY <1>9
  <2>7. \A j \in 1 .. n : acc.kept[n - j + 1] = s[up[j]]
    BY <1>7, <2>6
  <2>8. B!S!Reverse(acc.kept) = B!Without(B!Text(s), char)
    <3> HIDE DEF up
    <3> QED
      BY <2>3, <2>5, <2>7
  <2>9. B!Strip(s, char, fromBack, 0) = B!Create(B!S!Reverse(acc.kept))
    BY <1>3, <1>12 DEF acc
  <2> QED
    BY <2>8, <2>9
<1> QED
  BY <1>11, <1>12

\* The ends that a call comes to: 0 and the one behind the text, and between them
\* the places of the char.
LEMMA EndsAre ==
    ASSUME NEW s \in Seq(Nat), NEW l \in Nat, Len(s) = l + 1, NEW char
    PROVE  /\ B!Ends(B!Text(s), char) = {0, l + 1} \union { p \in 1 .. l : s[p] = char }
           /\ B!Ends(B!Text(s), char) \in SUBSET Nat
           /\ \A m \in B!Ends(B!Text(s), char) : m \in 0 .. l + 1
           /\ B!Starts(B!Text(s), char) =
                 { m \in B!Ends(B!Text(s), char) :
                      m # l + 1 /\ B!EndAfter(B!Text(s), char, m) > m + 1 }
<1>1. /\ Len(B!Text(s)) = l /\ DOMAIN B!Text(s) = 1 .. l
      /\ \A p \in 1 .. l : B!Text(s)[p] = s[p]
  BY TextIs
<1>2. B!Ends(B!Text(s), char) = {0, l + 1} \union { p \in 1 .. l : s[p] = char }
  BY <1>1 DEF B!Ends
<1>3. \A m \in B!Ends(B!Text(s), char) : m \in 0 .. l + 1 /\ m \in Nat
  BY <1>2
<1>4. B!Starts(B!Text(s), char) =
          { m \in B!Ends(B!Text(s), char) :
               m # l + 1 /\ B!EndAfter(B!Text(s), char, m) > m + 1 }
  BY <1>1 DEF B!Starts
<1> QED
  BY <1>2, <1>3, <1>4

\* The end after another, where none lies between.
LEMMA EndAfterIs ==
    ASSUME NEW t, NEW char, B!Ends(t, char) \in SUBSET Nat,
           NEW a \in B!Ends(t, char), NEW b \in B!Ends(t, char), a < b,
           \A m \in B!Ends(t, char) : ~(a < m /\ m < b)
    PROVE  B!EndAfter(t, char, a) = b
<1> DEFINE After == { m \in B!Ends(t, char) : m > a }
           P(k) == k \in After /\ \A m \in After : k <= m
<1>1. B!EndAfter(t, char, a) = CHOOSE k : P(k)
  BY DEF B!EndAfter, B!S!Min
<1>2. P(b)
  OBVIOUS
<1>3. \A k : P(k) => k = b
  OBVIOUS
<1> HIDE DEF P
<1> QED
  BY <1>1, <1>2, <1>3

\* The piece that starts at an end, the ends where one starts that lie before an
\* edge in the direction of a call, and their pieces in its order.
PieceAt(s, char, m) ==
    B!Create(SubSeq(B!Text(s), m + 1, B!EndAfter(B!Text(s), char, m) - 1))

Placed(s, char, fromBack, edge) ==
    { m \in B!Starts(B!Text(s), char) : IF fromBack THEN m >= edge ELSE m < edge }

Pieces(s, char, fromBack, edge, pieces) ==
    \E n, e : /\ Listing(Placed(s, char, fromBack, edge), n, e, ~fromBack)
              /\ pieces = [j \in 1 .. n |-> PieceAt(s, char, e[j])]

BeginAt(fromBack, edge) == IF fromBack THEN edge - 2 ELSE edge

\* One more piece: the one that starts at a place beyond those of the list.
LEMMA PiecesGrow ==
    ASSUME NEW s, NEW char, NEW fromBack, NEW edge, NEW pieces,
           Pieces(s, char, fromBack, edge, pieces), NEW next, NEW low \in Nat,
           Placed(s, char, fromBack, next) = Placed(s, char, fromBack, edge) \union {low},
           \A q \in Placed(s, char, fromBack, edge) : IF ~fromBack THEN q < low ELSE low < q
    PROVE  Pieces(s, char, fromBack, next, Append(pieces, PieceAt(s, char, low)))
<1> DEFINE upwards == ~fromBack
           places == Placed(s, char, fromBack, edge)
<1>1. PICK n, e : /\ Listing(places, n, e, upwards)
                  /\ pieces = [j \in 1 .. n |-> PieceAt(s, char, e[j])]
  BY Zenon DEF Pieces
<1> DEFINE longer == [j \in 1 .. n + 1 |-> IF j <= n THEN e[j] ELSE low]
           h == [j \in 1 .. n + 1 |-> PieceAt(s, char, longer[j])]
<1>2. \A q \in places : IF upwards THEN q < low ELSE low < q
  OBVIOUS
<1>3. Placed(s, char, fromBack, next) = places \union {low}
  OBVIOUS
<1> HIDE DEF upwards, places
<1>4. Listing(places \union {low}, n + 1, longer, upwards)
  BY <1>1, <1>2, ListingGrows
<1>5. n \in Nat
  BY <1>1 DEF Listing
<1>6. /\ n + 1 \in 1 .. n + 1 /\ longer[n + 1] = low
      /\ \A j \in 1 .. n : j \in 1 .. n + 1 /\ longer[j] = e[j]
  BY <1>5
<1> HIDE DEF longer
<1>7. h[n + 1] = PieceAt(s, char, low) /\ [j \in 1 .. n |-> h[j]] = pieces
  BY <1>1, <1>6
<1>8. h = [j \in 1 .. n + 1 |-> h[j]]
  BY Zenon
<1> HIDE DEF h
<1>9. Append([j \in 1 .. n |-> h[j]], h[n + 1]) = h
  BY <1>5, <1>8, AppendMapped
<1>10. Append(pieces, PieceAt(s, char, low)) = h
  BY <1>7, <1>9, Zenon
<1>11. h = [j \in 1 .. n + 1 |-> PieceAt(s, char, longer[j])]
  BY Zenon DEF h
<1>12. Listing(Placed(s, char, fromBack, next), n + 1, longer, ~fromBack)
  BY <1>3, <1>4, Zenon DEF upwards
<1>13. Append(pieces, PieceAt(s, char, low)) = [j \in 1 .. n + 1 |-> PieceAt(s, char, longer[j])]
  BY <1>10, <1>11, Zenon
<1>14. \E m, d : /\ Listing(Placed(s, char, fromBack, next), m, d, ~fromBack)
                 /\ Append(pieces, PieceAt(s, char, low)) = [j \in 1 .. m |-> PieceAt(s, char, d[j])]
  <2> WITNESS n + 1, longer
  <2> QED
    BY <1>12, <1>13, Zenon
<1> QED
  BY <1>14, Zenon DEF Pieces

\* From one end to the next in the direction of a call, and what it adds.
Neighbours(s, char, fromBack, edge, next) ==
    /\ edge \in B!Ends(B!Text(s), char) /\ next \in B!Ends(B!Text(s), char)
    /\ IF fromBack THEN next < edge ELSE edge < next
    /\ \A m \in B!Ends(B!Text(s), char) :
           IF fromBack THEN ~(next < m /\ m < edge) ELSE ~(edge < m /\ m < next)

CutOff(s, fromBack, edge, next, pieces) ==
    IF BeginAt(fromBack, edge) = next - 1 THEN pieces
    ELSE Append(pieces, Portion(s, fromBack, BeginAt(fromBack, edge), next - 1))

LEMMA EdgeMoves ==
    ASSUME NEW s \in Seq(Nat), NEW l \in Nat, Len(s) = l + 1, NEW char,
           NEW fromBack \in BOOLEAN, NEW pieces, NEW edge, NEW next,
           Neighbours(s, char, fromBack, edge, next), Pieces(s, char, fromBack, edge, pieces)
    PROVE  Pieces(s, char, fromBack, next, CutOff(s, fromBack, edge, next, pieces))
<1> DEFINE low == IF fromBack THEN next ELSE edge
           high == IF fromBack THEN edge ELSE next
           ends == B!Ends(B!Text(s), char)
           starts == B!Starts(B!Text(s), char)
<1>1. /\ ends \in SUBSET Nat /\ \A m \in ends : m \in 0 .. l + 1
      /\ starts = { m \in ends : m # l + 1 /\ B!EndAfter(B!Text(s), char, m) > m + 1 }
  BY EndsAre
<1>2. /\ low \in ends /\ high \in ends /\ low < high
      /\ \A m \in ends : ~(low < m /\ m < high)
  BY DEF Neighbours
<1>3. B!EndAfter(B!Text(s), char, low) = high
  <2> HIDE DEF low, high
  <2> QED
    BY <1>1, <1>2, EndAfterIs
<1>4. /\ low \in Nat /\ high \in Nat /\ low \in 0 .. l + 1 /\ high \in 0 .. l + 1 /\ low # l + 1
      /\ low + 1 <= high
  <2> HIDE DEF low, high, ends
  <2>1. low \in 0 .. l + 1 /\ high \in 0 .. l + 1
    BY <1>1, <1>2
  <2> QED
    BY <1>2, <2>1
<1>5. low \in starts <=> high # low + 1
  <2> HIDE DEF low, high, ends, starts
  <2> QED
    BY <1>1, <1>2, <1>3, <1>4
<1>6. BeginAt(fromBack, edge) = next - 1 <=> high = low + 1
  BY <1>4 DEF BeginAt
<1>7. /\ \A m \in Placed(s, char, fromBack, edge) : IF ~fromBack THEN m < low ELSE low < m
      /\ Placed(s, char, fromBack, next) = Placed(s, char, fromBack, edge) \union ({low} \intersect starts)
  <2>1. \A m \in starts : m \in ends /\ m \in Nat
    <3> HIDE DEF ends, starts
    <3> QED
      BY <1>1
  <2>2. CASE fromBack = TRUE
    <3>1. low = next /\ high = edge
      BY <2>2
    <3> HIDE DEF low, high, ends, starts
    <3>2. \A m \in starts : m >= low <=> m >= high \/ m = low
      BY <1>2, <1>4, <2>1
    <3>3. /\ Placed(s, char, fromBack, edge) = { m \in starts : m >= high }
          /\ Placed(s, char, fromBack, next) = { m \in starts : m >= low }
      BY <2>2, <3>1 DEF Placed, starts
    <3>4. \A m \in starts : m >= high => low < m
      BY <1>2, <1>4, <2>1
    <3>5. { m \in starts : m >= low } = { m \in starts : m >= high } \union ({low} \intersect starts)
      BY <3>2
    <3> QED
      BY <2>2, <3>3, <3>4, <3>5
  <2>3. CASE fromBack = FALSE
    <3>1. low = edge /\ high = next
      BY <2>3
    <3> HIDE DEF low, high, ends, starts
    <3>2. \A m \in starts : m < high <=> m < low \/ m = low
      BY <1>2, <1>4, <2>1
    <3>3. /\ Placed(s, char, fromBack, edge) = { m \in starts : m < low }
          /\ Placed(s, char, fromBack, next) = { m \in starts : m < high }
      BY <2>3, <3>1 DEF Placed, starts
    <3>4. { m \in starts : m < high } = { m \in starts : m < low } \union ({low} \intersect starts)
      BY <3>2
    <3> QED
      BY <2>3, <3>3, <3>4
  <2> QED
    BY <2>2, <2>3
<1>8. Portion(s, fromBack, BeginAt(fromBack, edge), next - 1) = PieceAt(s, char, low)
  <2>1. Portion(s, fromBack, BeginAt(fromBack, edge), next - 1) = B!Create(SubSeq(s, low + 1, high - 1))
    <3>1. CASE fromBack = TRUE
      <4>1. low = next /\ high = edge /\ next - 1 + 1 + 1 = low + 1 /\ edge - 2 + 1 = high - 1
        BY <1>4, <3>1
      <4>2. Portion(s, fromBack, BeginAt(fromBack, edge), next - 1)
                = B!Create(SubSeq(s, next - 1 + 1 + 1, edge - 2 + 1))
        BY <3>1 DEF Portion, BeginAt, Piece
      <4> HIDE DEF low, high
      <4> QED
        BY <4>1, <4>2, Zenon
    <3>2. CASE fromBack = FALSE
      <4>1. low = edge /\ high = next /\ next - 1 - 1 + 1 = high - 1
        BY <1>4, <3>2
      <4>2. Portion(s, fromBack, BeginAt(fromBack, edge), next - 1)
                = B!Create(SubSeq(s, edge + 1, next - 1 - 1 + 1))
        BY <3>2 DEF Portion, BeginAt, Piece
      <4> HIDE DEF low, high
      <4> QED
        BY <4>1, <4>2, Zenon
    <3> QED
      BY <3>1, <3>2
  <2> HIDE DEF low, high
  <2>2. SubSeq(B!Text(s), low + 1, high - 1) = SubSeq(s, low + 1, high - 1)
    BY <1>2, <1>4, TextIs
  <2> QED
    BY <1>3, <2>1, <2>2, Zenon DEF PieceAt
<1> HIDE DEF low, high, ends, starts
<1>9. CASE high = low + 1
  <2>1. Placed(s, char, fromBack, next) = Placed(s, char, fromBack, edge)
    BY <1>5, <1>7, <1>9
  <2>2. Pieces(s, char, fromBack, next, pieces)
    BY <2>1, Zenon DEF Pieces
  <2>3. CutOff(s, fromBack, edge, next, pieces) = pieces
    BY <1>6, <1>9, Zenon DEF CutOff
  <2> QED
    BY <2>2, <2>3, Zenon
<1>10. CASE high # low + 1
  <2>1. Placed(s, char, fromBack, next) = Placed(s, char, fromBack, edge) \union {low}
    BY <1>5, <1>7, <1>10
  <2>2. Pieces(s, char, fromBack, next, Append(pieces, PieceAt(s, char, low)))
    BY <1>4, <1>7, <2>1, PiecesGrow, Zenon
  <2>3. CutOff(s, fromBack, edge, next, pieces) = Append(pieces, PieceAt(s, char, low))
    BY <1>6, <1>8, <1>10, Zenon DEF CutOff
  <2> QED
    BY <2>2, <2>3, Zenon
<1> QED
  BY <1>9, <1>10

\* Where bl_string_split_multi is after k steps: behind the last end it has passed,
\* with the pieces up to there.
Edge(l, s, char, k, fromBack, edge) ==
    /\ edge \in B!Ends(B!Text(s), char)
    /\ IF fromBack
       THEN /\ edge >= l + 1 - k
            /\ \A m \in B!Ends(B!Text(s), char) : ~(l + 1 - k <= m /\ m < edge)
       ELSE /\ edge <= k
            /\ \A m \in B!Ends(B!Text(s), char) : ~(edge < m /\ m <= k)

Cutting(l, s, char, k, fromBack, acc) ==
    \E edge : /\ Edge(l, s, char, k, fromBack, edge)
              /\ acc.begin = BeginAt(fromBack, edge)
              /\ Pieces(s, char, fromBack, edge, acc.pieces)

LEMMA CuttingAtFirst ==
    ASSUME NEW s \in Seq(Nat), NEW l \in Nat, Len(s) = l + 1, NEW char,
           NEW fromBack \in BOOLEAN
    PROVE  Cutting(l, s, char, 0, fromBack, SplitStart(s, fromBack))
<1> DEFINE edge == IF fromBack THEN l + 1 ELSE 0
           ends == B!Ends(B!Text(s), char)
           starts == B!Starts(B!Text(s), char)
<1>1. /\ ends = {0, l + 1} \union { p \in 1 .. l : s[p] = char }
      /\ \A m \in ends : m \in 0 .. l + 1
  <2>0. /\ Len(B!Text(s)) = l /\ DOMAIN B!Text(s) = 1 .. l
        /\ \A p \in 1 .. l : B!Text(s)[p] = s[p]
    BY TextIs
  <2>1. ends = {0, l + 1} \union { p \in 1 .. l : s[p] = char }
    BY <2>0 DEF B!Ends
  <2>2. \A m \in ends : m \in 0 .. l + 1
    BY <2>1
  <2> QED
    BY <2>1, <2>2, Zenon
<1>2. starts = { m \in ends : m # l + 1 /\ B!EndAfter(B!Text(s), char, m) > m + 1 }
  BY EndsAre
<1>3. Edge(l, s, char, 0, fromBack, edge)
  <2>1. edge \in ends
    BY <1>1
  <2>2. CASE fromBack = TRUE
    <3> HIDE DEF ends
    <3>1. edge >= l + 1 - 0 /\ \A m \in ends : ~(l + 1 - 0 <= m /\ m < edge)
      BY <1>1, <2>2
    <3> QED
      BY <2>1, <2>2, <3>1 DEF Edge, ends
  <2>3. CASE fromBack = FALSE
    <3> HIDE DEF ends
    <3>1. edge <= 0 /\ \A m \in ends : ~(edge < m /\ m <= 0)
      BY <1>1, <2>3
    <3> QED
      BY <2>1, <2>3, <3>1 DEF Edge, ends
  <2> QED
    BY <2>2, <2>3
<1>4. Placed(s, char, fromBack, edge) = {}
  <2>1. \A m \in starts : m \in 0 .. l
    <3> HIDE DEF ends, starts
    <3> QED
      BY <1>1, <1>2
  <2> HIDE DEF starts
  <2>2. \A m \in starts : ~(IF fromBack THEN m >= edge ELSE m < edge)
    BY <2>1
  <2> QED
    BY <2>2 DEF Placed, starts
<1>5. <<>> = [j \in 1 .. 0 |-> PieceAt(s, char, <<>>[j])]
  <2>1. 1 .. 0 = {}
    OBVIOUS
  <2> QED
    BY <2>1
<1>6. Listing(Placed(s, char, fromBack, edge), 0, <<>>, ~fromBack)
  BY <1>4, ListingNone, Zenon
<1> HIDE DEF edge
<1>7. Pieces(s, char, fromBack, edge, <<>>)
  BY <1>5, <1>6, Zenon DEF Pieces
<1>8. SplitStart(s, fromBack).begin = BeginAt(fromBack, edge) /\ SplitStart(s, fromBack).pieces = <<>>
  <2>1. B!Length(s) = l
    BY TextIs
  <2>2. SplitStart(s, fromBack).pieces = <<>>
    BY DEF SplitStart
  <2>3. CASE fromBack = TRUE
    BY <2>1, <2>3 DEF SplitStart, BeginAt, edge
  <2>4. CASE fromBack = FALSE
    BY <2>1, <2>4 DEF SplitStart, BeginAt, edge
  <2> QED
    BY <2>2, <2>3, <2>4
<1> QED
  BY <1>3, <1>7, <1>8, Zenon DEF Cutting

LEMMA CuttingNext ==
    ASSUME NEW s \in Seq(Nat), NEW l \in Nat, Len(s) = l + 1, NEW char,
           NEW fromBack \in BOOLEAN, NEW k \in Nat, k + 1 <= l,
           NEW acc, Cutting(l, s, char, k, fromBack, acc)
    PROVE  Cutting(l, s, char, k + 1, fromBack,
                   SplitStep(s, char, fromBack, acc, B!Order(s, fromBack)[k + 1]))
<1> DEFINE p == NextPlace(l, k, fromBack)
           then == SplitStep(s, char, fromBack, acc, B!Order(s, fromBack)[k + 1])
           ends == B!Ends(B!Text(s), char)
<1>1. /\ p \in 1 .. l /\ p \in Nat /\ B!Order(s, fromBack)[k + 1] = p - 1 /\ p - 1 + 1 = p
  <2>1. B!Length(s) = l
    BY TextIs
  <2> QED
    BY <2>1, PassedIs
<1>2. /\ ends = {0, l + 1} \union { q \in 1 .. l : s[q] = char }
      /\ \A m \in ends : m \in 0 .. l + 1
  BY EndsAre
<1>3. PICK edge : /\ Edge(l, s, char, k, fromBack, edge)
                  /\ acc.begin = BeginAt(fromBack, edge)
                  /\ Pieces(s, char, fromBack, edge, acc.pieces)
  BY Zenon DEF Cutting
<1>4. /\ edge \in ends /\ edge \in 0 .. l + 1
  BY <1>2, <1>3 DEF Edge
<1>5. p \in ends <=> s[p] = char
  BY <1>1, <1>2
<1>6. /\ IF fromBack THEN p < edge ELSE edge < p
      /\ \A m \in ends : IF fromBack THEN ~(p < m /\ m < edge) ELSE ~(edge < m /\ m < p)
  <2>1. CASE fromBack = TRUE
    <3>1. p = l - k
      BY <2>1 DEF NextPlace
    <3>2. edge >= l + 1 - k /\ \A m \in ends : ~(l + 1 - k <= m /\ m < edge)
      BY <1>3, <2>1 DEF Edge
    <3> HIDE DEF p, ends
    <3>3. p < edge
      BY <1>4, <3>1, <3>2
    <3>4. \A m \in ends : ~(p < m /\ m < edge)
      BY <1>2, <3>1, <3>2
    <3> QED
      BY <2>1, <3>3, <3>4
  <2>2. CASE fromBack = FALSE
    <3>1. p = k + 1
      BY <2>2 DEF NextPlace
    <3>2. edge <= k /\ \A m \in ends : ~(edge < m /\ m <= k)
      BY <1>3, <2>2 DEF Edge
    <3> HIDE DEF p, ends
    <3>3. edge < p
      BY <1>4, <3>1, <3>2
    <3>4. \A m \in ends : ~(edge < m /\ m < p)
      BY <1>2, <3>1, <3>2
    <3> QED
      BY <2>2, <3>3, <3>4
  <2> QED
    BY <2>1, <2>2
<1>7. ASSUME NEW far \in ends, s[p] = char => far = p, s[p] # char => far = edge
      PROVE  Edge(l, s, char, k + 1, fromBack, far)
  <2>1. CASE fromBack = TRUE
    <3>1. p = l - k /\ l + 1 - (k + 1) = p
      BY <2>1 DEF NextPlace
    <3>2. p < edge /\ \A m \in ends : ~(p < m /\ m < edge)
      BY <1>6, <2>1
    <3> HIDE DEF p, ends
    <3>3. far >= p /\ \A m \in ends : ~(p <= m /\ m < far)
      <4>1. CASE s[p] = char
        BY <1>1, <1>2, <1>7, <4>1
      <4>2. CASE s[p] # char
        BY <1>1, <1>2, <1>4, <1>5, <1>7, <3>2, <4>2
      <4> QED
        BY <4>1, <4>2
    <3> QED
      BY <2>1, <3>1, <3>3 DEF Edge, ends
  <2>2. CASE fromBack = FALSE
    <3>1. p = k + 1
      BY <2>2 DEF NextPlace
    <3>2. edge < p /\ \A m \in ends : ~(edge < m /\ m < p)
      BY <1>6, <2>2
    <3> HIDE DEF p, ends
    <3>3. far <= p /\ \A m \in ends : ~(far < m /\ m <= p)
      <4>1. CASE s[p] = char
        BY <1>1, <1>2, <1>7, <4>1
      <4>2. CASE s[p] # char
        BY <1>1, <1>2, <1>4, <1>5, <1>7, <3>2, <4>2
      <4> QED
        BY <4>1, <4>2
    <3> QED
      BY <2>2, <3>1, <3>3 DEF Edge, ends
  <2> QED
    BY <2>1, <2>2
<1> HIDE DEF p
<1>8. CASE s[p] # char
  <2>1. then = acc
    BY <1>1, <1>8 DEF SplitStep
  <2>2. Edge(l, s, char, k + 1, fromBack, edge)
    BY <1>4, <1>7, <1>8, Zenon
  <2> HIDE DEF then
  <2>3. Cutting(l, s, char, k + 1, fromBack, acc)
    BY <1>3, <2>2, Zenon DEF Cutting
  <2> QED
    BY <2>1, <2>3, Zenon DEF then
<1>9. CASE s[p] = char
  <2> DEFINE pieces == IF acc.begin = p - 1 THEN acc.pieces
                       ELSE Append(acc.pieces, Portion(s, fromBack, acc.begin, p - 1))
  <2>1. then = [begin |-> p - 1 + (IF fromBack THEN -1 ELSE 1), split |-> acc.split + 1,
                pieces |-> pieces]
    BY <1>1, <1>9 DEF SplitStep
  <2>2. Pieces(s, char, fromBack, p, pieces)
    <3>1. p \in ends
      BY <1>5, <1>9
    <3>2. Neighbours(s, char, fromBack, edge, p)
      BY <1>4, <1>6, <3>1, Zenon DEF Neighbours
    <3>3. Pieces(s, char, fromBack, p, CutOff(s, fromBack, edge, p, acc.pieces))
      BY <1>3, <3>2, EdgeMoves
    <3>4. CutOff(s, fromBack, edge, p, acc.pieces) = pieces
      BY <1>3, Zenon DEF CutOff
    <3> QED
      BY <3>3, <3>4, Zenon
  <2>3. p - 1 + (IF fromBack THEN -1 ELSE 1) = BeginAt(fromBack, p)
    BY <1>1 DEF BeginAt
  <2>4. Edge(l, s, char, k + 1, fromBack, p)
    BY <1>5, <1>7, <1>9, Zenon
  <2> HIDE DEF pieces, then
  <2>5. then.begin = BeginAt(fromBack, p) /\ then.pieces = pieces
    BY <2>1, <2>3
  <2>6. Cutting(l, s, char, k + 1, fromBack, then)
    BY <2>2, <2>4, <2>5, Zenon DEF Cutting
  <2> QED
    BY <2>6 DEF then
<1> QED
  BY <1>8, <1>9

\* bl_string_split gives the pieces between the ends, from either of them.
LEMMA PiecesRight ==
    ASSUME NEW s \in Seq(Nat), NEW l \in Nat, Len(s) = l + 1, NEW char, NEW fromBack \in BOOLEAN
    PROVE  B!Split(s, {char}, fromBack, 0) = B!Cut(B!Text(s), char)
<1>1. B!Length(s) = l
  BY TextIs
<1>2. PICK f : SplitMade(s, char, fromBack, l, f)
  BY <1>1, SplitIs, Zenon
<1> DEFINE acc    == f[1 .. l]
           end    == IF fromBack THEN -1 ELSE l
           pieces == IF acc.begin = end THEN acc.pieces
                     ELSE Append(acc.pieces, Portion(s, fromBack, acc.begin, end))
<1>3. /\ f[1 .. 0] = SplitStart(s, fromBack)
      /\ \A k \in Nat : k + 1 <= l =>
            f[1 .. k + 1] = SplitStep(s, char, fromBack, f[1 .. k], B!Order(s, fromBack)[k + 1])
      /\ B!Split(s, {char}, fromBack, 0) = IF fromBack THEN B!S!Reverse(pieces) ELSE pieces
  BY <1>2, Zenon DEF SplitMade
<1> DEFINE Steps(k) == k <= l => Cutting(l, s, char, k, fromBack, f[1 .. k])
           Uncut == { k \in Nat : ~Steps(k) }
<1>4. Steps(0)
  BY <1>3, CuttingAtFirst
<1>5. ASSUME NEW k \in Nat, Steps(k) PROVE Steps(k + 1)
  <2>1. SUFFICES ASSUME k + 1 <= l PROVE Cutting(l, s, char, k + 1, fromBack, f[1 .. k + 1])
    OBVIOUS
  <2>2. k <= l
    BY <2>1
  <2> DEFINE here == f[1 .. k]
  <2>3. Cutting(l, s, char, k, fromBack, here)
    BY <1>5, <2>2
  <2>4. f[1 .. k + 1] = SplitStep(s, char, fromBack, here, B!Order(s, fromBack)[k + 1])
    BY <1>3, <2>1, Zenon
  <2> HIDE DEF here
  <2>5. Cutting(l, s, char, k + 1, fromBack,
                SplitStep(s, char, fromBack, here, B!Order(s, fromBack)[k + 1]))
    BY <2>1, <2>3, CuttingNext
  <2> QED
    BY <2>4, <2>5, Zenon
<1>6. Cutting(l, s, char, l, fromBack, acc)
  <2>1. SUFFICES ASSUME ~Steps(l) PROVE FALSE
    OBVIOUS
  <2>2. Uncut \in SUBSET Nat /\ Uncut # {}
    BY <2>1
  <2>3. PICK least \in Uncut : \A m \in Uncut : least <= m
    <3> HIDE DEF Uncut
    <3> QED
      BY <2>2, LeastNatural
  <2>4. least \in Nat /\ ~Steps(least) /\ least # 0
    BY <1>4, <2>3
  <2> DEFINE m == least - 1
  <2>5. m \in Nat /\ least = m + 1 /\ ~(least <= m)
    BY <2>4
  <2> HIDE DEF m
  <2>6. Steps(m)
    <3>1. m \notin Uncut
      <4> HIDE DEF Uncut
      <4> QED
        BY <2>3, <2>5
    <3> HIDE DEF Steps
    <3> QED
      BY <2>5, <3>1
  <2> HIDE DEF Steps
  <2> QED
    BY <1>5, <2>4, <2>5, <2>6
<1> HIDE DEF acc
<1> DEFINE ends   == B!Ends(B!Text(s), char)
           starts == B!Starts(B!Text(s), char)
           next   == IF fromBack THEN 0 ELSE l + 1
<1>7. PICK edge : /\ Edge(l, s, char, l, fromBack, edge)
                  /\ acc.begin = BeginAt(fromBack, edge)
                  /\ Pieces(s, char, fromBack, edge, acc.pieces)
  BY <1>6, Zenon DEF Cutting
<1>8. /\ ends = {0, l + 1} \union { p \in 1 .. l : s[p] = char }
      /\ \A m \in ends : m \in 0 .. l + 1
  <2>0. /\ Len(B!Text(s)) = l /\ DOMAIN B!Text(s) = 1 .. l
        /\ \A p \in 1 .. l : B!Text(s)[p] = s[p]
    BY TextIs
  <2>1. ends = {0, l + 1} \union { p \in 1 .. l : s[p] = char }
    BY <2>0 DEF B!Ends
  <2>2. \A m \in ends : m \in 0 .. l + 1
    BY <2>1
  <2> QED
    BY <2>1, <2>2, Zenon
<1>9. starts = { m \in ends : m # l + 1 /\ B!EndAfter(B!Text(s), char, m) > m + 1 }
  BY EndsAre
<1>10. /\ edge \in ends /\ next \in ends /\ end = next - 1
       /\ IF fromBack THEN next < edge ELSE edge < next
       /\ \A m \in ends : IF fromBack THEN ~(next < m /\ m < edge) ELSE ~(edge < m /\ m < next)
  <2>1. edge \in ends /\ edge \in 0 .. l + 1 /\ next \in ends
    BY <1>7, <1>8 DEF Edge
  <2>2. CASE fromBack = TRUE
    <3>1. next = 0 /\ end = next - 1
      BY <2>2
    <3>2. edge >= l + 1 - l /\ \A m \in ends : ~(l + 1 - l <= m /\ m < edge)
      BY <1>7, <2>2 DEF Edge
    <3> HIDE DEF next, ends, end
    <3>3. next < edge /\ \A m \in ends : ~(next < m /\ m < edge)
      BY <1>8, <2>1, <3>1, <3>2
    <3> QED
      BY <2>1, <2>2, <3>1, <3>3
  <2>3. CASE fromBack = FALSE
    <3>1. next = l + 1 /\ end = next - 1
      BY <2>3
    <3>2. edge <= l /\ \A m \in ends : ~(edge < m /\ m <= l)
      BY <1>7, <2>3 DEF Edge
    <3> HIDE DEF next, ends, end
    <3>3. edge < next /\ \A m \in ends : ~(edge < m /\ m < next)
      BY <1>8, <2>1, <3>1, <3>2
    <3> QED
      BY <2>1, <2>3, <3>1, <3>3
  <2> QED
    BY <2>2, <2>3
<1>11. Pieces(s, char, fromBack, next, pieces)
  <2>1. Neighbours(s, char, fromBack, edge, next)
    <3> HIDE DEF next
    <3> QED
      BY <1>10, Zenon DEF Neighbours
  <2> DEFINE before == acc.pieces
  <2>2. Pieces(s, char, fromBack, edge, before)
    BY <1>7
  <2>3. CutOff(s, fromBack, edge, next, before) = pieces
    <3> HIDE DEF next, end
    <3> QED
      BY <1>7, <1>10, Zenon DEF CutOff
  <2> HIDE DEF before, next, pieces
  <2>4. Pieces(s, char, fromBack, next, CutOff(s, fromBack, edge, next, before))
    BY <2>1, <2>2, EdgeMoves
  <2> QED
    BY <2>3, <2>4, Zenon
<1>12. Placed(s, char, fromBack, next) = starts
  <2>1. \A m \in starts : m \in 0 .. l
    <3> HIDE DEF ends, starts
    <3> QED
      BY <1>8, <1>9
  <2> HIDE DEF starts
  <2>2. \A m \in starts : IF fromBack THEN m >= next ELSE m < next
    BY <2>1
  <2> QED
    BY <2>2 DEF Placed, starts
<1> HIDE DEF pieces, next, starts
<1>13. PICK n, e : /\ Listing(starts, n, e, ~fromBack)
                   /\ pieces = [j \in 1 .. n |-> PieceAt(s, char, e[j])]
  BY <1>11, <1>12, Zenon DEF Pieces
<1>14. n \in Nat
  BY <1>13 DEF Listing
<1>15. ASSUME NEW up, Listing(starts, n, up, TRUE)
       PROVE  B!Cut(B!Text(s), char) = [j \in 1 .. n |-> PieceAt(s, char, up[j])]
  <2>1. B!Cardinality(starts) = n /\ \A j \in 1 .. n : B!Nth(starts, j) = up[j]
    BY <1>15, NthIs
  <2>2. B!Cut(B!Text(s), char) =
            [j \in 1 .. B!Cardinality(starts) |-> PieceAt(s, char, B!Nth(starts, j))]
    BY Zenon DEF B!Cut, starts, PieceAt
  <2> QED
    BY <2>1, <2>2
<1>16. CASE fromBack = FALSE
  <2>1. Listing(starts, n, e, TRUE)
    BY <1>13, <1>16 DEF Listing
  <2>2. B!Cut(B!Text(s), char) = pieces
    BY <1>13, <1>15, <2>1
  <2> QED
    BY <1>3, <1>16, <2>2
<1>17. CASE fromBack = TRUE
  <2> DEFINE up == [j \in 1 .. n |-> e[n - j + 1]]
  <2>1. Listing(starts, n, e, FALSE)
    BY <1>13, <1>17 DEF Listing
  <2>2. Listing(starts, n, up, TRUE)
    BY <2>1, ListingTurned
  <2>3. B!Cut(B!Text(s), char) = [j \in 1 .. n |-> PieceAt(s, char, up[j])]
    <3> HIDE DEF up
    <3> QED
      BY <1>15, <2>2
  <2>4. Len(pieces) = n
    BY <1>13, <1>14
  <2>5. B!S!Reverse(pieces) = [j \in 1 .. n |-> pieces[n - j + 1]]
    BY <2>4 DEF B!S!Reverse
  <2>6. \A j \in 1 .. n : n - j + 1 \in 1 .. n
    BY <1>14
  <2>7. \A j \in 1 .. n : pieces[n - j + 1] = PieceAt(s, char, up[j])
    BY <1>13, <2>6
  <2>8. B!S!Reverse(pieces) = B!Cut(B!Text(s), char)
    <3> HIDE DEF up
    <3> QED
      BY <2>3, <2>5, <2>7
  <2> QED
    BY <1>3, <1>17, <2>8
<1> QED
  BY <1>16, <1>17

\* So a string is cut and stripped right.
LEMMA SplitIsRight == NulInv => B!SplitsRight
<1>1. SUFFICES ASSUME NulInv, NEW c \in Chars, NEW fromBack \in BOOLEAN
               PROVE  /\ B!Split(object.subject, {c}, fromBack, 0) = B!Cut(B!Text(object.subject), c)
                      /\ B!Strip(object.subject, c, fromBack, 0) =
                            B!Create(B!Without(B!Text(object.subject), c))
  BY Zenon DEF B!SplitsRight, B!subject
<1> DEFINE s == object.subject
<1>2. PICK l \in Nat : Len(s) = l + 1
  BY <1>1, OneLess DEF NulInv
<1>3. s \in Seq(Nat)
  <2>1. Bytes \subseteq Nat
    BY CharsAssumption DEF Bytes, B!NUL
  <2> QED
    BY <1>1, <2>1, SeqMonotonic DEF NulInv, StringsInv
<1> HIDE DEF s
<1>4. B!Split(s, {c}, fromBack, 0) = B!Cut(B!Text(s), c)
  BY <1>2, <1>3, PiecesRight
<1>5. B!Strip(s, c, fromBack, 0) = B!Create(B!Without(B!Text(s), c))
  BY <1>2, <1>3, StripsRight
<1> QED
  BY <1>4, <1>5, Zenon DEF s

(* A string is split at a char, and stripped of one, into what lies between *)
(* its places and into the rest, from either end; and the comparison of the *)
(* sorts orders strings of any bytes totally, upper case before lower where *)
(* the letters are the same (BackerStrings.c, lines 58-69, 82-135 and       *)
(* 155-186).                                                                *)
THEOREM StringsCutAndOrdered == Spec => []StringsRight
<1> DEFINE Safe == which = "strings" => NulInv
<1>1. Init => Safe
  BY NulInit DEF Init
<1>2. Safe /\ [Next]_vars => Safe'
  <2>1. CASE UNCHANGED vars
    <3>1. which' = which /\ object' = object
      BY <2>1 DEF vars
    <3>2. NulInv => NulInv'
      BY Zenon, <3>1 DEF NulInv, StringsInv
    <3> QED
      BY <3>1, <3>2
  <2>2. CASE Next
    <3>1. which' = which
      BY <2>2 DEF Next
    <3>2. which = "strings" => B!Next
      BY <2>2 DEF Next
    <3> HIDE DEF Safe
    <3> QED
      BY <3>1, <3>2, NulStep DEF Safe
  <2> QED
    BY <2>1, <2>2
<1>3. Safe => StringsRight
  BY SplitIsRight, OrderIsTotal DEF StringsRight
<1> QED
  BY <1>1, <1>2, <1>3, PTL DEF Spec

-----------------------------------------------------------------------------
(* Searches by halving                                                      *)

\* What a function is that goes on from place to place until it stops.
Onward(places, stops, onward, base, f) ==
    [p \in places |-> IF p \in stops THEN base[p] ELSE f[onward[p]]]

\* A function that goes on to another of its places until it stops exists, when
\* each place it goes on to is lower.
LEMMA TailRecursion ==
    ASSUME NEW Places, NEW Stops, NEW onward \in [Places -> Places], NEW base,
           NEW bound \in Nat, NEW height \in [Places -> 0 .. bound],
           \A p \in Places : p \notin Stops => height[onward[p]] < height[p]
    PROVE  \E f : f = Onward(Places, Stops, onward, base, f)
<1> DEFINE Low(k) == { p \in Places : height[p] <= k }
           Step(k, f) == [p \in Low(k) |-> IF p \in Stops THEN base[p] ELSE f[onward[p]]]
           Off == { k \in Nat : ~\E f : f = Step(k, f) }
<1>1. SUFFICES ASSUME Off # {} PROVE FALSE
  <2>1. PICK f : f = Step(bound, f)
    BY <1>1
  <2>2. Low(bound) = Places
    OBVIOUS
  <2> QED
    BY <2>1, <2>2 DEF Onward
<1>2. PICK k \in Off : \A l \in Off : k <= l
  <2>1. Off \in SUBSET Nat
    OBVIOUS
  <2> HIDE DEF Off
  <2> QED
    BY <1>1, <2>1, LeastNatural
<1>3. PICK f : \A p \in Low(k - 1) : f[p] = IF p \in Stops THEN base[p] ELSE f[onward[p]]
  <2>1. CASE k = 0
    <3>1. Low(k - 1) = {}
      BY <2>1
    <3> QED
      BY <3>1
  <2>2. CASE k # 0
    <3>1. k - 1 \in Nat /\ ~(k <= k - 1)
      BY <2>2
    <3>2. PICK f : f = Step(k - 1, f)
      BY <1>2, <3>1
    <3> QED
      BY <3>2
  <2> QED
    BY <2>1, <2>2
<1> DEFINE g == [p \in Low(k) |-> IF p \in Stops THEN base[p] ELSE f[onward[p]]]
<1>4. ASSUME NEW p \in Low(k), p \notin Stops
      PROVE  onward[p] \in Low(k) /\ onward[p] \in Low(k - 1)
  <2>1. height[p] \in 0 .. bound /\ onward[p] \in Places /\ height[onward[p]] \in 0 .. bound
    OBVIOUS
  <2>2. height[onward[p]] < height[p] /\ height[p] <= k /\ k \in Nat
    BY <1>4
  <2> QED
    BY <2>1, <2>2
<1>5. ASSUME NEW p \in Low(k), p \notin Stops
      PROVE  g[onward[p]] = f[onward[p]]
  BY <1>3, <1>4, <1>5
<1>6. g = Step(k, g)
  BY <1>5
<1> HIDE DEF g
<1> QED
  BY <1>2, <1>6

\* Where the search ends: at an interval of one index, at a side of which
\* nothing is.
LEMMA HalvedIs ==
    ASSUME NEW right, NEW n \in Nat \ {0}
    PROVE  \E begin \in 0 .. n - 1 :
              /\ BS!Halved(right, n) = [begin |-> begin, end |-> begin + 1]
              /\ begin = 0 \/ begin \in right
              /\ begin + 1 = n \/ begin + 1 \notin right
<1> DEFINE Spans == [begin : 0 .. n, end : 0 .. n]
           Mid(s) == (s.begin + s.end) \div 2
           Half(s) == IF Mid(s) \in right THEN [s EXCEPT !.begin = Mid(s)]
                      ELSE [s EXCEPT !.end = Mid(s)]
           Stops == { s \in Spans : s.end - s.begin <= 1 }
           Rec(f) == [s \in Spans |-> IF s.end - s.begin <= 1 THEN s ELSE f[Half(s)]]
           interval == CHOOSE f : f = Rec(f)
           whole == [begin |-> 0, end |-> n]
<1>1. ASSUME NEW s \in Spans, s.end - s.begin > 1
      PROVE  /\ Half(s) \in Spans
             /\ s.begin < Mid(s) /\ Mid(s) < s.end
             /\ \/ Mid(s) \in right /\ Half(s).begin = Mid(s) /\ Half(s).end = s.end
                \/ Mid(s) \notin right /\ Half(s).begin = s.begin /\ Half(s).end = Mid(s)
  <2>1. s.begin \in 0 .. n /\ s.end \in 0 .. n
    OBVIOUS
  <2> DEFINE m == Mid(s)
  <2>2. m \in 0 .. n /\ s.begin < m /\ m < s.end
    BY <1>1, <2>1
  <2> HIDE DEF m
  <2>3. Half(s) = IF m \in right THEN [s EXCEPT !.begin = m] ELSE [s EXCEPT !.end = m]
    BY DEF m
  <2>4. /\ [s EXCEPT !.begin = m] \in Spans /\ [s EXCEPT !.end = m] \in Spans
        /\ [s EXCEPT !.begin = m].begin = m /\ [s EXCEPT !.begin = m].end = s.end
        /\ [s EXCEPT !.end = m].end = m /\ [s EXCEPT !.end = m].begin = s.begin
    BY <2>2
  <2> HIDE DEF Half, Spans
  <2> QED
    BY <2>2, <2>3, <2>4 DEF m
<1> HIDE DEF Half
<1>2. interval = Rec(interval)
  <2> DEFINE onward == [s \in Spans |-> IF s \in Stops THEN s ELSE Half(s)]
             base   == [s \in Spans |-> s]
             height == [s \in Spans |-> IF s \in Stops THEN 0 ELSE s.end - s.begin]
  <2>1. ASSUME NEW s \in Spans
        PROVE  /\ onward[s] \in Spans /\ height[s] \in 0 .. n
               /\ s \notin Stops => height[onward[s]] < height[s]
    <3>1. s.begin \in 0 .. n /\ s.end \in 0 .. n
      OBVIOUS
    <3>2. CASE s \in Stops
      BY <3>2
    <3>3. CASE s \notin Stops
      <4>1. s.end - s.begin > 1
        BY <3>1, <3>3
      <4>2. onward[s] = Half(s) /\ height[s] = s.end - s.begin
        BY <3>3
      <4>3. Half(s) \in Spans /\ Half(s).end - Half(s).begin < s.end - s.begin
        BY <1>1, <3>1, <4>1
      <4>4. height[Half(s)] = 0 \/ height[Half(s)] = Half(s).end - Half(s).begin
        <5> DEFINE t == Half(s)
        <5>1. t \in Spans
          BY <4>3
        <5> HIDE DEF t
        <5>2. height[t] = 0 \/ height[t] = t.end - t.begin
          BY <5>1
        <5> QED
          BY <5>2 DEF t
      <4>5. Half(s).begin \in 0 .. n /\ Half(s).end \in 0 .. n
        BY <4>3
      <4> DEFINE span == s.end - s.begin
                 half == Half(s).end - Half(s).begin
      <4>6. span \in 0 .. n /\ span > 1 /\ half \in Int /\ half < span
        BY <3>1, <4>1, <4>3, <4>5
      <4>7. height[s] = span /\ (height[Half(s)] = 0 \/ height[Half(s)] = half)
        BY <4>2, <4>4
      <4>8. onward[s] \in Spans /\ onward[s] = Half(s)
        BY <4>2, <4>3
      <4> HIDE DEF height, onward, span, half, Spans
      <4> QED
        BY <4>6, <4>7, <4>8
    <3> QED
      BY <3>2, <3>3
  <2>2. onward \in [Spans -> Spans] /\ height \in [Spans -> 0 .. n]
    BY <2>1
  <2> HIDE DEF Spans, Stops, height
  <2>3. \E f : f = Onward(Spans, Stops, onward, base, f)
    <3> HIDE DEF onward, base
    <3>1. n \in Nat /\ \A s \in Spans : s \notin Stops => height[onward[s]] < height[s]
      BY <2>1
    <3> QED
      BY <2>2, <3>1, TailRecursion, Zenon
  <2>4. PICK f : f = [s \in Spans |-> IF s \in Stops THEN base[s] ELSE f[onward[s]]]
    BY <2>3 DEF Onward
  <2>5. \A s \in Spans : (IF s \in Stops THEN base[s] ELSE f[onward[s]])
                            = IF s.end - s.begin <= 1 THEN s ELSE f[Half(s)]
    BY DEF Stops
  <2>6. f = Rec(f)
    BY <2>4, <2>5
  <2> HIDE DEF Rec
  <2> QED
    BY <2>6
<1>3. BS!Halved(right, n) = interval[whole]
  BY DEF BS!Halved, Half
<1> HIDE DEF interval
<1> DEFINE Good(s) == /\ s \in Spans /\ s.begin < s.end
                      /\ s.begin = 0 \/ s.begin \in right
                      /\ s.end = n \/ s.end \notin right
           Ends(s) == \E begin \in 0 .. n - 1 :
                         /\ s = [begin |-> begin, end |-> begin + 1]
                         /\ begin = 0 \/ begin \in right
                         /\ begin + 1 = n \/ begin + 1 \notin right
           Off == { k \in Nat : \E s \in Spans : s.end - s.begin = k /\ Good(s) /\ ~Ends(interval[s]) }
<1>4. Off = {}
  <2>1. SUFFICES ASSUME Off # {} PROVE FALSE
    OBVIOUS
  <2>2. PICK k \in Off : \A l \in Off : k <= l
    <3>1. Off \in SUBSET Nat
      OBVIOUS
    <3> HIDE DEF Off
    <3> QED
      BY <2>1, <3>1, LeastNatural
  <2>3. PICK s \in Spans : s.end - s.begin = k /\ Good(s) /\ ~Ends(interval[s])
    OBVIOUS
  <2>4. s.begin \in 0 .. n /\ s.end \in 0 .. n /\ s = [begin |-> s.begin, end |-> s.end]
    OBVIOUS
  <2>5. interval[s] = IF s.end - s.begin <= 1 THEN s ELSE interval[Half(s)]
    BY <1>2
  <2>6. CASE s.end - s.begin <= 1
    <3>1. s.end = s.begin + 1 /\ s.begin \in 0 .. n - 1
      BY <2>3, <2>4, <2>6
    <3>2. Ends(s)
      BY <2>3, <2>4, <3>1
    <3> QED
      BY <2>3, <2>5, <2>6, <3>2
  <2>7. CASE s.end - s.begin > 1
    <3> DEFINE h == Half(s)
    <3>1. /\ h \in Spans /\ s.begin < Mid(s) /\ Mid(s) < s.end
          /\ \/ Mid(s) \in right /\ h.begin = Mid(s) /\ h.end = s.end
             \/ Mid(s) \notin right /\ h.begin = s.begin /\ h.end = Mid(s)
      BY <1>1, <2>7
    <3>2. h.begin \in 0 .. n /\ h.end \in 0 .. n
      BY <3>1
    <3> HIDE DEF h
    <3>3. Good(h) /\ h.end - h.begin \in Nat /\ h.end - h.begin < k
      BY <2>3, <2>4, <3>1, <3>2
    <3>4. ~(interval[s] # interval[h])
      BY <2>4, <2>5, <2>7 DEF h
    <3>5. h.end - h.begin \in Off
      <4> HIDE DEF Ends, Good
      <4> QED
        BY <2>3, <3>1, <3>3, <3>4
    <3> QED
      BY <2>2, <3>3, <3>5
  <2> QED
    BY <2>4, <2>6, <2>7
<1>5. whole \in Spans /\ Good(whole) /\ whole.end - whole.begin \in Nat
  OBVIOUS
<1>6. Ends(interval[whole])
  <2> HIDE DEF Ends, Good
  <2> QED
    BY <1>4, <1>5
<1> QED
  BY <1>3, <1>6

-----------------------------------------------------------------------------
(* The grammar of JSON                                                      *)

\* What the greatest of a set of natural numbers is.
LEMMA GreatestOf ==
    ASSUME NEW Items \in SUBSET Nat, NEW greatest \in Items, \A m \in Items : greatest >= m
    PROVE  J!S!Max(Items) = greatest
<1> DEFINE P(k) == k \in Items /\ \A m \in Items : k >= m
<1>1. J!S!Max(Items) = CHOOSE k : P(k)
  BY DEF J!S!Max
<1>2. P(greatest)
  OBVIOUS
<1>3. \A k : P(k) => k = greatest
  OBVIOUS
<1> HIDE DEF P
<1> QED
  BY <1>1, <1>2, <1>3, Zenon

\* How often types stand in a text, one token after another.
LEMMA CountIs ==
    ASSUME NEW text, NEW types, NEW n \in Nat
    PROVE  /\ J!Count(text, n, types) \in Nat
           /\ J!Count(text, n + 1, types) =
                 J!Count(text, n, types) + (IF text[n + 1].type \in types THEN 1 ELSE 0)
<1> DEFINE Places(m) == { k \in 1 .. m : text[k].type \in types }
<1>1. \A m : J!Count(text, m, types) = Cardinality(Places(m))
  BY DEF J!Count, J!Cardinality, Cardinality
<1>2. IsFiniteSet(1 .. n)
  BY FS_Interval
<1>3. IsFiniteSet(Places(n))
  BY <1>2, FS_Subset
<1>4. Cardinality(Places(n)) \in Nat
  BY <1>3, FS_CardinalityType
<1>5. n + 1 \notin Places(n)
  OBVIOUS
<1>6. Places(n + 1) = IF text[n + 1].type \in types THEN Places(n) \union {n + 1} ELSE Places(n)
  OBVIOUS
<1> HIDE DEF Places
<1>7. Cardinality(Places(n) \union {n + 1}) = Cardinality(Places(n)) + 1
  BY <1>3, <1>5, FS_AddElement
<1> QED
  BY <1>1, <1>4, <1>6, <1>7

\* How deep a text goes, one token after another.
LEMMA DepthIs ==
    ASSUME NEW text, NEW n \in Nat
    PROVE  /\ J!DepthAt(text, n) \in Int
           /\ J!DepthAt(text, n + 1) = J!DepthAt(text, n)
                 + (IF text[n + 1].type \in J!Opening THEN 1 ELSE 0)
                 - (IF text[n + 1].type \in J!Closing THEN 1 ELSE 0)
<1>1. \A m : J!DepthAt(text, m) = J!Count(text, m, J!Opening) - J!Count(text, m, J!Closing)
  BY Zenon DEF J!DepthAt
<1>2. /\ J!Count(text, n, J!Opening) \in Nat
      /\ J!Count(text, n + 1, J!Opening) = J!Count(text, n, J!Opening)
            + (IF text[n + 1].type \in J!Opening THEN 1 ELSE 0)
  BY CountIs
<1>3. /\ J!Count(text, n, J!Closing) \in Nat
      /\ J!Count(text, n + 1, J!Closing) = J!Count(text, n, J!Closing)
            + (IF text[n + 1].type \in J!Closing THEN 1 ELSE 0)
  BY CountIs
<1> QED
  BY <1>1, <1>2, <1>3

\* Before the first token it is not deep.
LEMMA NoDepth == \A text : J!DepthAt(text, 0) = 0
<1>1. TAKE text
<1>2. \A types : J!Count(text, 0, types) = 0
  <2>1. TAKE types
  <2>2. { k \in 1 .. 0 : text[k].type \in types } = {}
    OBVIOUS
  <2>3. Cardinality({}) = 0
    BY FS_EmptySet
  <2> QED
    BY <2>2, <2>3 DEF J!Count, J!Cardinality, Cardinality
<1> QED
  BY <1>2 DEF J!DepthAt

\* A text and the same with a token behind it are as deep, and have the same around them.
LEMMA PrefixDepth ==
    ASSUME NEW text \in Seq(J!Tokens), NEW token \in J!Tokens, NEW n \in 0 .. Len(text)
    PROVE  J!DepthAt(Append(text, token), n) = J!DepthAt(text, n)
<1> DEFINE longer == Append(text, token)
<1>1. \A k \in 1 .. n : longer[k] = text[k]
  OBVIOUS
<1> HIDE DEF longer
<1>2. \A types : J!Count(longer, n, types) = J!Count(text, n, types)
  <2>1. TAKE types
  <2>2. { k \in 1 .. n : longer[k].type \in types } = { k \in 1 .. n : text[k].type \in types }
    BY <1>1
  <2> QED
    BY <2>2, Zenon DEF J!Count
<1>3. J!DepthAt(longer, n) = J!DepthAt(text, n)
  <2>1. /\ J!Count(longer, n, J!Opening) = J!Count(text, n, J!Opening)
        /\ J!Count(longer, n, J!Closing) = J!Count(text, n, J!Closing)
    BY <1>2
  <2> QED
    BY ONLY <2>1 DEF J!DepthAt
<1> QED
  BY <1>3 DEF longer

\* Around every token of a text but the first something is open.
NeverAtTop(text) ==
    \A m \in 1 .. Len(text) : \E k \in 1 .. m :
        text[k].type \in J!Opening /\ J!DepthAt(text, k) = J!DepthAt(text, m)

LEMMA PrefixAround ==
    ASSUME NEW text \in Seq(J!Tokens), NEW token \in J!Tokens, NeverAtTop(text),
           NEW n \in 1 .. Len(text)
    PROVE  J!Around(Append(text, token), n + 1) = J!Around(text, n + 1)
<1> DEFINE longer == Append(text, token)
           Opens(t) == { k \in 1 .. n + 1 - 1 :
                            t[k].type \in J!Opening /\ J!DepthAt(t, k) = J!DepthAt(t, n + 1 - 1) }
<1>1. n + 1 - 1 = n /\ n \in 0 .. Len(text) /\ n \in Nat
  OBVIOUS
<1>2. \A k \in 1 .. n : longer[k] = text[k] /\ k \in 0 .. Len(text)
  OBVIOUS
<1>3. \A k \in 0 .. Len(text) : J!DepthAt(longer, k) = J!DepthAt(text, k)
  BY PrefixDepth
<1> HIDE DEF longer
<1>4. Opens(longer) = Opens(text)
  BY <1>1, <1>2, <1>3
<1>5. Opens(text) # {}
  BY <1>1 DEF NeverAtTop
<1>6. \A t : J!Around(t, n + 1) = t[J!S!Max(Opens(t))].type
  BY ONLY DEF J!Around
<1>7. Opens(text) \subseteq 1 .. n
  BY <1>1
<1>8. J!S!Max(Opens(text)) \in Opens(text)
  <2>1. PICK k \in Opens(text) : \A m \in Opens(text) : k >= m
    <3> DEFINE Off == { j \in Nat : n - j \in Opens(text) }
    <3>1. Off \in SUBSET Nat /\ Off # {}
      <4>1. PICK k \in Opens(text) : TRUE
        BY <1>5
      <4>2. n - k \in Nat /\ n - (n - k) = k
        BY <1>1, <1>7, <4>1
      <4> HIDE DEF Opens
      <4> QED
        BY <4>1, <4>2
    <3> HIDE DEF Opens
    <3>2. PICK j \in Off : \A m \in Off : j <= m
      <4> HIDE DEF Off
      <4> QED
        BY <3>1, LeastNatural
    <3>3. \A m \in Opens(text) : n - m \in Nat /\ n - (n - m) = m
      BY <1>1, <1>7
    <3>4. \A m \in Opens(text) : n - m \in Off
      BY <3>3
    <3>5. n - j \in Opens(text)
      OBVIOUS
    <3> HIDE DEF Off
    <3>6. \A m \in Opens(text) : j <= n - m
      BY <3>2, <3>4
    <3> QED
      BY <1>1, <1>7, <3>2, <3>3, <3>5, <3>6 DEF Off
  <2>2. Opens(text) \in SUBSET Nat
    BY <1>7
  <2> HIDE DEF Opens
  <2> QED
    BY <2>1, <2>2, GreatestOf
<1>9. longer[J!S!Max(Opens(text))] = text[J!S!Max(Opens(text))]
  <2> HIDE DEF Opens
  <2> QED
    BY <1>2, <1>7, <1>8
<1>10. J!Around(longer, n + 1) = J!Around(text, n + 1)
  <2> HIDE DEF Opens
  <2> QED
    BY <1>4, <1>6, <1>9
<1> QED
  BY <1>10 DEF longer

\* A token of a type opened what a text is in since, at a depth.
Opens(text, depth, type) ==
    \E k \in 1 .. Len(text) :
        /\ text[k].type = type /\ J!DepthAt(text, k) = depth
        /\ \A m \in k .. Len(text) : J!DepthAt(text, m) >= depth

\* What is open last is around what follows.
LEMMA AroundIs ==
    ASSUME NEW text \in Seq(J!Tokens), Len(text) >= 1, NEW type \in J!Opening,
           Opens(text, J!DepthAt(text, Len(text)), type)
    PROVE  J!Around(text, Len(text) + 1) = type
<1> DEFINE n == Len(text)
           d == J!DepthAt(text, n)
           Places == { k \in 1 .. n + 1 - 1 :
                          text[k].type \in J!Opening /\ J!DepthAt(text, k) = J!DepthAt(text, n + 1 - 1) }
<1>1. n \in Nat /\ n + 1 - 1 = n /\ n >= 1
  OBVIOUS
<1>2. PICK k \in 1 .. n : /\ text[k].type = type /\ J!DepthAt(text, k) = d
                          /\ \A m \in k .. n : J!DepthAt(text, m) >= d
  BY DEF Opens
<1>3. J!Around(text, n + 1) = text[J!S!Max(Places)].type
  BY ONLY DEF J!Around
<1>4. k \in Places
  BY <1>1, <1>2
<1>5. ASSUME NEW m \in Places
      PROVE  k >= m
  <2>1. SUFFICES ASSUME ~(k >= m) PROVE FALSE
    OBVIOUS
  <2>2. /\ m \in 1 .. n /\ m - 1 \in Nat /\ m - 1 + 1 = m /\ m - 1 \in k .. n
        /\ text[m].type \in J!Opening /\ J!DepthAt(text, m) = d
    BY <1>1, <1>5, <2>1
  <2>3. J!DepthAt(text, m - 1) >= d
    BY <1>2, <2>2
  <2>4. /\ J!DepthAt(text, m - 1) \in Int
        /\ J!DepthAt(text, m - 1 + 1) = J!DepthAt(text, m - 1)
              + (IF text[m - 1 + 1].type \in J!Opening THEN 1 ELSE 0)
              - (IF text[m - 1 + 1].type \in J!Closing THEN 1 ELSE 0)
    BY <2>2, DepthIs
  <2>5. text[m].type \notin J!Closing
    BY <2>2 DEF J!Opening, J!Closing
  <2>6. d \in Int
    BY <1>1, DepthIs
  <2> HIDE DEF Places, d, n
  <2> QED
    BY <2>2, <2>3, <2>4, <2>5, <2>6
<1>6. J!S!Max(Places) = k
  <2>1. Places \in SUBSET Nat
    BY <1>1
  <2> HIDE DEF Places
  <2> QED
    BY <1>4, <1>5, <2>1, GreatestOf
<1> HIDE DEF Places
<1> QED
  BY <1>2, <1>3, <1>6

\* What the reader takes: what is legal, but for the end of what is empty.
Accepted(text, k) ==
    LET type == text[k].type
        last == text[k - 1].type
    IN  IF k = 1 THEN type = "OpenCurlyBracket"
        ELSE CASE type = "Colon" -> J!IsKey(text, k - 1)
               [] type = "Comma" -> J!IsValueEnd(text, k - 1)
               [] type = "CloseCurlyBracket" ->
                      J!IsValueEnd(text, k - 1) /\ J!Around(text, k) = "OpenCurlyBracket"
               [] type = "CloseBracket" ->
                      J!IsValueEnd(text, k - 1) /\ J!Around(text, k) = "OpenBracket"
               [] OTHER -> \/ last = "Colon" \/ J!IsKey(text, k)
                           \/ J!Around(text, k) = "OpenBracket" /\ last \in {"OpenBracket", "Comma"}

LEMMA AcceptedIs ==
    ASSUME NEW text \in Seq(J!Tokens), NEW k \in 1 .. Len(text)
    PROVE  Accepted(text, k) <=> J!Legal(text, k) /\ ~J!ClosesEmpty(text, k)
<1>1. CASE k = 1
  BY <1>1 DEF Accepted, J!Legal, J!ClosesEmpty
<1>2. CASE k # 1
  <2> DEFINE type == text[k].type
             last == text[k - 1].type
  <2>1. k > 1 /\ k - 1 \in 1 .. Len(text)
    BY <1>2
  <2>2. J!IsValueEnd(text, k - 1) => last \notin {"OpenCurlyBracket", "OpenBracket"}
    <3>1. \A leaf \in Leaves : leaf.type \in {"null", "boolean", "number", "string"}
      BY JsonAssumption
    <3> QED
      BY <3>1 DEF J!IsValueEnd, J!Closing
  <2>3. J!ClosesEmpty(text, k) <=>
           \/ last = "OpenCurlyBracket" /\ type = "CloseCurlyBracket"
           \/ last = "OpenBracket" /\ type = "CloseBracket"
    BY <2>1 DEF J!ClosesEmpty
  <2>4. Accepted(text, k) <=>
           CASE type = "Colon" -> J!IsKey(text, k - 1)
             [] type = "Comma" -> J!IsValueEnd(text, k - 1)
             [] type = "CloseCurlyBracket" ->
                    J!IsValueEnd(text, k - 1) /\ J!Around(text, k) = "OpenCurlyBracket"
             [] type = "CloseBracket" ->
                    J!IsValueEnd(text, k - 1) /\ J!Around(text, k) = "OpenBracket"
             [] OTHER -> \/ last = "Colon" \/ J!IsKey(text, k)
                         \/ J!Around(text, k) = "OpenBracket" /\ last \in {"OpenBracket", "Comma"}
    BY <1>2 DEF Accepted
  <2>5. J!Legal(text, k) <=>
           CASE type = "Colon" -> J!IsKey(text, k - 1)
             [] type = "Comma" -> J!IsValueEnd(text, k - 1)
             [] type = "CloseCurlyBracket" ->
                    /\ J!Around(text, k) = "OpenCurlyBracket"
                    /\ last = "OpenCurlyBracket" \/ J!IsValueEnd(text, k - 1)
             [] type = "CloseBracket" ->
                    /\ J!Around(text, k) = "OpenBracket"
                    /\ last = "OpenBracket" \/ J!IsValueEnd(text, k - 1)
             [] OTHER -> \/ last = "Colon" \/ J!IsKey(text, k)
                         \/ J!Around(text, k) = "OpenBracket" /\ last \in {"OpenBracket", "Comma"}
    BY <1>2 DEF J!Legal
  <2> HIDE DEF type, last
  <2> QED
    BY <2>2, <2>3, <2>4, <2>5
<1> QED
  BY <1>1, <1>2

\* What the last token, in a scope of a type, makes the reader expect.
Expects(text, type, expecting) ==
    LET last == text[Len(text)].type IN
    /\ expecting \in {"identifier", "colon", "value", "nothing"}
    /\ expecting = "identifier" => last \in {"OpenCurlyBracket", "Comma"} /\ type = "OpenCurlyBracket"
    /\ expecting = "colon" => J!IsKey(text, Len(text)) /\ type = "OpenCurlyBracket"
    /\ expecting = "value" => \/ last = "Colon"
                              \/ last \in {"OpenBracket", "Comma"} /\ type = "OpenBracket"
    /\ expecting = "nothing" => J!IsValueEnd(text, Len(text))

\* What a reader makes of a text: the types of the scopes it is in, and what it expects.
ReadingText(text, open, expecting) ==
    /\ text \in Seq(J!Tokens) /\ open \in Seq(J!Opening)
    /\ J!DepthAt(text, Len(text)) = Len(open)
    /\ \A k \in 1 .. Len(text) : Accepted(text, k)
    /\ IF text = <<>> THEN open = <<>> /\ expecting = "value"
       ELSE /\ open # <<>> /\ open[1] = "OpenCurlyBracket" /\ text[1].type = "OpenCurlyBracket"
            /\ NeverAtTop(text)
            /\ \A depth \in 1 .. Len(open) : Opens(text, depth, open[depth])
            /\ Expects(text, open[Len(open)], expecting)

\* A token is a bracket, a colon, a comma or a leaf.
LEMMA TokenIs ==
    ASSUME NEW token \in J!Tokens
    PROVE  \/ /\ token \notin Leaves
              /\ token.type \in J!Opening \union J!Closing \union {"Colon", "Comma"}
           \/ token \in Leaves /\ token.type \in {"null", "boolean", "number", "string"}
<1>1. \A leaf \in Leaves : leaf.type \in {"null", "boolean", "number", "string"}
  BY JsonAssumption
<1> QED
  BY <1>1 DEF J!Tokens, J!Opening, J!Closing

\* A text keeps what was legal when a token follows.
LEMMA PrefixLegal ==
    ASSUME NEW text \in Seq(J!Tokens), NEW token \in J!Tokens, NeverAtTop(text),
           text # <<>>, text[1].type = "OpenCurlyBracket"
    PROVE  \A k \in 1 .. Len(text) :
              /\ J!IsKey(Append(text, token), k) <=> J!IsKey(text, k)
              /\ J!IsValueEnd(Append(text, token), k) <=> J!IsValueEnd(text, k)
              /\ Accepted(Append(text, token), k) <=> Accepted(text, k)
<1> DEFINE longer == Append(text, token)
           n == Len(text)
<1>1. n \in Nat /\ \A k \in 1 .. n : longer[k] = text[k]
  OBVIOUS
<1>2. \A k \in 1 .. n : k = 1 \/ (k - 1 \in 1 .. n /\ k - 1 + 1 = k)
  BY <1>1
<1>3. \A k \in 1 .. n : J!Around(longer, k + 1) = J!Around(text, k + 1)
  BY PrefixAround
<1>4. \A k \in 1 .. n : k # 1 => J!Around(longer, k) = J!Around(text, k)
  BY <1>2, <1>3
<1> HIDE DEF longer, n
<1>5. \A k \in 1 .. n : J!IsKey(longer, k) <=> J!IsKey(text, k)
  <2>1. TAKE k \in 1 .. n
  <2>2. CASE k = 1
    <3>1. text[k].type # "string"
      BY <2>2
    <3> QED
      BY <1>1, <3>1 DEF J!IsKey
  <2>3. CASE k # 1
    <3>1. k - 1 \in 1 .. n
      BY <1>2, <2>3
    <3>2. longer[k - 1] = text[k - 1] /\ longer[k] = text[k]
      BY <1>1, <3>1
    <3> QED
      BY <1>4, <2>3, <3>2 DEF J!IsKey
  <2> QED
    BY <2>2, <2>3
<1>6. \A k \in 1 .. n : J!IsValueEnd(longer, k) <=> J!IsValueEnd(text, k)
  BY <1>1, <1>5 DEF J!IsValueEnd
<1>7. \A k \in 1 .. n : Accepted(longer, k) <=> Accepted(text, k)
  <2>1. TAKE k \in 1 .. n
  <2>2. CASE k = 1
    BY <1>1, <2>2 DEF Accepted
  <2>3. CASE k # 1
    <3>1. k - 1 \in 1 .. n
      BY <1>2, <2>3
    <3>2. longer[k - 1] = text[k - 1] /\ longer[k] = text[k]
      BY <1>1, <3>1
    <3>3. /\ J!IsKey(longer, k) <=> J!IsKey(text, k)
          /\ J!IsKey(longer, k - 1) <=> J!IsKey(text, k - 1)
          /\ J!IsValueEnd(longer, k - 1) <=> J!IsValueEnd(text, k - 1)
          /\ J!Around(longer, k) = J!Around(text, k)
      BY <1>4, <1>5, <1>6, <2>3, <3>1
    <3> QED
      BY ONLY <2>3, <3>2, <3>3 DEF Accepted
  <2> QED
    BY <2>2, <2>3
<1> QED
  BY <1>5, <1>6, <1>7 DEF longer, n

\* The reader takes a token in a scope, or in none.
Takes(token, open, expecting) ==
    /\ token.type \in J!Opening \/ token \in Leaves =>
           \/ expecting = "value"
           \/ token.type = "string" /\ expecting = "identifier"
    /\ token.type = "Colon" => expecting = "colon"
    /\ token.type \in J!Closing \union {"Comma"} => expecting = "nothing"
    /\ token.type # "OpenCurlyBracket" => open # <<>>
    /\ token.type = "CloseCurlyBracket" => open[Len(open)] # "OpenBracket"
    /\ token.type = "CloseBracket" => open[Len(open)] = "OpenBracket"

\* The reader takes the token when the grammar does.
LEMMA TakesLegal ==
    ASSUME NEW text, NEW open, NEW expecting, ReadingText(text, open, expecting),
           NEW token \in J!Tokens
    PROVE  /\ \A k \in 1 .. Len(text) : Accepted(Append(text, token), k)
           /\ Accepted(Append(text, token), Len(text) + 1) <=> Takes(token, open, expecting)
<1> DEFINE longer == Append(text, token)
           n == Len(text)
           type == open[Len(open)]
<1>1. text \in Seq(J!Tokens) /\ open \in Seq(J!Opening) /\ n \in Nat
  BY DEF ReadingText
<1>2. longer[n + 1] = token /\ longer \in Seq(J!Tokens)
  BY <1>1
<1>3. CASE text = <<>>
  <2>1. open = <<>> /\ expecting = "value" /\ n = 0
    BY <1>3 DEF ReadingText
  <2>2. Accepted(longer, n + 1) <=> token.type = "OpenCurlyBracket"
    BY <1>2, <2>1 DEF Accepted
  <2>3. Takes(token, open, expecting) <=> token.type = "OpenCurlyBracket"
    BY <2>1 DEF Takes, J!Closing
  <2>4. 1 .. n = {}
    BY <2>1
  <2> QED
    BY <2>2, <2>3, <2>4
<1>4. CASE text # <<>>
  <2>1. /\ open # <<>> /\ text[1].type = "OpenCurlyBracket" /\ NeverAtTop(text)
        /\ Opens(text, Len(open), type) /\ Expects(text, type, expecting)
        /\ type \in J!Opening /\ J!DepthAt(text, n) = Len(open)
        /\ \A k \in 1 .. n : Accepted(text, k)
    <3>1. /\ open # <<>> /\ text[1].type = "OpenCurlyBracket" /\ NeverAtTop(text)
          /\ \A depth \in 1 .. Len(open) : Opens(text, depth, open[depth])
          /\ Expects(text, type, expecting)
          /\ J!DepthAt(text, n) = Len(open)
          /\ \A k \in 1 .. n : Accepted(text, k)
      BY <1>4, Zenon DEF ReadingText
    <3>2. Len(open) \in 1 .. Len(open)
      BY <1>1, <3>1
    <3> QED
      BY <1>1, <3>1, <3>2
  <2>2. n >= 1 /\ n \in 1 .. n /\ n + 1 # 1 /\ n + 1 - 1 = n
    BY <1>1, <1>4
  <2>3. J!Around(text, n + 1) = type
    BY <1>1, <2>1, <2>2, AroundIs
  <2>4. J!Around(longer, n + 1) = type
    BY <1>1, <2>1, <2>2, <2>3, PrefixAround
  <2>5. \A k \in 1 .. n : /\ J!IsKey(longer, k) <=> J!IsKey(text, k)
                          /\ J!IsValueEnd(longer, k) <=> J!IsValueEnd(text, k)
                          /\ Accepted(longer, k) <=> Accepted(text, k)
    BY <1>1, <1>4, <2>1, PrefixLegal
  <2>6. longer[n] = text[n]
    BY <1>1, <2>2
  <2> DEFINE last == text[n].type
  <2>7. J!IsKey(longer, n + 1) <=> /\ token.type = "string" /\ type = "OpenCurlyBracket"
                                   /\ last \in {"OpenCurlyBracket", "Comma"}
    <3> HIDE DEF longer, n, type
    <3> QED
      BY <1>2, <2>2, <2>4, <2>6 DEF J!IsKey
  <2>8. /\ J!IsKey(text, n) => last = "string"
        /\ J!IsValueEnd(text, n) <=> last \in J!Closing \/ (text[n] \in Leaves /\ ~J!IsKey(text, n))
        /\ text[n] \in Leaves => last \in {"null", "boolean", "number", "string"}
    <3>1. text[n] \in Leaves => last \in {"null", "boolean", "number", "string"}
      BY JsonAssumption
    <3> HIDE DEF n
    <3> QED
      BY <3>1, Zenon DEF J!IsKey, J!IsValueEnd
  <2>9. /\ expecting \in {"identifier", "colon", "value", "nothing"}
        /\ expecting = "identifier" => last \in {"OpenCurlyBracket", "Comma"} /\ type = "OpenCurlyBracket"
        /\ expecting = "colon" => J!IsKey(text, n)
        /\ expecting = "value" => \/ last = "Colon"
                                  \/ last \in {"OpenBracket", "Comma"} /\ type = "OpenBracket"
        /\ expecting = "nothing" => J!IsValueEnd(text, n)
    BY <2>1, Zenon DEF Expects
  <2>10. /\ expecting = "identifier" <=> last \in {"OpenCurlyBracket", "Comma"} /\ type = "OpenCurlyBracket"
         /\ expecting = "colon" <=> J!IsKey(text, n)
         /\ expecting = "value" <=> \/ last = "Colon"
                                    \/ last \in {"OpenBracket", "Comma"} /\ type = "OpenBracket"
         /\ expecting = "nothing" <=> J!IsValueEnd(text, n)
    <3> HIDE DEF last, type
    <3> QED
      BY ONLY <2>8, <2>9 DEF J!Closing
  <2>11. Accepted(longer, n + 1) <=>
           CASE token.type = "Colon" -> J!IsKey(text, n)
             [] token.type = "Comma" -> J!IsValueEnd(text, n)
             [] token.type = "CloseCurlyBracket" ->
                   J!IsValueEnd(text, n) /\ type = "OpenCurlyBracket"
             [] token.type = "CloseBracket" -> J!IsValueEnd(text, n) /\ type = "OpenBracket"
             [] OTHER -> \/ last = "Colon" \/ J!IsKey(longer, n + 1)
                         \/ type = "OpenBracket" /\ last \in {"OpenBracket", "Comma"}
    <3>1. /\ J!IsKey(longer, n) <=> J!IsKey(text, n)
          /\ J!IsValueEnd(longer, n) <=> J!IsValueEnd(text, n)
      BY <2>2, <2>5
    <3> HIDE DEF longer, n, type
    <3> QED
      BY ONLY <1>2, <2>2, <2>4, <2>6, <3>1 DEF Accepted
  <2>12. Accepted(longer, n + 1) <=> Takes(token, open, expecting)
    <3>1. type \in {"OpenCurlyBracket", "OpenBracket"}
      BY <2>1 DEF J!Opening
    <3>2. \/ /\ token \notin Leaves
             /\ token.type \in J!Opening \union J!Closing \union {"Colon", "Comma"}
          \/ token \in Leaves /\ token.type \in {"null", "boolean", "number", "string"}
      BY TokenIs
    <3>3. Takes(token, open, expecting) <=>
             /\ token.type \in J!Opening \/ token \in Leaves =>
                    \/ expecting = "value"
                    \/ token.type = "string" /\ expecting = "identifier"
             /\ token.type = "Colon" => expecting = "colon"
             /\ token.type \in J!Closing \union {"Comma"} => expecting = "nothing"
             /\ token.type = "CloseCurlyBracket" => type # "OpenBracket"
             /\ token.type = "CloseBracket" => type = "OpenBracket"
      BY <2>1, Zenon DEF Takes
    <3> HIDE DEF type, last, longer, n
    <3> QED
      BY ONLY <2>7, <2>10, <2>11, <3>1, <3>2, <3>3 DEF J!Opening, J!Closing
  <2> QED
    BY <2>1, <2>5, <2>12
<1> QED
  BY <1>3, <1>4

\* What is around the next token, and whether it is a key.
LEMMA NextIs ==
    ASSUME NEW text, NEW open, NEW expecting, ReadingText(text, open, expecting), text # <<>>,
           NEW token \in J!Tokens
    PROVE  /\ Expects(text, open[Len(open)], expecting)
           /\ J!IsKey(Append(text, token), Len(text) + 1) <=>
                 /\ token.type = "string" /\ open[Len(open)] = "OpenCurlyBracket"
                 /\ text[Len(text)].type \in {"OpenCurlyBracket", "Comma"}
<1> DEFINE longer == Append(text, token)
           n == Len(text)
           type == open[Len(open)]
<1>1. text \in Seq(J!Tokens) /\ open \in Seq(J!Opening) /\ n \in Nat
  BY DEF ReadingText
<1>2. longer[n + 1] = token /\ n >= 1 /\ n \in 1 .. n /\ n + 1 - 1 = n /\ longer[n] = text[n]
  BY <1>1
<1>3. /\ open # <<>> /\ NeverAtTop(text)
      /\ \A depth \in 1 .. Len(open) : Opens(text, depth, open[depth])
      /\ Expects(text, type, expecting)
      /\ J!DepthAt(text, n) = Len(open)
  BY Zenon DEF ReadingText
<1>4. Len(open) \in 1 .. Len(open) /\ type \in J!Opening
  BY <1>1, <1>3
<1>5. J!Around(text, n + 1) = type
  BY <1>1, <1>2, <1>3, <1>4, AroundIs
<1>6. J!Around(longer, n + 1) = type
  BY <1>1, <1>2, <1>3, <1>5, PrefixAround
<1> HIDE DEF longer, n, type
<1>7. J!IsKey(longer, n + 1) <=> /\ token.type = "string" /\ type = "OpenCurlyBracket"
                                 /\ text[n].type \in {"OpenCurlyBracket", "Comma"}
  BY <1>2, <1>6 DEF J!IsKey
<1> QED
  BY <1>3, <1>7 DEF longer, n, type

\* A token that the reader takes leads to another such text.
LEMMA TextStep ==
    ASSUME NEW text, NEW open, NEW expecting, ReadingText(text, open, expecting),
           NEW token \in J!Tokens, Takes(token, open, expecting),
           NEW after \in Seq(J!Opening), after # <<>>, NEW next,
           J!DepthAt(Append(text, token), Len(text) + 1) = Len(after),
           after[1] = "OpenCurlyBracket",
           \A depth \in 1 .. Len(after) :
              \/ depth \in 1 .. Len(open) /\ after[depth] = open[depth]
              \/ depth = Len(after) /\ after[depth] = token.type,
           Expects(Append(text, token), after[Len(after)], next)
    PROVE  ReadingText(Append(text, token), after, next)
<1> DEFINE longer == Append(text, token)
           n == Len(text)
<1>1. text \in Seq(J!Tokens) /\ open \in Seq(J!Opening) /\ n \in Nat
  BY DEF ReadingText
<1>2. /\ longer \in Seq(J!Tokens) /\ Len(longer) = n + 1 /\ longer[n + 1] = token /\ longer # <<>>
      /\ \A k \in 1 .. n : longer[k] = text[k] /\ k \in 0 .. n
  BY <1>1
<1>3. \A k \in 1 .. n + 1 : Accepted(longer, k)
  <2>1. \A k \in 1 .. n + 1 : k = n + 1 \/ k \in 1 .. n
    BY <1>1
  <2>2. /\ \A k \in 1 .. n : Accepted(longer, k)
        /\ Accepted(longer, n + 1)
    BY TakesLegal
  <2> QED
    BY <2>1, <2>2, Zenon
<1>4. \A k \in 0 .. n : J!DepthAt(longer, k) = J!DepthAt(text, k)
  BY <1>1, PrefixDepth
<1>5. longer[1].type = "OpenCurlyBracket"
  <2>1. CASE text = <<>>
    <3>1. open = <<>> /\ n + 1 = 1
      BY <2>1 DEF ReadingText
    <3> QED
      BY <1>2, <3>1 DEF Takes
  <2>2. CASE text # <<>>
    <3>1. text[1].type = "OpenCurlyBracket" /\ 1 \in 1 .. n
      BY <1>1, <2>2 DEF ReadingText
    <3> QED
      BY <1>2, <3>1
  <2> QED
    BY <2>1, <2>2
<1> HIDE DEF longer
<1>6. ASSUME NEW depth \in 1 .. Len(after)
      PROVE  Opens(longer, depth, after[depth])
  <2>1. CASE depth \in 1 .. Len(open) /\ after[depth] = open[depth]
    <3>1. text # <<>>
      BY <2>1 DEF ReadingText
    <3>2. Opens(text, depth, open[depth])
      BY <2>1, <3>1 DEF ReadingText
    <3>3. PICK k \in 1 .. n : /\ text[k].type = open[depth] /\ J!DepthAt(text, k) = depth
                              /\ \A m \in k .. n : J!DepthAt(text, m) >= depth
      BY <3>2 DEF Opens
    <3>4. /\ k \in 1 .. Len(longer) /\ longer[k].type = after[depth]
          /\ J!DepthAt(longer, k) = depth
      BY <1>1, <1>2, <1>4, <2>1, <3>3
    <3>5. ASSUME NEW m \in k .. Len(longer)
          PROVE  J!DepthAt(longer, m) >= depth
      <4>1. CASE m = n + 1
        BY <1>2, <4>1 DEF longer
      <4>2. CASE m # n + 1
        <5>1. m \in k .. n /\ m \in 0 .. n
          BY <1>1, <1>2, <4>2
        <5> QED
          BY <1>4, <3>3, <5>1
      <4> QED
        BY <4>1, <4>2
    <3> QED
      BY <3>4, <3>5 DEF Opens
  <2>2. CASE depth = Len(after) /\ after[depth] = token.type
    <3>1. n + 1 \in 1 .. Len(longer) /\ longer[n + 1].type = after[depth]
      BY <1>1, <1>2, <2>2
    <3>2. J!DepthAt(longer, n + 1) = depth
      BY <2>2 DEF longer
    <3>3. \A m \in n + 1 .. Len(longer) : m = n + 1
      BY <1>1, <1>2
    <3>4. \A m \in n + 1 .. Len(longer) : J!DepthAt(longer, m) >= depth
      BY <3>2, <3>3
    <3> QED
      BY <3>1, <3>2, <3>4 DEF Opens
  <2> QED
    BY <2>1, <2>2
<1>7. NeverAtTop(longer)
  <2>1. SUFFICES ASSUME NEW m \in 1 .. Len(longer)
                 PROVE  \E k \in 1 .. m : longer[k].type \in J!Opening
                                         /\ J!DepthAt(longer, k) = J!DepthAt(longer, m)
    BY DEF NeverAtTop
  <2>2. CASE m = n + 1
    <3>1. Len(after) \in 1 .. Len(after)
      OBVIOUS
    <3>2. Opens(longer, Len(after), after[Len(after)]) /\ after[Len(after)] \in J!Opening
      BY <1>6, <3>1
    <3>3. PICK k \in 1 .. Len(longer) :
             longer[k].type = after[Len(after)] /\ J!DepthAt(longer, k) = Len(after)
      BY <3>2 DEF Opens
    <3> QED
      BY <1>2, <2>2, <3>2, <3>3 DEF longer
  <2>3. CASE m # n + 1
    <3>1. m \in 1 .. n
      BY <1>1, <1>2, <2>3
    <3>2. text # <<>>
      BY <3>1
    <3>3. NeverAtTop(text)
      BY <3>2, Zenon DEF ReadingText
    <3>4. PICK k \in 1 .. m : text[k].type \in J!Opening /\ J!DepthAt(text, k) = J!DepthAt(text, m)
      BY <3>1, <3>3 DEF NeverAtTop
    <3>5. k \in 1 .. n /\ k \in 0 .. n /\ m \in 0 .. n
      BY <1>1, <3>1
    <3> QED
      BY <1>2, <1>4, <3>4, <3>5
  <2> QED
    BY <2>2, <2>3
<1>8. J!DepthAt(longer, Len(longer)) = Len(after) /\ Expects(longer, after[Len(after)], next)
  BY <1>2 DEF longer
<1>9. \A k \in 1 .. Len(longer) : Accepted(longer, k)
  BY <1>2, <1>3
<1>10. ReadingText(longer, after, next)
  BY <1>2, <1>5, <1>6, <1>7, <1>8, <1>9, Zenon DEF ReadingText
<1> QED
  BY <1>10 DEF longer

\* How deep the text is after the next token.
LEMMA NextDepth ==
    ASSUME NEW text, NEW open, NEW expecting, ReadingText(text, open, expecting),
           NEW token \in J!Tokens
    PROVE  /\ Len(open) \in Nat
           /\ J!DepthAt(Append(text, token), Len(text) + 1) = Len(open)
                 + (IF token.type \in J!Opening THEN 1 ELSE 0)
                 - (IF token.type \in J!Closing THEN 1 ELSE 0)
<1> DEFINE longer == Append(text, token)
           n == Len(text)
<1>1. /\ text \in Seq(J!Tokens) /\ open \in Seq(J!Opening) /\ n \in Nat /\ n \in 0 .. n
      /\ J!DepthAt(text, n) = Len(open) /\ Len(open) \in Nat
  BY DEF ReadingText
<1>2. longer[n + 1] = token
  BY <1>1
<1>3. J!DepthAt(longer, n) = Len(open)
  BY <1>1, PrefixDepth
<1> HIDE DEF longer, n
<1>4. J!DepthAt(longer, n + 1) = J!DepthAt(longer, n)
                 + (IF longer[n + 1].type \in J!Opening THEN 1 ELSE 0)
                 - (IF longer[n + 1].type \in J!Closing THEN 1 ELSE 0)
  BY <1>1, DepthIs
<1>5. J!DepthAt(longer, n + 1) = Len(open)
                 + (IF token.type \in J!Opening THEN 1 ELSE 0)
                 - (IF token.type \in J!Closing THEN 1 ELSE 0)
  BY <1>2, <1>3, <1>4
<1> QED
  BY <1>1, <1>5 DEF longer, n

\* A bracket opens a scope.
LEMMA OpenText ==
    ASSUME NEW text, NEW open, NEW expecting, ReadingText(text, open, expecting),
           NEW token \in J!Tokens, Takes(token, open, expecting), token.type \in J!Opening
    PROVE  ReadingText(Append(text, token), Append(open, token.type),
                       IF token.type = "OpenCurlyBracket" THEN "identifier" ELSE "value")
<1> DEFINE longer == Append(text, token)
           after == Append(open, token.type)
           next == IF token.type = "OpenCurlyBracket" THEN "identifier" ELSE "value"
<1>1. text \in Seq(J!Tokens) /\ open \in Seq(J!Opening) /\ Len(text) \in Nat /\ Len(open) \in Nat
  BY DEF ReadingText
<1>2. /\ Len(longer) = Len(text) + 1 /\ longer[Len(text) + 1] = token
      /\ after \in Seq(J!Opening) /\ after # <<>> /\ Len(after) = Len(open) + 1
      /\ after[Len(after)] = token.type
      /\ \A depth \in 1 .. Len(open) : after[depth] = open[depth]
  BY <1>1
<1>3. J!DepthAt(longer, Len(text) + 1) = Len(after)
  <2>1. token.type \notin J!Closing
    BY DEF J!Opening, J!Closing
  <2>2. /\ Len(open) \in Nat
        /\ J!DepthAt(Append(text, token), Len(text) + 1) = Len(open)
              + (IF token.type \in J!Opening THEN 1 ELSE 0)
              - (IF token.type \in J!Closing THEN 1 ELSE 0)
    BY NextDepth, Zenon
  <2> HIDE DEF longer, after
  <2> QED
    BY ONLY <1>2, <2>1, <2>2 DEF longer
<1>4. after[1] = "OpenCurlyBracket"
  <2>1. CASE open = <<>>
    BY <1>2, <2>1 DEF Takes
  <2>2. CASE open # <<>>
    <3>1. open[1] = "OpenCurlyBracket" /\ 1 \in 1 .. Len(open)
      BY <1>1, <2>2 DEF ReadingText
    <3> QED
      BY <1>2, <3>1
  <2> QED
    BY <2>1, <2>2
<1>5. \A depth \in 1 .. Len(after) :
         \/ depth \in 1 .. Len(open) /\ after[depth] = open[depth]
         \/ depth = Len(after) /\ after[depth] = token.type
  BY <1>1, <1>2
<1> HIDE DEF longer, after
<1>6. Expects(longer, after[Len(after)], next)
  BY <1>2 DEF Expects, J!Opening
<1> QED
  BY <1>2, <1>3, <1>4, <1>5, <1>6, TextStep DEF longer, after

\* A bracket closes a scope that is in another.
LEMMA CloseText ==
    ASSUME NEW text, NEW open, NEW expecting, ReadingText(text, open, expecting),
           NEW token \in J!Tokens, Takes(token, open, expecting), token.type \in J!Closing,
           Len(open) > 1
    PROVE  ReadingText(Append(text, token), J!S!Front(open), "nothing")
<1> DEFINE longer == Append(text, token)
           after == J!S!Front(open)
<1>1. text \in Seq(J!Tokens) /\ open \in Seq(J!Opening) /\ Len(text) \in Nat /\ Len(open) \in Nat
  BY DEF ReadingText
<1>2. /\ Len(longer) = Len(text) + 1 /\ longer[Len(text) + 1] = token
      /\ after \in Seq(J!Opening) /\ after # <<>> /\ Len(after) = Len(open) - 1
      /\ \A depth \in 1 .. Len(after) : depth \in 1 .. Len(open) /\ after[depth] = open[depth]
  <2>1. Len(longer) = Len(text) + 1 /\ longer[Len(text) + 1] = token
    BY <1>1
  <2>2. after = SubSeq(open, 1, Len(open) - 1)
    BY DEF J!S!Front
  <2> HIDE DEF longer, after
  <2>3. after \in Seq(J!Opening) /\ Len(after) = Len(open) - 1
    BY <1>1, <2>2
  <2>4. \A depth \in 1 .. Len(after) : depth \in 1 .. Len(open) /\ after[depth] = open[depth]
    BY <1>1, <2>2, <2>3
  <2>5. after # <<>>
    BY <1>1, <2>3
  <2> QED
    BY <2>1, <2>3, <2>4, <2>5
<1>3. J!DepthAt(longer, Len(text) + 1) = Len(after)
  <2>1. token.type \notin J!Opening /\ token.type \in J!Closing
    BY DEF J!Opening, J!Closing
  <2>2. /\ Len(open) \in Nat
        /\ J!DepthAt(Append(text, token), Len(text) + 1) = Len(open)
              + (IF token.type \in J!Opening THEN 1 ELSE 0)
              - (IF token.type \in J!Closing THEN 1 ELSE 0)
    BY NextDepth, Zenon
  <2> HIDE DEF longer, after
  <2> QED
    BY ONLY <1>2, <2>1, <2>2 DEF longer
<1>4. after[1] = "OpenCurlyBracket"
  <2>1. open[1] = "OpenCurlyBracket" /\ 1 \in 1 .. Len(after)
    BY <1>1, <1>2 DEF ReadingText
  <2> QED
    BY <1>2, <2>1
<1> HIDE DEF longer, after
<1>5. Expects(longer, after[Len(after)], "nothing")
  BY <1>2 DEF Expects, J!IsValueEnd
<1> QED
  BY <1>2, <1>3, <1>4, <1>5, TextStep DEF longer, after

\* Any other token leaves the scopes.
LEMMA PlainText ==
    ASSUME NEW text, NEW open, NEW expecting, ReadingText(text, open, expecting),
           NEW token \in J!Tokens, Takes(token, open, expecting),
           token.type \notin J!Opening \union J!Closing,
           NEW next, Expects(Append(text, token), open[Len(open)], next)
    PROVE  ReadingText(Append(text, token), open, next)
<1>1. open \in Seq(J!Opening) /\ Len(open) \in Nat
  BY DEF ReadingText
<1>2. open # <<>>
  BY DEF Takes, J!Opening
<1>3. open[1] = "OpenCurlyBracket"
  BY <1>2 DEF ReadingText
<1>4. J!DepthAt(Append(text, token), Len(text) + 1) = Len(open)
  <2>1. /\ Len(open) \in Nat
        /\ J!DepthAt(Append(text, token), Len(text) + 1) = Len(open)
              + (IF token.type \in J!Opening THEN 1 ELSE 0)
              - (IF token.type \in J!Closing THEN 1 ELSE 0)
    BY NextDepth, Zenon
  <2>2. token.type \notin J!Opening /\ token.type \notin J!Closing
    OBVIOUS
  <2> QED
    BY ONLY <2>1, <2>2
<1> QED
  BY <1>1, <1>2, <1>3, <1>4, TextStep

\* A colon, a comma, a key and a value make the reader expect what they do.
LEMMA PlainExpects ==
    ASSUME NEW text, NEW open, NEW expecting, ReadingText(text, open, expecting),
           NEW token \in J!Tokens, Takes(token, open, expecting),
           NEW next,
           \/ token.type = "Colon" /\ next = "value"
           \/ /\ token.type = "Comma"
              /\ next = IF open[Len(open)] = "OpenBracket" THEN "value" ELSE "identifier"
           \/ token.type = "string" /\ expecting = "identifier" /\ next = "colon"
           \/ token \in Leaves /\ expecting = "value" /\ next = "nothing"
    PROVE  ReadingText(Append(text, token), open, next)
<1> DEFINE longer == Append(text, token)
           n == Len(text)
           type == open[Len(open)]
<1>1. text \in Seq(J!Tokens) /\ n \in Nat /\ open \in Seq(J!Opening)
  BY DEF ReadingText
<1>2. longer[n + 1] = token /\ Len(longer) = n + 1
  BY <1>1
<1>3. token.type \notin J!Opening \union J!Closing
  BY TokenIs DEF J!Opening, J!Closing
<1>4. open # <<>> /\ text # <<>>
  BY <1>3 DEF Takes, ReadingText, J!Opening
<1>5. type \in {"OpenCurlyBracket", "OpenBracket"}
  <2>1. Len(open) \in 1 .. Len(open)
    BY <1>1, <1>4
  <2> QED
    BY <1>1, <2>1 DEF J!Opening
<1>6. /\ Expects(text, type, expecting)
      /\ J!IsKey(longer, n + 1) <=> /\ token.type = "string" /\ type = "OpenCurlyBracket"
                                    /\ text[n].type \in {"OpenCurlyBracket", "Comma"}
  BY <1>4, NextIs
<1> HIDE DEF longer, type, n
<1>7. Expects(longer, type, next)
  <2>1. CASE token.type = "Colon" /\ next = "value"
    BY <1>2, <2>1 DEF Expects
  <2>2. CASE token.type = "Comma" /\ next = IF type = "OpenBracket" THEN "value" ELSE "identifier"
    BY <1>2, <1>5, <2>2 DEF Expects
  <2>3. CASE token.type = "string" /\ expecting = "identifier" /\ next = "colon"
    BY <1>2, <1>6, <2>3 DEF Expects, n
  <2>4. CASE token \in Leaves /\ expecting = "value" /\ next = "nothing"
    <3>1. ~J!IsKey(longer, n + 1)
      BY <1>6, <2>4 DEF Expects, n
    <3> QED
      BY <1>2, <2>4, <3>1 DEF Expects, J!IsValueEnd
  <2> QED
    BY <2>1, <2>2, <2>3, <2>4 DEF type
<1> QED
  BY <1>3, <1>7, PlainText DEF longer, type

-----------------------------------------------------------------------------
(* The members of JSON's objects                                            *)

\* A list of members with names.
IsMember(m) ==
    /\ m = [identifier |-> m.identifier, type |-> m.type, value |-> m.value]
    /\ m.identifier \in J!Names

Named(members) == \E Members : members \in Seq(Members) /\ \A m \in Members : IsMember(m)

\* What is behind a member is not before it by name.
InNameOrder(members) ==
    /\ Named(members)
    /\ \A n, k \in DOMAIN members :
          n <= k => Rank[members[n].identifier] <= Rank[members[k].identifier]

\* A scope of the reader.
IsScope(s) ==
    /\ s = [type |-> s.type, identifier |-> s.identifier, members |-> s.members]
    /\ s.type \in J!Opening
    /\ s.type = "OpenCurlyBracket" => Named(s.members)

IsStack(stack) == \E Scopes : stack \in Seq(Scopes) /\ \A s \in Scopes : IsScope(s)

TypesOf(stack) == [depth \in 1 .. Len(stack) |-> stack[depth].type]

\* Where a name is due the reader has one.
ReadingNames(stack, expecting, identifier) ==
    /\ IsStack(stack)
    /\ \A depth \in 2 .. Len(stack) :
          stack[depth - 1].type = "OpenCurlyBracket" => stack[depth].identifier \in J!Names
    /\ expecting = "colon" => identifier \in J!Names
    /\ expecting = "value" /\ stack # <<>> /\ stack[Len(stack)].type = "OpenCurlyBracket" =>
          identifier \in J!Names

\* A list with a member more.
LEMMA NamedAppend ==
    ASSUME NEW members, Named(members), NEW m, IsMember(m)
    PROVE  /\ Named(Append(members, m))
           /\ \A n \in DOMAIN Append(members, m) : IsMember(Append(members, m)[n])
<1>1. PICK Members : members \in Seq(Members) /\ \A k \in Members : IsMember(k)
  BY DEF Named
<1>2. Append(members, m) \in Seq(Members \union {m})
  BY <1>1
<1>3. \A k \in Members \union {m} : IsMember(k)
  BY <1>1
<1>4. Named(Append(members, m))
  BY <1>2, <1>3 DEF Named
<1> QED
  BY <1>2, <1>3, <1>4

LEMMA NamedNone == Named(<<>>)
<1> DEFINE Members == {}
<1>1. <<>> \in Seq(Members) /\ \A m \in Members : IsMember(m)
  OBVIOUS
<1> HIDE DEF Members
<1> QED
  BY <1>1, Zenon DEF Named

\* The types of a stack of scopes.
LEMMA TypesAre ==
    ASSUME NEW stack, IsStack(stack)
    PROVE  /\ TypesOf(stack) \in Seq(J!Opening) /\ Len(TypesOf(stack)) = Len(stack)
           /\ Len(stack) \in Nat /\ DOMAIN stack = 1 .. Len(stack)
           /\ stack # <<>> <=> Len(stack) > 0
           /\ TypesOf(stack) = <<>> <=> stack = <<>>
           /\ \A depth \in 1 .. Len(stack) :
                 IsScope(stack[depth]) /\ TypesOf(stack)[depth] = stack[depth].type
<1>1. PICK Scopes : stack \in Seq(Scopes) /\ \A s \in Scopes : IsScope(s)
  BY DEF IsStack
<1>2. \A depth \in 1 .. Len(stack) : IsScope(stack[depth])
  BY <1>1
<1>3. \A depth \in 1 .. Len(stack) : stack[depth].type \in J!Opening
  BY <1>2 DEF IsScope
<1>4. Len(stack) \in Nat /\ DOMAIN stack = 1 .. Len(stack) /\ (stack # <<>> <=> Len(stack) > 0)
  BY <1>1
<1> DEFINE l == Len(stack)
<1>5. TypesOf(stack) \in [1 .. l -> J!Opening]
  BY <1>3 DEF TypesOf
<1>6. TypesOf(stack) \in Seq(J!Opening) /\ Len(TypesOf(stack)) = Len(stack)
  <2> HIDE DEF l
  <2>1. l \in Nat
    BY <1>4 DEF l
  <2>2. TypesOf(stack) \in Seq(J!Opening) /\ Len(TypesOf(stack)) = l
    BY <1>5, <2>1
  <2> QED
    BY <2>2 DEF l
<1>7. \A depth \in 1 .. Len(stack) : TypesOf(stack)[depth] = stack[depth].type
  BY DEF TypesOf
<1>8. TypesOf(stack) = <<>> <=> stack = <<>>
  BY <1>4, <1>6
<1> QED
  BY <1>2, <1>4, <1>6, <1>7, <1>8

\* A stack with a scope more.
LEMMA StackAppend ==
    ASSUME NEW stack, IsStack(stack), NEW s, IsScope(s)
    PROVE  /\ IsStack(Append(stack, s)) /\ Len(Append(stack, s)) = Len(stack) + 1
           /\ TypesOf(Append(stack, s)) = Append(TypesOf(stack), s.type)
           /\ Append(stack, s)[Len(stack) + 1] = s
           /\ \A depth \in 1 .. Len(stack) : Append(stack, s)[depth] = stack[depth]
<1> DEFINE taller == Append(stack, s)
           l == Len(stack)
<1>1. PICK Scopes : stack \in Seq(Scopes) /\ \A r \in Scopes : IsScope(r)
  BY DEF IsStack
<1>2. taller \in Seq(Scopes \union {s}) /\ \A r \in Scopes \union {s} : IsScope(r)
  BY <1>1
<1>3. IsStack(taller)
  BY <1>2, Zenon DEF IsStack
<1>4. /\ l \in Nat /\ Len(taller) = l + 1 /\ taller[l + 1] = s
      /\ \A depth \in 1 .. l : taller[depth] = stack[depth]
  BY <1>1
<1>5. /\ TypesOf(stack) \in Seq(J!Opening) /\ Len(TypesOf(stack)) = l
      /\ \A depth \in 1 .. l : TypesOf(stack)[depth] = stack[depth].type
  BY TypesAre
<1>6. /\ TypesOf(taller) \in Seq(J!Opening) /\ Len(TypesOf(taller)) = Len(taller)
      /\ \A depth \in 1 .. Len(taller) : TypesOf(taller)[depth] = taller[depth].type
  BY <1>3, TypesAre
<1>7. s.type \in J!Opening
  BY DEF IsScope
<1> HIDE DEF taller, l
<1>8. TypesOf(taller) = Append(TypesOf(stack), s.type)
  <2> DEFINE types == TypesOf(stack)
             more == Append(types, s.type)
  <2>1. /\ more \in Seq(J!Opening) /\ Len(more) = l + 1 /\ more[l + 1] = s.type
        /\ \A depth \in 1 .. l : more[depth] = types[depth]
    <3> HIDE DEF types
    <3> QED
      BY <1>5, <1>7 DEF types
  <2> HIDE DEF more
  <2>2. \A depth \in 1 .. l + 1 : depth = l + 1 \/ depth \in 1 .. l
    BY <1>4
  <2>3. \A depth \in 1 .. l + 1 : more[depth] = TypesOf(taller)[depth]
    BY <1>4, <1>5, <1>6, <2>1, <2>2
  <2>4. Len(more) = Len(TypesOf(taller))
    BY <1>4, <1>6, <2>1
  <2>5. more = TypesOf(taller)
    BY <1>6, <2>1, <2>3, <2>4
  <2> QED
    BY <2>5 DEF more
<1> QED
  BY <1>3, <1>4, <1>8 DEF taller, l

\* A stack without its last scope.
LEMMA StackFront ==
    ASSUME NEW stack, IsStack(stack), stack # <<>>
    PROVE  /\ IsStack(J!S!Front(stack)) /\ Len(J!S!Front(stack)) = Len(stack) - 1
           /\ TypesOf(J!S!Front(stack)) = J!S!Front(TypesOf(stack))
           /\ \A depth \in 1 .. Len(stack) - 1 : J!S!Front(stack)[depth] = stack[depth]
<1> DEFINE lower == J!S!Front(stack)
           l == Len(stack) - 1
<1>1. PICK Scopes : stack \in Seq(Scopes) /\ \A r \in Scopes : IsScope(r)
  BY DEF IsStack
<1>2. lower = SubSeq(stack, 1, l) /\ l \in Nat
  BY <1>1 DEF J!S!Front
<1> HIDE DEF lower
<1>3. lower \in Seq(Scopes) /\ Len(lower) = l
  <2>1. stack \in Seq(Scopes) /\ l <= Len(stack) /\ 1 \in Nat /\ 1 <= l + 1 /\ l - 1 + 1 = l
    BY <1>1, <1>2
  <2> HIDE DEF l
  <2>2. SubSeq(stack, 1, l) \in Seq(Scopes) /\ Len(SubSeq(stack, 1, l)) = l - 1 + 1
    BY <1>2, <2>1, Part
  <2> QED
    BY <1>2, <2>1, <2>2
<1>4. \A depth \in 1 .. l : lower[depth] = stack[depth]
  BY <1>1, <1>2
<1>5. IsStack(lower)
  BY <1>1, <1>3, Zenon DEF IsStack
<1>6. /\ TypesOf(stack) \in Seq(J!Opening) /\ Len(TypesOf(stack)) = l + 1
      /\ \A depth \in 1 .. l + 1 : TypesOf(stack)[depth] = stack[depth].type
  <2>1. Len(stack) = l + 1
    BY <1>1
  <2> HIDE DEF l
  <2> QED
    BY <2>1, TypesAre
<1>7. /\ TypesOf(lower) \in Seq(J!Opening) /\ Len(TypesOf(lower)) = l
      /\ \A depth \in 1 .. l : TypesOf(lower)[depth] = lower[depth].type
  BY <1>3, <1>5, TypesAre
<1> HIDE DEF l
<1>8. TypesOf(lower) = J!S!Front(TypesOf(stack))
  <2> DEFINE types == TypesOf(stack)
             less == J!S!Front(types)
  <2>1. less = SubSeq(types, 1, l)
    <3>1. less = SubSeq(types, 1, Len(types) - 1)
      BY Zenon DEF J!S!Front
    <3>2. Len(types) - 1 = l
      BY <1>2, <1>6
    <3> QED
      BY <3>1, <3>2
  <2> HIDE DEF less, types
  <2>2. less \in Seq(J!Opening) /\ Len(less) = l /\ \A depth \in 1 .. l : less[depth] = types[depth]
    BY <1>2, <1>6, <2>1 DEF types
  <2>3. \A depth \in 1 .. l : less[depth] = TypesOf(lower)[depth]
    BY <1>2, <1>4, <1>6, <1>7, <2>2 DEF types
  <2>4. less = TypesOf(lower)
    BY <1>7, <2>2, <2>3
  <2> QED
    BY <2>4 DEF less, types
<1>9. Len(stack) - 1 = l
  BY DEF l
<1> QED
  BY <1>3, <1>4, <1>5, <1>8, <1>9 DEF lower

\* A member joins the last scope, with a name where it needs one.
LEMMA WithMemberIs ==
    ASSUME NEW stack, IsStack(stack), stack # <<>>, NEW identifier, NEW type, NEW value,
           stack[Len(stack)].type = "OpenCurlyBracket" => identifier \in J!Names
    PROVE  LET after == J!WithMember(stack, identifier, type, value) IN
           /\ IsStack(after) /\ Len(after) = Len(stack) /\ after # <<>>
           /\ TypesOf(after) = TypesOf(stack)
           /\ \A depth \in 1 .. Len(stack) : /\ after[depth].type = stack[depth].type
                                             /\ after[depth].identifier = stack[depth].identifier
<1> DEFINE after == J!WithMember(stack, identifier, type, value)
           l == Len(stack)
           top == stack[l]
           m == [identifier |-> IF top.type = "OpenBracket" THEN NULL ELSE identifier,
                 type |-> type, value |-> value]
           new == [type |-> top.type, identifier |-> top.identifier,
                   members |-> Append(top.members, m)]
<1>1. PICK Scopes : stack \in Seq(Scopes) /\ \A r \in Scopes : IsScope(r)
  BY DEF IsStack
<1>2. l \in Nat /\ l \in 1 .. l /\ IsScope(top)
  BY <1>1
<1>3. after = [stack EXCEPT ![l] = new]
  <2>1. after = [stack EXCEPT ![l].members = Append(@, m)]
    BY Zenon DEF J!WithMember
  <2>2. top = [type |-> top.type, identifier |-> top.identifier, members |-> top.members]
    BY <1>2, Zenon DEF IsScope
  <2> DEFINE members == Append(top.members, m)
  <2>3. after = [stack EXCEPT ![l] = [top EXCEPT !.members = members]]
    <3> HIDE DEF m
    <3> QED
      BY <2>1
  <2>4. [top EXCEPT !.members = members] = new
    <3> HIDE DEF top, members
    <3> QED
      BY <2>2 DEF members
  <2> QED
    BY <2>3, <2>4
<1>4. IsScope(new)
  <2>1. top.type \in J!Opening /\ (top.type = "OpenCurlyBracket" => Named(top.members))
    BY <1>2, Zenon DEF IsScope
  <2>2. new.type = top.type /\ new.members = Append(top.members, m)
        /\ new = [type |-> new.type, identifier |-> new.identifier, members |-> new.members]
    <3> HIDE DEF top, m
    <3> QED
      OBVIOUS
  <2>3. ASSUME top.type = "OpenCurlyBracket"
        PROVE  Named(Append(top.members, m))
    <3>1. m = [identifier |-> identifier, type |-> type, value |-> value]
      <4> HIDE DEF top
      <4> QED
        BY <2>3
    <3>2. identifier \in J!Names
      BY <2>3
    <3> HIDE DEF top, m
    <3>3. IsMember(m)
      BY <3>1, <3>2 DEF IsMember
    <3> QED
      BY <2>1, <2>3, <3>3, NamedAppend
  <2> HIDE DEF new, top, m
  <2> QED
    BY <2>1, <2>2, <2>3, Zenon DEF IsScope
<1>5. new.type = top.type /\ new.identifier = top.identifier
  <2> HIDE DEF top, m
  <2> QED
    OBVIOUS
<1> HIDE DEF new, after
<1>6. /\ after \in Seq(Scopes \union {new}) /\ Len(after) = l /\ after # <<>>
      /\ after[l] = new /\ \A depth \in 1 .. l : depth # l => after[depth] = stack[depth]
  <2> HIDE DEF l, top
  <2>1. stack \in Seq(Scopes \union {new}) /\ l = Len(stack) /\ new \in Scopes \union {new}
    BY <1>1 DEF l
  <2> QED
    BY <1>2, <1>3, <2>1
<1>7. IsStack(after)
  <2>1. \A r \in Scopes \union {new} : IsScope(r)
    BY <1>1, <1>4
  <2> QED
    BY <1>6, <2>1, Zenon DEF IsStack
<1>8. \A depth \in 1 .. l : /\ after[depth].type = stack[depth].type
                            /\ after[depth].identifier = stack[depth].identifier
  BY <1>5, <1>6
<1>9. TypesOf(after) = TypesOf(stack)
  BY <1>6, <1>8 DEF TypesOf
<1> QED
  BY <1>6, <1>7, <1>8, <1>9 DEF after

\* A list that is named has members with names only.
LEMMA NamedIs ==
    ASSUME NEW members, Named(members)
    PROVE  /\ Len(members) \in Nat /\ DOMAIN members = 1 .. Len(members)
           /\ \A n \in 1 .. Len(members) : IsMember(members[n])
           /\ members \in Seq({ members[n] : n \in 1 .. Len(members) })
<1>1. PICK Members : members \in Seq(Members) /\ \A m \in Members : IsMember(m)
  BY DEF Named
<1>2. Len(members) \in Nat /\ members \in [1 .. Len(members) -> Members]
  BY <1>1
<1>3. members \in [1 .. Len(members) -> { members[n] : n \in 1 .. Len(members) }]
  BY <1>2
<1> DEFINE l == Len(members)
           Items == { members[n] : n \in 1 .. l }
<1>4. members \in Seq(Items)
  <2>1. l \in Nat /\ members \in [1 .. l -> Items]
    BY <1>2, <1>3
  <2> HIDE DEF l, Items
  <2> QED
    BY <2>1
<1> QED
  BY <1>1, <1>2, <1>4

\* A function from the numbers to a length to members is a list that is named.
LEMMA ListNamed ==
    ASSUME NEW l \in Nat, NEW members, DOMAIN members = 1 .. l,
           members = [n \in 1 .. l |-> members[n]],
           \A n \in 1 .. l : IsMember(members[n])
    PROVE  Named(members) /\ Len(members) = l
<1> DEFINE Members == { members[n] : n \in 1 .. l }
<1>1. members \in [1 .. l -> Members]
  OBVIOUS
<1>2. \A m \in Members : IsMember(m)
  OBVIOUS
<1> HIDE DEF Members
<1>3. members \in Seq(Members) /\ Len(members) = l
  BY ONLY <1>1, l \in Nat
<1> QED
  BY <1>2, <1>3, Zenon DEF Named

\* A sort leaves a list that is named, in the order of the names.
LEMMA OrdersAre ==
    ASSUME NEW members, Named(members), NEW sorted \in J!Orders(members)
    PROVE  InNameOrder(sorted)
<1> DEFINE l == Len(members)
<1>1. l \in Nat /\ DOMAIN members = 1 .. l /\ \A n \in 1 .. l : IsMember(members[n])
  BY NamedIs
<1>2. PICK q \in J!S!Injection(DOMAIN members, DOMAIN members) :
         /\ \A n, k \in DOMAIN members : n < k =>
               Rank[members[q[n]].identifier] <= Rank[members[q[k]].identifier]
         /\ sorted = [n \in DOMAIN members |-> members[q[n]]]
  BY DEF J!Orders
<1>3. q \in [1 .. l -> 1 .. l]
  <2>1. q \in [DOMAIN members -> DOMAIN members]
    BY <1>2, Zenon DEF J!S!Injection
  <2>2. DOMAIN members = 1 .. l
    BY <1>1
  <2> QED
    BY ONLY <2>1, <2>2
<1>4. /\ DOMAIN sorted = 1 .. l /\ sorted = [n \in 1 .. l |-> sorted[n]]
      /\ \A n \in 1 .. l : sorted[n] = members[q[n]]
  BY <1>1, <1>2
<1>5. \A n \in 1 .. l : IsMember(sorted[n])
  BY <1>1, <1>3, <1>4
<1> HIDE DEF l
<1>6. Named(sorted)
  BY <1>1, <1>4, <1>5, ListNamed
<1>7. ASSUME NEW n \in 1 .. l, NEW k \in 1 .. l, n <= k
      PROVE  Rank[sorted[n].identifier] <= Rank[sorted[k].identifier]
  <2>1. CASE n = k
    <3>1. Rank[sorted[n].identifier] \in Nat
      BY <1>5, JsonAssumption DEF IsMember
    <3> QED
      BY <2>1, <3>1
  <2>2. CASE n # k
    <3>1. n < k
      BY <1>1, <1>7, <2>2
    <3> QED
      BY <1>1, <1>2, <1>4, <3>1
  <2> QED
    BY <2>1, <2>2
<1> QED
  BY <1>4, <1>6, <1>7 DEF InNameOrder

\* A removal leaves the order.
LEMMA RemovedInOrder ==
    ASSUME NEW members, InNameOrder(members), NEW index \in 1 .. Len(members)
    PROVE  InNameOrder(J!S!RemoveAt(members, index))
<1> DEFINE l == Len(members)
           left == J!S!RemoveAt(members, index)
           before == SubSeq(members, 1, index - 1)
           behind == SubSeq(members, index + 1, l)
           Items == { members[n] : n \in 1 .. l }
<1>1. /\ l \in Nat /\ DOMAIN members = 1 .. l /\ \A n \in 1 .. l : IsMember(members[n])
      /\ members \in Seq(Items)
  BY NamedIs DEF InNameOrder
<1>2. left = before \o behind
  BY Zenon DEF J!S!RemoveAt
<1>3. /\ index \in Nat /\ index <= l /\ 1 <= index /\ index - 1 \in Nat /\ index + 1 \in Nat
      /\ index - 1 - 1 + 1 = index - 1 /\ l - (index + 1) + 1 = l - index
      /\ l - index \in Nat /\ l - 1 \in Nat /\ index - 1 + (l - index) = l - 1
      /\ index - 1 <= l /\ index + 1 <= l + 1 /\ 1 <= index - 1 + 1 /\ 1 <= index + 1 /\ l <= l
  BY <1>1
<1> HIDE DEF l, Items
<1>4. /\ before \in Seq(Items) /\ Len(before) = index - 1
      /\ \A k \in 1 .. index - 1 : before[k] = members[1 + k - 1]
  <2>1. /\ SubSeq(members, 1, index - 1) \in Seq(Items)
        /\ Len(SubSeq(members, 1, index - 1)) = index - 1 - 1 + 1
        /\ \A k \in 1 .. index - 1 - 1 + 1 : SubSeq(members, 1, index - 1)[k] = members[1 + k - 1]
    <3>1. index - 1 <= Len(members) /\ 1 \in Nat
      BY <1>3 DEF l
    <3> QED
      BY <1>1, <1>3, <3>1, Part
  <2> QED
    BY <1>3, <2>1
<1>5. /\ behind \in Seq(Items) /\ Len(behind) = l - index
      /\ \A k \in 1 .. l - index : behind[k] = members[index + 1 + k - 1]
  <2>1. /\ SubSeq(members, index + 1, l) \in Seq(Items)
        /\ Len(SubSeq(members, index + 1, l)) = l - (index + 1) + 1
        /\ \A k \in 1 .. l - (index + 1) + 1 :
              SubSeq(members, index + 1, l)[k] = members[index + 1 + k - 1]
    <3>1. l <= Len(members)
      BY <1>3 DEF l
    <3> QED
      BY <1>1, <1>3, <3>1, Part
  <2> QED
    BY <1>3, <2>1
<1> HIDE DEF before, behind
<1>6. /\ before \o behind \in Seq(Items) /\ Len(before \o behind) = Len(before) + Len(behind)
      /\ \A k \in 1 .. Len(before) + Len(behind) : (before \o behind)[k] =
            IF k <= Len(before) THEN before[k] ELSE behind[k - Len(before)]
  BY <1>4, <1>5, ConcatProperties
<1> HIDE DEF left
<1>7. /\ left \in Seq(Items) /\ Len(left) = l - 1
      /\ \A k \in 1 .. l - 1 :
            left[k] = IF k <= index - 1 THEN before[k] ELSE behind[k - (index - 1)]
  BY <1>2, <1>3, <1>4, <1>5, <1>6
<1>8. \A k \in 1 .. l - 1 : left[k] = members[IF k < index THEN k ELSE k + 1]
  <2>1. TAKE k \in 1 .. l - 1
  <2>2. CASE k < index
    <3>1. k \in 1 .. index - 1 /\ k <= index - 1 /\ 1 + k - 1 = k
      BY <1>3, <2>2
    <3> QED
      BY <1>4, <1>7, <2>2, <3>1
  <2>3. CASE ~(k < index)
    <3>1. /\ ~(k <= index - 1) /\ k - (index - 1) \in 1 .. l - index
          /\ index + 1 + (k - (index - 1)) - 1 = k + 1
      BY <1>3, <2>3
    <3> QED
      BY <1>5, <1>7, <2>3, <3>1
  <2> QED
    BY <2>2, <2>3
<1> DEFINE From(k) == IF k < index THEN k ELSE k + 1
<1>9. \A n, k \in 1 .. l - 1 : /\ From(k) \in 1 .. l
                               /\ n <= k => From(n) <= From(k)
  <2>1. l \in Nat /\ index \in Nat
    BY <1>1, <1>3 DEF l
  <2>2. TAKE n, k \in 1 .. l - 1
  <2>3. From(k) \in 1 .. l
    BY ONLY <2>1, <2>2, k \in 1 .. l - 1
  <2>4. ASSUME n <= k
        PROVE  From(n) <= From(k)
    BY ONLY <2>1, <2>4, k \in 1 .. l - 1, n \in 1 .. l - 1
  <2> QED
    BY <2>3, <2>4
<1>10. \A k \in 1 .. l - 1 : left[k] = members[From(k)]
  BY <1>8
<1> HIDE DEF From
<1>11. Named(left) /\ DOMAIN left = 1 .. l - 1
  <2>1. \A k \in 1 .. l - 1 : IsMember(left[k])
    BY <1>1, <1>9, <1>10
  <2>2. DOMAIN left = 1 .. l - 1 /\ left = [k \in 1 .. l - 1 |-> left[k]]
    BY <1>7
  <2> QED
    BY <1>3, <2>1, <2>2, ListNamed
<1>12. \A n, k \in 1 .. l - 1 : n <= k => Rank[left[n].identifier] <= Rank[left[k].identifier]
  <2>1. \A n, k \in 1 .. l : n <= k => Rank[members[n].identifier] <= Rank[members[k].identifier]
    BY <1>1 DEF InNameOrder
  <2> QED
    BY <1>9, <1>10, <2>1
<1>13. InNameOrder(left)
  BY <1>11, <1>12 DEF InNameOrder
<1> QED
  BY <1>13 DEF left

\* So does a new value of a member.
LEMMA ChangedInOrder ==
    ASSUME NEW members, InNameOrder(members), NEW place \in DOMAIN members, NEW value
    PROVE  InNameOrder([members EXCEPT ![place].value = value])
<1> DEFINE l == Len(members)
           m == members[place]
           new == [identifier |-> m.identifier, type |-> m.type, value |-> value]
           after == [members EXCEPT ![place].value = value]
<1>1. /\ l \in Nat /\ DOMAIN members = 1 .. l /\ \A n \in 1 .. l : IsMember(members[n])
  BY NamedIs DEF InNameOrder
<1>2. after = [members EXCEPT ![place] = new]
  <2>1. m = [identifier |-> m.identifier, type |-> m.type, value |-> m.value]
    BY <1>1 DEF IsMember
  <2>2. [m EXCEPT !.value = value] = new
    <3> HIDE DEF m
    <3> QED
      BY <2>1
  <2>3. after = [members EXCEPT ![place] = [m EXCEPT !.value = value]]
    OBVIOUS
  <2> QED
    BY <2>2, <2>3
<1>3. IsMember(new)
  <2>1. m.identifier \in J!Names
    BY <1>1 DEF IsMember
  <2> HIDE DEF m
  <2> QED
    BY <2>1 DEF IsMember
<1> DEFINE named == new.identifier
<1>4. named = m.identifier
  <2> HIDE DEF m
  <2> QED
    OBVIOUS
<1> HIDE DEF new, after, m
<1>5. /\ DOMAIN after = 1 .. l /\ after = [n \in 1 .. l |-> after[n]]
      /\ \A n \in 1 .. l : after[n] = IF n = place THEN new ELSE members[n]
  <2> HIDE DEF l
  <2> QED
    BY <1>1, <1>2
<1>6. \A n \in 1 .. l : IsMember(after[n]) /\ after[n].identifier = members[n].identifier
  BY <1>1, <1>3, <1>4, <1>5 DEF m
<1> HIDE DEF l
<1>7. Named(after)
  BY <1>1, <1>5, <1>6, ListNamed
<1>8. \A n, k \in 1 .. l : n <= k => Rank[members[n].identifier] <= Rank[members[k].identifier]
  BY <1>1 DEF InNameOrder
<1>9. InNameOrder(after)
  BY <1>5, <1>6, <1>7, <1>8 DEF InNameOrder
<1> QED
  BY <1>9 DEF after

\* A search of nothing ends where it began.
LEMMA HalvedNone == \A right : J!Halved(right, 0) = [begin |-> 0, end |-> 0]
<1> SUFFICES ASSUME NEW right PROVE J!Halved(right, 0) = [begin |-> 0, end |-> 0]
  OBVIOUS
<1> DEFINE Spans == [begin : 0 .. 0, end : 0 .. 0]
           Mid(s) == (s.begin + s.end) \div 2
           Half(s) == IF Mid(s) \in right THEN [s EXCEPT !.begin = Mid(s)]
                      ELSE [s EXCEPT !.end = Mid(s)]
           Rec(f) == [s \in Spans |-> IF s.end - s.begin <= 1 THEN s ELSE f[Half(s)]]
           interval == CHOOSE f : f = Rec(f)
           whole == [begin |-> 0, end |-> 0]
           same == [s \in Spans |-> s]
<1>1. \A s \in Spans : s.end - s.begin <= 1
  OBVIOUS
<1> HIDE DEF Half
<1>2. same = Rec(same)
  BY <1>1
<1>3. J!Halved(right, 0) = interval[whole]
  BY DEF J!Halved, Half
<1>4. interval = Rec(interval)
  <2> HIDE DEF Rec, same
  <2> QED
    BY <1>2
<1>5. whole \in Spans
  OBVIOUS
<1>6. interval[whole] = whole
  <2> HIDE DEF interval
  <2> QED
    BY <1>1, <1>4, <1>5
<1> QED
  BY <1>3, <1>6

\* The search finds a member with a name when there is one.
LEMMA GetIsMember ==
    ASSUME NEW members, InNameOrder(members), NEW name \in J!Names
    PROVE  /\ (\A n \in DOMAIN members : members[n].identifier # name) =>
                 J!Get(members, name) = NULL
           /\ (\E n \in DOMAIN members : members[n].identifier = name) =>
                 /\ J!Get(members, name) \in Nat /\ J!Get(members, name) # NULL
                 /\ J!Get(members, name) + 1 \in DOMAIN members
                 /\ members[J!Get(members, name) + 1].identifier = name
<1> DEFINE l == Len(members)
           Has(index) == index < l /\ members[index + 1].identifier = name
           right == { mid \in 1 .. l - 1 : Rank[members[mid + 1].identifier] <= Rank[name] }
           h == J!Halved(right, l)
<1>1. /\ l \in Nat /\ DOMAIN members = 1 .. l
      /\ \A n \in 1 .. l : members[n].identifier \in J!Names
  BY NamedIs DEF InNameOrder, IsMember
<1>2. J!Get(members, name) = IF Has(h.begin) THEN h.begin ELSE IF Has(h.end) THEN h.end ELSE NULL
  BY Zenon DEF J!Get
<1>3. \A n, k \in 1 .. l : n <= k => Rank[members[n].identifier] <= Rank[members[k].identifier]
  BY <1>1 DEF InNameOrder
<1>4. /\ Rank[name] \in Nat /\ \A n \in 1 .. l : Rank[members[n].identifier] \in Nat
      /\ \A n \in 1 .. l : Rank[members[n].identifier] = Rank[name] => members[n].identifier = name
  BY <1>1, JsonAssumption
<1>5. NULL \notin Nat
  BY FlagsAssumption
<1>6. CASE l = 0
  <2>1. h = [begin |-> 0, end |-> 0]
    <3> HIDE DEF right
    <3> QED
      BY <1>6, HalvedNone
  <2> HIDE DEF h
  <2>2. h.begin = 0 /\ h.end = 0
    BY <2>1
  <2>3. DOMAIN members = {}
    BY <1>1, <1>6
  <2>4. J!Get(members, name) = NULL
    BY <1>2, <1>6, <2>2
  <2> QED
    BY <2>3, <2>4
<1>7. CASE l # 0
  <2>1. PICK begin \in 0 .. l - 1 :
           /\ BS!Halved(right, l) = [begin |-> begin, end |-> begin + 1]
           /\ begin = 0 \/ begin \in right
           /\ begin + 1 = l \/ begin + 1 \notin right
    <3>1. l \in Nat \ {0}
      BY <1>1, <1>7
    <3> HIDE DEF right, l
    <3> QED
      BY <3>1, HalvedIs
  <2>2. J!Halved(right, l) = BS!Halved(right, l)
    BY Zenon DEF J!Halved, BS!Halved
  <2> HIDE DEF h
  <2>3. h.begin = begin /\ h.end = begin + 1
    BY <2>1, <2>2 DEF h
  <2>4. /\ begin # 0 => begin \in 1 .. l - 1 /\ Rank[members[begin + 1].identifier] <= Rank[name]
        /\ begin + 1 # l => ~(Rank[members[begin + 1 + 1].identifier] <= Rank[name])
    BY <1>1, <2>1
  <2> HIDE DEF right, l
  <2>5. ASSUME NEW n \in 1 .. l, members[n].identifier = name
        PROVE  members[begin + 1].identifier = name
    <3>1. begin + 1 \in 1 .. l
      BY <1>1, <2>1
    <3>2. n <= begin + 1
      <4>1. SUFFICES ASSUME n > begin + 1 PROVE FALSE
        BY <1>1, <2>1
      <4>2. begin + 1 # l /\ begin + 1 + 1 \in 1 .. l /\ begin + 1 + 1 <= n
        BY <1>1, <2>1, <4>1
      <4>3. Rank[members[begin + 1 + 1].identifier] <= Rank[members[n].identifier]
        BY <1>3, <4>2
      <4> QED
        BY <2>4, <2>5, <4>2, <4>3
    <3>3. CASE begin = 0
      BY <2>5, <3>2, <3>3
    <3>4. CASE begin # 0
      <4>1. /\ Rank[members[begin + 1].identifier] <= Rank[name]
            /\ Rank[members[n].identifier] <= Rank[members[begin + 1].identifier]
        BY <1>3, <2>4, <3>1, <3>2, <3>4
      <4>2. Rank[members[begin + 1].identifier] = Rank[name]
        BY <1>4, <2>5, <3>1, <4>1
      <4> QED
        BY <1>4, <3>1, <4>2
    <3> QED
      BY <3>3, <3>4
  <2>6. begin < l /\ begin + 1 \in 1 .. l /\ begin \in Nat
    BY <1>1, <2>1
  <2>7. begin + 1 < l => begin + 1 + 1 \in 1 .. l
    BY <1>1, <2>6
  <2>8. CASE \E n \in DOMAIN members : members[n].identifier = name
    <3>1. members[begin + 1].identifier = name
      BY <1>1, <2>5, <2>8
    <3>2. J!Get(members, name) = begin
      BY <1>2, <2>3, <2>6, <3>1
    <3>3. begin # NULL /\ begin + 1 \in DOMAIN members
      BY <1>1, <1>5, <2>6
    <3> QED
      BY <2>6, <2>8, <3>1, <3>2, <3>3
  <2>9. CASE \A n \in DOMAIN members : members[n].identifier # name
    <3>1. ~Has(h.begin) /\ ~Has(h.end)
      BY <1>1, <2>3, <2>6, <2>7, <2>9
    <3> HIDE DEF Has
    <3> QED
      BY <1>2, <2>9, <3>1
  <2> QED
    BY <2>8, <2>9
<1> QED
  BY <1>6, <1>7

-----------------------------------------------------------------------------
(* The reader of JSON, and the object it has read                           *)

Fields == {"phase", "read", "depth", "maxDepth", "scopes", "expecting", "identifier",
           "freed", "object", "written", "left"}

\* While it reads, the text so far is legal, leaves open what the scopes stand
\* for and wants what is expected.
IsReading(text, depth, deepest, stack, expecting, identifier) ==
    /\ ReadingText(text, TypesOf(stack), expecting)
    /\ ReadingNames(stack, expecting, identifier)
    /\ depth = Len(stack) /\ deepest \in Nat /\ depth <= deepest

\* When it has read, only the token that it refused is not legal.
HasRead(phase, text, members) ==
    /\ text \in Seq(J!Tokens)
    /\ \A k \in 1 .. Len(text) : Accepted(text, k) <=> ~(phase = "refused" /\ k = Len(text))
    /\ phase = "object" => /\ InNameOrder(members)
                           /\ text # <<>> => J!DepthAt(text, Len(text)) = 0

IsJson(r) ==
    /\ DOMAIN r = Fields
    /\ r.phase = "reading" =>
           IsReading(r.read, r.depth, r.maxDepth, r.scopes, r.expecting, r.identifier)
    /\ r.phase # "reading" => HasRead(r.phase, r.read, r.object)

\* A reader starts with nothing read.
LEMMA StartReads ==
    ASSUME NEW written, NEW left
    PROVE  IsJson([J!Start EXCEPT !.written = written, !.left = left]) /\ IsJson(J!Start)
<1>1. IsReading(<<>>, 0, 0, <<>>, "value", NULL)
  <2>1. ReadingText(<<>>, <<>>, "value")
    BY NoDepth DEF ReadingText
  <2>2. TypesOf(<<>>) = <<>>
    BY DEF TypesOf
  <2>3. IsStack(<<>>)
    <3> DEFINE Scopes == {}
    <3>1. <<>> \in Seq(Scopes) /\ \A s \in Scopes : IsScope(s)
      OBVIOUS
    <3> HIDE DEF Scopes
    <3> QED
      BY <3>1, Zenon DEF IsStack
  <2>4. ReadingNames(<<>>, "value", NULL)
    BY <2>3 DEF ReadingNames
  <2> QED
    BY <2>1, <2>2, <2>4 DEF IsReading
<1>2. /\ DOMAIN J!Start = Fields /\ J!Start.phase = "reading" /\ J!Start.read = <<>>
      /\ J!Start.depth = 0 /\ J!Start.maxDepth = 0 /\ J!Start.scopes = <<>>
      /\ J!Start.expecting = "value" /\ J!Start.identifier = NULL
  BY DEF J!Start, Fields
<1>3. IsJson(J!Start)
  BY <1>1, <1>2 DEF IsJson
<1> DEFINE r == [J!Start EXCEPT !.written = written, !.left = left]
<1>4. /\ DOMAIN r = Fields /\ r.phase = "reading" /\ r.read = <<>>
      /\ r.depth = 0 /\ r.maxDepth = 0 /\ r.scopes = <<>>
      /\ r.expecting = "value" /\ r.identifier = NULL
  BY <1>2 DEF Fields
<1> HIDE DEF r
<1>5. IsJson(r)
  BY <1>1, <1>4 DEF IsJson
<1> QED
  BY <1>3, <1>5 DEF r

\* What the reader knows while it reads.
LEMMA ReaderKnows ==
    ASSUME IsJson(object), object.phase = "reading"
    PROVE  /\ IsReading(object.read, object.depth, object.maxDepth, object.scopes,
                        object.expecting, object.identifier)
           /\ ReadingText(object.read, TypesOf(object.scopes), object.expecting)
           /\ ReadingNames(object.scopes, object.expecting, object.identifier)
           /\ IsStack(object.scopes) /\ TypesOf(object.scopes) \in Seq(J!Opening)
           /\ object.depth = Len(object.scopes) /\ Len(object.scopes) \in Nat
           /\ Len(TypesOf(object.scopes)) = Len(object.scopes)
           /\ (TypesOf(object.scopes) = <<>> <=> object.scopes = <<>>)
           /\ (object.scopes # <<>> <=> Len(object.scopes) > 0)
           /\ object.maxDepth \in Nat /\ object.depth <= object.maxDepth
           /\ object.read \in Seq(J!Tokens) /\ Len(object.read) \in Nat
           /\ \A k \in 1 .. Len(object.read) : Accepted(object.read, k)
<1>1. IsReading(object.read, object.depth, object.maxDepth, object.scopes,
                object.expecting, object.identifier)
  BY DEF IsJson
<1>2. /\ ReadingText(object.read, TypesOf(object.scopes), object.expecting)
      /\ ReadingNames(object.scopes, object.expecting, object.identifier)
      /\ object.depth = Len(object.scopes) /\ object.maxDepth \in Nat
      /\ object.depth <= object.maxDepth
  BY <1>1 DEF IsReading
<1>3. IsStack(object.scopes)
  BY <1>2 DEF ReadingNames
<1>4. /\ object.read \in Seq(J!Tokens)
      /\ \A k \in 1 .. Len(object.read) : Accepted(object.read, k)
  BY <1>2 DEF ReadingText
<1>5. Len(object.read) \in Nat
  BY <1>4
<1> QED
  BY <1>1, <1>2, <1>3, <1>4, <1>5, TypesAre

\* The scope that is open last, and what the reader takes there.
LEMMA AcceptsIs ==
    ASSUME IsJson(object), object.phase = "reading", NEW token \in J!Tokens
    PROVE  /\ J!Accepts(token) <=> Takes(token, TypesOf(object.scopes), object.expecting)
           /\ J!scope = object.scopes[Len(object.scopes)]
           /\ object.scopes # <<>> =>
                 /\ IsScope(J!scope) /\ J!scope.type = TypesOf(object.scopes)[Len(object.scopes)]
                 /\ J!InArray <=> J!scope.type = "OpenBracket"
<1> DEFINE stack == object.scopes
           open == TypesOf(stack)
<1>1. J!scope = stack[Len(stack)] /\ (J!InArray <=> J!scope.type = "OpenBracket")
  BY Zenon DEF J!scope, J!scopes, J!InArray, J!S!Last
<1>2. /\ IsStack(stack) /\ Len(open) = Len(stack) /\ (open = <<>> <=> stack = <<>>)
      /\ Len(stack) \in Nat /\ (stack # <<>> <=> Len(stack) > 0)
  BY ReaderKnows
<1>3. stack # <<>> => IsScope(J!scope) /\ J!scope.type = open[Len(stack)]
  <2>1. stack # <<>> => Len(stack) \in 1 .. Len(stack)
    BY <1>2
  <2> HIDE DEF stack
  <2> QED
    BY <1>1, <1>2, <2>1, TypesAre
<1>4. token \in Leaves => token.type \in {"null", "boolean", "number", "string"}
  BY JsonAssumption
<1>5. J!Accepts(token) <=>
        /\ token.type \in J!Opening \/ token \in Leaves =>
               \/ object.expecting = "value"
               \/ token.type = "string" /\ object.expecting = "identifier"
        /\ token.type = "Colon" => object.expecting = "colon"
        /\ token.type \in J!Closing \union {"Comma"} => object.expecting = "nothing"
        /\ token.type # "OpenCurlyBracket" => stack # <<>>
        /\ token.type = "CloseCurlyBracket" => ~J!InArray
        /\ token.type = "CloseBracket" => J!InArray
  BY Zenon DEF J!Accepts, J!scopes
<1> HIDE DEF open
<1>6. J!Accepts(token) <=> Takes(token, open, object.expecting)
  BY <1>1, <1>2, <1>3, <1>5 DEF Takes
<1> QED
  BY <1>1, <1>3, <1>6 DEF open

\* What a token changes at least.
LEMMA AfterIs ==
    ASSUME IsJson(object), NEW token
    PROVE  /\ DOMAIN J!After(token) = Fields /\ J!After(token).phase = object.phase
           /\ J!After(token).read = Append(object.read, token)
           /\ J!After(token).depth = object.depth /\ J!After(token).maxDepth = object.maxDepth
           /\ J!After(token).scopes = object.scopes
           /\ J!After(token).expecting = object.expecting
           /\ J!After(token).identifier = object.identifier
<1>1. DOMAIN object = Fields
  BY DEF IsJson
<1> QED
  BY <1>1 DEF J!After, Fields

\* An opening bracket is read.
LEMMA OpenReads ==
    ASSUME IsJson(object), object.phase = "reading", NEW token \in J!Tokens, J!Accepts(token),
           J!OpenCurlyBracket(token) \/ J!OpenBracket(token)
    PROVE  IsJson(object')
<1> DEFINE stack == object.scopes
           open == TypesOf(stack)
           s == [type |-> token.type, identifier |-> object.identifier, members |-> <<>>]
           after == Append(stack, s)
           next == IF token.type = "OpenCurlyBracket" THEN "identifier" ELSE "value"
           deepest == IF object.maxDepth = object.depth THEN object.maxDepth + 1 ELSE object.maxDepth
           l == Len(stack)
<1>1. /\ ReadingText(object.read, open, object.expecting)
      /\ ReadingNames(stack, object.expecting, object.identifier)
      /\ IsStack(stack) /\ object.depth = l /\ l \in Nat /\ (stack # <<>> <=> l > 0)
      /\ object.maxDepth \in Nat /\ object.depth <= object.maxDepth
  BY ReaderKnows
<1>2. Takes(token, open, object.expecting)
  BY AcceptsIs
<1>3. token.type \in {"OpenCurlyBracket", "OpenBracket"} /\ object.expecting = "value"
  <2>1. token.type \in {"OpenCurlyBracket", "OpenBracket"}
    BY DEF J!OpenCurlyBracket, J!OpenBracket
  <2> QED
    BY <1>2, <2>1 DEF Takes, J!Opening
<1>4. /\ DOMAIN J!Opened(token) = Fields /\ J!Opened(token).phase = "reading"
      /\ J!Opened(token).read = Append(object.read, token)
      /\ J!Opened(token).depth = object.depth + 1 /\ J!Opened(token).maxDepth = deepest
      /\ J!Opened(token).scopes = after /\ J!Opened(token).expecting = object.expecting
      /\ J!Opened(token).identifier = object.identifier
  <2> DEFINE a == J!After(token)
  <2>1. /\ DOMAIN a = Fields /\ a.phase = "reading" /\ a.read = Append(object.read, token)
        /\ a.depth = object.depth /\ a.maxDepth = object.maxDepth /\ a.scopes = stack
        /\ a.expecting = object.expecting /\ a.identifier = object.identifier
    BY AfterIs
  <2>2. J!Opened(token) =
          [a EXCEPT !.depth = @ + 1, !.maxDepth = IF @ = object.depth THEN @ + 1 ELSE @,
                    !.scopes = Append(@, s)]
    BY Zenon DEF J!Opened
  <2> HIDE DEF a, s
  <2> QED
    BY <2>1, <2>2 DEF Fields
<1>5. /\ DOMAIN object' = Fields /\ object'.phase = "reading"
      /\ object'.read = Append(object.read, token)
      /\ object'.depth = object.depth + 1 /\ object'.maxDepth = deepest
      /\ object'.scopes = after /\ object'.expecting = next
      /\ object'.identifier = object.identifier
  <2> HIDE DEF after, deepest
  <2>1. CASE J!OpenCurlyBracket(token)
    <3>1. object' = [J!Opened(token) EXCEPT !.expecting = "identifier"] /\ next = "identifier"
      BY <2>1 DEF J!OpenCurlyBracket
    <3> HIDE DEF next
    <3> QED
      BY <1>4, <3>1 DEF Fields
  <2>2. CASE J!OpenBracket(token)
    <3>1. object' = J!Opened(token) /\ next = "value"
      BY <2>2 DEF J!OpenBracket
    <3> HIDE DEF next
    <3> QED
      BY <1>3, <1>4, <3>1
  <2> QED
    BY <2>1, <2>2
<1>6. IsScope(s) /\ s.type = token.type /\ s.identifier = object.identifier
  BY <1>3, NamedNone DEF IsScope, J!Opening
<1> HIDE DEF s
<1>7. /\ IsStack(after) /\ Len(after) = l + 1 /\ TypesOf(after) = Append(open, token.type)
      /\ after[l + 1] = s /\ \A depth \in 1 .. l : after[depth] = stack[depth]
  BY <1>1, <1>6, StackAppend
<1>8. ReadingText(Append(object.read, token), Append(open, token.type), next)
  BY <1>1, <1>2, <1>3, OpenText DEF J!Opening
<1> HIDE DEF after, stack, l
<1>9. ReadingNames(after, next, object.identifier)
  <2>1. \A depth \in 2 .. Len(after) :
           after[depth - 1].type = "OpenCurlyBracket" => after[depth].identifier \in J!Names
    <3>1. TAKE depth \in 2 .. Len(after)
    <3>2. /\ depth \in 1 .. l + 1 /\ depth - 1 \in 1 .. l
          /\ depth = l + 1 \/ (depth \in 2 .. l /\ depth \in 1 .. l)
      BY <1>1, <1>7
    <3>3. CASE depth = l + 1
      <4>1. after[depth - 1] = stack[l] /\ after[depth] = s /\ l > 0
        BY <1>1, <1>7, <3>2, <3>3
      <4>2. stack[l].type = "OpenCurlyBracket" => object.identifier \in J!Names
        BY <1>1, <1>3, <4>1 DEF ReadingNames, l
      <4> QED
        BY <1>6, <4>1, <4>2
    <3>4. CASE depth \in 2 .. l /\ depth \in 1 .. l
      <4>1. after[depth - 1] = stack[depth - 1] /\ after[depth] = stack[depth]
        BY <1>7, <3>2, <3>4
      <4> QED
        BY <1>1, <3>4, <4>1 DEF ReadingNames, l
    <3> QED
      BY <3>2, <3>3, <3>4
  <2>2. next = "value" => after[Len(after)].type # "OpenCurlyBracket"
    BY <1>1, <1>6, <1>7
  <2> QED
    BY <1>7, <2>1, <2>2 DEF ReadingNames
<1>10. object.depth + 1 = Len(after) /\ deepest \in Nat /\ object.depth + 1 <= deepest
  BY <1>1, <1>7
<1> HIDE DEF next, deepest, open
<1>11. IsReading(Append(object.read, token), object.depth + 1, deepest, after, next,
                 object.identifier)
  BY <1>7, <1>8, <1>9, <1>10 DEF IsReading
<1> QED
  BY <1>5, <1>11 DEF IsJson

\* A closing bracket is read that closes a scope in another.
LEMMA ClosedReads ==
    ASSUME IsJson(object), object.phase = "reading", NEW token \in J!Tokens, J!Accepts(token),
           token.type \in J!Closing, Len(object.scopes) > 1, NEW type, NEW members,
           object' = J!Closed(token, type, members)
    PROVE  IsJson(object')
<1> DEFINE stack == object.scopes
           open == TypesOf(stack)
           l == Len(stack)
           lower == J!S!Front(stack)
           identifier == J!scope.identifier
           after == J!WithMember(lower, identifier, type, members)
<1>1. /\ ReadingText(object.read, open, object.expecting)
      /\ ReadingNames(stack, object.expecting, object.identifier)
      /\ IsStack(stack) /\ object.depth = l /\ l \in Nat /\ stack # <<>> /\ Len(open) = l
      /\ object.maxDepth \in Nat /\ object.depth <= object.maxDepth
  BY ReaderKnows
<1>2. Takes(token, open, object.expecting) /\ J!scope = stack[l]
  BY AcceptsIs
<1>3. object.expecting = "nothing"
  BY <1>2 DEF Takes
<1>4. /\ DOMAIN object' = Fields /\ object'.phase = "reading"
      /\ object'.read = Append(object.read, token)
      /\ object'.depth = object.depth - 1 /\ object'.maxDepth = object.maxDepth
      /\ object'.scopes = after /\ object'.expecting = "nothing"
      /\ object'.identifier = object.identifier
  <2> DEFINE a == J!After(token)
  <2>1. /\ DOMAIN a = Fields /\ a.phase = "reading" /\ a.read = Append(object.read, token)
        /\ a.depth = object.depth /\ a.maxDepth = object.maxDepth /\ a.scopes = stack
        /\ a.expecting = "nothing" /\ a.identifier = object.identifier
    BY <1>3, AfterIs
  <2>2. object' = [a EXCEPT !.depth = @ - 1, !.scopes =
                      IF Len(stack) = 1 THEN <<>>
                      ELSE J!WithMember(J!S!Front(@), identifier, type, members)]
    BY Zenon DEF J!Closed, J!scopes
  <2>3. Len(stack) # 1
    <3>1. l \in Nat /\ l > 1
      BY <1>1
    <3>2. SUFFICES ASSUME l = 1 PROVE FALSE
      OBVIOUS
    <3> HIDE DEF l
    <3> QED
      BY ONLY <3>1, <3>2
  <2> HIDE DEF a, identifier
  <2> QED
    BY <2>1, <2>2, <2>3 DEF Fields
<1>5. /\ IsStack(lower) /\ Len(lower) = l - 1 /\ TypesOf(lower) = J!S!Front(open)
      /\ \A depth \in 1 .. l - 1 : lower[depth] = stack[depth]
  BY <1>1, StackFront
<1>6. lower # <<>>
  <2> HIDE DEF lower
  <2> QED
    BY <1>1, <1>5, TypesAre
<1>7. lower[Len(lower)].type = "OpenCurlyBracket" => identifier \in J!Names
  <2>1. l \in 2 .. l /\ l - 1 \in 1 .. l - 1
    BY <1>1
  <2>2. stack[l - 1].type = "OpenCurlyBracket" => stack[l].identifier \in J!Names
    BY <1>1, <2>1 DEF ReadingNames
  <2> HIDE DEF lower, l, stack
  <2> QED
    BY <1>2, <1>5, <2>1, <2>2
<1> HIDE DEF lower, identifier
<1>8. /\ IsStack(after) /\ Len(after) = Len(lower) /\ after # <<>>
      /\ TypesOf(after) = TypesOf(lower)
      /\ \A depth \in 1 .. Len(lower) : /\ after[depth].type = lower[depth].type
                                        /\ after[depth].identifier = lower[depth].identifier
  <2>1. IsStack(lower)
    BY <1>5
  <2> QED
    BY ONLY <1>6, <1>7, <2>1, WithMemberIs
<1>9. ReadingText(Append(object.read, token), J!S!Front(open), "nothing")
  BY <1>1, <1>2, CloseText
<1> HIDE DEF after, stack, l
<1>10. ReadingNames(after, "nothing", object.identifier)
  <2>1. \A depth \in 2 .. Len(after) :
           after[depth - 1].type = "OpenCurlyBracket" => after[depth].identifier \in J!Names
    <3>1. TAKE depth \in 2 .. Len(after)
    <3>2. /\ depth \in 1 .. l - 1 /\ depth - 1 \in 1 .. l - 1 /\ depth \in 2 .. l
          /\ Len(after) = l - 1
      BY <1>1, <1>5, <1>8
    <3>3. /\ after[depth - 1].type = stack[depth - 1].type
          /\ after[depth].identifier = stack[depth].identifier
      BY <1>5, <1>8, <3>2
    <3> QED
      BY <1>1, <3>2, <3>3 DEF ReadingNames, l
  <2> QED
    BY <1>8, <2>1 DEF ReadingNames
<1>11. object.depth - 1 = Len(after) /\ object.depth - 1 <= object.maxDepth
  BY <1>1, <1>5, <1>8
<1> HIDE DEF open
<1>12. IsReading(Append(object.read, token), object.depth - 1, object.maxDepth, after, "nothing",
                 object.identifier)
  BY <1>1, <1>5, <1>8, <1>9, <1>10, <1>11 DEF IsReading
<1> QED
  BY <1>4, <1>12 DEF IsJson

\* A curly bracket closes the object at the top, or one in another scope.
LEMMA CloseCurlyBracketReads ==
    ASSUME IsJson(object), object.phase = "reading", NEW token \in J!Tokens, J!Accepts(token),
           J!CloseCurlyBracket(token)
    PROVE  IsJson(object')
<1> DEFINE stack == object.scopes
           open == TypesOf(stack)
           l == Len(stack)
           longer == Append(object.read, token)
<1>1. /\ ReadingText(object.read, open, object.expecting) /\ object.depth = l /\ l \in Nat
      /\ Len(open) = l /\ (stack # <<>> <=> l > 0) /\ (open = <<>> <=> stack = <<>>)
      /\ object.read \in Seq(J!Tokens) /\ Len(object.read) \in Nat
      /\ IsStack(stack)
  BY ReaderKnows
<1>2. token.type = "CloseCurlyBracket"
  BY DEF J!CloseCurlyBracket
<1>3. /\ Takes(token, open, object.expecting) /\ J!scope = stack[l]
      /\ stack # <<>> => IsScope(J!scope) /\ J!scope.type = open[l]
  BY AcceptsIs
<1>4. stack # <<>> /\ l > 0
  BY <1>1, <1>2, <1>3 DEF Takes
<1>5. PICK members \in J!Orders(J!scope.members) :
         object' = IF object.depth > 1 THEN J!Closed(token, "object", members)
                   ELSE [J!Closed(token, "object", members) EXCEPT !.phase = "object",
                             !.object = members, !.expecting = "value", !.identifier = NULL]
  BY Zenon DEF J!CloseCurlyBracket
<1>6. CASE l > 1
  <2>1. object' = J!Closed(token, "object", members)
    BY <1>1, <1>5, <1>6
  <2>2. token.type \in J!Closing /\ Len(object.scopes) > 1
    BY <1>2, <1>6 DEF J!Closing
  <2> HIDE DEF stack, l
  <2> QED
    BY <2>1, <2>2, ClosedReads
<1>7. CASE l = 1
  <2>1. object' = [J!Closed(token, "object", members) EXCEPT !.phase = "object",
                       !.object = members, !.expecting = "value", !.identifier = NULL]
    <3>1. ~(object.depth > 1)
      BY <1>1, <1>7
    <3> QED
      BY <1>5, <3>1
  <2>2. /\ DOMAIN object' = Fields /\ object'.phase = "object" /\ object'.read = longer
        /\ object'.object = members
    <3> DEFINE a == J!After(token)
               c == J!Closed(token, "object", members)
    <3>1. DOMAIN a = Fields /\ a.read = longer
      BY AfterIs
    <3>2. c = [a EXCEPT !.depth = @ - 1, !.scopes =
                  IF Len(stack) = 1 THEN <<>>
                  ELSE J!WithMember(J!S!Front(@), J!scope.identifier, "object", members)]
      BY Zenon DEF J!Closed, J!scopes
    <3> DEFINE under == IF Len(stack) = 1 THEN <<>>
                        ELSE J!WithMember(J!S!Front(a.scopes), J!scope.identifier, "object", members)
    <3>3. c = [a EXCEPT !.depth = @ - 1, !.scopes = under]
      BY Zenon, <3>2
    <3> HIDE DEF a, c, under, longer
    <3>4. DOMAIN c = Fields /\ c.read = longer
      BY <3>1, <3>3 DEF Fields
    <3>5. object' = [c EXCEPT !.phase = "object", !.object = members, !.expecting = "value",
                         !.identifier = NULL]
      BY <2>1 DEF c
    <3> QED
      BY <3>4, <3>5 DEF Fields
  <2>3. J!scope.type = "OpenCurlyBracket"
    <3>1. open[1] = "OpenCurlyBracket"
      BY <1>1, <1>4 DEF ReadingText
    <3> QED
      BY <1>3, <1>4, <1>7, <3>1
  <2>4. InNameOrder(members)
    <3>1. Named(J!scope.members)
      BY <1>3, <1>4, <2>3 DEF IsScope
    <3> QED
      BY <3>1, OrdersAre
  <2>5. /\ longer \in Seq(J!Tokens) /\ Len(longer) = Len(object.read) + 1
        /\ \A k \in 1 .. Len(longer) : k \in 1 .. Len(object.read) \/ k = Len(object.read) + 1
    BY <1>1
  <2>6. /\ \A k \in 1 .. Len(object.read) : Accepted(longer, k)
        /\ Accepted(longer, Len(object.read) + 1)
    BY <1>1, <1>3, TakesLegal
  <2>7. J!DepthAt(longer, Len(object.read) + 1) = 0
    <3>1. /\ Len(open) \in Nat
          /\ J!DepthAt(Append(object.read, token), Len(object.read) + 1) = Len(open)
                + (IF token.type \in J!Opening THEN 1 ELSE 0)
                - (IF token.type \in J!Closing THEN 1 ELSE 0)
      BY <1>1, NextDepth
    <3>2. token.type \notin J!Opening /\ token.type \in J!Closing
      BY <1>2 DEF J!Opening, J!Closing
    <3>3. Len(open) = 1
      BY <1>1, <1>7
    <3> HIDE DEF open
    <3> QED
      BY ONLY <3>1, <3>2, <3>3
  <2> HIDE DEF longer, stack, l
  <2>8. HasRead("object", longer, members)
    BY <2>4, <2>5, <2>6, <2>7 DEF HasRead
  <2> QED
    BY <2>2, <2>8 DEF IsJson
<1>8. l = 1 \/ l > 1
  <2> HIDE DEF l
  <2> QED
    BY <1>1, <1>4
<1> QED
  BY <1>6, <1>7, <1>8

\* A bracket closes an array, which is always in another scope.
LEMMA CloseBracketReads ==
    ASSUME IsJson(object), object.phase = "reading", NEW token \in J!Tokens, J!Accepts(token),
           J!CloseBracket(token)
    PROVE  IsJson(object')
<1> DEFINE stack == object.scopes
           open == TypesOf(stack)
           l == Len(stack)
<1>1. /\ ReadingText(object.read, open, object.expecting) /\ l \in Nat
      /\ Len(open) = l /\ (stack # <<>> <=> l > 0) /\ (open = <<>> <=> stack = <<>>)
  BY ReaderKnows
<1>2. token.type = "CloseBracket" /\ object' = J!Closed(token, "array", J!scope.members)
  BY DEF J!CloseBracket
<1>3. Takes(token, open, object.expecting)
  BY AcceptsIs
<1>4. open # <<>> /\ open[l] = "OpenBracket"
  BY <1>1, <1>2, <1>3 DEF Takes
<1>5. open[1] = "OpenCurlyBracket"
  BY <1>1, <1>4 DEF ReadingText
<1>6. l # 1 /\ l > 0
  BY <1>1, <1>4, <1>5
<1>7. l > 1
  <2> HIDE DEF l
  <2> QED
    BY ONLY <1>1, <1>6
<1>8. token.type \in J!Closing
  BY <1>2 DEF J!Closing
<1> HIDE DEF stack, open
<1> QED
  BY <1>2, <1>7, <1>8, ClosedReads DEF l, stack

\* Any other token that is accepted leaves the scopes open.
LEMMA PlainReads ==
    ASSUME IsJson(object), object.phase = "reading", NEW token \in J!Tokens, J!Accepts(token),
           J!Colon(token) \/ J!Comma(token) \/ J!Identifier(token) \/ J!Value(token)
    PROVE  IsJson(object')
<1> DEFINE stack == object.scopes
           open == TypesOf(stack)
           expecting == object.expecting
           a == J!After(token)
<1>1. /\ ReadingText(object.read, open, expecting)
      /\ ReadingNames(stack, expecting, object.identifier)
      /\ IsStack(stack) /\ object.depth = Len(stack) /\ Len(stack) \in Nat
      /\ Len(open) = Len(stack) /\ (open = <<>> <=> stack = <<>>)
      /\ object.maxDepth \in Nat /\ object.depth <= object.maxDepth
  BY ReaderKnows
<1>2. /\ Takes(token, open, expecting)
      /\ stack # <<>> => J!InArray <=> open[Len(stack)] = "OpenBracket"
  BY AcceptsIs
<1>3. token \in Leaves => /\ token.type \in {"null", "boolean", "number", "string"}
                          /\ token.type = "string" => token.value \in J!Names
  BY JsonAssumption
<1>4. token.type = "string" => token \in Leaves
  BY TokenIs DEF J!Opening, J!Closing
<1>5. /\ DOMAIN a = Fields /\ a.phase = "reading" /\ a.read = Append(object.read, token)
      /\ a.depth = object.depth /\ a.maxDepth = object.maxDepth /\ a.scopes = stack
      /\ a.expecting = expecting /\ a.identifier = object.identifier
  BY AfterIs
<1>6. ASSUME NEW after, NEW next, NEW identifier,
             TypesOf(after) = open, Len(after) = Len(stack),
             ReadingNames(after, next, identifier),
             ReadingText(Append(object.read, token), open, next),
             DOMAIN object' = Fields, object'.phase = "reading",
             object'.read = Append(object.read, token), object'.depth = object.depth,
             object'.maxDepth = object.maxDepth, object'.scopes = after,
             object'.expecting = next, object'.identifier = identifier
      PROVE  IsJson(object')
  <2> HIDE DEF open, stack
  <2>1. IsReading(object'.read, object'.depth, object'.maxDepth, object'.scopes,
                  object'.expecting, object'.identifier)
    BY <1>1, <1>6 DEF IsReading
  <2> QED
    BY <1>6, <2>1 DEF IsJson
<1> HIDE DEF a, open, stack, expecting
<1>7. CASE J!Colon(token)
  <2>1. token.type = "Colon" /\ object' = [a EXCEPT !.expecting = "value"]
    BY <1>7 DEF J!Colon, a
  <2>2. object.identifier \in J!Names
    BY <1>1, <1>2, <2>1 DEF Takes, ReadingNames
  <2>3. ReadingNames(stack, "value", object.identifier)
    BY <1>1, <2>2 DEF ReadingNames
  <2>4. ReadingText(Append(object.read, token), open, "value")
    BY <1>1, <1>2, <2>1, PlainExpects
  <2>5. /\ DOMAIN object' = Fields /\ object'.phase = "reading"
        /\ object'.read = Append(object.read, token) /\ object'.depth = object.depth
        /\ object'.maxDepth = object.maxDepth /\ object'.scopes = stack
        /\ object'.expecting = "value" /\ object'.identifier = object.identifier
    BY <1>5, <2>1 DEF Fields
  <2> QED
    BY <1>6, <2>3, <2>4, <2>5 DEF open
<1>8. CASE J!Comma(token)
  <2> DEFINE next == IF J!InArray THEN "value" ELSE "identifier"
  <2>1. token.type = "Comma" /\ object' = [a EXCEPT !.expecting = next]
    BY <1>8, Zenon DEF J!Comma, a
  <2>2. stack # <<>>
    BY <1>1, <1>2, <2>1 DEF Takes
  <2>3. J!InArray <=> open[Len(open)] = "OpenBracket"
    BY <1>1, <1>2, <2>2
  <2>4. next = IF open[Len(open)] = "OpenBracket" THEN "value" ELSE "identifier"
    BY <2>3
  <2>5. next = "value" => stack[Len(stack)].type # "OpenCurlyBracket"
    <3>1. Len(stack) \in 1 .. Len(stack)
      BY <1>1, <2>2, TypesAre
    <3>2. open[Len(stack)] = stack[Len(stack)].type
      BY <1>1, <3>1, TypesAre DEF open
    <3> QED
      BY <1>1, <2>3, <3>2
  <2>6. next # "colon"
    OBVIOUS
  <2> HIDE DEF next
  <2>7. ReadingNames(stack, next, object.identifier)
    BY <1>1, <2>5, <2>6 DEF ReadingNames
  <2>8. ReadingText(Append(object.read, token), open, next)
    BY <1>1, <1>2, <2>1, <2>4, PlainExpects
  <2>9. /\ DOMAIN object' = Fields /\ object'.phase = "reading"
        /\ object'.read = Append(object.read, token) /\ object'.depth = object.depth
        /\ object'.maxDepth = object.maxDepth /\ object'.scopes = stack
        /\ object'.expecting = next /\ object'.identifier = object.identifier
    BY <1>5, <2>1 DEF Fields
  <2> QED
    BY <1>6, <2>7, <2>8, <2>9 DEF open
<1>9. CASE J!Identifier(token)
  <2>1. /\ token.type = "string" /\ expecting = "identifier"
        /\ object' = [a EXCEPT !.identifier = token.value, !.expecting = "colon"]
    BY <1>9 DEF J!Identifier, a, expecting
  <2>2. token.value \in J!Names
    BY <1>3, <1>4, <2>1
  <2>3. ReadingNames(stack, "colon", token.value)
    BY <1>1, <2>2 DEF ReadingNames
  <2>4. ReadingText(Append(object.read, token), open, "colon")
    BY <1>1, <1>2, <2>1, PlainExpects
  <2>5. /\ DOMAIN object' = Fields /\ object'.phase = "reading"
        /\ object'.read = Append(object.read, token) /\ object'.depth = object.depth
        /\ object'.maxDepth = object.maxDepth /\ object'.scopes = stack
        /\ object'.expecting = "colon" /\ object'.identifier = token.value
    BY <1>5, <2>1 DEF Fields
  <2> QED
    BY <1>6, <2>3, <2>4, <2>5 DEF open
<1>10. CASE J!Value(token)
  <2> DEFINE after == J!WithMember(stack, object.identifier, token.type, token.value)
  <2>1. /\ token \in Leaves /\ expecting = "value"
        /\ object' = [a EXCEPT !.expecting = "nothing", !.scopes = after]
    <3>1. /\ token \in Leaves /\ object.expecting = "value"
          /\ object' = [a EXCEPT !.expecting = "nothing",
                            !.scopes = J!WithMember(@, object.identifier, token.type, token.value)]
      BY <1>10, Zenon DEF J!Value, a
    <3> QED
      BY <1>5, <3>1 DEF Fields, expecting
  <2>2. stack # <<>>
    BY <1>1, <1>2, <1>3, <2>1 DEF Takes
  <2>3. stack[Len(stack)].type = "OpenCurlyBracket" => object.identifier \in J!Names
    BY <1>1, <2>1, <2>2 DEF ReadingNames
  <2>4. /\ IsStack(after) /\ Len(after) = Len(stack) /\ after # <<>>
        /\ TypesOf(after) = TypesOf(stack)
        /\ \A depth \in 1 .. Len(stack) : /\ after[depth].type = stack[depth].type
                                          /\ after[depth].identifier = stack[depth].identifier
    <3>1. IsStack(stack)
      BY <1>1
    <3> QED
      BY ONLY <2>2, <2>3, <3>1, WithMemberIs
  <2> HIDE DEF after
  <2>5. ReadingNames(after, "nothing", object.identifier)
    <3>1. \A depth \in 2 .. Len(after) :
             after[depth - 1].type = "OpenCurlyBracket" => after[depth].identifier \in J!Names
      <4>1. TAKE depth \in 2 .. Len(after)
      <4>2. depth \in 1 .. Len(stack) /\ depth - 1 \in 1 .. Len(stack) /\ depth \in 2 .. Len(stack)
        BY <1>1, <2>4
      <4> QED
        BY <1>1, <2>4, <4>2 DEF ReadingNames
    <3> QED
      BY <2>4, <3>1 DEF ReadingNames
  <2>6. ReadingText(Append(object.read, token), open, "nothing")
    BY <1>1, <1>2, <2>1, PlainExpects
  <2>7. /\ DOMAIN object' = Fields /\ object'.phase = "reading"
        /\ object'.read = Append(object.read, token) /\ object'.depth = object.depth
        /\ object'.maxDepth = object.maxDepth /\ object'.scopes = after
        /\ object'.expecting = "nothing" /\ object'.identifier = object.identifier
    BY <1>5, <2>1 DEF Fields
  <2> QED
    BY <1>6, <2>4, <2>5, <2>6, <2>7 DEF open
<1> QED
  BY <1>7, <1>8, <1>9, <1>10

\* A token that is not accepted is refused.
LEMMA RefusedReads ==
    ASSUME IsJson(object), object.phase = "reading", NEW token \in J!Tokens, ~J!Accepts(token),
           object' = [J!After(token) EXCEPT !.phase = "refused", !.freed = J!Freed]
    PROVE  IsJson(object')
<1> DEFINE longer == Append(object.read, token)
           n == Len(object.read)
<1>1. /\ ReadingText(object.read, TypesOf(object.scopes), object.expecting)
      /\ object.read \in Seq(J!Tokens) /\ n \in Nat
  BY ReaderKnows
<1>2. ~Takes(token, TypesOf(object.scopes), object.expecting)
  BY AcceptsIs
<1>3. \A k \in 1 .. n : Accepted(longer, k)
  BY <1>1, TakesLegal
<1>4. ~Accepted(longer, n + 1)
  BY <1>1, <1>2, TakesLegal
<1>5. longer \in Seq(J!Tokens) /\ Len(longer) = n + 1
  BY <1>1
<1>6. DOMAIN object' = Fields /\ object'.phase = "refused" /\ object'.read = longer
  <2> DEFINE a == J!After(token)
  <2>1. DOMAIN a = Fields /\ a.read = longer
    BY AfterIs
  <2> HIDE DEF a, longer
  <2>2. object' = [a EXCEPT !.phase = "refused", !.freed = J!Freed]
    BY DEF a
  <2> QED
    BY <2>1, <2>2 DEF Fields
<1> HIDE DEF longer, n
<1>7. \A k \in 1 .. Len(longer) : Accepted(longer, k) <=> ~("refused" = "refused" /\ k = Len(longer))
  <2>1. TAKE k \in 1 .. Len(longer)
  <2>2. k = n + 1 \/ (k \in 1 .. n /\ k # n + 1)
    BY <1>1, <1>5
  <2> QED
    BY <1>3, <1>4, <1>5, <2>2
<1>8. HasRead("refused", longer, object'.object)
  BY <1>5, <1>7 DEF HasRead
<1> QED
  BY <1>6, <1>8 DEF IsJson

\* A text that breaks off was legal so far.
LEMMA UnreadReads ==
    ASSUME IsJson(object), J!Unread
    PROVE  IsJson(object')
<1>1. object.phase = "reading" /\ object' = [object EXCEPT !.phase = "unread"]
  BY Zenon DEF J!Unread
<1>2. /\ object.read \in Seq(J!Tokens)
      /\ \A k \in 1 .. Len(object.read) : Accepted(object.read, k)
  BY <1>1, ReaderKnows
<1>3. DOMAIN object' = Fields /\ object'.phase = "unread" /\ object'.read = object.read
  <2>1. DOMAIN object = Fields
    BY DEF IsJson
  <2> QED
    BY <1>1, <2>1 DEF Fields
<1>4. HasRead("unread", object.read, object'.object)
  BY <1>2 DEF HasRead
<1> QED
  BY <1>3, <1>4 DEF IsJson

\* What a token does.
LEMMA TokenReads ==
    ASSUME IsJson(object), NEW token \in J!Tokens, J!Read(token)
    PROVE  IsJson(object')
<1>1. /\ object.phase = "reading"
      /\ \/ /\ J!Accepts(token)
            /\ \/ J!OpenCurlyBracket(token) \/ J!OpenBracket(token)
               \/ J!CloseCurlyBracket(token) \/ J!CloseBracket(token)
               \/ J!Colon(token) \/ J!Comma(token) \/ J!Identifier(token) \/ J!Value(token)
         \/ /\ ~J!Accepts(token)
            /\ object' = [J!After(token) EXCEPT !.phase = "refused", !.freed = J!Freed]
  BY Zenon DEF J!Read
<1> QED
  BY ONLY <1>1, IsJson(object), token \in J!Tokens, OpenReads, CloseCurlyBracketReads,
          CloseBracketReads, PlainReads, RefusedReads, Zenon

\* A call leaves the members in the order of their names.
LEMMA BecomesInOrder ==
    ASSUME IsJson(object), NEW members, InNameOrder(members), J!Becomes(members)
    PROVE  IsJson(object')
<1>1. object.phase = "object" /\ object' = [object EXCEPT !.object = members, !.read = <<>>]
  BY DEF J!Becomes
<1>2. /\ DOMAIN object' = Fields /\ object'.phase = "object" /\ object'.read = <<>>
      /\ object'.object = members
  <2>1. DOMAIN object = Fields
    BY DEF IsJson
  <2> QED
    BY <1>1, <2>1 DEF Fields
<1>3. HasRead("object", <<>>, members)
  BY DEF HasRead
<1> QED
  BY <1>2, <1>3 DEF IsJson

LEMMA MembersInOrder ==
    ASSUME IsJson(object), object.phase = "object"
    PROVE  InNameOrder(object.object) /\ Named(object.object)
  BY DEF IsJson, HasRead, InNameOrder

LEMMA CallsInOrder ==
    ASSUME IsJson(object), J!Calls
    PROVE  IsJson(object')
<1>1. ASSUME NEW name \in J!Names, J!ObjectRemove(name)
      PROVE  IsJson(object')
  <2> DEFINE index == J!Get(object.object, name)
             left == J!S!RemoveAt(object.object, index + 1)
  <2>1. index # NULL /\ J!Becomes(left)
    BY <1>1, Zenon DEF J!ObjectRemove
  <2>2. object.phase = "object"
    BY <2>1 DEF J!Becomes
  <2>3. InNameOrder(object.object)
    BY <2>2, MembersInOrder
  <2>4. index + 1 \in DOMAIN object.object
    BY <2>1, <2>3, GetIsMember
  <2>5. DOMAIN object.object = 1 .. Len(object.object)
    BY <2>3, NamedIs DEF InNameOrder
  <2>6. InNameOrder(left)
    <3> HIDE DEF index
    <3> QED
      BY <2>3, <2>4, <2>5, RemovedInOrder
  <2> HIDE DEF left
  <2> QED
    BY <2>1, <2>6, BecomesInOrder
<1>2. ASSUME NEW name \in J!Names, NEW type, NEW value, J!ObjectAdd(name, type, value)
      PROVE  IsJson(object')
  <2> DEFINE m == [identifier |-> name, type |-> type, value |-> value]
             more == Append(object.object, m)
  <2>1. PICK members \in J!Orders(more) : J!Becomes(members)
    BY <1>2, Zenon DEF J!ObjectAdd
  <2>2. object.phase = "object"
    BY <2>1 DEF J!Becomes
  <2>3. Named(object.object) /\ IsMember(m)
    BY <2>2, MembersInOrder DEF IsMember
  <2> HIDE DEF m
  <2>4. Named(more)
    BY <2>3, NamedAppend
  <2> HIDE DEF more
  <2>5. InNameOrder(members)
    BY <2>4, OrdersAre
  <2> QED
    BY <2>1, <2>5, BecomesInOrder
<1>3. ASSUME NEW place \in DOMAIN object.object, NEW value,
             J!Becomes([object.object EXCEPT ![place].value = value])
      PROVE  IsJson(object')
  <2> DEFINE members == [object.object EXCEPT ![place].value = value]
  <2>1. object.phase = "object"
    BY <1>3 DEF J!Becomes
  <2>2. InNameOrder(members)
    BY <2>1, MembersInOrder, ChangedInOrder
  <2> HIDE DEF members
  <2> QED
    BY <1>3, <2>2, BecomesInOrder DEF members
<1>4. ASSUME NEW place \in DOMAIN object.object, NEW index,
             J!ArrayRemove(place, index)
      PROVE  IsJson(object')
  <2>1. J!Becomes([object.object EXCEPT ![place].value = J!S!RemoveAt(@, index + 1)])
    BY <1>4, Zenon DEF J!ArrayRemove
  <2> DEFINE value == J!S!RemoveAt(object.object[place].value, index + 1)
  <2>2. J!Becomes([object.object EXCEPT ![place].value = value])
    BY <2>1
  <2> HIDE DEF value
  <2> QED
    BY <1>3, <2>2
<1>5. ASSUME NEW place \in DOMAIN object.object, NEW index, NEW leaf \in Leaves,
             J!ArrayAdd(place, index, leaf)
      PROVE  IsJson(object')
  <2> DEFINE m == [identifier |-> NULL, type |-> leaf.type, value |-> leaf.value]
  <2>1. J!Becomes([object.object EXCEPT ![place].value = J!S!InsertAt(@, index + 1, m)])
    BY <1>5, Zenon DEF J!ArrayAdd
  <2> HIDE DEF m
  <2> DEFINE value == J!S!InsertAt(object.object[place].value, index + 1, m)
  <2>2. J!Becomes([object.object EXCEPT ![place].value = value])
    BY <2>1
  <2> HIDE DEF value
  <2> QED
    BY <1>3, <2>2
<1>6. \/ \E name \in J!Names :
            \/ J!ObjectRemove(name)
            \/ \E leaf \in Leaves : J!ObjectAdd(name, leaf.type, leaf.value)
            \/ \E m \in J!S!ToSet(object.object) : J!ObjectAdd(name, m.type, m.value)
      \/ \E place \in DOMAIN object.object, index \in 0 .. MaxMembers :
            \/ J!ArrayRemove(place, index)
            \/ \E leaf \in Leaves : J!ArrayAdd(place, index, leaf)
  BY Zenon DEF J!Calls
<1> QED
  BY ONLY <1>1, <1>2, <1>4, <1>5, <1>6, Zenon

LEMMA JsonStep ==
    ASSUME IsJson(object), J!Next
    PROVE  IsJson(object')
<1>1. CASE \E token \in J!Tokens : J!Read(token)
  BY <1>1, TokenReads
<1>2. CASE J!Unread
  BY <1>2, UnreadReads
<1>3. CASE J!Write
  <2>1. object' = [J!Start EXCEPT !.written = object.object, !.left = TextOf(object.object)]
    BY <1>3, Zenon DEF J!Write
  <2> DEFINE left == TextOf(object.object)
  <2> HIDE DEF left
  <2>2. object' = [J!Start EXCEPT !.written = object.object, !.left = left]
    BY <2>1 DEF left
  <2> QED
    BY <2>2, StartReads
<1>4. CASE J!Calls
  BY <1>4, CallsInOrder
<1> QED
  BY <1>1, <1>2, <1>3, <1>4 DEF J!Next

\* What the invariant says of the texts and of the search.
LEMMA JsonRight ==
    ASSUME IsJson(object)
    PROVE  J!ReadsGrammar /\ J!FindsMembers
<1> DEFINE text == object.read
<1>1. CASE object.phase = "reading"
  <2>1. /\ text \in Seq(J!Tokens) /\ \A k \in 1 .. Len(text) : Accepted(text, k)
        /\ Len(object.scopes) = object.depth /\ object.depth <= object.maxDepth
    BY <1>1, ReaderKnows
  <2>2. DOMAIN text = 1 .. Len(text)
    BY <2>1
  <2>3. \A k \in DOMAIN text : J!Legal(text, k) /\ ~J!ClosesEmpty(text, k)
    BY <2>1, <2>2, AcceptedIs
  <2>4. J!ReadsGrammar
    BY <1>1, <2>1, <2>2, <2>3 DEF J!ReadsGrammar, J!scopes
  <2>5. J!FindsMembers
    BY <1>1 DEF J!FindsMembers
  <2> QED
    BY <2>4, <2>5
<1>2. CASE object.phase # "reading"
  <2>1. HasRead(object.phase, text, object.object)
    BY <1>2 DEF IsJson
  <2>2. DOMAIN text = 1 .. Len(text)
    BY <2>1 DEF HasRead
  <2>3. J!ReadsGrammar
    <3>1. \A k \in DOMAIN text : J!Legal(text, k) /\ ~J!ClosesEmpty(text, k)
                                     <=> ~(object.phase = "refused" /\ k = Len(text))
      BY <2>1, <2>2, AcceptedIs DEF HasRead
    <3> QED
      BY <1>2, <2>1, <3>1, Zenon DEF J!ReadsGrammar, HasRead
  <2>4. J!FindsMembers
    <3>1. SUFFICES ASSUME object.phase = "object", NEW name \in J!Names
                   PROVE  LET found == J!Get(object.object, name)
                              named == { n \in DOMAIN object.object :
                                             object.object[n].identifier = name }
                          IN  IF named = {} THEN found = NULL
                              ELSE found # NULL /\ found + 1 \in named
      BY Zenon DEF J!FindsMembers
    <3> DEFINE found == J!Get(object.object, name)
               named == { n \in DOMAIN object.object : object.object[n].identifier = name }
    <3>2. InNameOrder(object.object)
      BY <3>1, MembersInOrder
    <3>3. /\ (\A n \in DOMAIN object.object : object.object[n].identifier # name) => found = NULL
          /\ (\E n \in DOMAIN object.object : object.object[n].identifier = name) =>
                /\ found \in Nat /\ found # NULL /\ found + 1 \in DOMAIN object.object
                /\ object.object[found + 1].identifier = name
      BY <3>2, GetIsMember
    <3> HIDE DEF found
    <3> QED
      BY <3>3 DEF found
  <2> QED
    BY <2>3, <2>4
<1> QED
  BY <1>1, <1>2

\* In every state the reader's invariant holds.
LEMMA JsonKept == Spec => [](which = "json" => IsJson(object))
<1> DEFINE Inv == which = "json" => IsJson(object)
<1>1. Init => Inv
  BY StartReads DEF Init, J!Init
<1>2. Inv /\ [Next]_vars => Inv'
  <2>1. CASE UNCHANGED vars
    BY <2>1, Zenon DEF vars
  <2>2. CASE Next
    BY <2>2, JsonStep DEF Next
  <2> QED
    BY <2>1, <2>2
<1> QED
  BY <1>1, <1>2, PTL DEF Spec

(* The reader of JSON takes a token exactly where the grammar allows it,    *)
(* but for the end of an empty object or array, however long and deep the   *)
(* text, and its stack of scopes never passes the depth that the tokenizer  *)
(* counted for it (JsonParser.c, lines 220-242 and 323-491).                *)
THEOREM GrammarRead == Spec => []ReadsGrammar
<1>1. (which = "json" => IsJson(object)) => ReadsGrammar
  BY JsonRight DEF ReadsGrammar
<1> QED
  BY <1>1, JsonKept, PTL

(* The search finds a member with the name it is given when the object has  *)
(* one, however it was read, written and changed and whatever the order of  *)
(* names that are equal (JsonObjectManipulations.c, lines 35-53).           *)
THEOREM MembersFound == Spec => []FindsMembers
<1>1. (which = "json" => IsJson(object)) => FindsMembers
  BY JsonRight DEF FindsMembers
<1> QED
  BY <1>1, JsonKept, PTL
=============================================================================
