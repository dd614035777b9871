---------------------------- MODULE Searches_proof ----------------------------
(***************************************************************************)
(* The ordered map and the flags of a command line are searched in their    *)
(* order.  The map is a search tree until something is removed, and is      *)
(* iterated in the order of its keys, for any number of them: Shape says    *)
(* that links hang together, by the bounds that every subtree lies between; *)
(* a rotation and a new leaf keep it.                                       *)
(***************************************************************************)
EXTENDS Lists_proof

\* The fields of the nodes, and where a node's subtree lies: between its bounds.
Links == [root : 0 .. MaxKey, fault : BOOLEAN,
          child : [O!Sides -> [O!AllKeys -> 0 .. MaxKey]],
          prev : [O!AllKeys -> 0 .. MaxKey], weight : [O!AllKeys -> Int]]
Bounds == [O!Sides -> [O!AllKeys -> 0 .. MaxKey + 1]]

\* y is on that side of x.
Beyond(side, x, y) == IF side = "left" THEN y < x ELSE x < y

\* The root is between no others, and every node between its bounds.
Rooted(K, t, b) ==
    /\ t.root \in K /\ t.prev[t.root] = 0
    /\ b["left"][t.root] = 0 /\ b["right"][t.root] = MaxKey + 1
Within(K, b) == \A k \in K : b["left"][k] < k /\ k < b["right"][k]
Ends(K, b) == \A k \in K : b["left"][k] \in K \union {0} /\ b["right"][k] \in K \union {MaxKey + 1}

\* A child has its parent for a bound, and the other of its parent's; where there is
\* no child there is no key for one.
Hanging(K, t, b) ==
    \A k \in K, s \in O!Sides :
        t.child[s][k] # 0 =>
            /\ t.child[s][k] \in K
            /\ t.prev[t.child[s][k]] = k
            /\ b[s][t.child[s][k]] = b[s][k]
            /\ b[O!Other(s)][t.child[s][k]] = k
Gaps(K, t, b) ==
    \A k \in K, s \in O!Sides, l \in K :
        t.child[s][k] = 0 => ~(Beyond(s, k, l) /\ Beyond(s, l, b[s][k]))
HangingOn(K, t) ==
    \A k \in K : k # t.root => /\ t.prev[k] \in K
                               /\ \E s \in O!Sides : t.child[s][t.prev[k]] = k

\* Of two nodes one is under the other, or they lie apart.
Nested(K, b) ==
    \A k, l \in K : k < l =>
        \/ k <= b["left"][l] /\ l < b["right"][k]
        \/ b["right"][k] <= l /\ b["left"][l] < k
        \/ b["right"][k] <= b["left"][l]

Shape(K, t, b) ==
    /\ K \subseteq O!AllKeys /\ t \in Links /\ b \in Bounds
    /\ Rooted(K, t, b) /\ HangingOn(K, t) /\ Hanging(K, t, b)
    /\ Within(K, b) /\ Ends(K, b) /\ Gaps(K, t, b) /\ Nested(K, b)

\* There are two sides, each the other of the other.
LEMMA SidesAre ==
    /\ O!Sides = {"left", "right"}
    /\ \A s \in O!Sides : O!Other(s) \in O!Sides /\ O!Other(s) # s /\ O!Other(O!Other(s)) = s
    /\ \A s, d \in O!Sides : d = s \/ d = O!Other(s)
<1>1. O!Sides = {"left", "right"} /\ "left" # "right"
  BY DEF O!Sides
<1>2. O!Other("left") = "right" /\ O!Other("right") = "left"
  BY <1>1 DEF O!Other
<1>3. ASSUME NEW s \in O!Sides
      PROVE  O!Other(s) \in O!Sides /\ O!Other(s) # s /\ O!Other(O!Other(s)) = s
  BY <1>1, <1>2
<1>4. ASSUME NEW s \in O!Sides, NEW d \in O!Sides PROVE d = s \/ d = O!Other(s)
  BY <1>1, <1>2
<1> QED
  BY <1>1, <1>3, <1>4

\* The tree after the rotation of n towards s, with what came up hung in its place.
Turned(t, n, s, new) ==
    LET up == t.child[O!Other(s)][n] IN
    /\ \A d \in O!Sides, k \in O!AllKeys :
           new.child[d][k] = IF k = n /\ d = O!Other(s) THEN t.child[s][up]
                             ELSE IF k = up /\ d = s THEN n
                             ELSE IF k = t.prev[n] /\ t.child[d][k] = n THEN up
                             ELSE t.child[d][k]
    /\ \A k \in O!AllKeys :
           new.prev[k] = IF k = up THEN t.prev[n]
                         ELSE IF k = n THEN up
                         ELSE IF k = t.child[s][up] THEN n
                         ELSE t.prev[k]
    /\ new.root = IF t.prev[n] = 0 THEN up ELSE t.root

\* A child lies beyond its parent, and between the same bounds.
LEMMA ChildOf ==
    ASSUME NEW K, NEW t, NEW b, Shape(K, t, b), NEW n \in K, NEW s \in O!Sides,
           t.child[s][n] # 0
    PROVE  /\ t.child[s][n] \in K /\ t.prev[t.child[s][n]] = n /\ Beyond(s, n, t.child[s][n])
           /\ b[s][t.child[s][n]] = b[s][n] /\ b[O!Other(s)][t.child[s][n]] = n
           /\ t.child[s][n] # n /\ t.child[s][n] # t.root
           /\ t.prev[n] # t.child[s][n] /\ t.prev[n] # n
<1> DEFINE u == t.child[s][n]
<1>1. ASSUME NEW k \in K, NEW d \in O!Sides, t.child[d][k] # 0
      PROVE  /\ b[d][t.child[d][k]] = b[d][k] /\ b[O!Other(d)][t.child[d][k]] = k
             /\ Beyond(d, k, t.child[d][k]) /\ t.child[d][k] \in K /\ t.child[d][k] # k
             /\ t.prev[t.child[d][k]] = k
  <2>1. /\ t.child[d][k] \in K /\ b[d][t.child[d][k]] = b[d][k] /\ b[O!Other(d)][t.child[d][k]] = k
        /\ t.prev[t.child[d][k]] = k
    BY <1>1 DEF Shape, Hanging
  <2>2. t.child[d][k] \in Int /\ k \in Int
    BY <2>1 DEF Shape, O!AllKeys
  <2>3. \/ d = "left" /\ O!Other(d) = "right"
        \/ d = "right" /\ O!Other(d) = "left"
    BY DEF O!Sides, O!Other
  <2>4. Beyond(d, k, t.child[d][k])
    BY <2>1, <2>2, <2>3 DEF Shape, Within, Beyond
  <2> QED
    BY <2>1, <2>2, <2>4 DEF Beyond
<1>2. /\ u \in K /\ t.prev[u] = n /\ Beyond(s, n, u) /\ u # n
      /\ b[s][u] = b[s][n] /\ b[O!Other(s)][u] = n
  BY <1>1
<1> HIDE DEF u
<1>3. n \in Int /\ u \in Int /\ n # 0
  <2>1. \A k \in K : k \in Int /\ k # 0
    BY DEF Shape, O!AllKeys
  <2> QED
    BY <1>2, <2>1
<1>4. u # t.root
  BY <1>2, <1>3 DEF Shape, Rooted
<1>5. t.prev[n] # u /\ t.prev[n] # n
  <2>1. SUFFICES ASSUME t.prev[n] \in {u, n} PROVE FALSE
    OBVIOUS
  <2>2. n # t.root
    BY <1>2, <1>3, <2>1 DEF Shape, Rooted, O!AllKeys
  <2>3. PICK d \in O!Sides : t.child[d][t.prev[n]] = n
    BY <2>2 DEF Shape, HangingOn
  <2>4. t.prev[n] = u /\ Beyond(d, u, n) /\ b[d][n] = b[d][u]
    BY <1>1, <1>2, <1>3, <2>1, <2>3
  <2>5. d = O!Other(s)
    BY <1>2, <1>3, <2>4 DEF Beyond, O!Sides, O!Other
  <2>6. b[d][n] = n
    BY <1>2, <2>4, <2>5
  <2> QED
    BY <1>3, <2>6, SidesAre DEF Shape, Within
<1> QED
  BY <1>2, <1>4, <1>5 DEF u

\* A rotation keeps the shape, and what comes up gets the bounds of the node.
LEMMA Turn ==
    ASSUME NEW K, NEW t, NEW b, Shape(K, t, b), NEW n \in K, NEW s \in O!Sides,
           t.child[O!Other(s)][n] # 0, NEW new \in Links, Turned(t, n, s, new)
    PROVE  \E c : /\ Shape(K, new, c)
                  /\ \A d \in O!Sides : c[d][t.child[O!Other(s)][n]] = b[d][n]
                  /\ \A d \in O!Sides, k \in K :
                         k # n /\ k # t.child[O!Other(s)][n] => c[d][k] = b[d][k]
<1> DEFINE o == O!Other(s)
           u == t.child[o][n]
           m == t.child[s][u]
           q == t.prev[n]
           c == [b EXCEPT ![o][n] = u, ![s][u] = b[s][n]]
<1>0. o \in O!Sides /\ o # s /\ O!Other(o) = s /\ O!Other(s) = o
  BY SidesAre
<1>1. /\ u \in K /\ u # n /\ t.prev[u] = n /\ Beyond(s, u, n)
      /\ b[s][u] = n /\ b[o][u] = b[o][n]
      /\ q # u /\ q # n /\ u # t.root
      /\ m = 0 \/ /\ m \in K /\ t.prev[m] = u /\ b[s][m] = n /\ b[o][m] = u
                  /\ m # n /\ m # u /\ m # t.root
  <2>1. /\ u \in K /\ u # n /\ t.prev[u] = n /\ Beyond(o, n, u)
        /\ b[s][u] = n /\ b[o][u] = b[o][n]
        /\ q # u /\ q # n /\ u # t.root
    <3>1. t.child[o][n] # 0
      OBVIOUS
    <3> HIDE DEF o, m
    <3> QED
      BY <1>0, <3>1, ChildOf
  <2>2. ASSUME NEW x, NEW y, Beyond(o, x, y) PROVE Beyond(s, y, x)
    BY <2>2 DEF Beyond, O!Other, O!Sides
  <2> HIDE DEF u, o, q
  <2>3. ASSUME m # 0
        PROVE  /\ m \in K /\ t.prev[m] = u /\ b[s][m] = n /\ b[o][m] = u
               /\ m # n /\ m # u /\ m # t.root
    BY <1>0, <2>1, <2>3, ChildOf
  <2> QED
    BY <2>1, <2>2, <2>3
<1>2. K \subseteq O!AllKeys /\ t \in Links /\ b \in Bounds
  BY DEF Shape
<1>3. u \in Int /\ n \in Int /\ u # 0 /\ n # 0 /\ n \in O!AllKeys /\ u \in O!AllKeys /\ 0 \notin K
  <2>1. n \in O!AllKeys /\ u \in O!AllKeys
    BY <1>1, <1>2
  <2>2. \A k \in O!AllKeys : k \in Int /\ k # 0
    BY DEF O!AllKeys
  <2>3. 0 \notin K
    BY <1>2, <2>2
  <2> HIDE DEF u
  <2> QED
    BY <2>1, <2>2, <2>3
<1>4. /\ c \in Bounds
      /\ \A d \in O!Sides, k \in O!AllKeys :
             c[d][k] = IF d = o /\ k = n THEN u ELSE IF d = s /\ k = u THEN b[s][n] ELSE b[d][k]
  <2>1. u \in 0 .. MaxKey + 1 /\ b[s][n] \in 0 .. MaxKey + 1
    BY <1>2, <1>3, TreeAssumption DEF Bounds, O!AllKeys
  <2> HIDE DEF u, o
  <2> QED
    BY <1>0, <1>2, <1>3, <2>1 DEF Bounds
<1> HIDE DEF c
<1>5. /\ \A d \in O!Sides, k \in O!AllKeys :
             new.child[d][k] = IF k = n /\ d = o THEN m
                               ELSE IF k = u /\ d = s THEN n
                               ELSE IF k = q /\ t.child[d][k] = n THEN u
                               ELSE t.child[d][k]
      /\ \A k \in O!AllKeys :
             new.prev[k] = IF k = u THEN q ELSE IF k = n THEN u ELSE IF k = m THEN n ELSE t.prev[k]
      /\ new.root = IF q = 0 THEN u ELSE t.root
  BY DEF Turned
<1> HIDE DEF o, u, m, q
<1>17. u = t.child[o][n] /\ m = t.child[s][u] /\ q = t.prev[n]
  BY DEF o, u, m, q
<1>6. \A k \in K : b["left"][k] \in Int /\ b["right"][k] \in Int /\ k \in Int
  BY <1>2, SidesAre, TreeAssumption DEF Bounds, O!AllKeys
<1>7. \A k \in K : b["left"][k] < k /\ k < b["right"][k]
  BY DEF Shape, Within
<1>8. Within(K, c)
  <2>1. CASE s = "left"
    <3>1. o = "right"
      BY <2>1 DEF o, O!Other
    <3> QED
      BY <1>1, <1>0, <1>2, <1>4, <1>6, <1>7, <2>1, <3>1 DEF Within, Beyond
  <2>2. CASE s = "right"
    <3>1. o = "left"
      BY <2>2 DEF o, O!Other
    <3> QED
      BY <1>1, <1>0, <1>2, <1>4, <1>6, <1>7, <2>2, <3>1 DEF Within, Beyond
  <2> QED
    BY <2>1, <2>2, SidesAre
<1>9. Rooted(K, new, c)
  <2>1. t.root \in K /\ t.prev[t.root] = 0 /\ b["left"][t.root] = 0 /\ b["right"][t.root] = MaxKey + 1
    BY DEF Shape, Rooted
  <2>2. n = t.root <=> q = 0
    BY <1>3, <1>17, <2>1 DEF Shape, HangingOn
  <2>3. \A d \in O!Sides : c[d][u] = b[d][n]
    BY <1>0, <1>1, <1>3, <1>4, SidesAre
  <2>4. CASE q = 0
    BY <1>1, <1>2, <1>3, <1>5, <2>1, <2>2, <2>3, <2>4, SidesAre DEF Rooted
  <2>5. CASE q # 0
    <3>1. new.root = t.root /\ t.root # n /\ t.root # u /\ t.root # m
      BY <1>1, <1>3, <1>5, <2>1, <2>2, <2>5
    <3>2. t.root \in O!AllKeys
      BY <1>2, <2>1
    <3>3. new.prev[t.root] = 0
      BY <1>5, <2>1, <3>1, <3>2
    <3>4. \A d \in O!Sides : c[d][t.root] = b[d][t.root]
      BY <1>4, <3>1, <3>2
    <3> QED
      BY <2>1, <3>1, <3>3, <3>4, SidesAre DEF Rooted
  <2> QED
    BY <2>4, <2>5
<1>10. HangingOn(K, new)
  <2>1. SUFFICES ASSUME NEW k \in K, k # new.root
                 PROVE  new.prev[k] \in K /\ \E d \in O!Sides : new.child[d][new.prev[k]] = k
    BY DEF HangingOn
  <2>2. k \in O!AllKeys
    BY <1>2
  <2>3. CASE k = u
    <3>1. q # 0 /\ new.prev[k] = q
      BY <1>5, <2>1, <2>2, <2>3
    <3>2. n # t.root
      BY <1>17, <3>1 DEF Shape, Rooted
    <3>3. q \in K /\ \E d \in O!Sides : t.child[d][q] = n
      BY <1>17, <3>2 DEF Shape, HangingOn
    <3>4. PICK d \in O!Sides : t.child[d][q] = n
      BY <3>3
    <3>5. q \in O!AllKeys /\ q # n /\ q # u
      BY <1>1, <1>2, <3>3
    <3>6. new.child[d][q] = u
      BY <1>5, <3>4, <3>5
    <3> QED
      BY <2>3, <3>1, <3>3, <3>6
  <2>4. CASE k = n
    <3>1. new.prev[k] = u /\ new.child[s][u] = n
      BY <1>1, <1>3, <1>5, <2>2, <2>4
    <3> QED
      BY <1>1, <2>4, <3>1
  <2>5. CASE k = m
    <3>1. m # n /\ m # u
      BY <1>1, <1>3, <2>5
    <3>2. new.prev[k] = n /\ new.child[o][n] = m
      BY <1>0, <1>3, <1>5, <2>2, <2>5, <3>1
    <3> QED
      BY <1>0, <2>5, <3>2
  <2>6. CASE k \notin {u, n, m}
    <3>1. k # t.root
      <4>1. SUFFICES ASSUME k = t.root PROVE FALSE
        OBVIOUS
      <4>2. t.root # n /\ new.root # t.root
        BY <2>1, <2>6, <4>1
      <4>3. q = 0
        BY <1>5, <4>2
      <4>4. n \in K /\ n # t.root => t.prev[n] \in K
        BY DEF Shape, HangingOn
      <4> QED
        BY <1>3, <1>17, <4>2, <4>3, <4>4
    <3>2. t.prev[k] \in K /\ \E d \in O!Sides : t.child[d][t.prev[k]] = k
      BY <3>1 DEF Shape, HangingOn
    <3>3. PICK d \in O!Sides : t.child[d][t.prev[k]] = k
      BY <3>2
    <3>4. new.prev[k] = t.prev[k]
      BY <1>5, <2>2, <2>6
    <3>5. t.prev[k] \in O!AllKeys
      BY <1>2, <3>2
    <3>6. new.child[d][t.prev[k]] = k
      <4> DEFINE p == t.prev[k]
      <4>1. ~(p = n /\ d = o) /\ ~(p = u /\ d = s) /\ t.child[d][p] # n /\ t.child[d][p] = k
        BY <1>17, <2>6, <3>3
      <4>2. p \in O!AllKeys
        BY <3>5
      <4> HIDE DEF p
      <4>3. new.child[d][p] = k
        BY <1>5, <4>1, <4>2
      <4> QED
        BY <4>3 DEF p
    <3> QED
      BY <3>2, <3>4, <3>6
  <2> QED
    BY <2>3, <2>4, <2>5, <2>6
<1>11. ASSUME NEW k \in K, NEW d \in O!Sides, ~(k = n /\ d = o), ~(k = u /\ d = s)
       PROVE  c[d][k] = b[d][k]
  BY <1>2, <1>4, <1>11
<1>12. Hanging(K, new, c)
  <2>1. SUFFICES ASSUME NEW k \in K, NEW d \in O!Sides, new.child[d][k] # 0
                 PROVE  LET x == new.child[d][k] IN
                        x \in K /\ new.prev[x] = k /\ c[d][x] = c[d][k] /\ c[O!Other(d)][x] = k
    BY DEF Hanging
  <2>2. k \in O!AllKeys
    BY <1>2
  <2>3. CASE k = n /\ d = o
    <3>1. new.child[d][k] = m /\ m # 0
      BY <1>5, <2>1, <2>2, <2>3
    <3>2. m \in K /\ m # n /\ m # u /\ b[s][m] = n /\ b[o][m] = u
      BY <1>1, <3>1
    <3>3. new.prev[m] = n
      BY <1>2, <1>5, <3>2
    <3>4. c[o][m] = u /\ c[s][m] = n /\ c[o][n] = u
      BY <1>0, <1>3, <1>4, <1>11, <3>2
    <3> QED
      BY <1>0, <2>3, <3>1, <3>2, <3>3, <3>4
  <2>4. CASE k = u /\ d = s
    <3>1. new.child[d][k] = n /\ new.prev[n] = u
      BY <1>1, <1>3, <1>5, <2>2, <2>4
    <3>2. c[s][n] = b[s][n] /\ c[s][u] = b[s][n] /\ c[o][n] = u
      BY <1>0, <1>1, <1>3, <1>4
    <3> QED
      BY <1>0, <2>4, <3>1, <3>2
  <2>5. CASE k = q /\ t.child[d][k] = n
    <3>1. k # n /\ k # u
      BY <1>1, <2>5
    <3>2. new.child[d][k] = u /\ new.prev[u] = k
      BY <1>3, <1>5, <2>2, <2>5, <3>1
    <3>3. b[d][n] = b[d][k] /\ b[O!Other(d)][n] = k
      BY <1>3, <2>5 DEF Shape, Hanging
    <3>4. \A e \in O!Sides : c[e][u] = b[e][n]
      BY <1>0, <1>1, <1>3, <1>4, SidesAre
    <3>5. c[d][k] = b[d][k]
      BY <1>11, <3>1
    <3> QED
      BY <1>1, <3>2, <3>3, <3>4, <3>5, SidesAre
  <2>6. CASE ~(k = n /\ d = o) /\ ~(k = u /\ d = s) /\ ~(k = q /\ t.child[d][k] = n)
    <3> DEFINE x == t.child[d][k]
    <3>1. new.child[d][k] = x /\ x # 0
      BY <1>5, <2>1, <2>2, <2>6
    <3>2. x \in K /\ t.prev[x] = k /\ b[d][x] = b[d][k] /\ b[O!Other(d)][x] = k
      BY <3>1 DEF Shape, Hanging
    <3>3. x # n
      BY <1>17, <2>6, <3>2
    <3>4. x # u
      <4>1. SUFFICES ASSUME x = u PROVE FALSE
        OBVIOUS
      <4>2. k = n
        BY <1>1, <3>2, <4>1
      <4>5. d = s
        BY <2>6, <4>2, SidesAre DEF o
      <4>3. b[s][u] = b[s][n]
        BY <3>2, <4>1, <4>2, <4>5
      <4>4. b[s][n] # n
        BY <1>3, SidesAre DEF Shape, Within
      <4> QED
        BY <1>1, <4>3, <4>4
    <3>5. x # m
      <4>1. SUFFICES ASSUME x = m PROVE FALSE
        OBVIOUS
      <4>2. m # 0 /\ k = u /\ d = o
        BY <1>1, <2>6, <3>1, <3>2, <4>1, SidesAre
      <4>3. b[o][u] = u
        BY <1>1, <3>2, <4>1, <4>2
      <4>4. b[o][u] # u
        BY <1>0, <1>1, <1>3, SidesAre DEF Shape, Within
      <4> QED
        BY <4>3, <4>4
    <3> HIDE DEF x
    <3>6. new.prev[x] = k
      BY <1>2, <1>5, <3>2, <3>3, <3>4, <3>5
    <3>7. c[d][x] = b[d][x] /\ c[O!Other(d)][x] = b[O!Other(d)][x] /\ c[d][k] = b[d][k]
      BY <1>11, <2>6, <3>2, <3>3, <3>4, SidesAre
    <3> QED
      BY <3>1, <3>2, <3>6, <3>7
  <2> QED
    BY <2>3, <2>4, <2>5, <2>6
<1>13. Gaps(K, new, c)
  <2>1. SUFFICES ASSUME NEW k \in K, NEW d \in O!Sides, NEW l \in K, new.child[d][k] = 0,
                        Beyond(d, k, l), Beyond(d, l, c[d][k])
                 PROVE  FALSE
    BY DEF Gaps
  <2>2. k \in O!AllKeys
    BY <1>2
  <2>3. CASE k = n /\ d = o
    <3>1. m = 0 /\ c[d][k] = u
      BY <1>3, <1>4, <1>5, <2>1, <2>2, <2>3
    <3>2. ~(Beyond(s, u, l) /\ Beyond(s, l, b[s][u]))
      BY <1>1, <1>17, <3>1 DEF Shape, Gaps
    <3>3. Beyond(s, u, l) /\ Beyond(s, l, n)
      <4>1. Beyond(o, n, l) /\ Beyond(o, l, u)
        BY <2>1, <2>3, <3>1
      <4>2. ASSUME NEW x, NEW y, Beyond(o, x, y) PROVE Beyond(s, y, x)
        BY <4>2 DEF o, Beyond, O!Other, O!Sides
      <4> QED
        BY <4>1, <4>2
    <3> QED
      BY <1>1, <3>2, <3>3
  <2>4. CASE k = u /\ d = s
    BY <1>3, <1>5, <2>1, <2>2, <2>4, <1>1
  <2>5. CASE ~(k = n /\ d = o) /\ ~(k = u /\ d = s)
    <3>1. t.child[d][k] = 0
      BY <1>3, <1>5, <2>1, <2>2, <2>5
    <3>2. c[d][k] = b[d][k]
      BY <1>11, <2>5
    <3> QED
      BY <2>1, <3>1, <3>2 DEF Shape, Gaps
  <2> QED
    BY <2>3, <2>4, <2>5
<1>14. Nested(K, c)
  <2>1. \A k, l \in K : k < l =>
          \/ k <= b["left"][l] /\ l < b["right"][k]
          \/ b["right"][k] <= l /\ b["left"][l] < k
          \/ b["right"][k] <= b["left"][l]
    BY DEF Shape, Nested
  <2>2. CASE s = "left"
    <3>1. o = "right"
      BY <2>2 DEF o, O!Other
    <3>2. n < u /\ b["left"][u] = n /\ b["right"][u] = b["right"][n]
      BY <1>1, <2>2, <3>1 DEF Beyond
    <3>3. \A k \in K : /\ c["right"][k] = IF k = n THEN u ELSE b["right"][k]
                       /\ c["left"][k] = IF k = u THEN b["left"][n] ELSE b["left"][k]
      BY <1>2, <1>4, <2>2, <3>1, SidesAre
    <3> QED
      BY <1>1, <1>6, <1>7, <2>1, <3>2, <3>3 DEF Nested
  <2>3. CASE s = "right"
    <3>1. o = "left"
      BY <2>3 DEF o, O!Other
    <3>2. u < n /\ b["right"][u] = n /\ b["left"][u] = b["left"][n]
      BY <1>1, <2>3, <3>1 DEF Beyond
    <3>3. \A k \in K : /\ c["left"][k] = IF k = n THEN u ELSE b["left"][k]
                       /\ c["right"][k] = IF k = u THEN b["right"][n] ELSE b["right"][k]
      BY <1>2, <1>4, <2>3, <3>1, SidesAre
    <3> QED
      BY <1>1, <1>6, <1>7, <2>1, <3>2, <3>3 DEF Nested
  <2> QED
    BY <2>2, <2>3, SidesAre
<1>15. \A d \in O!Sides : c[d][u] = b[d][n]
  BY <1>0, <1>1, <1>3, <1>4, SidesAre
<1>18. Ends(K, c)
  <2>1. ASSUME NEW d \in O!Sides, NEW e, b[d][n] \in K \union {e}, NEW k \in K, b[d][k] \in K \union {e}
        PROVE  c[d][k] \in K \union {e}
    BY <1>0, <1>1, <1>2, <1>4, <2>1
  <2>2. \A k \in K : b["left"][k] \in K \union {0} /\ b["right"][k] \in K \union {MaxKey + 1}
    BY DEF Shape, Ends
  <2> QED
    BY <2>1, <2>2, SidesAre DEF Ends
<1>16. Shape(K, new, c)
  BY <1>2, <1>4, <1>8, <1>9, <1>10, <1>12, <1>13, <1>14, <1>18 DEF Shape
<1>19. \A d \in O!Sides, k \in K : k # n /\ k # u => c[d][k] = b[d][k]
  BY <1>11
<1> QED
  BY <1>15, <1>16, <1>19 DEF u, o

-----------------------------------------------------------------------------
\* What the assignments of a rotation do to the fields.
LEMMA ChildSet ==
    ASSUME NEW t \in Links, NEW s \in O!Sides, NEW n \in O!AllKeys, NEW x \in 0 .. MaxKey
    PROVE  LET w == O!WithChild(t, s, n, x) IN
           /\ w \in Links /\ w.root = t.root /\ w.fault = t.fault
           /\ w.prev = t.prev /\ w.weight = t.weight
           /\ \A d \in O!Sides, k \in O!AllKeys :
                  w.child[d][k] = IF d = s /\ k = n THEN x ELSE t.child[d][k]
<1> DEFINE w == O!WithChild(t, s, n, x)
<1>1. w = [t EXCEPT !.child[s][n] = x]
  BY DEF O!WithChild
<1>2. t.child \in [O!Sides -> [O!AllKeys -> 0 .. MaxKey]]
  BY DEF Links
<1> DEFINE y == [t.child EXCEPT ![s][n] = x]
<1>3. /\ y \in [O!Sides -> [O!AllKeys -> 0 .. MaxKey]]
      /\ \A d \in O!Sides, k \in O!AllKeys :
             y[d][k] = IF d = s /\ k = n THEN x ELSE t.child[d][k]
  BY <1>2
<1>4. w.child = y
  BY <1>1 DEF Links
<1> HIDE DEF y
<1>5. w \in Links /\ w.root = t.root /\ w.fault = t.fault /\ w.prev = t.prev /\ w.weight = t.weight
  BY <1>1, <1>3, <1>4 DEF Links
<1> QED
  BY <1>3, <1>4, <1>5

LEMMA PrevSet ==
    ASSUME NEW t \in Links, NEW n \in 0 .. MaxKey, NEW x \in 0 .. MaxKey
    PROVE  LET w == O!WithPrev(t, n, x) IN
           /\ w \in Links /\ w.root = t.root /\ w.fault = t.fault
           /\ w.child = t.child /\ w.weight = t.weight
           /\ \A k \in O!AllKeys : w.prev[k] = IF k = n THEN x ELSE t.prev[k]
<1> DEFINE w == O!WithPrev(t, n, x)
<1>1. CASE n = 0
  BY <1>1 DEF O!WithPrev, O!AllKeys
<1>2. CASE n # 0
  <2>1. n \in O!AllKeys
    BY <1>2, TreeAssumption DEF O!AllKeys
  <2>2. w = [t EXCEPT !.prev[n] = x]
    BY <1>2 DEF O!WithPrev
  <2> QED
    BY <2>1, <2>2 DEF Links
<1> QED
  BY <1>1, <1>2

LEMMA WeightSet ==
    ASSUME NEW t \in Links, NEW n \in O!AllKeys, NEW x \in Int
    PROVE  LET w == O!Weighed(t, n, x) IN
           /\ w \in Links /\ w.root = t.root /\ w.fault = t.fault
           /\ w.child = t.child /\ w.prev = t.prev
           /\ \A k \in O!AllKeys : w.weight[k] = IF k = n THEN x ELSE t.weight[k]
BY DEF O!Weighed, Links

LEMMA LinkSet ==
    ASSUME NEW t \in Links, NEW s \in O!Sides, NEW n \in O!AllKeys, NEW x \in 0 .. MaxKey
    PROVE  LET w == O!Linked(t, s, n, x) IN
           /\ w \in Links /\ w.root = t.root /\ w.fault = t.fault /\ w.weight = t.weight
           /\ \A k \in O!AllKeys : w.prev[k] = IF k = x THEN n ELSE t.prev[k]
           /\ \A d \in O!Sides, k \in O!AllKeys :
                  w.child[d][k] = IF d = s /\ k = n THEN x ELSE t.child[d][k]
<1> DEFINE w == O!Linked(t, s, n, x)
           y == O!WithChild(t, s, n, x)
<1>1. /\ y \in Links /\ y.root = t.root /\ y.fault = t.fault
      /\ y.prev = t.prev /\ y.weight = t.weight
      /\ \A d \in O!Sides, k \in O!AllKeys :
             y.child[d][k] = IF d = s /\ k = n THEN x ELSE t.child[d][k]
  BY ChildSet
<1>2. w = O!WithPrev(y, x, n) /\ n \in 0 .. MaxKey
  BY TreeAssumption DEF O!Linked, O!AllKeys
<1> HIDE DEF y
<1>3. /\ w \in Links /\ w.root = y.root /\ w.fault = y.fault
      /\ w.child = y.child /\ w.weight = y.weight
      /\ \A k \in O!AllKeys : w.prev[k] = IF k = x THEN n ELSE y.prev[k]
  <2>1. y \in Links /\ n \in 0 .. MaxKey /\ x \in 0 .. MaxKey /\ w = O!WithPrev(y, x, n)
    BY <1>1, <1>2
  <2> QED
    BY ONLY <2>1, PrevSet
<1> QED
  BY <1>1, <1>3

\* What hangs in the place of a node whose links lead to it from above.
LEMMA HangSet ==
    ASSUME NEW t \in Links, NEW q \in 0 .. MaxKey, NEW n, NEW x \in 0 .. MaxKey,
           q # 0 => t.child["left"][q] = n \/ t.child["right"][q] = n,
           q # 0 => t.child["left"][q] # n \/ t.child["right"][q] # n
    PROVE  LET w == O!Hung(t, q, n, x) IN
           /\ w \in Links /\ w.fault = t.fault /\ w.weight = t.weight /\ w.prev = t.prev
           /\ w.root = IF q = 0 THEN x ELSE t.root
           /\ \A d \in O!Sides, k \in O!AllKeys :
                  w.child[d][k] = IF k = q /\ t.child[d][k] = n THEN x ELSE t.child[d][k]
<1> DEFINE w == O!Hung(t, q, n, x)
<1>1. CASE q = 0
  <2>1. w = [t EXCEPT !.root = x]
    BY <1>1 DEF O!Hung
  <2>2. 0 \notin O!AllKeys
    BY DEF O!AllKeys
  <2> QED
    BY <1>1, <2>1, <2>2 DEF Links
<1>2. CASE q # 0
  <2> DEFINE s == IF t.child["left"][q] = n THEN "left" ELSE "right"
  <2>1. w = O!WithChild(t, s, q, x)
    BY <1>2 DEF O!Hung
  <2>2. q \in O!AllKeys /\ s \in O!Sides
    BY <1>2, TreeAssumption, SidesAre DEF O!AllKeys
  <2>3. \A d \in O!Sides : t.child[d][q] = n <=> d = s
    BY <1>2, SidesAre
  <2> HIDE DEF s, w
  <2>4. /\ w \in Links /\ w.fault = t.fault /\ w.weight = t.weight /\ w.prev = t.prev
        /\ w.root = t.root
        /\ \A d \in O!Sides, k \in O!AllKeys :
               w.child[d][k] = IF d = s /\ k = q THEN x ELSE t.child[d][k]
    BY ONLY <2>1, <2>2, ChildSet, t \in Links, x \in 0 .. MaxKey
  <2>5. ASSUME NEW d \in O!Sides, NEW k \in O!AllKeys
        PROVE  w.child[d][k] = IF k = q /\ t.child[d][k] = n THEN x ELSE t.child[d][k]
    BY <2>3, <2>4
  <2> QED
    BY <1>2, <2>4, <2>5 DEF w
<1> QED
  BY <1>1, <1>2

\* The weight of a node leads to a child.
Leads(t, k) == \A s \in O!Sides : t.weight[k] * O!Sign(s) > 0 => t.child[s][k] # 0

\* The signs of the sides differ.
LEMMA Signs ==
    ASSUME NEW s \in O!Sides
    PROVE  /\ O!Sign(s) \in {1, -1} /\ O!Sign(O!Other(s)) = -O!Sign(s)
           /\ \A d \in O!Sides : O!Sign(d) = O!Sign(s) => d = s
           /\ \A x \in Int : /\ O!Sign(s) = 1 => x * O!Sign(s) = x
                            /\ O!Sign(s) = -1 => x * O!Sign(s) = -x
<1>1. O!Sign("left") = -1 /\ O!Sign("right") = 1
  BY SidesAre DEF O!Sign
<1>2. O!Other("left") = "right" /\ O!Other("right") = "left"
  BY SidesAre DEF O!Other
<1>3. O!Sign(s) \in {1, -1} /\ O!Sign(O!Other(s)) = -O!Sign(s)
  BY <1>1, <1>2, SidesAre
<1>4. ASSUME NEW d \in O!Sides, O!Sign(d) = O!Sign(s) PROVE d = s
  BY <1>1, <1>4, SidesAre
<1>5. ASSUME NEW x \in Int
      PROVE  (O!Sign(s) = 1 => x * O!Sign(s) = x) /\ (O!Sign(s) = -1 => x * O!Sign(s) = -x)
  BY <1>5
<1> QED
  BY <1>3, <1>4, <1>5

\* A node that is hung has one link to it from above.
LEMMA OneLink ==
    ASSUME NEW K, NEW t, NEW b, Shape(K, t, b), NEW n \in K, t.prev[n] # 0
    PROVE  /\ t.prev[n] \in K
           /\ t.child["left"][t.prev[n]] = n \/ t.child["right"][t.prev[n]] = n
           /\ t.child["left"][t.prev[n]] # n \/ t.child["right"][t.prev[n]] # n
<1> DEFINE q == t.prev[n]
<1>1. n # t.root
  BY DEF Shape, Rooted
<1>2. q \in K /\ \E s \in O!Sides : t.child[s][q] = n
  BY <1>1 DEF Shape, HangingOn
<1>3. n \in Int /\ n # 0 /\ q \in Int
  <2>1. n \in O!AllKeys /\ q \in O!AllKeys
    BY <1>2, Zenon DEF Shape
  <2> HIDE DEF q
  <2> QED
    BY ONLY <2>1 DEF O!AllKeys
<1>4. ~(t.child["left"][q] = n /\ t.child["right"][q] = n)
  <2>1. SUFFICES ASSUME t.child["left"][q] = n, t.child["right"][q] = n PROVE FALSE
    OBVIOUS
  <2>2. b["left"][n] = q /\ b["left"][n] = b["left"][q]
    BY <1>2, <1>3, <2>1, SidesAre DEF Shape, Hanging, O!Other
  <2>3. b["left"][q] < q
    BY <1>2 DEF Shape, Within
  <2> QED
    BY <1>3, <2>2, <2>3
<1> QED
  BY <1>2, <1>4, SidesAre

\* A single rotation is one of the node.
LEMMA OnceTurns ==
    ASSUME NEW K, NEW t, NEW b, Shape(K, t, b), NEW n \in K, NEW s \in O!Sides,
           NEW u, u = t.child[O!Other(s)][n], u # 0, t.weight[u] * O!Sign(s) <= 0,
           NEW new, new = O!HungRotated(t, n, s, t.prev[n], n)
    PROVE  /\ O!Top(t, n, s) = u
           /\ new \in Links /\ new.fault = t.fault /\ Turned(t, n, s, new) /\ Leads(new, u)
<1> DEFINE o == O!Other(s)
           m == t.child[s][u]
           q == t.prev[n]
           lean == IF t.weight[u] = 0 THEN O!Sign(o) ELSE 0
           t1 == O!WithPrev(t, u, q)
           t2 == O!Linked(t1, o, n, m)
           t3 == O!Linked(t2, s, u, n)
           t4 == O!Weighed(t3, n, lean)
           t5 == O!Weighed(t4, u, -lean)
<1>0. o \in O!Sides /\ o # s /\ O!Other(o) = s
  BY SidesAre
<1>1. /\ u \in K /\ u # n /\ q # u /\ q # n
      /\ m # 0 => m # n /\ m # u /\ m \in K
  <2>1. u \in K /\ u # n /\ t.prev[n] # u /\ q # n /\ t.prev[u] = n
    <3>1. t.child[o][n] # 0 /\ u = t.child[o][n]
      OBVIOUS
    <3> HIDE DEF o, m
    <3> QED
      BY <1>0, <3>1, ChildOf
  <2>2. ASSUME m # 0 PROVE m # n /\ m # u /\ m \in K
    BY <2>1, <2>2, ChildOf
  <2> QED
    BY <2>1, <2>2
<1>2. K \subseteq O!AllKeys /\ t \in Links
  BY DEF Shape
<1>3. /\ n \in O!AllKeys /\ u \in O!AllKeys /\ o \in O!Sides /\ o # s
      /\ u \in 0 .. MaxKey /\ n \in 0 .. MaxKey /\ 0 \notin O!AllKeys
  <2>1. n \in O!AllKeys /\ u \in O!AllKeys /\ o \in O!Sides /\ o # s
    BY <1>1, <1>2, SidesAre
  <2>2. O!AllKeys \subseteq 0 .. MaxKey /\ 0 \notin O!AllKeys
    BY TreeAssumption DEF O!AllKeys
  <2> HIDE DEF o
  <2> QED
    BY <2>1, <2>2
<1>4. m \in 0 .. MaxKey /\ q \in 0 .. MaxKey /\ t.weight[u] \in Int
  BY <1>2, <1>3 DEF Links
<1>5. lean \in Int /\ -lean \in Int
  BY <1>3, Signs
<1>6. new = O!Hung(t5, q, n, u) /\ O!Top(t, n, s) = u
  <2>1. O!Raised(t, n, s) = u
    BY DEF O!Raised
  <2>2. O!Top(t, n, s) = u
    BY <2>1 DEF O!Top
  <2>3. t1 = [t EXCEPT !.prev[u] = t.prev[n]]
    BY DEF O!WithPrev
  <2>4. O!RotateOnce(t, n, s) = t5
    BY ONLY <2>1, <2>3, Zenon DEF O!RotateOnce, t2, t3, t4, t5, lean, m, o
  <2>5. O!Rotate(t, n, s) = t5
    BY <2>1, <2>4 DEF O!Rotate
  <2> QED
    BY <2>2, <2>5 DEF O!HungRotated
<1>17. /\ t1 = O!WithPrev(t, u, q) /\ t2 = O!Linked(t1, o, n, m) /\ t3 = O!Linked(t2, s, u, n)
       /\ t4 = O!Weighed(t3, n, lean) /\ t5 = O!Weighed(t4, u, -lean) /\ s \in O!Sides
  BY Zenon
<1> HIDE DEF o, m, q, lean, t1, t2, t3, t4, t5
<1>7. /\ t1 \in Links /\ t1.root = t.root /\ t1.fault = t.fault /\ t1.child = t.child
      /\ \A k \in O!AllKeys : t1.prev[k] = IF k = u THEN q ELSE t.prev[k]
  <2>1. t \in Links /\ u \in 0 .. MaxKey /\ q \in 0 .. MaxKey /\ t1 = O!WithPrev(t, u, q)
    BY <1>2, <1>3, <1>4, <1>17
  <2> QED
    BY ONLY <2>1, PrevSet
<1>8. /\ t2 \in Links /\ t2.root = t1.root /\ t2.fault = t1.fault
      /\ \A k \in O!AllKeys : t2.prev[k] = IF k = m THEN n ELSE t1.prev[k]
      /\ \A d \in O!Sides, k \in O!AllKeys :
             t2.child[d][k] = IF d = o /\ k = n THEN m ELSE t1.child[d][k]
  <2>1. /\ t1 \in Links /\ o \in O!Sides /\ n \in O!AllKeys /\ m \in 0 .. MaxKey
        /\ t2 = O!Linked(t1, o, n, m)
    BY <1>3, <1>4, <1>7, <1>17
  <2> QED
    BY ONLY <2>1, LinkSet
<1>9. /\ t3 \in Links /\ t3.root = t2.root /\ t3.fault = t2.fault
      /\ \A k \in O!AllKeys : t3.prev[k] = IF k = n THEN u ELSE t2.prev[k]
      /\ \A d \in O!Sides, k \in O!AllKeys :
             t3.child[d][k] = IF d = s /\ k = u THEN n ELSE t2.child[d][k]
  <2>1. /\ t2 \in Links /\ s \in O!Sides /\ u \in O!AllKeys /\ n \in 0 .. MaxKey
        /\ t3 = O!Linked(t2, s, u, n)
    BY <1>3, <1>8, <1>17
  <2> QED
    BY ONLY <2>1, LinkSet
<1>10. /\ t4 \in Links /\ t4.root = t3.root /\ t4.fault = t3.fault
       /\ t4.child = t3.child /\ t4.prev = t3.prev
  <2>1. t3 \in Links /\ n \in O!AllKeys /\ lean \in Int /\ t4 = O!Weighed(t3, n, lean)
    BY <1>3, <1>5, <1>9, <1>17
  <2> QED
    BY ONLY <2>1, WeightSet
<1>11. /\ t5 \in Links /\ t5.root = t4.root /\ t5.fault = t4.fault
       /\ t5.child = t4.child /\ t5.prev = t4.prev /\ t5.weight[u] = -lean
  <2>1. t4 \in Links /\ u \in O!AllKeys /\ -lean \in Int /\ t5 = O!Weighed(t4, u, -lean)
    BY <1>3, <1>5, <1>10, <1>17
  <2> QED
    BY ONLY <2>1, WeightSet
<1>12. /\ t5.root = t.root /\ t5.fault = t.fault
       /\ \A k \in O!AllKeys : t5.prev[k] = IF k = n THEN u
                                            ELSE IF k = m THEN n
                                            ELSE IF k = u THEN q ELSE t.prev[k]
       /\ \A d \in O!Sides, k \in O!AllKeys :
              t5.child[d][k] = IF d = s /\ k = u THEN n
                               ELSE IF d = o /\ k = n THEN m ELSE t.child[d][k]
  BY ONLY <1>7, <1>8, <1>9, <1>10, <1>11
<1>13. q # 0 => /\ q \in O!AllKeys
                /\ t5.child["left"][q] = t.child["left"][q]
                /\ t5.child["right"][q] = t.child["right"][q]
                /\ t.child["left"][q] = n \/ t.child["right"][q] = n
                /\ t.child["left"][q] # n \/ t.child["right"][q] # n
  BY <1>1, <1>2, <1>12, OneLink, SidesAre DEF q
<1>14. /\ new \in Links /\ new.fault = t5.fault /\ new.weight = t5.weight /\ new.prev = t5.prev
       /\ new.root = IF q = 0 THEN u ELSE t5.root
       /\ \A d \in O!Sides, k \in O!AllKeys :
              new.child[d][k] = IF k = q /\ t5.child[d][k] = n THEN u ELSE t5.child[d][k]
  BY <1>3, <1>4, <1>6, <1>11, <1>13, HangSet
<1>15. Turned(t, n, s, new)
  <2>1. \A d \in O!Sides, k \in O!AllKeys :
           new.child[d][k] = IF k = n /\ d = o THEN m
                             ELSE IF k = u /\ d = s THEN n
                             ELSE IF k = q /\ t.child[d][k] = n THEN u
                             ELSE t.child[d][k]
    BY ONLY <1>1, <1>3, <1>12, <1>14
  <2>2. \A k \in O!AllKeys :
           new.prev[k] = IF k = u THEN q ELSE IF k = n THEN u ELSE IF k = m THEN n ELSE t.prev[k]
    <3>1. SUFFICES ASSUME NEW k \in O!AllKeys
                   PROVE  new.prev[k] = IF k = u THEN q ELSE IF k = n THEN u
                                        ELSE IF k = m THEN n ELSE t.prev[k]
      OBVIOUS
    <3>2. new.prev[k] = IF k = n THEN u ELSE IF k = m THEN n ELSE IF k = u THEN q ELSE t.prev[k]
      BY ONLY <1>12, <1>14, k \in O!AllKeys
    <3>3. u # n /\ u # m
      BY ONLY <1>1, <1>3
    <3> QED
      BY ONLY <3>2, <3>3
  <2> QED
    BY <1>12, <1>14, <2>1, <2>2 DEF Turned, o, m, q
<1>16. Leads(new, u)
  <2>1. new.weight[u] = -lean /\ new.child[s][u] # 0
    BY <1>1, <1>3, <1>11, <1>12, <1>14
  <2>2. ASSUME NEW d \in O!Sides, new.weight[u] * O!Sign(d) > 0 PROVE d = s
    <3>1. lean # 0
      BY <1>5, <2>1, <2>2, Signs
    <3>2. lean = -O!Sign(s)
      BY <3>1, Signs DEF lean, o
    <3>3. O!Sign(s) * O!Sign(d) > 0 /\ O!Sign(s) \in {1, -1} /\ O!Sign(d) \in {1, -1}
      BY <2>1, <2>2, <3>2, Signs
    <3> QED
      BY <3>3, Signs
  <2> QED
    BY <2>1, <2>2 DEF Leads
<1> QED
  BY <1>6, <1>12, <1>14, <1>15, <1>16

\* There is a tree after a rotation.
LEMMA TurnExists ==
    ASSUME NEW K, NEW t, NEW b, Shape(K, t, b), NEW n \in K, NEW s \in O!Sides,
           t.child[O!Other(s)][n] # 0
    PROVE  \E new \in Links : Turned(t, n, s, new)
<1> DEFINE o == O!Other(s)
           u == t.child[o][n]
           m == t.child[s][u]
           q == t.prev[n]
           child == [d \in O!Sides |-> [k \in O!AllKeys |->
                         IF k = n /\ d = o THEN m
                         ELSE IF k = u /\ d = s THEN n
                         ELSE IF k = q /\ t.child[d][k] = n THEN u
                         ELSE t.child[d][k]]]
           prev == [k \in O!AllKeys |-> IF k = u THEN q ELSE IF k = n THEN u
                                       ELSE IF k = m THEN n ELSE t.prev[k]]
           new == [root |-> IF q = 0 THEN u ELSE t.root, fault |-> t.fault,
                   child |-> child, prev |-> prev, weight |-> t.weight]
<1>1. K \subseteq O!AllKeys /\ t \in Links /\ O!AllKeys \subseteq 0 .. MaxKey
  BY TreeAssumption DEF Shape, O!AllKeys
<1>2. u \in K
  <2>1. t.child[o][n] # 0 /\ o \in O!Sides
    BY SidesAre
  <2> QED
    BY <2>1, ChildOf
<1>3. n \in O!AllKeys /\ u \in O!AllKeys /\ n \in 0 .. MaxKey /\ u \in 0 .. MaxKey
  BY <1>1, <1>2
<1> HIDE DEF u
<1>4. m \in 0 .. MaxKey /\ q \in 0 .. MaxKey
  BY <1>1, <1>3 DEF Links
<1> HIDE DEF m, q, o
<1>5. child \in [O!Sides -> [O!AllKeys -> 0 .. MaxKey]]
  <2>1. ASSUME NEW d \in O!Sides, NEW k \in O!AllKeys PROVE t.child[d][k] \in 0 .. MaxKey
    BY <1>1 DEF Links
  <2> QED
    BY <1>3, <1>4, <2>1
<1>6. prev \in [O!AllKeys -> 0 .. MaxKey]
  BY <1>1, <1>3, <1>4 DEF Links
<1>7. new \in Links /\ new.child = child /\ new.prev = prev /\ new.root = IF q = 0 THEN u ELSE t.root
  <2> HIDE DEF child, prev
  <2> QED
    BY <1>1, <1>3, <1>5, <1>6 DEF Links
<1> HIDE DEF new
<1>8. \A d \in O!Sides, k \in O!AllKeys :
           new.child[d][k] = IF k = n /\ d = o THEN m
                             ELSE IF k = u /\ d = s THEN n
                             ELSE IF k = q /\ t.child[d][k] = n THEN u
                             ELSE t.child[d][k]
  BY <1>7
<1>9. \A k \in O!AllKeys :
           new.prev[k] = IF k = u THEN q ELSE IF k = n THEN u ELSE IF k = m THEN n ELSE t.prev[k]
  BY <1>7
<1>10. Turned(t, n, s, new)
  BY <1>7, <1>8, <1>9 DEF Turned, o, m, q, u
<1> QED
  BY <1>7, <1>10

\* The bound of a node lies beyond it, and never both of each other.
LEMMA BoundBeyond ==
    ASSUME NEW K, NEW t, NEW b, Shape(K, t, b), NEW k \in K, NEW s \in O!Sides
    PROVE  Beyond(s, k, b[s][k])
BY SidesAre DEF Shape, Within, Beyond

LEMMA NotBoth ==
    ASSUME NEW x \in Int, NEW y \in Int, NEW s, Beyond(s, x, y) PROVE ~Beyond(s, y, x)
BY DEF Beyond

\* A double rotation is one of the raised child away, and one of the node.
LEMMA TwiceTurns ==
    ASSUME NEW K, NEW t, NEW b, Shape(K, t, b), NEW n \in K, NEW s \in O!Sides,
           NEW v, v = t.child[O!Other(s)][n], v # 0,
           NEW u, u = t.child[s][v], u # 0, t.weight[v] * O!Sign(s) > 0,
           NEW new, new = O!HungRotated(t, n, s, t.prev[n], n)
    PROVE  /\ O!Top(t, n, s) = u
           /\ new \in Links /\ new.fault = t.fault /\ Leads(new, u)
           /\ \E mid \in Links : /\ Turned(t, v, O!Other(s), mid)
                                 /\ mid.child[O!Other(s)][n] = u /\ mid.prev[n] = t.prev[n]
                                 /\ Turned(mid, n, s, new)
<1> DEFINE o == O!Other(s)
           mo == t.child[o][u]
           ms == t.child[s][u]
           q == t.prev[n]
<1>0. o \in O!Sides /\ o # s /\ O!Other(o) = s
  BY SidesAre
<1>18. t.child[o][n] = v
  BY Zenon
<1>1. v \in K /\ v # n /\ t.prev[v] = n /\ q # v /\ q # n /\ b[s][v] = n
  <2> HIDE DEF o
  <2> QED
    BY <1>0, <1>18, ChildOf
<1>2. u = t.child[O!Other(o)][v] /\ u # 0
  BY <1>0, SMTT(20)
<1> HIDE DEF o
<1>3. /\ u \in K /\ u # v /\ t.prev[u] = v /\ n # u /\ b[s][u] = n
      /\ mo # 0 => mo \in K /\ t.prev[mo] = u /\ mo # u /\ mo # v /\ b[s][mo] = u
  <2>1. u \in K /\ u # v /\ t.prev[u] = v /\ t.prev[v] # u /\ b[s][u] = b[s][v]
    <3>1. t.child[s][v] = u /\ t.child[s][v] # 0
      OBVIOUS
    <3> QED
      BY ONLY Shape(K, t, b), s \in O!Sides, <1>1, <3>1, ChildOf
  <2>2. ASSUME mo # 0 PROVE mo \in K /\ t.prev[mo] = u /\ mo # u /\ mo # v /\ b[s][mo] = u
    <3>1. t.child[o][u] = mo /\ t.child[o][u] # 0
      BY <2>2
    <3> HIDE DEF mo
    <3> QED
      BY ONLY Shape(K, t, b), <1>0, <2>1, <3>1, ChildOf
  <2> QED
    BY <1>1, <2>1, <2>2, Zenon
<1>4. PICK mid \in Links : Turned(t, v, o, mid)
  BY <1>0, <1>1, <1>2, TurnExists
<1>5. PICK c : Shape(K, mid, c)
  BY <1>0, <1>1, <1>2, <1>4, Turn
<1>6. K \subseteq O!AllKeys /\ t \in Links
  BY DEF Shape
<1>7. /\ n \in O!AllKeys /\ u \in O!AllKeys /\ v \in O!AllKeys
      /\ O!AllKeys \subseteq 0 .. MaxKey /\ 0 \notin O!AllKeys /\ O!AllKeys \subseteq Int
  <2>1. n \in O!AllKeys /\ u \in O!AllKeys /\ v \in O!AllKeys
    BY <1>1, <1>3, <1>6
  <2>2. O!AllKeys \subseteq 0 .. MaxKey /\ 0 \notin O!AllKeys /\ O!AllKeys \subseteq Int
    BY TreeAssumption DEF O!AllKeys
  <2> QED
    BY <2>1, <2>2, SMTT(20)
<1>8. mo \in 0 .. MaxKey /\ ms \in 0 .. MaxKey /\ q \in 0 .. MaxKey /\ t.weight[u] \in Int
  BY <1>0, <1>6, <1>7, SMTT(20) DEF Links
<1>9. /\ \A d \in O!Sides, k \in O!AllKeys :
             mid.child[d][k] = IF k = v /\ d = s THEN mo
                               ELSE IF k = u /\ d = o THEN v
                               ELSE IF k = n /\ t.child[d][k] = v THEN u
                               ELSE t.child[d][k]
      /\ \A k \in O!AllKeys :
             mid.prev[k] = IF k = u THEN n ELSE IF k = v THEN u ELSE IF k = mo THEN v ELSE t.prev[k]
      /\ mid.root = t.root
  <2>1. t.prev[v] # 0
    BY <1>1, <1>7
  <2> QED
    BY <1>0, <1>1, <1>2, <1>4, <2>1 DEF Turned
<1>10. mo # n
  <2>1. SUFFICES ASSUME mo = n PROVE FALSE
    OBVIOUS
  <2>2. Beyond(s, n, u) /\ Beyond(s, u, n)
    <3>1. mo \in K /\ b[s][mo] = u
      BY <1>3, <1>7, <2>1
    <3>2. Beyond(s, mo, b[s][mo]) /\ Beyond(s, u, b[s][u])
      BY ONLY Shape(K, t, b), s \in O!Sides, <1>3, <3>1, BoundBeyond
    <3> HIDE DEF mo
    <3> QED
      BY <1>3, <2>1, <3>1, <3>2
  <2> QED
    BY <1>7, <2>2, NotBoth
<1>11. q # 0 => /\ q \in K
                /\ t.child["left"][q] = n \/ t.child["right"][q] = n
                /\ t.child["left"][q] # n \/ t.child["right"][q] # n
  BY ONLY Shape(K, t, b), OneLink
<1>12. t.child[s][n] # v
  <2>1. t.child["left"][n] # v \/ t.child["right"][n] # v
    <3>1. t.prev[v] # 0
      BY <1>1, <1>7
    <3> QED
      BY ONLY Shape(K, t, b), <1>1, <3>1, OneLink
  <2> QED
    BY <2>1, SidesAre
<1> HIDE DEF mo, ms, q
<1>13. mid.child[o][n] = u /\ mid.prev[n] = q /\ mid.child[s][u] = ms
  <2>1. ms = t.child[s][u] /\ q = t.prev[n]
    BY DEF ms, q
  <2> QED
    BY <1>0, <1>1, <1>3, <1>7, <1>9, <1>10, <1>18, <2>1
<1>14. /\ q # u
       /\ ms # 0 => ms # n /\ ms # u /\ mid.prev[ms] = u /\ ms \in K
  <2>1. mid.prev[n] # u /\ mid.prev[u] = n
    BY <1>0, <1>3, <1>5, <1>7, <1>13, ChildOf
  <2>2. ASSUME ms # 0 PROVE ms # n /\ ms # u /\ mid.prev[ms] = u /\ ms \in K
    BY <1>3, <1>5, <1>13, <2>1, <2>2, ChildOf
  <2> QED
    BY <1>13, <2>1, <2>2, SMTT(20)
<1>15. ms # 0 => ms # v /\ ms # mo
  <2>1. ASSUME ms # 0 PROVE ms # v
    <3>1. t.prev[ms] = u
      BY <1>3, <1>6, <2>1 DEF Shape, Hanging, ms
    <3> QED
      BY <1>1, <1>3, <3>1, SMTT(20)
  <2>2. ASSUME ms # 0, ms = mo PROVE FALSE
    <3>1. mid.prev[ms] = v
      BY <1>3, <1>6, <1>9, <2>2, SMTT(20)
    <3> QED
      BY <1>3, <1>14, <2>2, <3>1, SMTT(20)
  <2> QED
    BY <2>1, <2>2
<1> DEFINE leans == O!LeansAfterTwo(t.weight[u], s)
           left == IF s = "left" THEN n ELSE v
           right == IF s = "left" THEN v ELSE n
           t1 == O!WithPrev(t, u, q)
           t2 == O!Linked(t1, s, v, mo)
           t3 == O!Linked(t2, o, n, ms)
           t4 == O!Linked(t3, o, u, v)
           t5 == O!Linked(t4, s, u, n)
           t6 == O!Weighed(t5, left, leans[1])
           t7 == O!Weighed(t6, right, leans[2])
           t8 == O!Weighed(t7, u, 0)
<1>16. left \in O!AllKeys /\ right \in O!AllKeys /\ leans[1] \in Int /\ leans[2] \in Int
  <2>1. leans[1] \in Int /\ leans[2] \in Int
    BY <1>8, SMTT(20) DEF O!LeansAfterTwo
  <2> QED
    BY <1>7, <2>1
<1>17. new = O!Hung(t8, q, n, u) /\ O!Top(t, n, s) = u
  <2>1. O!Raised(t, n, s) = v
    BY <1>18 DEF O!Raised, o
  <2>2. ~(t.weight[v] * O!Sign(s) <= 0)
    <3>1. t.weight[v] \in Int /\ O!Sign(s) \in Int
      BY <1>6, <1>7, Signs DEF Links
    <3>2. t.weight[v] * O!Sign(s) \in Int
      BY <3>1
    <3> QED
      BY <3>2
  <2>3. O!Top(t, n, s) = u
    BY <2>1, <2>2 DEF O!Top
  <2>4. t1 = [t EXCEPT !.prev[u] = t.prev[n]]
    <3>1. u # 0
      BY <1>7
    <3> QED
      BY <3>1 DEF O!WithPrev, q
  <2>5. O!RotateTwice(t, n, s) = t8
    <3>1. u = t.child[s][v]
      BY SMTT(20)
    <3> QED
      BY ONLY <2>1, <2>4, <3>1, Zenon DEF O!RotateTwice, t2, t3, t4, t5, t6, t7, t8, leans, left, right, mo, ms, o
  <2>6. O!Rotate(t, n, s) = t8
    BY <2>1, <2>2, <2>5, Zenon DEF O!Rotate
  <2> QED
    BY <2>3, <2>6, Zenon DEF O!HungRotated, q
<1> HIDE DEF t1, t2, t3, t4, t5, t6, t7, t8, left, right, leans
<1>19. /\ t1 = O!WithPrev(t, u, q) /\ t2 = O!Linked(t1, s, v, mo) /\ t3 = O!Linked(t2, o, n, ms)
       /\ t4 = O!Linked(t3, o, u, v) /\ t5 = O!Linked(t4, s, u, n) /\ t6 = O!Weighed(t5, left, leans[1])
       /\ t7 = O!Weighed(t6, right, leans[2]) /\ t8 = O!Weighed(t7, u, 0)
  BY Zenon DEF t1, t2, t3, t4, t5, t6, t7, t8
<1>20. s \in O!Sides /\ n \in 0 .. MaxKey /\ u \in 0 .. MaxKey /\ v \in 0 .. MaxKey
  BY <1>7
<1>21. /\ t1 \in Links /\ t1.root = t.root /\ t1.fault = t.fault /\ t1.child = t.child
       /\ \A k \in O!AllKeys : t1.prev[k] = IF k = u THEN q ELSE t.prev[k]
  <2>1. t \in Links /\ u \in 0 .. MaxKey /\ q \in 0 .. MaxKey /\ t1 = O!WithPrev(t, u, q)
    BY ONLY <1>6, <1>8, <1>19, <1>20, Zenon
  <2> QED
    BY ONLY <2>1, PrevSet, SMT
<1>22. /\ t2 \in Links /\ t2.root = t1.root /\ t2.fault = t1.fault
       /\ \A k \in O!AllKeys : t2.prev[k] = IF k = mo THEN v ELSE t1.prev[k]
       /\ \A d \in O!Sides, k \in O!AllKeys :
              t2.child[d][k] = IF d = s /\ k = v THEN mo ELSE t1.child[d][k]
  <2>1. /\ t1 \in Links /\ s \in O!Sides /\ v \in O!AllKeys /\ mo \in 0 .. MaxKey
        /\ t2 = O!Linked(t1, s, v, mo)
    BY ONLY <1>7, <1>8, <1>19, <1>20, <1>21, Zenon
  <2> QED
    BY ONLY <2>1, LinkSet, SMT
<1>23. /\ t3 \in Links /\ t3.root = t2.root /\ t3.fault = t2.fault
       /\ \A k \in O!AllKeys : t3.prev[k] = IF k = ms THEN n ELSE t2.prev[k]
       /\ \A d \in O!Sides, k \in O!AllKeys :
              t3.child[d][k] = IF d = o /\ k = n THEN ms ELSE t2.child[d][k]
  <2>1. /\ t2 \in Links /\ o \in O!Sides /\ n \in O!AllKeys /\ ms \in 0 .. MaxKey
        /\ t3 = O!Linked(t2, o, n, ms)
    BY ONLY <1>0, <1>7, <1>8, <1>19, <1>22, Zenon
  <2> QED
    BY ONLY <2>1, LinkSet, SMT
<1>24. /\ t4 \in Links /\ t4.root = t3.root /\ t4.fault = t3.fault
       /\ \A k \in O!AllKeys : t4.prev[k] = IF k = v THEN u ELSE t3.prev[k]
       /\ \A d \in O!Sides, k \in O!AllKeys :
              t4.child[d][k] = IF d = o /\ k = u THEN v ELSE t3.child[d][k]
  <2>1. /\ t3 \in Links /\ o \in O!Sides /\ u \in O!AllKeys /\ v \in 0 .. MaxKey
        /\ t4 = O!Linked(t3, o, u, v)
    BY ONLY <1>0, <1>7, <1>19, <1>20, <1>23, Zenon
  <2> QED
    BY ONLY <2>1, LinkSet, SMT
<1>25. /\ t5 \in Links /\ t5.root = t4.root /\ t5.fault = t4.fault
       /\ \A k \in O!AllKeys : t5.prev[k] = IF k = n THEN u ELSE t4.prev[k]
       /\ \A d \in O!Sides, k \in O!AllKeys :
              t5.child[d][k] = IF d = s /\ k = u THEN n ELSE t4.child[d][k]
  <2>1. /\ t4 \in Links /\ s \in O!Sides /\ u \in O!AllKeys /\ n \in 0 .. MaxKey
        /\ t5 = O!Linked(t4, s, u, n)
    BY ONLY <1>7, <1>19, <1>20, <1>24, Zenon
  <2> QED
    BY ONLY <2>1, LinkSet, SMT
<1>26. /\ t6 \in Links /\ t6.root = t5.root /\ t6.fault = t5.fault
       /\ t6.child = t5.child /\ t6.prev = t5.prev
  <2>1. t5 \in Links /\ left \in O!AllKeys /\ leans[1] \in Int /\ t6 = O!Weighed(t5, left, leans[1])
    BY ONLY <1>16, <1>19, <1>25, Zenon
  <2> QED
    BY ONLY <2>1, WeightSet, SMT
<1>27. /\ t7 \in Links /\ t7.root = t6.root /\ t7.fault = t6.fault
       /\ t7.child = t6.child /\ t7.prev = t6.prev
  <2>1. t6 \in Links /\ right \in O!AllKeys /\ leans[2] \in Int /\ t7 = O!Weighed(t6, right, leans[2])
    BY ONLY <1>16, <1>19, <1>26, Zenon
  <2> QED
    BY ONLY <2>1, WeightSet, SMT
<1>28. /\ t8 \in Links /\ t8.root = t7.root /\ t8.fault = t7.fault
       /\ t8.child = t7.child /\ t8.prev = t7.prev /\ t8.weight[u] = 0
  <2>1. t7 \in Links /\ u \in O!AllKeys /\ 0 \in Int /\ t8 = O!Weighed(t7, u, 0)
    <3>1. 0 \in Int
      OBVIOUS
    <3> QED
      BY ONLY <1>7, <1>19, <1>27, <3>1, Zenon
  <2> QED
    BY ONLY <2>1, WeightSet, SMT
<1>29. /\ t8.root = t.root /\ t8.fault = t.fault
       /\ \A k \in O!AllKeys : t8.prev[k] = IF k = n THEN u ELSE IF k = v THEN u
                                            ELSE IF k = ms THEN n ELSE IF k = mo THEN v
                                            ELSE IF k = u THEN q ELSE t.prev[k]
  BY ONLY <1>21, <1>22, <1>23, <1>24, <1>25, <1>26, <1>27, <1>28
<1>30. \A d \in O!Sides, k \in O!AllKeys :
           t8.child[d][k] = IF d = s /\ k = u THEN n ELSE IF d = o /\ k = u THEN v
                            ELSE IF d = o /\ k = n THEN ms ELSE IF d = s /\ k = v THEN mo
                            ELSE t.child[d][k]
  BY ONLY <1>21, <1>22, <1>23, <1>24, <1>25, <1>26, <1>27, <1>28
<1>31. q # 0 => /\ q \in O!AllKeys /\ q # n /\ q # u /\ q # v
                /\ t8.child["left"][q] = t.child["left"][q]
                /\ t8.child["right"][q] = t.child["right"][q]
  <2>1. q # n /\ q # u /\ q # v
    BY <1>1, <1>14 DEF q
  <2>2. "left" \in O!Sides /\ "right" \in O!Sides
    BY SidesAre
  <2> QED
    BY ONLY <1>6, <1>11, <1>30, <2>1, <2>2
<1>32. /\ new \in Links /\ new.fault = t8.fault /\ new.weight = t8.weight /\ new.prev = t8.prev
       /\ new.root = IF q = 0 THEN u ELSE t8.root
       /\ \A d \in O!Sides, k \in O!AllKeys :
              new.child[d][k] = IF k = q /\ t8.child[d][k] = n THEN u ELSE t8.child[d][k]
  <2>1. /\ t8 \in Links /\ q \in 0 .. MaxKey /\ u \in 0 .. MaxKey /\ new = O!Hung(t8, q, n, u)
        /\ q # 0 => t8.child["left"][q] = n \/ t8.child["right"][q] = n
        /\ q # 0 => t8.child["left"][q] # n \/ t8.child["right"][q] # n
    BY ONLY <1>8, <1>11, <1>17, <1>20, <1>28, <1>31
  <2> QED
    BY ONLY <2>1, HangSet, SMT
<1>33. q # 0 /\ q = n => FALSE
  BY <1>1 DEF q
<1>34. t.prev[u] = v /\ t.prev[v] = n /\ t.prev[n] = q
  BY <1>1, <1>3 DEF q
<1>35. \A d \in O!Sides, k \in O!AllKeys :
           new.child[d][k] = IF k = n /\ d = o THEN ms
                             ELSE IF k = u /\ d = s THEN n
                             ELSE IF k = q /\ mid.child[d][k] = n THEN u
                             ELSE mid.child[d][k]
  <2> SUFFICES ASSUME NEW d \in O!Sides, NEW k \in O!AllKeys
               PROVE  new.child[d][k] = IF k = n /\ d = o THEN ms
                                        ELSE IF k = u /\ d = s THEN n
                                        ELSE IF k = q /\ mid.child[d][k] = n THEN u
                                        ELSE mid.child[d][k]
    OBVIOUS
  <2>1. d = s \/ d = o
    BY SidesAre DEF o
  <2>2. t8.child[d][k] = IF d = s /\ k = u THEN n ELSE IF d = o /\ k = u THEN v
                            ELSE IF d = o /\ k = n THEN ms ELSE IF d = s /\ k = v THEN mo
                            ELSE t.child[d][k]
    BY ONLY <1>30, d \in O!Sides, k \in O!AllKeys
  <2>3. new.child[d][k] = IF k = q /\ t8.child[d][k] = n THEN u ELSE t8.child[d][k]
    BY ONLY <1>32, d \in O!Sides, k \in O!AllKeys
  <2>4. mid.child[d][k] = IF k = v /\ d = s THEN mo
                               ELSE IF k = u /\ d = o THEN v
                               ELSE IF k = n /\ t.child[d][k] = v THEN u
                               ELSE t.child[d][k]
    BY ONLY <1>9, d \in O!Sides, k \in O!AllKeys
  <2>5. k \in {n, u, v} => k # q
    BY <1>7, <1>31
  <2>6. k # v \/ k # q
    BY <2>5
  <2>7. k = n /\ d = s => t.child[d][k] # v
    BY <1>12
  <2>8. k = q => k \notin {n, u, v}
    BY <2>5
  <2> QED
    BY ONLY <1>0, <1>1, <1>3, <2>1, <2>2, <2>3, <2>4, <2>7, <2>8
<1>36. \A k \in O!AllKeys :
           new.prev[k] = IF k = u THEN mid.prev[n] ELSE IF k = n THEN u
                         ELSE IF k = ms THEN n ELSE mid.prev[k]
  <2> SUFFICES ASSUME NEW k \in O!AllKeys
               PROVE  new.prev[k] = IF k = u THEN mid.prev[n] ELSE IF k = n THEN u
                                    ELSE IF k = ms THEN n ELSE mid.prev[k]
    OBVIOUS
  <2>1. k # 0
    BY <1>7
  <2>2. k = ms => k # n /\ k # u /\ k # v /\ k # mo
    BY <1>14, <1>15, <2>1, SMTT(20)
  <2>3. k = mo => k # n /\ k # u /\ k # v
    BY <1>3, <1>10, <2>1 DEF mo
  <2>4. new.prev[k] = IF k = n THEN u ELSE IF k = v THEN u
                                            ELSE IF k = ms THEN n ELSE IF k = mo THEN v
                                            ELSE IF k = u THEN q ELSE t.prev[k]
    BY ONLY <1>29, <1>32, k \in O!AllKeys
  <2>5. mid.prev[k] = IF k = u THEN n ELSE IF k = v THEN u ELSE IF k = mo THEN v ELSE t.prev[k]
    BY ONLY <1>9, k \in O!AllKeys
  <2> QED
    BY ONLY <1>1, <1>3, <1>13, <2>2, <2>3, <2>4, <2>5
<1>37. Turned(mid, n, s, new)
  <2>1. new.root = IF mid.prev[n] = 0 THEN u ELSE mid.root
    BY <1>9, <1>13, <1>29, <1>32
  <2>2. o = O!Other(s)
    BY DEF o
  <2> QED
    BY ONLY <1>13, <1>35, <1>36, <2>1, <2>2, SMTT(20) DEF Turned
<1>38. Leads(new, u)
  <2>1. new.weight[u] = 0
    BY <1>28, <1>32
  <2>2. \A d \in O!Sides : ~(0 * O!Sign(d) > 0)
    <3>1. \A d \in O!Sides : O!Sign(d) \in Int
      BY SidesAre DEF O!Sign
    <3> QED
      BY ONLY <3>1
  <2> QED
    BY ONLY <2>1, <2>2 DEF Leads
<1>39. new.fault = t.fault
  BY <1>29, <1>32
<1>40. o = O!Other(s) /\ q = t.prev[n]
  BY DEF o, q
<1> QED
  BY ONLY <1>4, <1>13, <1>17, <1>32, <1>37, <1>38, <1>39, <1>40

\* What holds at first and goes from each step to the next holds at the last.
LEMMA OneByOne ==
    ASSUME NEW N \in Nat, NEW Good, 0 \in Good, \A m \in 1 .. N : m - 1 \in Good => m \in Good
    PROVE  \A m \in 0 .. N : m \in Good
<1> DEFINE Off == { m \in 0 .. N : m \notin Good }
<1>1. SUFFICES ASSUME Off # {} PROVE FALSE
  OBVIOUS
<1>2. PICK m \in Off : \A l \in Off : m <= l
  <2>1. Off \in SUBSET Nat
    OBVIOUS
  <2> HIDE DEF Off
  <2> QED
    BY <1>1, <2>1, LeastNatural
<1>3. m # 0 /\ m \in 1 .. N /\ m - 1 \in 0 .. N /\ ~(m <= m - 1)
  OBVIOUS
<1>4. m - 1 \in Good
  BY <1>2, <1>3
<1> QED
  BY <1>2, <1>3, <1>4

\* way is the iteration of F from x, in D.
Iterates(D, F, x, N, way) ==
    way \in [0 .. N -> D] /\ way = [m \in 0 .. N |-> IF m = 0 THEN x ELSE F[way[m - 1]]]

\* An iteration of a function from a set to itself stays in it.
LEMMA IterationExists ==
    ASSUME NEW D, NEW F \in [D -> D], NEW x \in D, NEW N \in Nat
    PROVE  \E way : Iterates(D, F, x, N, way)
<1> DEFINE L == [y \in D |-> [next |-> F[y]]]
<1>1. PICK way : way = WalkStep(L, x, N, way)
  BY WalkExists
<1>2. way = [m \in 0 .. N |-> IF m = 0 THEN x ELSE L[way[m - 1]].next]
  BY <1>1 DEF WalkStep
<1> HIDE DEF L
<1>3. 0 \in 0 .. N /\ \A m \in 1 .. N : m \in 0 .. N /\ m - 1 \in 0 .. N /\ m # 0
  OBVIOUS
<1>4. way[0] = x /\ \A m \in 1 .. N : way[m] = L[way[m - 1]].next
  BY <1>2, <1>3
<1>5. \A m \in 0 .. N : way[m] \in D
  <2> DEFINE Good == { m \in 0 .. N : way[m] \in D }
  <2>1. 0 \in Good
    BY <1>3, <1>4
  <2>2. ASSUME NEW m \in 1 .. N, m - 1 \in Good PROVE m \in Good
    <3>1. way[m - 1] \in D
      BY <2>2
    <3>2. L[way[m - 1]].next \in D
      BY <3>1 DEF L
    <3> QED
      BY <1>3, <1>4, <3>2
  <2> HIDE DEF Good
  <2>3. \A m \in 1 .. N : m - 1 \in Good => m \in Good
    BY <2>2
  <2>4. \A m \in 0 .. N : m \in Good
    BY ONLY N \in Nat, <2>1, <2>3, OneByOne, Zenon
  <2> QED
    BY <2>4 DEF Good
<1>6. ASSUME NEW m \in 0 .. N
      PROVE  (IF m = 0 THEN x ELSE L[way[m - 1]].next) = IF m = 0 THEN x ELSE F[way[m - 1]]
  <2>1. CASE m # 0
    <3>1. m - 1 \in 0 .. N
      BY <2>1
    <3> QED
      BY <1>5, <2>1, <3>1 DEF L
  <2> QED
    BY <2>1
<1>7. way = [m \in 0 .. N |-> IF m = 0 THEN x ELSE F[way[m - 1]]]
  BY <1>2, <1>6
<1>8. way \in [0 .. N -> D]
  BY <1>5, <1>7
<1> QED
  BY <1>7, <1>8 DEF Iterates

\* The way of a search, of an outermost node, upwards, and of the growing, each among what it stays in.
LEMMA WalkGoes ==
    ASSUME NEW D, NEW key, O!links.root \in D,
           \A y \in D : O!Onward(O!links, key, y) \in D
    PROVE  \E way : /\ O!Walk(key) = way[MaxKey]
                   /\ way[0] = O!links.root
                   /\ \A m \in 1 .. MaxKey : way[m] = O!Onward(O!links, key, way[m - 1])
<1> DEFINE Step(way) == [m \in 0 .. MaxKey |-> IF m = 0 THEN O!links.root ELSE O!Onward(O!links, key, way[m - 1])]
           F == [y \in D |-> O!Onward(O!links, key, y)]
<1>1. \E way : way = Step(way)
  <2>1. F \in [D -> D] /\ \A y \in D : F[y] = O!Onward(O!links, key, y)
    OBVIOUS
  <2> HIDE DEF F
  <2>2. PICK way : Iterates(D, F, O!links.root, MaxKey, way)
    BY <2>1, IterationExists, TreeAssumption, Zenon
  <2>3. ASSUME NEW m \in 0 .. MaxKey
        PROVE  (IF m = 0 THEN O!links.root ELSE F[way[m - 1]])
                   = IF m = 0 THEN O!links.root ELSE O!Onward(O!links, key, way[m - 1])
    <3>1. m # 0 => m - 1 \in 0 .. MaxKey
      BY TreeAssumption
    <3> QED
      BY <2>1, <2>2, <3>1 DEF Iterates
  <2>4. way = Step(way)
    BY <2>2, <2>3 DEF Iterates
  <2> QED
    BY <2>4
<1> DEFINE way == CHOOSE w : w = Step(w)
<1>2. O!Walk(key) = way[MaxKey]
  BY Zenon DEF O!Walk
<1>3. way = Step(way)
  BY <1>1
<1> HIDE DEF way
<1>4. way[0] = O!links.root /\ \A m \in 1 .. MaxKey : way[m] = O!Onward(O!links, key, way[m - 1])
  <2>1. 0 \in 0 .. MaxKey /\ \A m \in 1 .. MaxKey : m \in 0 .. MaxKey /\ m # 0
    BY TreeAssumption
  <2> QED
    BY <1>3, <2>1
<1> QED
  BY <1>2, <1>4

LEMMA OutmostGoes ==
    ASSUME NEW D, NEW t, NEW side, NEW node, node \in D,
           \A y \in D : O!Further(t, side, y) \in D
    PROVE  \E way : /\ O!Outmost(t, side, node) = way[MaxKey]
                   /\ way[0] = node
                   /\ \A m \in 1 .. MaxKey : way[m] = O!Further(t, side, way[m - 1])
<1> DEFINE Step(way) == [m \in 0 .. MaxKey |-> IF m = 0 THEN node ELSE O!Further(t, side, way[m - 1])]
           F == [y \in D |-> O!Further(t, side, y)]
<1>1. \E way : way = Step(way)
  <2>1. F \in [D -> D] /\ \A y \in D : F[y] = O!Further(t, side, y)
    OBVIOUS
  <2> HIDE DEF F
  <2>2. PICK way : Iterates(D, F, node, MaxKey, way)
    BY <2>1, IterationExists, TreeAssumption, Zenon
  <2>3. ASSUME NEW m \in 0 .. MaxKey
        PROVE  (IF m = 0 THEN node ELSE F[way[m - 1]])
                   = IF m = 0 THEN node ELSE O!Further(t, side, way[m - 1])
    <3>1. m # 0 => m - 1 \in 0 .. MaxKey
      BY TreeAssumption
    <3> QED
      BY <2>1, <2>2, <3>1 DEF Iterates
  <2>4. way = Step(way)
    BY <2>2, <2>3 DEF Iterates
  <2> QED
    BY <2>4
<1> DEFINE way == CHOOSE w : w = Step(w)
<1>2. O!Outmost(t, side, node) = way[MaxKey]
  BY Zenon DEF O!Outmost
<1>3. way = Step(way)
  BY <1>1
<1> HIDE DEF way
<1>4. way[0] = node /\ \A m \in 1 .. MaxKey : way[m] = O!Further(t, side, way[m - 1])
  <2>1. 0 \in 0 .. MaxKey /\ \A m \in 1 .. MaxKey : m \in 0 .. MaxKey /\ m # 0
    BY TreeAssumption
  <2> QED
    BY <1>3, <2>1
<1> QED
  BY <1>2, <1>4

LEMMA UpGoes ==
    ASSUME NEW D, NEW side, NEW node, node \in D,
           \A y \in D : O!UpOnce(side, y) \in D
    PROVE  \E way : /\ O!UpWhile(node, side) = O!links.prev[way[MaxKey]]
                   /\ way[0] = node
                   /\ \A m \in 1 .. MaxKey : way[m] = O!UpOnce(side, way[m - 1])
<1> DEFINE Step(way) == [m \in 0 .. MaxKey |-> IF m = 0 THEN node ELSE O!UpOnce(side, way[m - 1])]
           F == [y \in D |-> O!UpOnce(side, y)]
<1>1. \E way : way = Step(way)
  <2>1. F \in [D -> D] /\ \A y \in D : F[y] = O!UpOnce(side, y)
    OBVIOUS
  <2> HIDE DEF F
  <2>2. PICK way : Iterates(D, F, node, MaxKey, way)
    BY <2>1, IterationExists, TreeAssumption, Zenon
  <2>3. ASSUME NEW m \in 0 .. MaxKey
        PROVE  (IF m = 0 THEN node ELSE F[way[m - 1]])
                   = IF m = 0 THEN node ELSE O!UpOnce(side, way[m - 1])
    <3>1. m # 0 => m - 1 \in 0 .. MaxKey
      BY TreeAssumption
    <3> QED
      BY <2>1, <2>2, <3>1 DEF Iterates
  <2>4. way = Step(way)
    BY <2>2, <2>3 DEF Iterates
  <2> QED
    BY <2>4
<1> DEFINE way == CHOOSE w : w = Step(w)
<1>2. O!UpWhile(node, side) = O!links.prev[way[MaxKey]]
  BY Zenon DEF O!UpWhile
<1>3. way = Step(way)
  BY <1>1
<1> HIDE DEF way
<1>4. way[0] = node /\ \A m \in 1 .. MaxKey : way[m] = O!UpOnce(side, way[m - 1])
  <2>1. 0 \in 0 .. MaxKey /\ \A m \in 1 .. MaxKey : m \in 0 .. MaxKey /\ m # 0
    BY TreeAssumption
  <2> QED
    BY <1>3, <2>1
<1> QED
  BY <1>2, <1>4

LEMMA GrownGoes ==
    ASSUME NEW D, NEW t, NEW key, O!On(t, key) \in D,
           \A y \in D : O!GrowOnce(y) \in D
    PROVE  \E way : /\ O!Grown(t, key) = O!Ended(way[MaxKey])
                   /\ way[0] = O!On(t, key)
                   /\ \A m \in 1 .. MaxKey : way[m] = O!GrowOnce(way[m - 1])
<1> DEFINE Step(way) == [m \in 0 .. MaxKey |-> IF m = 0 THEN O!On(t, key) ELSE O!GrowOnce(way[m - 1])]
           F == [y \in D |-> O!GrowOnce(y)]
<1>1. \E way : way = Step(way)
  <2>1. F \in [D -> D] /\ \A y \in D : F[y] = O!GrowOnce(y)
    OBVIOUS
  <2> HIDE DEF F
  <2>2. PICK way : Iterates(D, F, O!On(t, key), MaxKey, way)
    BY <2>1, IterationExists, TreeAssumption, Zenon
  <2>3. ASSUME NEW m \in 0 .. MaxKey
        PROVE  (IF m = 0 THEN O!On(t, key) ELSE F[way[m - 1]])
                   = IF m = 0 THEN O!On(t, key) ELSE O!GrowOnce(way[m - 1])
    <3>1. m # 0 => m - 1 \in 0 .. MaxKey
      BY TreeAssumption
    <3> QED
      BY <2>1, <2>2, <3>1 DEF Iterates
  <2>4. way = Step(way)
    BY <2>2, <2>3 DEF Iterates
  <2> QED
    BY <2>4
<1> DEFINE way == CHOOSE w : w = Step(w)
<1>2. O!Grown(t, key) = O!Ended(way[MaxKey])
  BY Zenon DEF O!Grown
<1>3. way = Step(way)
  BY <1>1
<1> HIDE DEF way
<1>4. way[0] = O!On(t, key) /\ \A m \in 1 .. MaxKey : way[m] = O!GrowOnce(way[m - 1])
  <2>1. 0 \in 0 .. MaxKey /\ \A m \in 1 .. MaxKey : m \in 0 .. MaxKey /\ m # 0
    BY TreeAssumption
  <2> QED
    BY <1>3, <2>1
<1> QED
  BY <1>2, <1>4

\* The keys are numbers, each between its bounds.
LEMMA KeysAre ==
    ASSUME NEW K, NEW t, NEW b, Shape(K, t, b)
    PROVE  /\ MaxKey \in Nat
           /\ \A k \in K : /\ k \in Int /\ 1 <= k /\ k <= MaxKey /\ k # 0
                           /\ k \in O!AllKeys /\ k \in 0 .. MaxKey
                           /\ b["left"][k] \in Int /\ b["right"][k] \in Int
                           /\ 0 <= b["left"][k] /\ b["right"][k] <= MaxKey + 1
                           /\ b["left"][k] < k /\ k < b["right"][k]
                           /\ \A s \in O!Sides : t.child[s][k] \in K \union {0}
<1>1. MaxKey \in Nat /\ K \subseteq O!AllKeys /\ b \in Bounds
  BY TreeAssumption DEF Shape
<1>2. ASSUME NEW k \in K
      PROVE  /\ k \in Int /\ 1 <= k /\ k <= MaxKey /\ k # 0 /\ k \in O!AllKeys /\ k \in 0 .. MaxKey
             /\ b["left"][k] \in 0 .. MaxKey + 1 /\ b["right"][k] \in 0 .. MaxKey + 1
  <2>1. k \in O!AllKeys
    BY <1>1
  <2>2. k \in Int /\ 1 <= k /\ k <= MaxKey /\ k # 0 /\ k \in 0 .. MaxKey
    BY <1>1, <2>1 DEF O!AllKeys
  <2>3. b["left"] \in [O!AllKeys -> 0 .. MaxKey + 1] /\ b["right"] \in [O!AllKeys -> 0 .. MaxKey + 1]
    BY <1>1, SidesAre, Zenon DEF Bounds
  <2>4. b["left"][k] \in 0 .. MaxKey + 1 /\ b["right"][k] \in 0 .. MaxKey + 1
    BY ONLY <2>1, <2>3
  <2> QED
    BY ONLY <2>1, <2>2, <2>4
<1>3. \A k \in K : b["left"][k] < k /\ k < b["right"][k]
  BY DEF Shape, Within
<1>4. \A k \in K, s \in O!Sides : t.child[s][k] \in K \union {0}
  BY DEF Shape, Hanging
<1>5. \A k \in K : /\ b["left"][k] \in Int /\ b["right"][k] \in Int
                   /\ 0 <= b["left"][k] /\ b["right"][k] <= MaxKey + 1
  BY <1>1, <1>2
<1> QED
  BY <1>1, <1>2, <1>3, <1>4, <1>5, Zenon

\* A search has come to its end.
AtEnd(t, key, y) == y = key \/ t.child[O!Towards(key, y)][y] = 0

Between(b, key, y) == b["left"][y] < key /\ key < b["right"][y]

\* A search goes to a narrower place, until it is at its end.
LEMMA OnwardGoes ==
    ASSUME NEW K, NEW t, NEW b, Shape(K, t, b), NEW key \in O!AllKeys,
           NEW y \in K, Between(b, key, y), NEW z, z = O!Onward(t, key, y)
    PROVE  /\ z \in K /\ Between(b, key, z)
           /\ AtEnd(t, key, y) => z = y
           /\ ~AtEnd(t, key, y) =>
                  b["right"][z] - b["left"][z] < b["right"][y] - b["left"][y]
<1>1. key \in Int /\ y \in Int
  BY KeysAre DEF O!AllKeys
<1>2. CASE AtEnd(t, key, y)
  BY <1>2 DEF AtEnd, O!Onward
<1>3. CASE ~AtEnd(t, key, y)
  <2> DEFINE d == O!Towards(key, y)
  <2>1. key # y /\ t.child[d][y] # 0 /\ z = t.child[d][y]
    BY <1>3 DEF AtEnd, O!Onward
  <2>2. \/ d = "left" /\ key < y
        \/ d = "right" /\ y < key
    BY <1>1, <2>1 DEF O!Towards
  <2>3. d \in O!Sides /\ O!Other("left") = "right" /\ O!Other("right") = "left"
    BY <2>2, SidesAre DEF O!Other
  <2> HIDE DEF d
  <2>4. z \in K /\ b[d][z] = b[d][y] /\ b[O!Other(d)][z] = y
    BY <2>1, <2>3 DEF Shape, Hanging
  <2> QED
    BY <1>1, <1>3, <2>2, <2>3, <2>4, KeysAre DEF Between
<1> QED
  BY <1>2, <1>3

\* A search ends at its key or where its place is, before it runs out of steps.
LEMMA WalkComes ==
    ASSUME NEW K, NEW b, Shape(K, O!links, b), NEW key \in O!AllKeys
    PROVE  /\ O!Walk(key) \in K /\ Between(b, key, O!Walk(key))
           /\ AtEnd(O!links, key, O!Walk(key))
<1> DEFINE t == O!links
           D == { y \in K : Between(b, key, y) }
<1>1. t.root \in D /\ b["right"][t.root] - b["left"][t.root] = MaxKey + 1
  <2>1. t.root \in K /\ b["left"][t.root] = 0 /\ b["right"][t.root] = MaxKey + 1
    BY DEF Shape, Rooted
  <2>2. 0 < key /\ key < MaxKey + 1
    BY TreeAssumption DEF O!AllKeys
  <2> QED
    BY <2>1, <2>2, TreeAssumption DEF Between
<1>2. \A y \in D : O!Onward(t, key, y) \in D
  BY OnwardGoes
<1> HIDE DEF D
<1>3. PICK way : /\ O!Walk(key) = way[MaxKey] /\ way[0] = t.root
                 /\ \A m \in 1 .. MaxKey : way[m] = O!Onward(t, key, way[m - 1])
  BY <1>1, <1>2, WalkGoes
<1> DEFINE Good == { m \in 0 .. MaxKey :
                        /\ way[m] \in D
                        /\ \/ AtEnd(t, key, way[m])
                           \/ b["right"][way[m]] - b["left"][way[m]] <= (MaxKey + 1) - m }
<1> HIDE DEF t
<1>4. 0 \in Good
  BY <1>1, <1>3, TreeAssumption
<1>5. ASSUME NEW m \in 1 .. MaxKey, m - 1 \in Good PROVE m \in Good
  <2>1. /\ way[m - 1] \in K /\ Between(b, key, way[m - 1])
        /\ way[m] = O!Onward(t, key, way[m - 1])
    BY <1>3, <1>5 DEF D
  <2>2. /\ way[m] \in K /\ Between(b, key, way[m])
        /\ AtEnd(t, key, way[m - 1]) => way[m] = way[m - 1]
        /\ ~AtEnd(t, key, way[m - 1]) =>
               b["right"][way[m]] - b["left"][way[m]] < b["right"][way[m - 1]] - b["left"][way[m - 1]]
    BY <2>1, OnwardGoes DEF t
  <2>3. /\ b["right"][way[m]] \in Int /\ b["left"][way[m]] \in Int
        /\ b["right"][way[m - 1]] \in Int /\ b["left"][way[m - 1]] \in Int
    BY <2>1, <2>2, KeysAre
  <2>4. m \in Int /\ MaxKey \in Nat /\ m \in 0 .. MaxKey
    BY TreeAssumption
  <2>5. \/ AtEnd(t, key, way[m - 1])
        \/ b["right"][way[m - 1]] - b["left"][way[m - 1]] <= (MaxKey + 1) - (m - 1)
    BY <1>5
  <2>6. \/ AtEnd(t, key, way[m])
        \/ b["right"][way[m]] - b["left"][way[m]] <= (MaxKey + 1) - m
    BY <2>2, <2>3, <2>4, <2>5
  <2> QED
    BY <2>2, <2>4, <2>6 DEF D
<1> HIDE DEF Good
<1>6. MaxKey \in Good
  <2>1. \A m \in 0 .. MaxKey : m \in Good
    BY <1>4, <1>5, OneByOne, TreeAssumption
  <2> QED
    BY <2>1, TreeAssumption
<1>7. /\ way[MaxKey] \in K /\ Between(b, key, way[MaxKey])
      /\ \/ AtEnd(t, key, way[MaxKey])
         \/ b["right"][way[MaxKey]] - b["left"][way[MaxKey]] <= (MaxKey + 1) - MaxKey
  BY <1>6 DEF Good, D
<1>8. ~(b["right"][way[MaxKey]] - b["left"][way[MaxKey]] <= (MaxKey + 1) - MaxKey)
  BY <1>7, KeysAre
<1> QED
  BY <1>3, <1>7, <1>8 DEF t

\* A search finds the keys of the tree.
LEMMA FindsKeys ==
    ASSUME NEW K, NEW b, Shape(K, O!links, b), NEW key \in O!AllKeys
    PROVE  O!Found(key) <=> key \in K
<1> DEFINE w == O!Walk(key)
<1>1. w \in K /\ Between(b, key, w) /\ AtEnd(O!links, key, w)
  BY WalkComes
<1>2. O!links.root # 0
  BY KeysAre DEF Shape, Rooted
<1> HIDE DEF w
<1>3. ASSUME key \in K, w # key PROVE FALSE
  <2> DEFINE d == O!Towards(key, w)
  <2>1. O!links.child[d][w] = 0
    BY <1>1, <1>3 DEF AtEnd
  <2>2. \/ d = "left" /\ key < w
        \/ d = "right" /\ w < key
    BY <1>1, <1>3, KeysAre DEF O!Towards
  <2>3. d \in O!Sides
    BY <2>2, SidesAre
  <2>4. Beyond(d, w, key) /\ Beyond(d, key, b[d][w])
    BY <1>1, <2>2 DEF Beyond, Between
  <2> HIDE DEF d
  <2> QED
    BY <1>1, <1>3, <2>1, <2>3, <2>4 DEF Shape, Gaps
<1> QED
  BY <1>1, <1>2, <1>3 DEF O!Found, w

\* A new leaf where a search for its key ended.
Leafed(t, key, w, d, new) ==
    /\ new \in Links /\ new.root = t.root /\ new.fault = t.fault
    /\ \A k \in O!AllKeys : new.prev[k] = IF k = key THEN w ELSE t.prev[k]
    /\ \A s \in O!Sides, k \in O!AllKeys :
           new.child[s][k] = IF k = key THEN 0 ELSE IF s = d /\ k = w THEN key ELSE t.child[s][k]

\* No key lies in the gap of a node towards a side.
LEMMA GapOf ==
    ASSUME NEW K, NEW t, NEW b, Shape(K, t, b), NEW w \in K, NEW d \in O!Sides, t.child[d][w] = 0
    PROVE  /\ d = "left" => \A l \in K : ~(b["left"][w] < l /\ l < w)
           /\ d = "right" => \A l \in K : ~(w < l /\ l < b["right"][w])
<1>1. \A l \in K : ~(Beyond(d, w, l) /\ Beyond(d, l, b[d][w]))
  BY DEF Shape, Gaps
<1> QED
  BY <1>1 DEF Beyond

\* It keeps the shape, and has room between its bounds.
LEMMA LeafShape ==
    ASSUME NEW K, NEW t, NEW b, Shape(K, t, b), NEW key \in O!AllKeys, key \notin K,
           NEW w \in K, Between(b, key, w), NEW d, d = O!Towards(key, w), t.child[d][w] = 0,
           NEW new, Leafed(t, key, w, d, new)
    PROVE  \E c : /\ Shape(K \union {key}, new, c)
                  /\ c["right"][key] - c["left"][key] >= 2
<1> DEFINE Grown == K \union {key}
           o == O!Other(d)
           c == [b EXCEPT ![d][key] = b[d][w], ![o][key] = w]
<1>1. /\ key \in Int /\ w \in Int /\ 1 <= key /\ key <= MaxKey /\ key # 0 /\ MaxKey \in Nat
      /\ w \in O!AllKeys /\ w # key /\ K \subseteq O!AllKeys /\ w # 0 /\ w \in 0 .. MaxKey + 1
  <2>1. key \in Int /\ 1 <= key /\ key <= MaxKey /\ key # 0
    BY TreeAssumption DEF O!AllKeys
  <2>2. w \in Int /\ w \in O!AllKeys /\ w # 0 /\ w \in 0 .. MaxKey /\ MaxKey \in Nat
    BY KeysAre
  <2> QED
    BY <2>1, <2>2 DEF Shape
<1>2. d \in O!Sides /\ o \in O!Sides /\ o # d /\ O!Other(o) = d
      /\ O!Other("left") = "right" /\ O!Other("right") = "left"
  <2>1. d \in O!Sides
    BY SidesAre DEF O!Towards
  <2> QED
    BY <2>1, SidesAre DEF O!Other
<1>3. \/ d = "left" /\ o = "right" /\ key < w /\ \A l \in K : ~(b["left"][w] < l /\ l < w)
      \/ d = "right" /\ o = "left" /\ w < key /\ \A l \in K : ~(w < l /\ l < b["right"][w])
  <2>1. \/ d = "left" /\ key < w
        \/ d = "right" /\ w < key
    BY <1>1 DEF O!Towards
  <2> QED
    BY <1>2, <2>1, GapOf
<1>4. /\ c \in Bounds
      /\ \A s \in O!Sides, k \in O!AllKeys :
             c[s][k] = IF k = key THEN IF s = d THEN b[d][w] ELSE w ELSE b[s][k]
  <2> DEFINE x == b[d][w]
             N == 0 .. MaxKey + 1
  <2>1. b \in [O!Sides -> [O!AllKeys -> N]] /\ x \in N /\ w \in N
    BY <1>1, <1>2 DEF Shape, Bounds
  <2>2. \A s \in O!Sides : s = d \/ s = o
    BY <1>2, SidesAre
  <2> HIDE DEF o, x, N
  <2>3. c = [b EXCEPT ![d][key] = x, ![o][key] = w]
    BY DEF x
  <2>4. /\ c \in [O!Sides -> [O!AllKeys -> N]]
        /\ \A s \in O!Sides, k \in O!AllKeys :
               c[s][k] = IF k = key THEN IF s = d THEN x ELSE w ELSE b[s][k]
    <3> HIDE DEF c
    <3> QED
      BY ONLY key \in O!AllKeys, <1>2, <2>1, <2>2, <2>3
  <2> QED
    BY <2>4 DEF Bounds, N, x
<1> HIDE DEF c, o
<1>5. \A s \in O!Sides, k \in K : c[s][k] = b[s][k]
  BY <1>1, <1>4
<1>6. c[d][key] = b[d][w] /\ c[o][key] = w
  BY <1>2, <1>4
<1>7. \A k \in K : new.prev[k] = t.prev[k] /\ \A s \in O!Sides :
          new.child[s][k] = IF s = d /\ k = w THEN key ELSE t.child[s][k]
  BY <1>1 DEF Leafed
<1>8. new.prev[key] = w /\ (\A s \in O!Sides : new.child[s][key] = 0) /\ new.root = t.root /\ new \in Links
  BY DEF Leafed
<1>9. Within(Grown, c)
  <2>1. c["left"][key] < key /\ key < c["right"][key]
    BY <1>3, <1>6 DEF Between
  <2>2. ASSUME NEW k \in K PROVE c["left"][k] < k /\ k < c["right"][k]
    BY <1>5, KeysAre, SidesAre
  <2> QED
    BY <2>1, <2>2 DEF Within
<1>10. Ends(Grown, c)
  <2>1. \A k \in K : b["left"][k] \in K \union {0} /\ b["right"][k] \in K \union {MaxKey + 1}
    BY DEF Shape, Ends
  <2>2. c["left"][key] \in K \union {0} /\ c["right"][key] \in K \union {MaxKey + 1}
    BY <1>3, <1>6, <2>1
  <2> QED
    BY <1>5, <2>1, <2>2, SidesAre DEF Ends
<1>11. Rooted(Grown, new, c)
  BY <1>5, <1>7, <1>8, SidesAre DEF Shape, Rooted
<1>12. HangingOn(Grown, new)
  <2>1. SUFFICES ASSUME NEW k \in Grown, k # new.root
                 PROVE  new.prev[k] \in Grown /\ \E s \in O!Sides : new.child[s][new.prev[k]] = k
    BY DEF HangingOn
  <2>2. CASE k = key
    BY <1>2, <1>7, <1>8, <2>2
  <2>3. CASE k \in K
    <3>1. t.prev[k] \in K /\ \E s \in O!Sides : t.child[s][t.prev[k]] = k
      BY <1>8, <2>1, <2>3 DEF Shape, HangingOn
    <3>2. PICK s \in O!Sides : t.child[s][t.prev[k]] = k
      BY <3>1
    <3>3. new.prev[k] = t.prev[k] /\ ~(s = d /\ t.prev[k] = w)
      BY <1>7, <2>3, <3>2, KeysAre
    <3>4. new.child[s][new.prev[k]] = k
      BY <1>7, <3>1, <3>2, <3>3
    <3> QED
      BY <3>1, <3>3, <3>4
  <2> QED
    BY <2>2, <2>3
<1>13. Hanging(Grown, new, c)
  <2>1. SUFFICES ASSUME NEW k \in Grown, NEW s \in O!Sides, new.child[s][k] # 0
                 PROVE  LET x == new.child[s][k] IN
                        x \in Grown /\ new.prev[x] = k /\ c[s][x] = c[s][k] /\ c[O!Other(s)][x] = k
    BY DEF Hanging
  <2>2. k \in K
    BY <1>8, <2>1
  <2>3. CASE s = d /\ k = w
    <3>1. new.child[s][k] = key
      BY <1>7, <2>2, <2>3
    <3> QED
      BY <1>2, <1>5, <1>6, <1>8, <2>2, <2>3, <3>1 DEF o
  <2>4. CASE ~(s = d /\ k = w)
    <3> DEFINE x == t.child[s][k]
    <3>1. new.child[s][k] = x /\ x # 0
      BY <1>7, <2>1, <2>2, <2>4
    <3>2. x \in K /\ t.prev[x] = k /\ b[s][x] = b[s][k] /\ b[O!Other(s)][x] = k
      BY <2>2, <3>1 DEF Shape, Hanging
    <3> HIDE DEF x
    <3> QED
      BY <1>5, <1>7, <2>2, <3>1, <3>2, SidesAre
  <2> QED
    BY <2>3, <2>4
<1>14. \A k, l \in K : k < l =>
          \/ k <= b["left"][l] /\ l < b["right"][k]
          \/ b["right"][k] <= l /\ b["left"][l] < k
          \/ b["right"][k] <= b["left"][l]
  BY DEF Shape, Nested
<1>15. /\ \A k \in K : b["left"][k] \in K \union {0} /\ b["right"][k] \in K \union {MaxKey + 1}
       /\ \A k \in K : /\ k \in Int /\ b["left"][k] \in Int /\ b["right"][k] \in Int
                       /\ b["left"][k] < k /\ k < b["right"][k]
  <2>1. \A k \in K : b["left"][k] \in K \union {0} /\ b["right"][k] \in K \union {MaxKey + 1}
    BY DEF Shape, Ends
  <2> QED
    BY <2>1, KeysAre
<1>16. ASSUME NEW k \in K, key < k
       PROVE  \/ key <= b["left"][k] /\ k < c["right"][key]
              \/ c["right"][key] <= k /\ b["left"][k] < key
              \/ c["right"][key] <= b["left"][k]
  <2>1. CASE d = "left"
    BY <1>1, <1>3, <1>6, <1>14, <1>15, <1>16, <2>1 DEF Between
  <2>2. CASE d = "right"
    BY <1>1, <1>3, <1>6, <1>14, <1>15, <1>16, <2>2 DEF Between
  <2> QED
    BY <1>3, <2>1, <2>2
<1>17. ASSUME NEW k \in K, k < key
       PROVE  \/ k <= c["left"][key] /\ key < b["right"][k]
              \/ b["right"][k] <= key /\ c["left"][key] < k
              \/ b["right"][k] <= c["left"][key]
  <2>1. CASE d = "left"
    BY <1>1, <1>3, <1>6, <1>14, <1>15, <1>17, <2>1 DEF Between
  <2>2. CASE d = "right"
    BY <1>1, <1>3, <1>6, <1>14, <1>15, <1>17, <2>2 DEF Between
  <2> QED
    BY <1>3, <2>1, <2>2
<1>18. Nested(Grown, c)
  <2>1. \A k \in K : c["left"][k] = b["left"][k] /\ c["right"][k] = b["right"][k]
    BY <1>5, SidesAre
  <2> QED
    <3>1. SUFFICES ASSUME NEW k \in Grown, NEW l \in Grown, k < l
                   PROVE  \/ k <= c["left"][l] /\ l < c["right"][k]
                          \/ c["right"][k] <= l /\ c["left"][l] < k
                          \/ c["right"][k] <= c["left"][l]
      BY DEF Nested
    <3>2. CASE k \in K /\ l \in K
      BY <1>14, <2>1, <3>1, <3>2
    <3>3. CASE k = key /\ l \in K
      BY <1>16, <2>1, <3>1, <3>3
    <3>4. CASE k \in K /\ l = key
      BY <1>17, <2>1, <3>1, <3>4
    <3>5. ~(k = key /\ l = key)
      BY <1>1, <3>1
    <3> QED
      BY <3>2, <3>3, <3>4, <3>5
<1>19. ASSUME NEW k \in K, NEW s \in O!Sides, new.child[s][k] = 0,
              Beyond(s, k, key), Beyond(s, key, b[s][k])
       PROVE  FALSE
  <2>1. t.child[s][k] = 0 /\ ~(s = d /\ k = w)
    BY <1>1, <1>7, <1>19
  <2>2. /\ s = "left" => ~(b["left"][k] < w /\ w < k)
        /\ s = "right" => ~(k < w /\ w < b["right"][k])
    <3>1. /\ s = "left" => \A l \in K : ~(b["left"][k] < l /\ l < k)
          /\ s = "right" => \A l \in K : ~(k < l /\ l < b["right"][k])
      BY <2>1, GapOf
    <3> QED
      BY ONLY w \in K, <3>1, Zenon
  <2>3. \/ s = "left" /\ key < k /\ b["left"][k] < key
        \/ s = "right" /\ k < key /\ key < b["right"][k]
    BY <1>19, SidesAre DEF Beyond
  <2>4. /\ d = "left" => key < w /\ ~(b["left"][w] < k /\ k < w)
        /\ d = "right" => w < key /\ ~(w < k /\ k < b["right"][w])
    BY <1>3, SidesAre
  <2>5. /\ k < w => \/ k <= b["left"][w] /\ w < b["right"][k]
                    \/ b["right"][k] <= w /\ b["left"][w] < k
                    \/ b["right"][k] <= b["left"][w]
        /\ w < k => \/ w <= b["left"][k] /\ k < b["right"][w]
                    \/ b["right"][w] <= k /\ b["left"][k] < w
                    \/ b["right"][w] <= b["left"][k]
    BY <1>14
  <2>6. /\ k \in Int /\ b["left"][k] \in Int /\ b["right"][k] \in Int
        /\ w \in Int /\ b["left"][w] \in Int /\ b["right"][w] \in Int /\ key \in Int
        /\ b["left"][w] < key /\ key < b["right"][w]
    BY <1>1, <1>15 DEF Between
  <2>7. CASE d = "left"
    BY ONLY <2>1, <2>2, <2>3, <2>4, <2>5, <2>6, <2>7
  <2>8. CASE d = "right"
    BY ONLY <2>1, <2>2, <2>3, <2>4, <2>5, <2>6, <2>8
  <2> QED
    BY <1>3, <2>7, <2>8
<1>20. Gaps(Grown, new, c)
  <2>1. SUFFICES ASSUME NEW k \in Grown, NEW s \in O!Sides, NEW l \in Grown, new.child[s][k] = 0,
                        Beyond(s, k, l), Beyond(s, l, c[s][k])
                 PROVE  FALSE
    BY DEF Gaps
  <2>2. CASE k \in K /\ l \in K
    <3>1. t.child[s][k] = 0 /\ c[s][k] = b[s][k]
      BY <1>1, <1>5, <1>7, <2>1, <2>2
    <3> QED
      BY <2>1, <2>2, <3>1 DEF Shape, Gaps
  <2>3. CASE k \in K /\ l = key
    BY <1>5, <1>19, <2>1, <2>3
  <2>4. CASE k = key /\ l \in K
    <3>1. \/ s = "left" /\ l < key /\ c["left"][key] < l
          \/ s = "right" /\ key < l /\ l < c["right"][key]
      BY <2>1, <2>4, SidesAre DEF Beyond
    <3>2. CASE d = "left"
      BY <1>1, <1>3, <1>6, <1>15, <2>4, <3>1, <3>2 DEF Between
    <3>3. CASE d = "right"
      BY <1>1, <1>3, <1>6, <1>15, <2>4, <3>1, <3>3 DEF Between
    <3> QED
      BY <1>3, <3>2, <3>3
  <2>5. CASE k = key /\ l = key
    BY <1>1, <2>1, <2>5 DEF Beyond
  <2> QED
    BY <2>2, <2>3, <2>4, <2>5
<1>21. Shape(Grown, new, c)
  BY <1>1, <1>4, <1>8, <1>9, <1>10, <1>11, <1>12, <1>13, <1>18, <1>20 DEF Shape
<1>22. c["right"][key] - c["left"][key] >= 2
  <2>1. c["left"][key] < key /\ key < c["right"][key] /\ c["left"][key] \in Int /\ c["right"][key] \in Int
    BY <1>3, <1>6, <1>9, <1>15, <1>1 DEF Within
  <2> QED
    BY <1>1, <2>1
<1> QED
  BY <1>21, <1>22

\* What the rounds of an insertion keep: the shape, a child where the weight leads, and
\* n rounds up there is room for as many nodes.
Growing(K, loop, n) ==
    /\ loop \in [links : Links, below : 0 .. MaxKey] /\ ~loop.links.fault
    /\ \E b : /\ Shape(K, loop.links, b)
              /\ loop.below # 0 => /\ loop.below \in K /\ Leads(loop.links, loop.below)
                                   /\ b["right"][loop.below] - b["left"][loop.below] >= n + 2

\* The weights are no part of the shape.
LEMMA SameShape ==
    ASSUME NEW K, NEW t, NEW b, Shape(K, t, b), NEW new \in Links,
           new.root = t.root, new.child = t.child, new.prev = t.prev
    PROVE  Shape(K, new, b)
BY DEF Shape, Rooted, HangingOn, Hanging, Gaps

\* The room of a node that a parent has, and of what a rotation raises to its place.
LEMMA WiderAbove ==
    ASSUME NEW K, NEW t, NEW b, Shape(K, t, b), NEW node \in K, NEW side \in O!Sides,
           NEW x \in K, x = t.child[side][node], NEW n \in Nat,
           b["right"][x] - b["left"][x] >= n + 2
    PROVE  b["right"][node] - b["left"][node] >= (n + 1) + 2
<1>1. b[side][x] = b[side][node] /\ b[O!Other(side)][x] = node
  BY KeysAre DEF Shape, Hanging
<1>2. \/ side = "left" /\ O!Other(side) = "right"
      \/ side = "right" /\ O!Other(side) = "left"
  BY SidesAre DEF O!Other
<1> QED
  BY <1>1, <1>2, KeysAre

\* One round of the insertion keeps it, one node further up.
LEMMA GrowKeeps ==
    ASSUME NEW K, NEW t, NEW b, Shape(K, t, b), ~t.fault, NEW x \in K, Leads(t, x),
           NEW n \in Nat, b["right"][x] - b["left"][x] >= n + 2
    PROVE  Growing(K, O!Grow(t, x), n + 1)
<1> DEFINE node == t.prev[x]
           side == O!SideOf(t, x, node)
           s == O!Other(side)
           lean == t.weight[node] * O!Sign(side)
           raised == O!HungRotated(t, node, s, t.prev[node], node)
           top == O!Top(t, node, s)
<1>1. O!Grow(t, x) =
          CASE node = 0 -> O!Over(t)
            [] node # 0 /\ lean < 0 -> O!Over(O!Weighed(t, node, 0))
            [] node # 0 /\ t.weight[node] = 0 -> O!On(O!Weighed(t, node, O!Sign(side)), node)
            [] node # 0 /\ lean > 0 -> O!On(raised, top)
  BY Zenon DEF O!Grow
<1>2. x \in K /\ t \in Links /\ x # 0 /\ x \in 0 .. MaxKey
  BY KeysAre DEF Shape
<1>3. node # 0 => /\ node \in K /\ side \in O!Sides /\ t.child[side][node] = x
                  /\ node \in O!AllKeys /\ node \in 0 .. MaxKey /\ t.weight[node] \in Int
                  /\ O!Sign(side) \in {1, -1} /\ lean \in Int /\ (lean = 0 <=> t.weight[node] = 0)
                  /\ b["right"][node] - b["left"][node] >= (n + 1) + 2
  <2>1. SUFFICES ASSUME node # 0
                 PROVE  /\ node \in K /\ side \in O!Sides /\ t.child[side][node] = x
                        /\ node \in O!AllKeys /\ node \in 0 .. MaxKey /\ t.weight[node] \in Int
                        /\ O!Sign(side) \in {1, -1} /\ lean \in Int /\ (lean = 0 <=> t.weight[node] = 0)
                        /\ b["right"][node] - b["left"][node] >= (n + 1) + 2
    OBVIOUS
  <2>2. node \in K /\ (t.child["left"][node] = x \/ t.child["right"][node] = x)
    BY ONLY Shape(K, t, b), <1>2, <2>1, OneLink
  <2>3. side \in O!Sides /\ t.child[side][node] = x
    BY ONLY <2>2, SidesAre DEF O!SideOf
  <2> HIDE DEF side
  <2>4. b["right"][node] - b["left"][node] >= (n + 1) + 2
    BY <2>2, <2>3, WiderAbove
  <2> HIDE DEF node
  <2>5. node \in O!AllKeys /\ node \in 0 .. MaxKey
    BY <2>2, KeysAre
  <2>6. t.weight[node] \in Int
    BY <1>2, <2>5 DEF Links
  <2>7. O!Sign(side) \in {1, -1}
    BY ONLY <2>3, Signs
  <2>8. lean \in Int /\ (lean = 0 <=> t.weight[node] = 0)
    BY ONLY <2>6, <2>7
  <2> QED
    BY ONLY <2>2, <2>3, <2>4, <2>5, <2>6, <2>7, <2>8
<1> HIDE DEF side, lean, raised, top, node
<1>4. CASE node = 0
  <2>1. O!Grow(t, x) = [links |-> t, below |-> 0]
    BY ONLY <1>1, <1>4 DEF O!Over, O!On
  <2> QED
    BY ONLY Shape(K, t, b), ~t.fault, <1>2, <2>1, TreeAssumption DEF Growing
<1>5. CASE node # 0 /\ lean < 0
  <2> DEFINE new == O!Weighed(t, node, 0)
  <2>1. O!Grow(t, x) = [links |-> new, below |-> 0]
    BY ONLY <1>1, <1>3, <1>5 DEF O!Over, O!On
  <2>2. node \in O!AllKeys /\ 0 \in Int
    BY <1>3, <1>5
  <2>3. /\ new \in Links /\ new.root = t.root /\ new.fault = t.fault
        /\ new.child = t.child /\ new.prev = t.prev
    BY ONLY <1>2, <2>2, WeightSet
  <2> HIDE DEF new
  <2>4. Shape(K, new, b)
    BY ONLY Shape(K, t, b), <2>3, SameShape
  <2> QED
    BY ONLY ~t.fault, <2>1, <2>3, <2>4, TreeAssumption DEF Growing
<1>6. CASE node # 0 /\ t.weight[node] = 0
  <2> DEFINE new == O!Weighed(t, node, O!Sign(side))
  <2>1. O!Grow(t, x) = [links |-> new, below |-> node]
    BY ONLY <1>1, <1>3, <1>6 DEF O!On
  <2>2. node \in O!AllKeys /\ O!Sign(side) \in Int
    BY ONLY <1>3, <1>6
  <2>3. /\ new \in Links /\ new.root = t.root /\ new.fault = t.fault
        /\ new.child = t.child /\ new.prev = t.prev /\ new.weight[node] = O!Sign(side)
    BY ONLY <1>2, <2>2, WeightSet
  <2> HIDE DEF new
  <2>4. Shape(K, new, b)
    BY ONLY Shape(K, t, b), <2>3, SameShape
  <2>5. Leads(new, node)
    <3>1. ASSUME NEW d \in O!Sides, new.weight[node] * O!Sign(d) > 0 PROVE d = side
      <4>1. side \in O!Sides /\ O!Sign(d) \in {1, -1} /\ O!Sign(side) \in {1, -1}
        BY <1>3, <1>6, Signs
      <4>2. O!Sign(side) * O!Sign(d) > 0
        BY <2>3, <3>1
      <4>3. O!Sign(d) = O!Sign(side)
        BY ONLY <4>1, <4>2
      <4> QED
        BY ONLY <4>1, <4>3, d \in O!Sides, Signs
    <3>2. new.child[side][node] # 0
      BY <1>2, <1>3, <1>6, <2>3
    <3> QED
      BY <3>1, <3>2 DEF Leads
  <2> QED
    BY ONLY ~t.fault, <1>3, <1>6, <2>1, <2>3, <2>4, <2>5 DEF Growing
<1>7. CASE node # 0 /\ lean > 0
  <2>1. O!Grow(t, x) = [links |-> raised, below |-> top]
    BY ONLY <1>1, <1>3, <1>7 DEF O!On
  <2>2. /\ s \in O!Sides /\ O!Other(s) = side /\ node \in K
        /\ x = t.child[O!Other(s)][node] /\ x # 0 /\ s # side
    BY <1>2, <1>3, <1>7, SidesAre
  <2>3. raised = O!HungRotated(t, node, s, t.prev[node], node) /\ top = O!Top(t, node, s)
    BY DEF raised, top
  <2> HIDE DEF s
  <2>4. SUFFICES /\ raised \in Links /\ raised.fault = t.fault
                 /\ top \in K /\ Leads(raised, top)
                 /\ \E c : Shape(K, raised, c) /\ \A d \in O!Sides : c[d][top] = b[d][node]
    <3>1. b["right"][node] - b["left"][node] >= (n + 1) + 2
      BY <1>3, <1>7
    <3>2. top \in K => top \in 0 .. MaxKey
      BY KeysAre
    <3> QED
      BY ONLY ~t.fault, <2>1, <2>4, <3>1, <3>2, SidesAre DEF Growing
  <2>5. t.weight[x] \in Int /\ O!Sign(s) \in {1, -1} /\ t.weight[x] * O!Sign(s) \in Int
    <3>1. t.weight[x] \in Int /\ O!Sign(s) \in {1, -1}
      BY <1>2, <2>2, KeysAre, Signs DEF Links
    <3> QED
      BY ONLY <3>1
  <2>6. CASE t.weight[x] * O!Sign(s) <= 0
    <3>1. /\ top = x
          /\ raised \in Links /\ raised.fault = t.fault /\ Turned(t, node, s, raised) /\ Leads(raised, x)
      BY ONLY Shape(K, t, b), <2>2, <2>3, <2>6, OnceTurns, SMTT(20)
    <3>2. \E c : Shape(K, raised, c) /\ \A d \in O!Sides : c[d][x] = b[d][node]
      BY ONLY Shape(K, t, b), <2>2, <3>1, Turn
    <3> QED
      BY <1>2, <3>1, <3>2
  <2>7. CASE t.weight[x] * O!Sign(s) > 0
    <3> DEFINE u == t.child[s][x]
    <3>1. u # 0 /\ x \in K
      BY ONLY Leads(t, x), x \in K, <2>2, <2>7 DEF Leads
    <3>2. u \in K /\ u = t.child[s][x] /\ u # x /\ t.prev[x] # u
      <4>1. t.child[s][x] # 0
        BY <3>1
      <4> QED
        BY ONLY Shape(K, t, b), x \in K, <2>2, <4>1, ChildOf
    <3> HIDE DEF u
    <3>3. /\ top = u
          /\ raised \in Links /\ raised.fault = t.fault /\ Leads(raised, u)
          /\ \E mid \in Links : /\ Turned(t, x, O!Other(s), mid)
                                /\ mid.child[O!Other(s)][node] = u /\ mid.prev[node] = t.prev[node]
                                /\ Turned(mid, node, s, raised)
      BY ONLY Shape(K, t, b), <2>2, <2>3, <2>7, <3>1, <3>2, TwiceTurns, SMTT(20)
    <3>4. PICK mid \in Links : /\ Turned(t, x, O!Other(s), mid)
                               /\ mid.child[O!Other(s)][node] = u
                               /\ Turned(mid, node, s, raised)
      BY <3>3
    <3>5. O!Other(s) \in O!Sides /\ t.child[O!Other(O!Other(s))][x] = u
      BY <2>2, <3>2, SidesAre
    <3>6. PICK c : /\ Shape(K, mid, c)
                   /\ \A d \in O!Sides, k \in K : k # x /\ k # u => c[d][k] = b[d][k]
      BY ONLY Shape(K, t, b), <3>1, <3>4, <3>5, Turn
    <3>7. node # x /\ node # u
      <4>1. node = t.prev[x]
        BY DEF node
      <4>2. node # x
        <5>1. t.child[side][node] # 0 /\ side \in O!Sides /\ t.child[side][node] = x /\ node \in K
          BY <1>3, <1>7, <1>2
        <5> QED
          BY ONLY Shape(K, t, b), <5>1, ChildOf
      <4> QED
        BY <3>2, <4>1, <4>2
    <3>8. PICK e : /\ Shape(K, raised, e)
                   /\ \A d \in O!Sides : e[d][u] = c[d][node]
      BY ONLY <2>2, <3>1, <3>3, <3>4, <3>6, Turn
    <3>9. \A d \in O!Sides : e[d][top] = b[d][node]
      BY <2>2, <3>3, <3>6, <3>7, <3>8
    <3> QED
      BY <3>2, <3>3, <3>8, <3>9
  <2> QED
    BY <2>5, <2>6, <2>7
<1> QED
  BY <1>3, <1>4, <1>5, <1>6, <1>7

LEMMA GrowOnceKeeps ==
    ASSUME NEW K, NEW n \in Nat, NEW loop, Growing(K, loop, n)
    PROVE  Growing(K, O!GrowOnce(loop), n + 1) /\ (loop.below = 0 => O!GrowOnce(loop) = loop)
<1>1. PICK b : /\ Shape(K, loop.links, b)
               /\ loop.below # 0 => /\ loop.below \in K /\ Leads(loop.links, loop.below)
                                    /\ b["right"][loop.below] - b["left"][loop.below] >= n + 2
  BY DEF Growing
<1>2. ~loop.links.fault /\ loop \in [links : Links, below : 0 .. MaxKey]
  BY DEF Growing
<1>3. CASE loop.below = 0
  <2>1. O!GrowOnce(loop) = loop
    BY <1>3 DEF O!GrowOnce
  <2> QED
    BY <1>1, <1>2, <1>3, <2>1 DEF Growing
<1>4. CASE loop.below # 0
  <2>1. O!GrowOnce(loop) = O!Grow(loop.links, loop.below)
    BY <1>2, <1>4 DEF O!GrowOnce
  <2> QED
    BY ONLY n \in Nat, <1>1, <1>2, <1>4, <2>1, GrowKeeps
<1> QED
  BY <1>3, <1>4

\* The rounds end before there are more of them than keys, without a fault.
LEMMA GrownKeeps ==
    ASSUME NEW K, NEW t, NEW key, Growing(K, O!On(t, key), 0)
    PROVE  /\ O!Grown(t, key) \in Links /\ ~O!Grown(t, key).fault
           /\ \E b : Shape(K, O!Grown(t, key), b)
<1> DEFINE D == { loop \in [links : Links, below : 0 .. MaxKey] : Growing(K, loop, 0) }
<1>1. O!On(t, key) \in D
  BY DEF Growing
<1>2. ASSUME NEW loop, NEW n \in Nat, Growing(K, loop, n) PROVE Growing(K, loop, 0)
  <2>1. PICK b : /\ Shape(K, loop.links, b)
                 /\ loop.below # 0 => /\ loop.below \in K /\ Leads(loop.links, loop.below)
                                      /\ b["right"][loop.below] - b["left"][loop.below] >= n + 2
    BY <1>2 DEF Growing
  <2>2. loop.below # 0 => b["right"][loop.below] - b["left"][loop.below] >= 0 + 2
    BY <2>1, KeysAre
  <2> QED
    BY <1>2, <2>1, <2>2 DEF Growing
<1>3. \A loop \in D : O!GrowOnce(loop) \in D
  <2>1. SUFFICES ASSUME NEW loop, Growing(K, loop, 0)
                 PROVE  Growing(K, O!GrowOnce(loop), 0)
                        /\ O!GrowOnce(loop) \in [links : Links, below : 0 .. MaxKey]
    OBVIOUS
  <2>2. Growing(K, O!GrowOnce(loop), 0 + 1)
    BY <2>1, GrowOnceKeeps
  <2>3. 0 + 1 \in Nat
    OBVIOUS
  <2> QED
    BY <1>2, <2>2, <2>3 DEF Growing
<1> HIDE DEF D
<1>4. PICK way : /\ O!Grown(t, key) = O!Ended(way[MaxKey]) /\ way[0] = O!On(t, key)
                 /\ \A m \in 1 .. MaxKey : way[m] = O!GrowOnce(way[m - 1])
  BY <1>1, <1>3, GrownGoes
<1> DEFINE Good == { m \in 0 .. MaxKey : Growing(K, way[m], m) }
<1>5. 0 \in Good
  BY <1>4, TreeAssumption
<1>6. ASSUME NEW m \in 1 .. MaxKey, m - 1 \in Good PROVE m \in Good
  <2>1. m - 1 \in Nat /\ (m - 1) + 1 = m /\ m \in 0 .. MaxKey
    BY TreeAssumption
  <2>2. Growing(K, way[m - 1], m - 1) /\ way[m] = O!GrowOnce(way[m - 1])
    BY <1>4, <1>6
  <2>3. Growing(K, way[m], (m - 1) + 1)
    BY ONLY <2>1, <2>2, GrowOnceKeeps
  <2> QED
    BY <2>1, <2>3
<1> HIDE DEF Good
<1>7. MaxKey \in Good
  <2>1. \A m \in 0 .. MaxKey : m \in Good
    BY <1>5, <1>6, OneByOne, TreeAssumption
  <2> QED
    BY <2>1, TreeAssumption
<1> DEFINE last == way[MaxKey]
<1>8. Growing(K, last, MaxKey)
  BY <1>7 DEF Good
<1>9. O!Grown(t, key) = O!Ended(last)
  BY <1>4
<1> HIDE DEF last
<1>10. last.below = 0
  <2>1. SUFFICES ASSUME last.below # 0 PROVE FALSE
    OBVIOUS
  <2>2. PICK b : /\ Shape(K, last.links, b) /\ last.below \in K
                 /\ b["right"][last.below] - b["left"][last.below] >= MaxKey + 2
    BY <1>8, <2>1 DEF Growing
  <2> QED
    BY <2>2, KeysAre
<1> QED
  BY <1>8, <1>9, <1>10 DEF Growing, O!Ended

-----------------------------------------------------------------------------
\* The furthest node towards a side under a node.
LEMMA OutmostIs ==
    ASSUME NEW K, NEW t, NEW b, Shape(K, t, b), NEW s \in O!Sides, NEW node \in K,
           NEW w, w = O!Outmost(t, s, node)
    PROVE  /\ w \in K /\ b[s][w] = b[s][node] /\ t.child[s][w] = 0
           /\ w = node \/ Beyond(s, node, w)
<1> DEFINE D == K
           Room(y) == IF s = "left" THEN y - b["left"][y] ELSE b["right"][y] - y
<1>1. ASSUME NEW y \in K
      PROVE  /\ O!Further(t, s, y) \in K
             /\ t.child[s][y] = 0 => O!Further(t, s, y) = y
             /\ t.child[s][y] # 0 => /\ b[s][O!Further(t, s, y)] = b[s][y]
                                     /\ Beyond(s, y, O!Further(t, s, y))
  <2>1. CASE t.child[s][y] = 0
    BY <2>1 DEF O!Further
  <2>2. CASE t.child[s][y] # 0
    <3>1. /\ t.child[s][y] \in K /\ Beyond(s, y, t.child[s][y])
          /\ b[s][t.child[s][y]] = b[s][y]
      BY <2>2, ChildOf
    <3> QED
      BY <2>2, <3>1 DEF O!Further
  <2> QED
    BY <2>1, <2>2
<1>2. ASSUME NEW y \in K
      PROVE  Room(y) \in Int /\ 0 < Room(y) /\ Room(y) <= MaxKey
  BY KeysAre
<1>3. ASSUME NEW y \in K, NEW z \in K, b[s][z] = b[s][y], Beyond(s, y, z)
      PROVE  Room(z) < Room(y)
  <2>1. CASE s = "left"
    BY <1>3, <2>1, KeysAre DEF Beyond
  <2>2. CASE s # "left"
    BY <1>3, <2>2, KeysAre, SidesAre DEF Beyond
  <2> QED
    BY <2>1, <2>2
<1>4. PICK way : /\ w = way[MaxKey] /\ way[0] = node
                 /\ \A m \in 1 .. MaxKey : way[m] = O!Further(t, s, way[m - 1])
  BY <1>1, OutmostGoes
<1> HIDE DEF Room
<1> DEFINE Good == { m \in 0 .. MaxKey :
                        /\ way[m] \in K /\ b[s][way[m]] = b[s][node]
                        /\ way[m] = node \/ Beyond(s, node, way[m])
                        /\ t.child[s][way[m]] = 0 \/ Room(way[m]) <= MaxKey - m }
<1>5. 0 \in Good
  BY <1>2, <1>4, TreeAssumption
<1>6. ASSUME NEW m \in 1 .. MaxKey, m - 1 \in Good PROVE m \in Good
  <2> DEFINE y == way[m - 1]
             z == way[m]
  <2>1. /\ y \in K /\ b[s][y] = b[s][node] /\ (y = node \/ Beyond(s, node, y))
        /\ t.child[s][y] = 0 \/ Room(y) <= MaxKey - (m - 1)
        /\ z = O!Further(t, s, y)
    BY <1>4, <1>6
  <2>2. m \in 0 .. MaxKey /\ MaxKey \in Int
    BY TreeAssumption
  <2> HIDE DEF y, z
  <2>3. CASE t.child[s][y] = 0
    <3>1. z = y
      BY <1>1, <2>1, <2>3
    <3> QED
      BY <2>1, <2>2, <2>3, <3>1 DEF z
  <2>4. CASE t.child[s][y] # 0
    <3>1. z \in K /\ b[s][z] = b[s][y] /\ Beyond(s, y, z)
      BY <1>1, <2>1, <2>4
    <3>2. Room(z) < Room(y) /\ Room(z) \in Int /\ Room(y) \in Int
      BY <1>2, <1>3, <2>1, <3>1
    <3>3. Room(z) <= MaxKey - m
      BY <2>1, <2>2, <2>4, <3>2
    <3>4. Beyond(s, node, z)
      <4>1. node \in Int /\ y \in Int /\ z \in Int
        BY <2>1, <3>1, KeysAre
      <4> QED
        BY <2>1, <3>1, <4>1 DEF Beyond
    <3> QED
      BY <2>1, <2>2, <3>1, <3>3, <3>4 DEF z
  <2> QED
    BY <2>3, <2>4
<1> HIDE DEF Good
<1>7. MaxKey \in Good
  <2>1. \A m \in 0 .. MaxKey : m \in Good
    BY <1>5, <1>6, OneByOne, TreeAssumption
  <2> QED
    BY <2>1, TreeAssumption
<1>8. /\ w \in K /\ b[s][w] = b[s][node] /\ (w = node \/ Beyond(s, node, w))
      /\ t.child[s][w] = 0 \/ Room(w) <= MaxKey - MaxKey
  BY <1>4, <1>7 DEF Good
<1> QED
  BY <1>2, <1>8, TreeAssumption

\* The way up from the furthest node under a node on its side ends at that node.
LEMMA UpIs ==
    ASSUME NEW K, NEW b, Shape(K, O!links, b), NEW s \in O!Sides, NEW node \in K
    PROVE  \E w \in K : /\ O!UpWhile(node, s) = O!links.prev[w] /\ b[s][w] = b[s][node]
                        /\ \/ O!links.prev[w] = 0
                           \/ O!links.child[s][O!links.prev[w]] # w
<1> DEFINE t == O!links
           Done(y) == t.prev[y] = 0 \/ t.child[s][t.prev[y]] # y
           Room(y) == IF s = "left" THEN y - b["left"][y] ELSE b["right"][y] - y
<1>1. ASSUME NEW y \in K
      PROVE  /\ O!UpOnce(s, y) \in K
             /\ Done(y) => O!UpOnce(s, y) = y
             /\ ~Done(y) => b[s][O!UpOnce(s, y)] = b[s][y] /\ Beyond(s, O!UpOnce(s, y), y)
  <2>1. CASE Done(y)
    BY <2>1 DEF O!UpOnce
  <2>2. CASE ~Done(y)
    <3> DEFINE p == t.prev[y]
    <3>1. p # 0 /\ t.child[s][p] = y /\ O!UpOnce(s, y) = p
      BY <2>2 DEF O!UpOnce
    <3>2. p \in K
      BY <3>1, OneLink
    <3> HIDE DEF p
    <3>3. t.child[s][p] # 0
      BY <3>1, KeysAre
    <3>4. Beyond(s, p, t.child[s][p]) /\ b[s][t.child[s][p]] = b[s][p]
      BY ONLY Shape(K, t, b), s \in O!Sides, <3>2, <3>3, ChildOf
    <3> QED
      BY <2>2, <3>1, <3>2, <3>4
  <2> QED
    BY <2>1, <2>2
<1>2. ASSUME NEW y \in K PROVE Room(y) \in Int /\ 0 < Room(y) /\ Room(y) <= MaxKey
  BY KeysAre
<1>3. ASSUME NEW y \in K, NEW z \in K, b[s][z] = b[s][y], Beyond(s, z, y) PROVE Room(y) < Room(z)
  <2>1. CASE s = "left"
    BY <1>3, <2>1, KeysAre DEF Beyond
  <2>2. CASE s # "left"
    BY <1>3, <2>2, KeysAre, SidesAre DEF Beyond
  <2> QED
    BY <2>1, <2>2
<1>4. PICK way : /\ O!UpWhile(node, s) = t.prev[way[MaxKey]] /\ way[0] = node
                 /\ \A m \in 1 .. MaxKey : way[m] = O!UpOnce(s, way[m - 1])
  BY <1>1, UpGoes
<1> HIDE DEF Room, Done
<1> DEFINE Good == { m \in 0 .. MaxKey : /\ way[m] \in K /\ b[s][way[m]] = b[s][node]
                                         /\ Done(way[m]) \/ Room(way[m]) > m }
<1>5. 0 \in Good
  BY <1>2, <1>4, TreeAssumption
<1>6. ASSUME NEW m \in 1 .. MaxKey, m - 1 \in Good PROVE m \in Good
  <2> DEFINE y == way[m - 1]
             z == way[m]
  <2>1. /\ y \in K /\ b[s][y] = b[s][node] /\ (Done(y) \/ Room(y) > m - 1)
        /\ z = O!UpOnce(s, y)
    BY <1>4, <1>6
  <2>2. m \in 0 .. MaxKey /\ MaxKey \in Int
    BY TreeAssumption
  <2> HIDE DEF y, z
  <2>3. CASE Done(y)
    <3>1. z = y
      BY <1>1, <2>1, <2>3
    <3> QED
      BY <2>1, <2>2, <2>3, <3>1 DEF z
  <2>4. CASE ~Done(y)
    <3>1. z \in K /\ b[s][z] = b[s][y] /\ Beyond(s, z, y)
      BY <1>1, <2>1, <2>4
    <3>2. Room(y) < Room(z) /\ Room(z) \in Int /\ Room(y) \in Int
      BY <1>2, <1>3, <2>1, <3>1
    <3>3. Room(z) > m
      BY <2>1, <2>2, <2>4, <3>2
    <3> QED
      BY <2>1, <2>2, <3>1, <3>3 DEF z
  <2> QED
    BY <2>3, <2>4
<1> HIDE DEF Good
<1>7. MaxKey \in Good
  <2>1. \A m \in 0 .. MaxKey : m \in Good
    BY <1>5, <1>6, OneByOne, TreeAssumption
  <2> QED
    BY <2>1, TreeAssumption
<1>8. LET w == way[MaxKey] IN w \in K /\ b[s][w] = b[s][node] /\ (Done(w) \/ Room(w) > MaxKey)
  BY <1>7 DEF Good
<1>9. Done(way[MaxKey])
  BY <1>2, <1>8, TreeAssumption
<1> QED
  BY <1>4, <1>8, <1>9 DEF Done

\* The next node of an iteration towards a side: none lies between.
LEMMA BesideIs ==
    ASSUME NEW K, NEW b, Shape(K, O!links, b), NEW s \in O!Sides, NEW node \in K,
           NEW z, z = O!Beside(s, node)
    PROVE  \/ z = 0 /\ \A l \in K : ~Beyond(s, node, l)
           \/ /\ z \in K /\ Beyond(s, node, z)
              /\ \A l \in K : ~(Beyond(s, node, l) /\ Beyond(s, l, z))
<1> DEFINE t == O!links
           o == O!Other(s)
<1>0. o \in O!Sides /\ O!Other(o) = s /\ o # s
  BY SidesAre
<1>1. ASSUME NEW x, NEW y PROVE Beyond(o, x, y) <=> Beyond(s, y, x)
  BY DEF Beyond, O!Other, O!Sides
<1> HIDE DEF o
<1>2. CASE t.child[s][node] # 0
  <2> DEFINE c == t.child[s][node]
  <2>1. c \in K /\ b[o][c] = node
    BY <1>2, ChildOf DEF o
  <2>2. z = O!Outmost(t, o, c)
    BY <1>2 DEF O!Beside, o
  <2> HIDE DEF c
  <2>3. z \in K /\ b[o][z] = node /\ t.child[o][z] = 0
    BY <1>0, <2>1, <2>2, OutmostIs
  <2>4. Beyond(o, z, node)
    BY <1>0, <2>3, BoundBeyond
  <2>5. \A l \in K : ~(Beyond(o, z, l) /\ Beyond(o, l, node))
    BY <1>0, <2>3 DEF Shape, Gaps
  <2> QED
    BY <1>1, <2>3, <2>4, <2>5
<1>3. CASE t.child[s][node] = 0
  <2>1. \A l \in K : ~(Beyond(s, node, l) /\ Beyond(s, l, b[s][node]))
    BY <1>3 DEF Shape, Gaps
  <2>2. PICK w \in K : /\ O!UpWhile(node, s) = t.prev[w] /\ b[s][w] = b[s][node]
                       /\ t.prev[w] = 0 \/ t.child[s][t.prev[w]] # w
    BY UpIs
  <2>3. z = t.prev[w]
    BY <1>3, <2>2 DEF O!Beside
  <2>4. CASE t.prev[w] = 0
    <3>1. w = t.root
      <4>1. w # t.root => t.prev[w] \in K
        BY DEF Shape, HangingOn
      <4> QED
        BY <2>4, <4>1, KeysAre
    <3>2. b["left"][w] = 0 /\ b["right"][w] = MaxKey + 1
      BY <3>1 DEF Shape, Rooted
    <3>3. \A l \in K : Beyond(s, l, b[s][w])
      BY <3>2, KeysAre, SidesAre DEF Beyond
    <3> QED
      BY <2>1, <2>2, <2>3, <2>4, <3>3
  <2>5. CASE t.prev[w] # 0
    <3>1. t.prev[w] \in K /\ \E d \in O!Sides : t.child[d][t.prev[w]] = w
      BY <2>5, OneLink, SidesAre
    <3>2. t.child[o][t.prev[w]] = w
      BY <2>2, <2>5, <3>1, SidesAre DEF o
    <3>3. b[s][w] = t.prev[w]
      BY <1>0, <3>1, <3>2, KeysAre DEF Shape, Hanging
    <3>4. Beyond(s, node, b[s][node])
      BY BoundBeyond
    <3> QED
      BY <2>1, <2>2, <2>3, <3>1, <3>3, <3>4
  <2> QED
    BY <2>4, <2>5
<1> QED
  BY <1>2, <1>3

\* The least and the greatest of a set of numbers.
LEMMA LeastIs ==
    ASSUME NEW G \in SUBSET Int, NEW w \in G, \A l \in G : w <= l
    PROVE  O!Least(G) = w
<1> DEFINE x == CHOOSE k \in G : \A l \in G : k <= l
<1>1. x \in G /\ \A l \in G : x <= l
  OBVIOUS
<1>2. O!Least(G) = x
  BY DEF O!Least
<1> HIDE DEF x
<1> QED
  BY <1>1, <1>2

LEMMA GreatestIs ==
    ASSUME NEW G \in SUBSET Int, NEW w \in G, \A l \in G : l <= w
    PROVE  O!Greatest(G) = w
<1> DEFINE x == CHOOSE k \in G : \A l \in G : l <= k
<1>1. x \in G /\ \A l \in G : l <= x
  OBVIOUS
<1>2. O!Greatest(G) = x
  BY DEF O!Greatest
<1> HIDE DEF x
<1> QED
  BY <1>1, <1>2

\* An iteration of the tree is in order.
LEMMA TreeInOrder ==
    ASSUME NEW b, Shape(O!keys, O!links, b)
    PROVE  O!InOrder
<1> DEFINE K == O!keys
           t == O!links
<1>0. K \in SUBSET Int /\ "left" \in O!Sides /\ "right" \in O!Sides
  BY KeysAre, SidesAre
<1>1. O!Front = O!Least(K)
  <2>1. t.root \in K /\ b["left"][t.root] = 0
    BY DEF Shape, Rooted
  <2>2. /\ O!Front \in K /\ b["left"][O!Front] = 0 /\ t.child["left"][O!Front] = 0
    BY <1>0, <2>1, OutmostIs DEF O!Front
  <2>3. \A l \in K : ~(b["left"][O!Front] < l /\ l < O!Front)
    BY <1>0, <2>2, GapOf
  <2>4. \A l \in K : O!Front <= l
    BY <2>2, <2>3, KeysAre
  <2> QED
    BY <1>0, <2>2, <2>4, LeastIs
<1>2. O!Back = O!Greatest(K)
  <2>1. t.root \in K /\ b["right"][t.root] = MaxKey + 1
    BY DEF Shape, Rooted
  <2>2. /\ O!Back \in K /\ b["right"][O!Back] = MaxKey + 1 /\ t.child["right"][O!Back] = 0
    BY <1>0, <2>1, OutmostIs DEF O!Back
  <2>3. \A l \in K : ~(O!Back < l /\ l < b["right"][O!Back])
    BY <1>0, <2>2, GapOf
  <2>4. \A l \in K : l <= O!Back
    BY <2>2, <2>3, KeysAre
  <2> QED
    BY <1>0, <2>2, <2>4, GreatestIs
<1>3. ASSUME NEW k \in K PROVE O!NextKey(k) = O!Least({ l \in K : l > k })
  <2> DEFINE z == O!NextKey(k)
             G == { l \in K : l > k }
  <2>1. z = O!Beside("right", k)
    BY DEF O!NextKey
  <2> HIDE DEF z
  <2>2. \/ z = 0 /\ \A l \in K : ~(k < l)
        \/ z \in K /\ k < z /\ \A l \in K : ~(k < l /\ l < z)
    <3>1. \/ z = 0 /\ \A l \in K : ~Beyond("right", k, l)
          \/ /\ z \in K /\ Beyond("right", k, z)
             /\ \A l \in K : ~(Beyond("right", k, l) /\ Beyond("right", l, z))
      BY <1>0, <2>1, BesideIs
    <3> QED
      BY <3>1 DEF Beyond
  <2>3. CASE z = 0 /\ \A l \in K : ~(k < l)
    <3>1. G = {}
      BY <1>0, <2>3
    <3>2. O!Least({}) = 0
      BY DEF O!Least
    <3> HIDE DEF G
    <3>3. O!Least(G) = z
      BY <2>3, <3>1, <3>2
    <3> QED
      BY <3>3 DEF z, G
  <2>4. CASE z \in K /\ k < z /\ \A l \in K : ~(k < l /\ l < z)
    <3>1. G \in SUBSET Int /\ z \in G /\ \A l \in G : z <= l
      <4>1. k \in Int /\ z \in Int /\ \A l \in G : l \in Int
        BY <1>0, <2>4
      <4>2. G \in SUBSET Int
        BY <4>1, Zenon
      <4>3. z \in G
        BY <2>4
      <4>4. ASSUME NEW l \in G PROVE z <= l
        BY <2>4, <4>1
      <4> QED
        BY <4>2, <4>3, <4>4
    <3> HIDE DEF G
    <3>2. O!Least(G) = z
      BY <3>1, LeastIs
    <3> QED
      BY <3>2 DEF z, G
  <2> QED
    BY <2>2, <2>3, <2>4
<1>4. ASSUME NEW k \in K PROVE O!PrevKey(k) = O!Greatest({ l \in K : l < k })
  <2> DEFINE z == O!PrevKey(k)
             G == { l \in K : l < k }
  <2>1. z = O!Beside("left", k)
    BY DEF O!PrevKey
  <2> HIDE DEF z
  <2>2. \/ z = 0 /\ \A l \in K : ~(l < k)
        \/ z \in K /\ z < k /\ \A l \in K : ~(l < k /\ z < l)
    <3>1. \/ z = 0 /\ \A l \in K : ~Beyond("left", k, l)
          \/ /\ z \in K /\ Beyond("left", k, z)
             /\ \A l \in K : ~(Beyond("left", k, l) /\ Beyond("left", l, z))
      BY <1>0, <2>1, BesideIs
    <3> QED
      BY <3>1 DEF Beyond
  <2>3. CASE z = 0 /\ \A l \in K : ~(l < k)
    <3>1. G = {}
      BY <1>0, <2>3
    <3>2. O!Greatest({}) = 0
      BY DEF O!Greatest
    <3> HIDE DEF G
    <3>3. O!Greatest(G) = z
      BY <2>3, <3>1, <3>2
    <3> QED
      BY <3>3 DEF z, G
  <2>4. CASE z \in K /\ z < k /\ \A l \in K : ~(l < k /\ z < l)
    <3>1. G \in SUBSET Int /\ z \in G /\ \A l \in G : l <= z
      <4>1. k \in Int /\ z \in Int /\ \A l \in G : l \in Int
        BY <1>0, <2>4
      <4>2. G \in SUBSET Int
        BY <4>1, Zenon
      <4>3. z \in G
        BY <2>4
      <4>4. ASSUME NEW l \in G PROVE l <= z
        BY <2>4, <4>1
      <4> QED
        BY <4>2, <4>3, <4>4
    <3> HIDE DEF G
    <3>2. O!Greatest(G) = z
      BY <3>1, GreatestIs
    <3> QED
      BY <3>2 DEF z, G
  <2> QED
    BY <2>2, <2>3, <2>4
<1> QED
  BY <1>1, <1>2, <1>3, <1>4 DEF O!InOrder

\* A new node has no children, and no weight.
LEMMA NewNodeSet ==
    ASSUME O!links \in Links, NEW key \in O!AllKeys, NEW p \in 0 .. MaxKey
    PROVE  LET w == O!NewNode(key, p) IN
           /\ w \in Links /\ w.root = O!links.root /\ w.fault = O!links.fault
           /\ w.weight[key] = 0
           /\ \A k \in O!AllKeys : w.prev[k] = IF k = key THEN p ELSE O!links.prev[k]
           /\ \A d \in O!Sides, k \in O!AllKeys :
                  w.child[d][k] = IF k = key THEN 0 ELSE O!links.child[d][k]
<1> DEFINE t == O!links
           w == O!NewNode(key, p)
           child == [t.child EXCEPT !["left"][key] = 0, !["right"][key] = 0]
           prev == [t.prev EXCEPT ![key] = p]
           weight == [t.weight EXCEPT ![key] = 0]
<1>1. /\ t.child \in [O!Sides -> [O!AllKeys -> 0 .. MaxKey]]
      /\ t.prev \in [O!AllKeys -> 0 .. MaxKey] /\ t.weight \in [O!AllKeys -> Int]
      /\ t.root \in 0 .. MaxKey /\ t.fault \in BOOLEAN /\ 0 \in 0 .. MaxKey /\ 0 \in Int
  BY TreeAssumption DEF Links
<1>2. w = [t EXCEPT !.prev[key] = p, !.weight[key] = 0,
                    !.child["left"][key] = 0, !.child["right"][key] = 0]
  BY DEF O!NewNode
<1>3. w.root = t.root /\ w.fault = t.fault /\ w.prev = prev /\ w.weight = weight /\ w.child = child
  BY <1>2 DEF Links
<1>4. w = [root |-> w.root, fault |-> w.fault, child |-> w.child, prev |-> w.prev, weight |-> w.weight]
  BY <1>2 DEF Links
<1>5. /\ child \in [O!Sides -> [O!AllKeys -> 0 .. MaxKey]]
      /\ \A d \in O!Sides, k \in O!AllKeys : child[d][k] = IF k = key THEN 0 ELSE t.child[d][k]
  <2> DEFINE N == 0 .. MaxKey
             f == t.child
             g == [f EXCEPT !["left"][key] = 0]
  <2>1. f \in [O!Sides -> [O!AllKeys -> N]] /\ 0 \in N
    BY <1>1
  <2>2. child = [g EXCEPT !["right"][key] = 0]
    OBVIOUS
  <2> HIDE DEF N, f
  <2>3. /\ g \in [O!Sides -> [O!AllKeys -> N]]
        /\ \A d \in O!Sides, k \in O!AllKeys :
               g[d][k] = IF d = "left" /\ k = key THEN 0 ELSE f[d][k]
    BY ONLY key \in O!AllKeys, <2>1, SidesAre
  <2> HIDE DEF g, child
  <2>4. /\ child \in [O!Sides -> [O!AllKeys -> N]]
        /\ \A d \in O!Sides, k \in O!AllKeys :
               child[d][k] = IF d = "right" /\ k = key THEN 0 ELSE g[d][k]
    <3>1. g \in [O!Sides -> [O!AllKeys -> N]] /\ 0 \in N /\ "right" \in O!Sides
      BY ONLY <2>1, <2>3, SidesAre
    <3> QED
      BY ONLY key \in O!AllKeys, <2>2, <3>1, SMTT(20)
  <2>5. \A d \in O!Sides, k \in O!AllKeys : child[d][k] = IF k = key THEN 0 ELSE f[d][k]
    <3>1. SUFFICES ASSUME NEW d \in O!Sides, NEW k \in O!AllKeys
                   PROVE  child[d][k] = IF k = key THEN 0 ELSE f[d][k]
      OBVIOUS
    <3>2. child[d][k] = IF d = "right" /\ k = key THEN 0 ELSE g[d][k]
      BY ONLY <2>4, d \in O!Sides, k \in O!AllKeys
    <3>3. g[d][k] = IF d = "left" /\ k = key THEN 0 ELSE f[d][k]
      BY ONLY <2>3, d \in O!Sides, k \in O!AllKeys
    <3>4. d = "left" \/ d = "right"
      BY ONLY d \in O!Sides, SidesAre
    <3> QED
      BY ONLY <3>2, <3>3, <3>4
  <2> QED
    BY <2>4, <2>5 DEF N, f
<1>6. /\ prev \in [O!AllKeys -> 0 .. MaxKey] /\ weight \in [O!AllKeys -> Int] /\ weight[key] = 0
      /\ \A k \in O!AllKeys : prev[k] = IF k = key THEN p ELSE t.prev[k]
  BY <1>1
<1> HIDE DEF child, prev, weight, w, t
<1>7. w \in Links
  BY <1>1, <1>3, <1>4, <1>5, <1>6 DEF Links
<1> QED
  BY <1>3, <1>5, <1>6, <1>7 DEF w, t

\* An insertion into a tree leaves one of all its keys.
LEMMA InsertedShape ==
    ASSUME NEW b, Shape(O!keys, O!links, b), ~O!links.fault,
           NEW key \in O!AllKeys, key \notin O!keys
    PROVE  /\ O!Inserted(key) \in Links /\ ~O!Inserted(key).fault
           /\ \E c : Shape(O!keys \union {key}, O!Inserted(key), c)
<1> DEFINE K == O!keys
           t == O!links
           w == O!Walk(key)
           d == O!Towards(key, w)
           node == O!NewNode(key, w)
           new == O!WithChild(node, d, w, key)
<1>1. w \in K /\ Between(b, key, w) /\ AtEnd(t, key, w)
  BY WalkComes
<1>2. O!Inserted(key) = O!Grown(new, key)
  <2>1. K # {}
    BY <1>1
  <2> QED
    BY <2>1 DEF O!Inserted
<1> HIDE DEF w
<1>3. t.child[d][w] = 0 /\ w # key
  BY <1>1 DEF AtEnd
<1>4. w \in O!AllKeys /\ w \in 0 .. MaxKey /\ key \in 0 .. MaxKey /\ key # 0 /\ t \in Links
  <2>1. key \in 0 .. MaxKey /\ key # 0
    BY TreeAssumption DEF O!AllKeys
  <2> QED
    BY <1>1, <2>1, KeysAre DEF Shape
<1>5. d \in O!Sides
  BY SidesAre DEF O!Towards
<1>6. /\ node \in Links /\ node.root = t.root /\ node.fault = t.fault /\ node.weight[key] = 0
      /\ \A k \in O!AllKeys : node.prev[k] = IF k = key THEN w ELSE t.prev[k]
      /\ \A s \in O!Sides, k \in O!AllKeys :
             node.child[s][k] = IF k = key THEN 0 ELSE t.child[s][k]
  BY <1>4, NewNodeSet
<1> HIDE DEF node, d
<1>7. /\ new \in Links /\ new.root = node.root /\ new.fault = node.fault
      /\ new.prev = node.prev /\ new.weight = node.weight
      /\ \A s \in O!Sides, k \in O!AllKeys :
             new.child[s][k] = IF s = d /\ k = w THEN key ELSE node.child[s][k]
  <2>1. node \in Links /\ d \in O!Sides /\ w \in O!AllKeys /\ key \in 0 .. MaxKey
    BY <1>4, <1>5, <1>6
  <2> QED
    BY ONLY <2>1, ChildSet
<1> HIDE DEF new
<1>8. Leafed(t, key, w, d, new)
  <2>1. \A s \in O!Sides, k \in O!AllKeys :
           new.child[s][k] = IF k = key THEN 0 ELSE IF s = d /\ k = w THEN key ELSE t.child[s][k]
    BY ONLY <1>3, <1>6, <1>7
  <2> QED
    BY <1>6, <1>7, <2>1 DEF Leafed
<1>9. PICK c : Shape(K \union {key}, new, c) /\ c["right"][key] - c["left"][key] >= 2
  BY <1>1, <1>3, <1>8, LeafShape DEF d
<1>10. Leads(new, key)
  <2>1. new.weight[key] = 0
    BY <1>6, <1>7
  <2>2. \A s \in O!Sides : ~(0 * O!Sign(s) > 0)
    <3>1. \A s \in O!Sides : O!Sign(s) \in Int
      BY SidesAre DEF O!Sign
    <3> QED
      BY ONLY <3>1
  <2> QED
    BY ONLY <2>1, <2>2 DEF Leads
<1>11. Growing(K \union {key}, O!On(new, key), 0)
  BY <1>4, <1>6, <1>7, <1>9, <1>10 DEF Growing, O!On
<1> QED
  BY <1>2, <1>11, GrownKeeps

\* The first key is the root, and nothing else.
LEMMA FirstShape ==
    ASSUME O!keys = {}, O!links = O!NoLinks, NEW key \in O!AllKeys
    PROVE  /\ O!Inserted(key) \in Links /\ ~O!Inserted(key).fault
           /\ \E c : Shape({key}, O!Inserted(key), c)
<1> DEFINE node == O!NewNode(key, 0)
           new == [node EXCEPT !.root = key]
           c == [s \in O!Sides |-> [k \in O!AllKeys |-> IF s = "left" THEN 0 ELSE MaxKey + 1]]
<1>1. O!Inserted(key) = new
  BY DEF O!Inserted
<1>2. O!links \in Links /\ ~O!links.fault
  BY TreeAssumption DEF O!NoLinks, Links
<1>3. key \in Int /\ 1 <= key /\ key <= MaxKey /\ MaxKey \in Nat
  BY TreeAssumption DEF O!AllKeys
<1>4. /\ node \in Links /\ ~node.fault /\ node.prev[key] = 0
      /\ \A s \in O!Sides : node.child[s][key] = 0
  <2>1. 0 \in 0 .. MaxKey
    BY <1>3
  <2> QED
    BY <1>2, <2>1, NewNodeSet
<1> HIDE DEF node
<1>5. /\ new \in Links /\ ~new.fault /\ new.root = key /\ new.prev[key] = 0
      /\ \A s \in O!Sides : new.child[s][key] = 0
  BY <1>3, <1>4 DEF Links
<1>6. c \in Bounds /\ c["left"][key] = 0 /\ c["right"][key] = MaxKey + 1
  BY <1>3, SidesAre DEF Bounds
<1> HIDE DEF new, c
<1>7. Rooted({key}, new, c) /\ Within({key}, c) /\ Ends({key}, c)
  BY <1>3, <1>5, <1>6 DEF Rooted, Within, Ends
<1>8. Hanging({key}, new, c) /\ HangingOn({key}, new)
  BY <1>5 DEF Hanging, HangingOn
<1>9. Gaps({key}, new, c) /\ Nested({key}, c)
  BY <1>3 DEF Gaps, Nested, Beyond
<1>10. Shape({key}, new, c)
  BY <1>5, <1>6, <1>7, <1>8, <1>9 DEF Shape
<1> QED
  BY <1>1, <1>5, <1>10

-----------------------------------------------------------------------------
\* Until a key is removed the ordered map is a tree of its keys.
TreeInv ==
    /\ object = [keys |-> object.keys, removals |-> object.removals, links |-> object.links]
    /\ object.removals \in Nat
    /\ object.removals = 0 =>
           \/ O!keys = {} /\ O!links = O!NoLinks
           \/ ~O!links.fault /\ \E b : Shape(O!keys, O!links, b)

\* It holds at first, and every call keeps it.
LEMMA TreeInit == O!Init => TreeInv
BY DEF O!Init, TreeInv, O!keys, O!links

LEMMA TreeInserts ==
    ASSUME TreeInv, NEW key \in O!AllKeys, O!Insert(key)
    PROVE  TreeInv'
<1>1. object' = [object EXCEPT !.keys = @ \union {key}, !.links = O!Inserted(key)] /\ key \notin O!keys
  BY DEF O!Insert
<1>2. /\ object' = [keys |-> object'.keys, removals |-> object'.removals, links |-> object'.links]
      /\ object'.removals = object.removals /\ object'.links = O!Inserted(key)
      /\ object'.keys = O!keys \union {key}
  BY <1>1 DEF TreeInv, O!keys
<1>3. object.removals = 0 => /\ ~object'.links.fault
                             /\ \E b : Shape(object'.keys, object'.links, b)
  <2>1. CASE O!keys = {} /\ O!links = O!NoLinks
    BY <1>2, <2>1, FirstShape
  <2>2. ASSUME ~O!links.fault, NEW b, Shape(O!keys, O!links, b)
        PROVE  ~object'.links.fault /\ \E c : Shape(object'.keys, object'.links, c)
    BY <1>1, <1>2, <2>2, InsertedShape
  <2> QED
    BY <2>1, <2>2 DEF TreeInv
<1> QED
  BY <1>2, <1>3 DEF TreeInv, O!keys, O!links

LEMMA TreeStep == TreeInv /\ O!Next => TreeInv'
<1>1. ASSUME TreeInv, NEW key \in O!AllKeys, O!Remove(key) PROVE TreeInv'
  <2>1. object' = [keys |-> object'.keys, removals |-> object.removals + 1, links |-> object'.links]
    BY <1>1 DEF O!Remove
  <2> QED
    BY <1>1, <2>1 DEF TreeInv
<1> QED
  BY <1>1, TreeInserts DEF O!Next

\* Such a tree is one that calls can be made on.
LEMMA TreeSound == TreeInv => O!SearchTree
<1>1. SUFFICES ASSUME TreeInv, object.removals = 0 PROVE O!Sound /\ O!InOrder
  BY DEF O!SearchTree
<1>2. CASE O!keys = {} /\ O!links = O!NoLinks
  <2>1. O!links.root = 0 /\ ~O!links.fault
    BY <1>2 DEF O!NoLinks
  <2>2. \A k \in O!AllKeys : ~O!Found(k)
    BY <2>1 DEF O!Found
  <2> QED
    BY <1>2, <2>1, <2>2 DEF O!Sound, O!InOrder
<1>3. ASSUME ~O!links.fault, NEW b, Shape(O!keys, O!links, b)
      PROVE  O!Sound /\ O!InOrder
  <2>1. O!keys = { k \in O!AllKeys : O!Found(k) }
    <3>1. \A k \in O!AllKeys : O!Found(k) <=> k \in O!keys
      BY <1>3, FindsKeys
    <3>2. O!keys \subseteq O!AllKeys
      BY <1>3 DEF Shape
    <3> QED
      BY <3>1, <3>2
  <2>2. ASSUME NEW k \in O!keys PROVE O!links.prev[k] = 0 <=> O!links.root = k
    <3>1. k # O!links.root => O!links.prev[k] \in O!keys
      BY <1>3 DEF Shape, HangingOn
    <3>2. O!links.prev[O!links.root] = 0
      BY <1>3 DEF Shape, Rooted
    <3> QED
      BY <1>3, <3>1, <3>2, KeysAre
  <2>3. ASSUME NEW k \in O!keys, NEW s \in O!Sides, O!links.child[s][k] # 0
        PROVE  O!links.prev[O!links.child[s][k]] = k
    BY <1>3, <2>3 DEF Shape, Hanging
  <2>4. O!Sound
    BY <1>3, <2>1, <2>2, <2>3, Zenon DEF O!Sound
  <2> QED
    BY <1>3, <2>4, TreeInOrder
<1> QED
  BY <1>1, <1>2, <1>3 DEF TreeInv

(* Until a key is removed every key inserted is found, no rotation leaves a  *)
(* link that is followed into NULL (BL_Map.c, lines 66-284), and an          *)
(* iteration by the parent links comes to every key in order (lines          *)
(* 505-557), for any number of keys in any order.                            *)
THEOREM TreesSearch == Spec => []SearchTree
<1> DEFINE Inv == which = "ordered map" => TreeInv
<1>1. Init => Inv
  BY TreeInit DEF Init
<1>2. Inv /\ [Next]_vars => Inv'
  <2>1. CASE UNCHANGED vars
    <3>1. which' = which /\ object' = object
      BY <2>1 DEF vars
    <3>2. TreeInv => TreeInv'
      BY <3>1, Zenon DEF TreeInv, O!keys, O!links
    <3> QED
      BY <3>1, <3>2
  <2>2. CASE Next
    BY <2>2, TreeStep DEF Next
  <2> QED
    BY <2>1, <2>2
<1>3. Inv => SearchTree
  BY TreeSound DEF SearchTree
<1> QED
  BY <1>1, <1>2, <1>3, PTL DEF Spec

-----------------------------------------------------------------------------
(* Arguments                                                                *)

\* The flags, as they are numbered.
LEMMA FlagsAre == \E n \in Nat \ {0} : DOMAIN Flags = 1 .. n
<1> DEFINE n == Len(Flags)
<1>1. n \in Nat /\ DOMAIN Flags = 1 .. n
  BY FlagsAssumption
<1>2. n # 0
  BY FlagsAssumption, <1>1
<1> QED
  BY <1>1, <1>2

\* A list of all flags in their order has each at its number.
LEMMA RegisteredIs ==
    ASSUME NEW n \in Nat, DOMAIN Flags = 1 .. n, NEW list \in A!Registered(Flags)
    PROVE  list = [k \in 1 .. n |-> k]
<1>1. /\ list \in [1 .. n -> 1 .. n]
      /\ \A k, l \in 1 .. n : k < l => list[k] < list[l]
  BY Zenon DEF A!Registered
<1>2. \A k \in 1 .. n : k <= list[k]
  <2> DEFINE Off == { k \in 1 .. n : ~(k <= list[k]) }
  <2>1. SUFFICES ASSUME Off # {} PROVE FALSE
    OBVIOUS
  <2>2. PICK k \in Off : \A l \in Off : k <= l
    <3>1. Off \in SUBSET Nat
      OBVIOUS
    <3> HIDE DEF Off
    <3> QED
      BY <2>1, <3>1, LeastNatural
  <2>3. k \in 1 .. n /\ list[k] \in 1 .. n /\ list[k] < k
    BY <1>1
  <2>4. k - 1 \in 1 .. n /\ k - 1 < k
    BY <2>3
  <2>5. k - 1 <= list[k - 1]
    BY <2>2, <2>4
  <2>6. list[k - 1] < list[k] /\ list[k - 1] \in 1 .. n
    BY <1>1, <2>3, <2>4
  <2> QED
    BY <2>3, <2>5, <2>6
<1>3. \A k \in 1 .. n : list[k] <= k
  <2> DEFINE Off == { k \in Nat : k < n /\ ~(list[n - k] <= n - k) }
  <2>1. SUFFICES ASSUME Off # {} PROVE FALSE
    <3>1. TAKE k \in 1 .. n
    <3>2. n - k \in Nat /\ n - k < n /\ n - (n - k) = k
      OBVIOUS
    <3> QED
      BY <2>1, <3>2
  <2>2. PICK k \in Off : \A l \in Off : k <= l
    <3>1. Off \in SUBSET Nat
      OBVIOUS
    <3> HIDE DEF Off
    <3> QED
      BY <2>1, <3>1, LeastNatural
  <2> DEFINE m == n - k
  <2>3. m \in 1 .. n /\ k \in Nat /\ k < n /\ ~(list[m] <= m)
    OBVIOUS
  <2>4. k # 0 => n - (k - 1) = m + 1
    OBVIOUS
  <2>5. list[m] \in 1 .. n
    BY <1>1, <2>3
  <2>6. CASE k = 0
    BY <2>3, <2>5, <2>6
  <2>7. CASE k # 0
    <3>1. k - 1 \in Nat /\ k - 1 < n /\ ~(k <= k - 1)
      BY <2>3, <2>7
    <3>2. list[n - (k - 1)] <= n - (k - 1)
      BY <2>2, <3>1
    <3>3. list[m + 1] <= m + 1 /\ m + 1 \in 1 .. n
      BY <2>3, <2>4, <2>7, <3>2
    <3>4. list[m] < list[m + 1] /\ list[m + 1] \in 1 .. n
      BY <1>1, <2>3, <3>3
    <3> QED
      BY <2>3, <2>5, <3>3, <3>4
  <2> QED
    BY <2>6, <2>7
<1>4. \A k \in 1 .. n : list[k] = k
  <2>1. TAKE k \in 1 .. n
  <2>2. list[k] \in 1 .. n
    BY <1>1
  <2> QED
    BY <1>2, <1>3, <2>2
<1> QED
  BY <1>1, <1>4

\* A flag is found when there is such a one.
LEMMA GetIsFlag ==
    ASSUME NEW list \in A!Registered(Flags), NEW flag \in {0} \union DOMAIN Flags
    PROVE  A!Get(list, flag) = IF flag \in DOMAIN Flags THEN flag ELSE NULL
<1>1. PICK n \in Nat \ {0} : DOMAIN Flags = 1 .. n
  BY FlagsAre
<1>2. list = [k \in 1 .. n |-> k]
  BY <1>1, RegisteredIs
<1>3. Len(list) = n /\ \A k \in 1 .. n : list[k] = k
  BY <1>2
<1> DEFINE right == { k \in 1 .. n - 1 : flag > list[k + 1] }
<1>4. PICK begin \in 0 .. n - 1 :
         /\ BS!Halved(right, n) = [begin |-> begin, end |-> begin + 1]
         /\ begin = 0 \/ begin \in right
         /\ begin + 1 = n \/ begin + 1 \notin right
  <2> HIDE DEF right
  <2> QED
    BY HalvedIs
<1>5. A!Halved(right, n) = BS!Halved(right, n)
  BY Zenon DEF A!Halved, BS!Halved
<1>6. A!Get(list, flag) = IF begin + 1 = flag THEN flag
                          ELSE IF begin + 1 # n /\ begin + 2 = flag THEN flag ELSE NULL
  <2>1. A!Halved(right, n).begin = begin /\ A!Halved(right, n).end = begin + 1
    BY <1>4, <1>5
  <2>2. list[begin + 1] = begin + 1 /\ (begin + 1 # n => list[begin + 1 + 1] = begin + 2)
    BY <1>3
  <2> DEFINE h == A!Halved(right, n)
  <2>3. A!Get(list, flag) = IF list[h.begin + 1] = flag THEN flag
                            ELSE IF h.end # n /\ list[h.end + 1] = flag THEN flag ELSE NULL
    BY <1>3, Zenon DEF A!Get
  <2> HIDE DEF h
  <2>4. h.begin = begin /\ h.end = begin + 1
    BY <2>1 DEF h
  <2> QED
    BY <2>2, <2>3, <2>4
<1>7. /\ begin # 0 => begin \in 1 .. n - 1 /\ flag > begin + 1
      /\ begin + 1 # n => flag <= begin + 2
  <2>1. begin # 0 => begin \in 1 .. n - 1 /\ flag > list[begin + 1]
    BY <1>4
  <2>2. begin + 1 # n => ~(flag > list[begin + 1 + 1]) /\ begin + 1 \in 1 .. n - 1
    BY <1>4
  <2>3. flag \in 0 .. n
    BY <1>1
  <2> HIDE DEF right
  <2> QED
    BY <1>3, <2>1, <2>2, <2>3
<1>8. flag \in 0 .. n
  BY <1>1
<1> HIDE DEF right
<1>9. begin + 1 = flag \/ (begin + 1 # n /\ begin + 2 = flag) <=> flag \in 1 .. n
  BY <1>7, <1>8
<1> QED
  BY <1>1, <1>6, <1>9

\* An argument is taken when the one before it asks and is not taken itself.
LEMMA TakenIs ==
    ASSUME NEW argv, NEW n \in Nat \ {0}
    PROVE  A!Taken(argv, n) <=> n > 1 /\ A!Asks(argv[n - 1]) /\ ~A!Taken(argv, n - 1)
<1> DEFINE Starts(k, l) == /\ k \in 1 .. l /\ \A m \in k .. l - 1 : A!Asks(argv[m])
                           /\ k > 1 => ~A!Asks(argv[k - 1])
<1>1. A!Taken(argv, n) <=> \E k \in 1 .. n : (n - k) % 2 = 1 /\ Starts(k, n)
  BY DEF A!Taken
<1>2. A!Taken(argv, n - 1) <=> \E k \in 1 .. n - 1 : (n - 1 - k) % 2 = 1 /\ Starts(k, n - 1)
  BY DEF A!Taken
<1>3. ASSUME A!Taken(argv, n)
      PROVE  n > 1 /\ A!Asks(argv[n - 1]) /\ ~A!Taken(argv, n - 1)
  <2>1. PICK k \in 1 .. n : (n - k) % 2 = 1 /\ Starts(k, n)
    BY <1>1, <1>3
  <2>2. k # n
    BY <2>1
  <2>3. n > 1 /\ n - 1 \in k .. n - 1
    BY <2>2
  <2>4. ASSUME A!Taken(argv, n - 1)
        PROVE  FALSE
    <3>1. PICK l \in 1 .. n - 1 : (n - 1 - l) % 2 = 1 /\ Starts(l, n - 1)
      BY <1>2, <2>4
    <3>2. l # n - 1
      BY <3>1
    <3>3. ~(k < l)
      <4>1. k < l => l - 1 \in k .. n - 1 /\ l > 1
        BY <2>3
      <4> QED
        BY <2>1, <3>1, <4>1
    <3>4. ~(l < k)
      <4>1. l < k => k - 1 \in l .. n - 1 - 1 /\ k > 1
        BY <2>2, <2>3
      <4> QED
        BY <2>1, <3>1, <4>1
    <3>5. k = l
      BY <3>3, <3>4
    <3> QED
      BY <2>1, <3>1, <3>5
  <2> QED
    BY <2>1, <2>3, <2>4
<1>4. ASSUME n > 1, A!Asks(argv[n - 1]), ~A!Taken(argv, n - 1)
      PROVE  A!Taken(argv, n)
  <2> DEFINE Runs == { k \in 1 .. n - 1 : \A m \in k .. n - 1 : A!Asks(argv[m]) }
  <2>1. n - 1 \in Runs
    BY <1>4
  <2>2. PICK k \in Runs : \A l \in Runs : k <= l
    <3>1. Runs \in SUBSET Nat /\ Runs # {}
      BY <2>1
    <3> HIDE DEF Runs
    <3> QED
      BY <3>1, LeastNatural
  <2>3. k > 1 => ~A!Asks(argv[k - 1])
    <3>1. SUFFICES ASSUME k > 1, A!Asks(argv[k - 1]) PROVE k - 1 \in Runs
      BY <2>2
    <3>2. ASSUME NEW m \in k - 1 .. n - 1
          PROVE  A!Asks(argv[m])
      <4>1. m = k - 1 \/ m \in k .. n - 1
        OBVIOUS
      <4> QED
        BY <3>1, <4>1
    <3> QED
      BY <3>1, <3>2
  <2>4. Starts(k, n) /\ Starts(k, n - 1)
    BY <2>3
  <2>5. (n - k) % 2 = 1 \/ (n - 1 - k) % 2 = 1
    OBVIOUS
  <2>6. k \in 1 .. n /\ k \in 1 .. n - 1
    OBVIOUS
  <2> HIDE DEF Starts, Runs
  <2> QED
    BY <1>1, <1>2, <1>4, <2>4, <2>5, <2>6
<1> QED
  BY <1>3, <1>4

\* What the least of a set of natural numbers is.
LEMMA MinIs ==
    ASSUME NEW Items \in SUBSET Nat, NEW least \in Items, \A m \in Items : least <= m
    PROVE  A!S!Min(Items) = least
<1> DEFINE P(k) == k \in Items /\ \A m \in Items : k <= m
<1>1. A!S!Min(Items) = CHOOSE k : P(k)
  BY DEF A!S!Min
<1>2. P(least)
  OBVIOUS
<1>3. \A k : P(k) => k = least
  OBVIOUS
<1> HIDE DEF P
<1> QED
  BY <1>1, <1>2, <1>3, Zenon

\* The next argument is the first word that no flag takes.
LEMMA NextArgIs ==
    ASSUME NEW list \in A!Registered(Flags), NEW argv \in Seq(A!Arguments)
    PROVE  A!NextArg(list, argv, 1) =
              IF A!FreeWords(argv) = {} THEN NULL ELSE A!S!Min(A!FreeWords(argv))
<1> DEFINE n == Len(argv)
           Args == 1 .. n + 2
           Skips(k) == A!Get(list, argv[k].flag) # NULL /\ Flags[argv[k].flag] = "string"
                       /\ argv[k].text = NULL
           Rec(f) == [begin \in Args |->
               LET here == argv[begin] IN
               IF begin > n THEN NULL
               ELSE IF ~A!IsFlag(here) THEN begin
               ELSE IF A!Get(list, here.flag) # NULL /\ Flags[here.flag] = "string"
                       /\ here.text = NULL
                    THEN f[begin + 2]
               ELSE f[begin + 1]]
           next == CHOOSE f : f = Rec(f)
           words == { k \in DOMAIN argv : ~A!IsFlag(argv[k]) /\ ~A!Taken(argv, k) }
<1>1. n \in Nat /\ DOMAIN argv = 1 .. n
  OBVIOUS
<1> HIDE DEF n
<1>2. next = Rec(next)
  <2> DEFINE Stops == { k \in Args : k > n \/ ~A!IsFlag(argv[k]) }
             base == [k \in Args |-> IF k > n THEN NULL ELSE k]
             onward == [k \in Args |-> IF k \in Stops THEN k ELSE IF Skips(k) THEN k + 2 ELSE k + 1]
             height == [k \in Args |-> n + 2 - k]
  <2>1. ASSUME NEW k \in Args
        PROVE  /\ onward[k] \in Args /\ height[k] \in 0 .. n + 2
               /\ k \notin Stops => height[onward[k]] < height[k]
    <3>1. onward[k] \in Args /\ (k \notin Stops => onward[k] > k)
      <4> HIDE DEF Skips
      <4> QED
        BY <1>1
    <3>2. height[k] = n + 2 - k /\ height[onward[k]] = n + 2 - onward[k]
      <4> HIDE DEF onward
      <4> QED
        BY <3>1
    <3> HIDE DEF onward, height, Stops
    <3> QED
      BY <1>1, <3>1, <3>2
  <2>2. n + 2 \in Nat /\ onward \in [Args -> Args] /\ height \in [Args -> 0 .. n + 2]
    BY <1>1, <2>1
  <2>3. \E f : f = Onward(Args, Stops, onward, base, f)
    <3> DEFINE bound == n + 2
    <3>1. bound \in Nat /\ \A k \in Args : k \notin Stops => height[onward[k]] < height[k]
      BY <2>1, <2>2
    <3>2. height \in [Args -> 0 .. bound] /\ onward \in [Args -> Args]
      BY <2>2
    <3> HIDE DEF Args, Stops, onward, base, height, bound
    <3> QED
      BY <3>1, <3>2, TailRecursion, Zenon
  <2>4. PICK f : f = [k \in Args |-> IF k \in Stops THEN base[k] ELSE f[onward[k]]]
    BY <2>3, Zenon DEF Onward
  <2>5. \A k \in Args : f[k] = LET here == argv[k] IN
                                 IF k > n THEN NULL
                                 ELSE IF ~A!IsFlag(here) THEN k
                                 ELSE IF A!Get(list, here.flag) # NULL /\ Flags[here.flag] = "string"
                                         /\ here.text = NULL
                                      THEN f[k + 2]
                                 ELSE f[k + 1]
    <3>1. TAKE k \in Args
    <3>2. f[k] = IF k \in Stops THEN base[k] ELSE f[onward[k]]
      BY <2>4, Zenon
    <3> QED
      BY <3>2
  <2>6. f = Rec(f)
    BY <2>4, <2>5
  <2> HIDE DEF Rec
  <2> QED
    BY <2>6, Zenon
<1>3. A!NextArg(list, argv, 1) = next[1]
  BY Zenon DEF A!NextArg, n
<1> HIDE DEF next
<1> DEFINE From(k) == { l \in words : k <= l }
           Lowest(k) == IF From(k) = {} THEN NULL ELSE A!S!Min(From(k))
<1>4. ASSUME NEW k \in 1 .. n, A!IsFlag(argv[k])
      PROVE  Skips(k) <=> A!Asks(argv[k])
  <2>1. argv[k].flag \in {0} \union DOMAIN Flags
    <3>1. argv[k] \in A!Arguments
      BY <1>1
    <3> QED
      BY <1>4, <3>1 DEF A!Arguments, A!IsFlag
  <2>2. A!Get(list, argv[k].flag) = IF argv[k].flag \in DOMAIN Flags THEN argv[k].flag ELSE NULL
    BY <2>1, GetIsFlag
  <2>3. NULL \notin DOMAIN Flags
    BY FlagsAssumption
  <2> QED
    BY <2>2, <2>3 DEF A!Asks
<1>5. ASSUME NEW k \in Nat, NEW l \in Nat, k < l, \A m \in k .. l - 1 : m \notin words
      PROVE  Lowest(k) = Lowest(l)
  <2>1. From(k) = From(l)
    <3>1. words \subseteq Nat
      BY <1>1
    <3> HIDE DEF words
    <3>2. \A m \in words : k <= m => l <= m
      BY <1>5, <3>1
    <3>3. \A m \in words : l <= m => k <= m
      BY <1>5, <3>1
    <3> QED
      BY <3>2, <3>3
  <2> HIDE DEF From
  <2> QED
    BY <2>1
<1> DEFINE Off == { k \in Nat : n + 2 - k \in 1 .. n + 1 /\ ~A!Taken(argv, n + 2 - k)
                                /\ next[n + 2 - k] # Lowest(n + 2 - k) }
<1>6. Off = {}
  <2>1. SUFFICES ASSUME Off # {} PROVE FALSE
    OBVIOUS
  <2>2. PICK m \in Off : \A l \in Off : m <= l
    <3>1. Off \in SUBSET Nat
      OBVIOUS
    <3> HIDE DEF Off
    <3> QED
      BY <2>1, <3>1, LeastNatural
  <2> DEFINE k == n + 2 - m
  <2>3. k \in 1 .. n + 1 /\ ~A!Taken(argv, k) /\ next[k] # Lowest(k)
    OBVIOUS
  <2>4. ASSUME NEW l \in 1 .. n + 1, l > k, ~A!Taken(argv, l)
        PROVE  next[l] = Lowest(l)
    <3> DEFINE j == n + 2 - l
    <3>1. j \in Nat /\ n + 2 - j = l /\ ~(m <= j)
      BY <1>1, <2>4
    <3>2. j \notin Off
      BY <2>2, <3>1
    <3> HIDE DEF next, Lowest
    <3> QED
      BY <2>4, <3>1, <3>2
  <2> HIDE DEF Off
  <2>5. next[k] = IF k > n THEN NULL ELSE IF ~A!IsFlag(argv[k]) THEN k
                  ELSE IF Skips(k) THEN next[k + 2] ELSE next[k + 1]
    BY <1>1, <1>2, <2>3
  <2> HIDE DEF k
  <2>6. CASE k > n
    <3>1. From(k) = {}
      BY <1>1, <2>3, <2>6
    <3> QED
      BY <2>3, <2>5, <2>6, <3>1
  <2>7. CASE k <= n /\ ~A!IsFlag(argv[k])
    <3>1. k \in From(k) /\ \A l \in From(k) : k <= l
      BY <1>1, <2>3, <2>7
    <3>2. A!S!Min(From(k)) = k
      <4>1. From(k) \subseteq Nat
        BY <1>1
      <4> HIDE DEF From
      <4> QED
        BY <3>1, <4>1, MinIs
    <3>3. From(k) # {} /\ ~(k > n)
      BY <1>1, <2>3, <2>7, <3>1
    <3> HIDE DEF From, Skips, next
    <3> QED
      BY <2>3, <2>5, <2>7, <3>2, <3>3
  <2>8. CASE k <= n /\ A!IsFlag(argv[k]) /\ ~Skips(k)
    <3>1. k \in 1 .. n /\ k + 1 \in Nat \ {0} /\ k + 1 \in 1 .. n + 1 /\ k + 1 - 1 = k
      BY <1>1, <2>3, <2>8
    <3>2. ~A!Taken(argv, k + 1)
      BY <1>4, <2>8, <3>1, TakenIs
    <3>3. next[k + 1] = Lowest(k + 1)
      <4> HIDE DEF Lowest
      <4>1. k + 1 > k
        BY <3>1
      <4> QED
        BY <2>4, <3>1, <3>2, <4>1
    <3>4. k \notin words
      BY <2>8
    <3>5. Lowest(k) = Lowest(k + 1)
      <4>1. \A l \in k .. k + 1 - 1 : l \notin words
        BY <3>1, <3>4
      <4> HIDE DEF Lowest, words
      <4> QED
        BY <1>5, <3>1, <4>1
    <3> HIDE DEF Lowest, Skips
    <3> QED
      BY <1>1, <2>3, <2>5, <2>8, <3>3, <3>5
  <2>9. CASE k <= n /\ A!IsFlag(argv[k]) /\ Skips(k)
    <3>1. /\ k \in 1 .. n /\ k + 1 \in Nat \ {0} /\ k + 1 - 1 = k
          /\ k + 2 \in Nat \ {0} /\ k + 2 - 1 = k + 1 /\ k \in Nat
      BY <1>1, <2>3, <2>9
    <3>2. A!Taken(argv, k + 1) /\ ~A!Taken(argv, k + 2)
      BY <1>4, <2>3, <2>9, <3>1, TakenIs
    <3>3. k \notin words /\ k + 1 \notin words
      BY <2>9, <3>2
    <3>4. Lowest(k) = Lowest(k + 2)
      <4>1. \A l \in k .. k + 2 - 1 : l \notin words
        BY <3>1, <3>3
      <4> HIDE DEF Lowest, words
      <4> QED
        BY <1>5, <3>1, <4>1
    <3>5. next[k + 2] = Lowest(k + 2)
      <4>1. CASE k = n
        <5>1. k + 2 \in Args /\ k + 2 > n
          BY <1>1, <3>1, <4>1
        <5>2. next[k + 2] = NULL
          BY <1>2, <5>1
        <5>3. From(k + 2) = {}
          BY <1>1, <4>1
        <5> QED
          BY <5>2, <5>3
      <4>2. CASE k # n
        <5>1. k + 2 \in 1 .. n + 1 /\ k + 2 > k
          BY <1>1, <3>1, <4>2
        <5> HIDE DEF Lowest
        <5> QED
          BY <2>4, <3>2, <5>1
      <4> QED
        BY <4>1, <4>2
    <3> HIDE DEF Lowest, Skips
    <3> QED
      BY <1>1, <2>3, <2>5, <2>9, <3>4, <3>5
  <2> QED
    BY <1>1, <2>3, <2>6, <2>7, <2>8, <2>9
<1>7. ~A!Taken(argv, 1)
  BY TakenIs
<1>8. next[1] = Lowest(1)
  <2>1. n + 1 \in Nat /\ n + 2 - (n + 1) = 1 /\ 1 \in 1 .. n + 1
    BY <1>1
  <2> HIDE DEF Lowest, next
  <2> QED
    BY <1>6, <1>7, <2>1
<1>9. From(1) = words
  BY <1>1
<1> HIDE DEF From, words
<1> QED
  BY <1>3, <1>8, <1>9 DEF words, A!FreeWords

\* What the greatest of a set of natural numbers is.
LEMMA MaxIs ==
    ASSUME NEW Items \in SUBSET Nat, NEW greatest \in Items, \A m \in Items : greatest >= m
    PROVE  A!S!Max(Items) = greatest
<1> DEFINE P(k) == k \in Items /\ \A m \in Items : k >= m
<1>1. A!S!Max(Items) = CHOOSE k : P(k)
  BY DEF A!S!Max
<1>2. P(greatest)
  OBVIOUS
<1>3. \A k : P(k) => k = greatest
  OBVIOUS
<1> HIDE DEF P
<1> QED
  BY <1>1, <1>2, <1>3, Zenon

\* The last place of a flag is the next argument, or one before it.
LEMMA LastGivenStep ==
    ASSUME NEW argv, NEW flag, NEW m \in Nat
    PROVE  A!LastGiven(argv, flag, m + 1) =
              IF A!FlagAt(argv, m + 1) /\ argv[m + 1].flag = flag THEN A!Given(argv, m + 1)
              ELSE A!LastGiven(argv, flag, m)
<1> DEFINE Good(n) == A!FlagAt(argv, n) /\ argv[n].flag = flag
           Places(l) == { n \in 1 .. l : Good(n) }
<1>1. \A l : A!LastGiven(argv, flag, l) = IF Places(l) = {} THEN NULL
                                         ELSE A!Given(argv, A!S!Max(Places(l)))
  BY Zenon DEF A!LastGiven
<1> HIDE DEF Good
<1>2. CASE Good(m + 1)
  <2>1. /\ m + 1 \in Places(m + 1) /\ Places(m + 1) \in SUBSET Nat
        /\ \A n \in Places(m + 1) : m + 1 >= n
    BY <1>2
  <2> HIDE DEF Places
  <2>2. A!S!Max(Places(m + 1)) = m + 1
    BY <2>1, MaxIs
  <2>3. Places(m + 1) # {}
    BY <2>1
  <2> QED
    BY <1>1, <1>2, <2>2, <2>3 DEF Good
<1>3. CASE ~Good(m + 1)
  <2>1. \A n \in 1 .. m + 1 : n \in 1 .. m \/ n = m + 1
    OBVIOUS
  <2>2. 1 .. m \subseteq 1 .. m + 1
    OBVIOUS
  <2>3. Places(m + 1) = Places(m)
    BY <1>3, <2>1, <2>2, Zenon
  <2> HIDE DEF Places
  <2> QED
    BY <1>1, <1>3, <2>3 DEF Good
<1> QED
  BY <1>2, <1>3

\* What was read of a command line that was not refused.
ReadSoFar ==
    /\ object.argDef \in {NULL} \union DOMAIN Flags
    /\ object.argDef = NULL => ~A!Taken(object.argv, object.i)
    /\ object.argDef # NULL => /\ A!Taken(object.argv, object.i)
                               /\ object.argDef = object.argv[object.i - 1].flag
    /\ \A n \in 1 .. object.i - 1 : A!FlagAt(object.argv, n) =>
          LET arg == object.argv[n] IN
          /\ arg.flag # 0
          /\ IF arg.text # NULL THEN arg.text \in Texts[Flags[arg.flag]]
             ELSE Flags[arg.flag] \in {"boolean", "string"}
    /\ \A flag \in DOMAIN Flags : object.values[flag] =
          A!LastGiven(object.argv, flag, IF object.argDef = NULL THEN object.i - 1 ELSE object.i - 2)

\* What a flag may be given.
Gives == ArgWords \union {NULL, TRUE} \union A!Arguments

\* A parse has read the arguments before i, and was refused for one that is not right.
ArgsInv ==
    /\ object = [list |-> object.list, argv |-> object.argv, i |-> object.i,
                  argDef |-> object.argDef, values |-> object.values, result |-> object.result]
    /\ object.list \in A!Registered(Flags)
    /\ object.argv \in Seq(A!Arguments)
    /\ object.i \in 1 .. Len(object.argv) + 1
    /\ object.values \in [DOMAIN Flags -> Gives]
    /\ object.result \in {"parsing", "accepted", "refused"}
    /\ object.result # "refused" => ReadSoFar
    /\ object.result = "accepted" => object.i = Len(object.argv) + 1 /\ object.argDef = NULL
    /\ object.result = "refused" =>
          \E n \in 1 .. Len(object.argv) : A!FlagAt(object.argv, n) /\ ~A!Right(object.argv, n)

\* It holds before the first argument.
LEMMA ArgsInit == A!Init => ArgsInv
<1> SUFFICES ASSUME A!Init PROVE ArgsInv
  OBVIOUS
<1>1. PICK list \in A!Registered(Flags), argv \in A!S!BoundedSeq(A!Arguments, MaxArgs) :
         object = [list |-> list, argv |-> argv, i |-> 1, argDef |-> NULL,
                   values |-> [flag \in DOMAIN Flags |-> NULL], result |-> "parsing"]
  <2> DEFINE Records == [list : A!Registered(Flags),
                         argv : A!S!BoundedSeq(A!Arguments, MaxArgs), i : {1}, argDef : {NULL},
                         values : {[flag \in DOMAIN Flags |-> NULL]}, result : {"parsing"}]
  <2>1. object \in Records
    BY DEF A!Init
  <2> QED
    BY <2>1
<1>2. argv \in Seq(A!Arguments)
  <2>1. PICK Lists \in { [1 .. l -> A!Arguments] : l \in 0 .. MaxArgs } : argv \in Lists
    BY DEF A!S!BoundedSeq, A!S!SeqOf
  <2>2. PICK l \in 0 .. MaxArgs : argv \in [1 .. l -> A!Arguments]
    BY <2>1
  <2>3. l \in Nat
    OBVIOUS
  <2> QED
    BY <2>2, <2>3
<1>3. 1 \in 1 .. Len(argv) + 1
  BY <1>2
<1>4. ReadSoFar
  <2>1. ~A!Taken(argv, 1)
    BY TakenIs
  <2>2. \A flag : A!LastGiven(argv, flag, 0) = NULL
    <3>1. TAKE flag
    <3>2. { n \in 1 .. 0 : A!FlagAt(argv, n) /\ argv[n].flag = flag } = {}
      OBVIOUS
    <3> QED
      BY <3>2 DEF A!LastGiven
  <2> QED
    BY <1>1, <2>1, <2>2 DEF ReadSoFar
<1>5. /\ object.list = list /\ object.argv = argv /\ object.i = 1 /\ object.result = "parsing"
      /\ object.values = [flag \in DOMAIN Flags |-> NULL]
      /\ object = [list |-> object.list, argv |-> object.argv, i |-> object.i,
                   argDef |-> object.argDef, values |-> object.values, result |-> object.result]
  BY ONLY <1>1
<1>6. object.values \in [DOMAIN Flags -> Gives]
  BY <1>5 DEF Gives
<1>7. /\ object.result \in {"parsing", "accepted", "refused"} /\ object.result # "accepted"
      /\ object.result # "refused" /\ object.list \in A!Registered(Flags)
  BY <1>5
<1> QED
  BY ONLY <1>2, <1>3, <1>4, <1>5, <1>6, <1>7, Zenon DEF ArgsInv

\* It makes a command line that was parsed one that was parsed right.
LEMMA ArgsRight == ArgsInv => A!ParsesArgs
<1> SUFFICES ASSUME ArgsInv PROVE A!ParsesArgs
  OBVIOUS
<1> SUFFICES ASSUME object.result # "parsing"
             PROVE  /\ object.result = "accepted"
                          <=> \A n \in DOMAIN object.argv :
                                 A!FlagAt(object.argv, n) => A!Right(object.argv, n)
                    /\ object.result = "accepted" => \A flag \in DOMAIN Flags :
                          object.values[flag] = A!LastGiven(object.argv, flag, Len(object.argv))
  <2>1. A!NextArg(object.list, object.argv, 1) =
           IF A!FreeWords(object.argv) = {} THEN NULL ELSE A!S!Min(A!FreeWords(object.argv))
    <3>1. object.list \in A!Registered(Flags) /\ object.argv \in Seq(A!Arguments)
      BY Zenon DEF ArgsInv
    <3> QED
      BY <3>1, NextArgIs, Zenon
  <2> QED
    BY <2>1, Zenon DEF A!ParsesArgs
<1> DEFINE argv == object.argv
           l == Len(object.argv)
<1>1. l \in Nat /\ DOMAIN argv = 1 .. l
  BY DEF ArgsInv
<1>2. CASE object.result = "accepted"
  <2>1. ReadSoFar /\ object.i = l + 1 /\ object.argDef = NULL
    BY <1>2 DEF ArgsInv
  <2>2. ASSUME NEW n \in 1 .. l, A!FlagAt(argv, n)
        PROVE  A!Right(argv, n)
    <3>1. /\ argv[n].flag # 0
          /\ IF argv[n].text # NULL THEN argv[n].text \in Texts[Flags[argv[n].flag]]
             ELSE Flags[argv[n].flag] \in {"boolean", "string"}
      <4>1. n \in 1 .. object.i - 1
        BY <1>1, <2>1
      <4> QED
        BY <2>1, <2>2, <4>1 DEF ReadSoFar
    <3>2. n = l => ~A!Asks(argv[n])
      <4>1. ~A!Taken(argv, l + 1)
        BY <2>1 DEF ReadSoFar
      <4>2. n = l => l + 1 \in Nat \ {0} /\ l + 1 > 1 /\ l + 1 - 1 = n
        BY <1>1
      <4> QED
        BY <2>2, <4>1, <4>2, TakenIs DEF A!FlagAt
    <3>3. argv[n].flag \in DOMAIN Flags
      <4>1. argv[n] \in A!Arguments
        BY <1>1 DEF ArgsInv
      <4> QED
        BY <2>2, <3>1, <4>1 DEF A!Arguments, A!FlagAt, A!IsFlag
    <3>4. n # l => n < l
      BY <1>1
    <3> QED
      BY <3>1, <3>2, <3>3, <3>4 DEF A!Right, A!Asks
  <2>3. object.i - 1 = l
    BY <1>1, <2>1
  <2>4. ASSUME NEW flag \in DOMAIN Flags
        PROVE  object.values[flag] = A!LastGiven(argv, flag, l)
    BY <2>1, <2>3 DEF ReadSoFar
  <2>5. \A n \in DOMAIN argv : A!FlagAt(argv, n) => A!Right(argv, n)
    BY <1>1, <2>2
  <2> QED
    BY <1>2, <2>4, <2>5, Zenon
<1>3. CASE object.result = "refused"
  BY <1>1, <1>3 DEF ArgsInv
<1> QED
  BY <1>2, <1>3 DEF ArgsInv

\* An argument that was read, and the flags it gave something to, leave what was read right.
LEMMA ReadsOn ==
    ASSUME ArgsInv, ReadSoFar, object.i <= Len(object.argv),
           NEW argDef \in {NULL} \union DOMAIN Flags, NEW values,
           object' = [object EXCEPT !.i = @ + 1, !.argDef = argDef, !.values = values],
           values \in [DOMAIN Flags -> Gives],
           object.result = "parsing",
           argDef = NULL => ~A!Taken(object.argv, object.i + 1),
           argDef # NULL => /\ A!Taken(object.argv, object.i + 1)
                            /\ argDef = object.argv[object.i].flag,
           A!FlagAt(object.argv, object.i) =>
              LET arg == object.argv[object.i] IN
              /\ arg.flag # 0
              /\ IF arg.text # NULL THEN arg.text \in Texts[Flags[arg.flag]]
                 ELSE Flags[arg.flag] \in {"boolean", "string"},
           \A flag \in DOMAIN Flags : values[flag] =
              A!LastGiven(object.argv, flag, IF argDef = NULL THEN object.i ELSE object.i - 1)
    PROVE  ArgsInv'
<1> DEFINE argv == object.argv
           l == Len(object.argv)
           k == object.i
           Fits(n) == LET arg == argv[n] IN
                      /\ arg.flag # 0
                      /\ IF arg.text # NULL THEN arg.text \in Texts[Flags[arg.flag]]
                         ELSE Flags[arg.flag] \in {"boolean", "string"}
<1>1. /\ l \in Nat /\ k \in 1 .. l /\ k + 1 \in 1 .. l + 1 /\ k + 1 - 1 = k /\ k + 1 - 2 = k - 1
  BY DEF ArgsInv
<1>2. object' = [list |-> object.list, argv |-> argv, i |-> k + 1, argDef |-> argDef,
                 values |-> values, result |-> "parsing"]
  <2>1. object = [list |-> object.list, argv |-> object.argv, i |-> object.i,
                  argDef |-> object.argDef, values |-> object.values, result |-> object.result]
    BY Zenon DEF ArgsInv
  <2> QED
    BY <2>1
<1>3. \A n \in 1 .. k : A!FlagAt(argv, n) => Fits(n)
  <2>1. \A n \in 1 .. k - 1 : A!FlagAt(argv, n) => Fits(n)
    BY DEF ReadSoFar
  <2>2. A!FlagAt(argv, k) => Fits(k)
    OBVIOUS
  <2>3. \A n \in 1 .. k : n = k \/ n \in 1 .. k - 1
    BY <1>1
  <2> HIDE DEF Fits, k, argv
  <2> QED
    BY ONLY <2>1, <2>2, <2>3
<1>4. ReadSoFar'
  <2>1. /\ object'.argv = argv /\ object'.i = k + 1 /\ object'.argDef = argDef
        /\ object'.values = values /\ object'.i - 1 = k /\ object'.i - 2 = k - 1
    BY <1>1, <1>2
  <2>2. /\ argDef = NULL => ~A!Taken(argv, k + 1)
        /\ argDef # NULL => A!Taken(argv, k + 1) /\ argDef = argv[k].flag
    OBVIOUS
  <2>3. \A flag \in DOMAIN Flags : values[flag] =
           A!LastGiven(argv, flag, IF argDef = NULL THEN k ELSE k - 1)
    OBVIOUS
  <2> HIDE DEF argv, k
  <2>4. \A n \in 1 .. object'.i - 1 : A!FlagAt(object'.argv, n) =>
           LET arg == object'.argv[n] IN
           /\ arg.flag # 0
           /\ IF arg.text # NULL THEN arg.text \in Texts[Flags[arg.flag]]
              ELSE Flags[arg.flag] \in {"boolean", "string"}
    BY <1>3, <2>1
  <2>5. \A flag \in DOMAIN Flags : object'.values[flag] =
           A!LastGiven(object'.argv, flag,
                       IF object'.argDef = NULL THEN object'.i - 1 ELSE object'.i - 2)
    BY <2>1, <2>3
  <2> QED
    BY <2>1, <2>2, <2>4, <2>5 DEF ReadSoFar
<1> QED
  <2>1. /\ object.list \in A!Registered(Flags) /\ argv \in Seq(A!Arguments)
    BY DEF ArgsInv
  <2>2. k + 1 \in 1 .. Len(argv) + 1
    BY <1>1
  <2> HIDE DEF argv, k, l, Fits
  <2>3. /\ object' = [list |-> object'.list, argv |-> object'.argv, i |-> object'.i,
                      argDef |-> object'.argDef, values |-> object'.values,
                      result |-> object'.result]
        /\ object'.list = object.list /\ object'.argv = argv /\ object'.i = k + 1
        /\ object'.values = values /\ object'.result = "parsing"
    BY ONLY <1>2
  <2>4. object'.values \in [DOMAIN Flags -> Gives]
    BY <2>3, Zenon
  <2>5. object'.result \in {"parsing", "accepted", "refused"} /\ object'.result # "accepted"
        /\ object'.result # "refused"
    BY ONLY <2>3
  <2>6. /\ object'.list \in A!Registered(Flags) /\ object'.argv \in Seq(A!Arguments)
        /\ object'.i \in 1 .. Len(object'.argv) + 1
    BY ONLY <2>1, <2>2, <2>3
  <2> QED
    BY ONLY <1>4, <2>3, <2>4, <2>5, <2>6, Zenon DEF ArgsInv

\* A flag of the command line is 0 or one of those registered.
LEMMA ArgumentIs ==
    ASSUME ArgsInv, object.i <= Len(object.argv)
    PROVE  /\ A!argument \in A!Arguments /\ A!argument = object.argv[object.i]
           /\ A!IsFlag(A!argument) => A!argument.flag \in {0} \union DOMAIN Flags
           /\ object.i \in Nat \ {0} /\ object.i \in 1 .. Len(object.argv)
           /\ object.i + 1 \in Nat \ {0} /\ object.i + 1 > 1 /\ object.i + 1 - 1 = object.i
           /\ object.i - 1 \in Nat /\ object.i - 1 + 1 = object.i
<1>1. object.i \in 1 .. Len(object.argv) /\ object.argv \in Seq(A!Arguments)
  BY DEF ArgsInv
<1>2. A!argument \in A!Arguments /\ A!argument = object.argv[object.i]
  BY <1>1 DEF A!argument
<1>3. A!IsFlag(A!argument) => A!argument.flag \in {0} \union DOMAIN Flags
  <2> DEFINE arg == A!argument
  <2>1. arg \in A!Arguments
    BY <1>2
  <2> HIDE DEF arg
  <2>2. arg.flag # NULL => arg.flag \in {0} \union DOMAIN Flags
    BY <2>1 DEF A!Arguments
  <2> QED
    BY <2>2 DEF arg, A!IsFlag
<1> QED
  BY <1>1, <1>2, <1>3

\* The flag before expects the argument.
LEMMA ExpectedStep ==
    ASSUME ArgsInv, object.result = "parsing", object.i <= Len(object.argv), A!Expected
    PROVE  ArgsInv'
<1> DEFINE argv == object.argv
           k == object.i
           def == object.argDef
           values == [object.values EXCEPT ![def] = argv[k]]
<1>1. ReadSoFar /\ def # NULL /\ def \in DOMAIN Flags /\ A!Taken(argv, k) /\ def = argv[k - 1].flag
  BY DEF ArgsInv, ReadSoFar, A!Expected
<1>2. /\ k \in Nat \ {0} /\ k \in 1 .. Len(argv) /\ k - 1 \in Nat /\ k - 1 + 1 = k
      /\ k + 1 \in Nat \ {0} /\ k + 1 - 1 = k /\ A!argument = argv[k]
  BY ArgumentIs
<1>3. k > 1 /\ A!Asks(argv[k - 1]) /\ ~A!Taken(argv, k - 1)
  BY <1>1, <1>2, TakenIs
<1>4. ~A!Taken(argv, k + 1) /\ ~A!FlagAt(argv, k)
  <2>1. A!Taken(argv, k + 1) <=> k + 1 > 1 /\ A!Asks(argv[k + 1 - 1]) /\ ~A!Taken(argv, k + 1 - 1)
    BY <1>2, TakenIs
  <2> QED
    BY <1>1, <1>2, <2>1 DEF A!FlagAt
<1>5. A!FlagAt(argv, k - 1) /\ A!Given(argv, k - 1) = argv[k]
  <2>1. NULL \notin DOMAIN Flags
    BY FlagsAssumption
  <2> QED
    BY <1>2, <1>3, <2>1 DEF A!FlagAt, A!IsFlag, A!Given, A!Asks
<1>6. object' = [object EXCEPT !.i = @ + 1, !.argDef = NULL, !.values = values]
  <2>1. object' = [object EXCEPT !.i = @ + 1, !.argDef = NULL, !.values[def] = argv[k]]
    BY <1>2 DEF A!Expected, A!Goes
  <2> QED
    BY <2>1
<1>7. object.values \in [DOMAIN Flags -> Gives]
  BY Zenon DEF ArgsInv
<1>8. ASSUME NEW flag \in DOMAIN Flags
      PROVE  values[flag] = A!LastGiven(argv, flag, k)
  <2>1. object.values[flag] = A!LastGiven(argv, flag, k - 2)
    BY <1>1 DEF ReadSoFar
  <2>2. A!LastGiven(argv, flag, k - 1 + 1) = A!LastGiven(argv, flag, k - 1)
    <3>1. ~A!FlagAt(argv, k - 1 + 1)
      BY <1>2, <1>4
    <3> QED
      BY <1>2, <3>1, LastGivenStep
  <2>3. A!LastGiven(argv, flag, k - 2 + 1) = IF argv[k - 2 + 1].flag = flag THEN A!Given(argv, k - 2 + 1)
                                              ELSE A!LastGiven(argv, flag, k - 2)
    <3>1. k - 2 \in Nat /\ k - 2 + 1 = k - 1
      BY <1>2, <1>3
    <3>2. A!FlagAt(argv, k - 2 + 1)
      BY <1>5, <3>1
    <3> QED
      BY <3>1, <3>2, LastGivenStep
  <2>4. k - 2 + 1 = k - 1
    BY <1>2
  <2>5. values[flag] = IF flag = def THEN argv[k] ELSE object.values[flag]
    BY <1>7
  <2> HIDE DEF values, argv, k, def
  <2> QED
    BY <1>1, <1>2, <1>5, <2>1, <2>2, <2>3, <2>4, <2>5
<1>9. values \in [DOMAIN Flags -> Gives]
  <2>1. argv[k] \in Gives
    BY ArgumentIs DEF Gives
  <2> QED
    BY <1>7, <2>1
<1> HIDE DEF values
<1>10. \A flag \in DOMAIN Flags : values[flag] =
           A!LastGiven(argv, flag, IF NULL = NULL THEN k ELSE k - 1)
  BY <1>8
<1>11. NULL \in {NULL} \union DOMAIN Flags
  OBVIOUS
<1> QED
  BY <1>1, <1>4, <1>6, <1>9, <1>10, <1>11, ReadsOn, Zenon

\* An argument that no flag expects: nothing is expected, and it is not taken.
LEMMA UnexpectedIs ==
    ASSUME ArgsInv, object.result = "parsing", object.argDef = NULL
    PROVE  /\ ReadSoFar /\ ~A!Taken(object.argv, object.i)
           /\ \A flag \in DOMAIN Flags :
                 object.values[flag] = A!LastGiven(object.argv, flag, object.i - 1)
<1>1. ReadSoFar
  BY Zenon DEF ArgsInv
<1> QED
  BY <1>1 DEF ReadSoFar

\* A flag that is given a text, or TRUE, has it from then on.
LEMMA GivenStep ==
    ASSUME ArgsInv, object.result = "parsing", object.i <= Len(object.argv), object.argDef = NULL,
           NEW flag \in DOMAIN Flags, A!argument.flag = flag, A!Fits(flag),
           ~A!Asks(object.argv[object.i]), NEW given \in Gives, A!Goes(flag, given),
           A!Given(object.argv, object.i) = given
    PROVE  ArgsInv'
<1> DEFINE argv == object.argv
           k == object.i
           values == [object.values EXCEPT ![flag] = given]
<1>1. /\ ReadSoFar /\ ~A!Taken(argv, k)
      /\ \A f \in DOMAIN Flags : object.values[f] = A!LastGiven(argv, f, k - 1)
  BY UnexpectedIs
<1>2. /\ k \in Nat \ {0} /\ k - 1 \in Nat /\ k - 1 + 1 = k
      /\ k + 1 \in Nat \ {0} /\ k + 1 - 1 = k /\ A!argument = argv[k]
  BY ArgumentIs
<1>3. NULL \notin DOMAIN Flags /\ 0 \notin DOMAIN Flags
  BY FlagsAssumption, FlagsAre
<1>4. A!FlagAt(argv, k) /\ argv[k].flag = flag
  BY <1>1, <1>2, <1>3 DEF A!FlagAt, A!IsFlag
<1>5. ~A!Taken(argv, k + 1)
  <2>1. A!Taken(argv, k + 1) <=> k + 1 > 1 /\ A!Asks(argv[k + 1 - 1]) /\ ~A!Taken(argv, k + 1 - 1)
    BY <1>2, TakenIs
  <2> QED
    BY <1>2, <2>1
<1>6. object.values \in [DOMAIN Flags -> Gives]
  BY Zenon DEF ArgsInv
<1>7. object' = [object EXCEPT !.i = @ + 1, !.argDef = NULL, !.values = values]
  <2>1. object' = [object EXCEPT !.i = @ + 1, !.argDef = NULL, !.values[flag] = given]
    BY Zenon DEF A!Goes
  <2> QED
    BY <2>1
<1>8. values \in [DOMAIN Flags -> Gives]
  BY <1>6
<1>9. \A f \in DOMAIN Flags : values[f] = A!LastGiven(argv, f, k)
  <2>1. TAKE f \in DOMAIN Flags
  <2>2. A!LastGiven(argv, f, k - 1 + 1) =
           IF A!FlagAt(argv, k - 1 + 1) /\ argv[k - 1 + 1].flag = f THEN A!Given(argv, k - 1 + 1)
           ELSE A!LastGiven(argv, f, k - 1)
    BY <1>2, LastGivenStep, Zenon
  <2>3. A!LastGiven(argv, f, k) = IF flag = f THEN given ELSE A!LastGiven(argv, f, k - 1)
    BY <1>2, <1>4, <2>2
  <2>4. values[f] = IF f = flag THEN given ELSE object.values[f]
    BY <1>6
  <2> HIDE DEF values
  <2> QED
    BY <1>1, <2>3, <2>4
<1>10. LET arg == argv[k] IN
       /\ arg.flag # 0
       /\ IF arg.text # NULL THEN arg.text \in Texts[Flags[arg.flag]]
          ELSE Flags[arg.flag] \in {"boolean", "string"}
  BY <1>2, <1>3, <1>4 DEF A!Fits
<1>11. \A f \in DOMAIN Flags : values[f] =
           A!LastGiven(argv, f, IF NULL = NULL THEN k ELSE k - 1)
  BY <1>9
<1>12. NULL \in {NULL} \union DOMAIN Flags
  OBVIOUS
<1> HIDE DEF values
<1> QED
  BY <1>1, <1>5, <1>7, <1>8, <1>10, <1>11, <1>12, ReadsOn, Zenon

\* A string flag without a text asks for the argument behind it.
LEMMA AsksStep ==
    ASSUME ArgsInv, object.result = "parsing", object.i <= Len(object.argv), object.argDef = NULL,
           NEW flag \in DOMAIN Flags, A!argument.flag = flag, A!argument.text = NULL,
           Flags[flag] = "string", object' = [object EXCEPT !.i = @ + 1, !.argDef = flag]
    PROVE  ArgsInv'
<1> DEFINE argv == object.argv
           k == object.i
           values == object.values
<1>1. /\ ReadSoFar /\ ~A!Taken(argv, k)
      /\ \A f \in DOMAIN Flags : values[f] = A!LastGiven(argv, f, k - 1)
  BY UnexpectedIs
<1>2. /\ k \in Nat \ {0} /\ k - 1 \in Nat /\ k - 1 + 1 = k
      /\ k + 1 \in Nat \ {0} /\ k + 1 > 1 /\ k + 1 - 1 = k /\ A!argument = argv[k]
  BY ArgumentIs
<1>3. NULL \notin DOMAIN Flags /\ 0 \notin DOMAIN Flags
  BY FlagsAssumption, FlagsAre
<1>4. A!Taken(argv, k + 1) /\ argv[k].flag = flag /\ argv[k].text = NULL
  <2>1. A!Taken(argv, k + 1) <=> k + 1 > 1 /\ A!Asks(argv[k + 1 - 1]) /\ ~A!Taken(argv, k + 1 - 1)
    BY ONLY <1>2, TakenIs
  <2>2. argv[k].flag = flag /\ argv[k].text = NULL
    BY <1>2, Zenon
  <2>3. A!Asks(argv[k])
    BY <2>2 DEF A!Asks
  <2> HIDE DEF argv, k
  <2> QED
    BY <1>1, <1>2, <2>1, <2>2, <2>3
<1>5. values \in [DOMAIN Flags -> Gives]
  BY Zenon DEF ArgsInv
<1>6. object' = [object EXCEPT !.i = @ + 1, !.argDef = flag, !.values = values]
  <2>1. object = [list |-> object.list, argv |-> object.argv, i |-> object.i,
                  argDef |-> object.argDef, values |-> object.values, result |-> object.result]
    BY Zenon DEF ArgsInv
  <2> QED
    BY <2>1
<1>7. LET arg == argv[k] IN
      /\ arg.flag # 0
      /\ IF arg.text # NULL THEN arg.text \in Texts[Flags[arg.flag]]
         ELSE Flags[arg.flag] \in {"boolean", "string"}
  <2> HIDE DEF argv, k
  <2> QED
    BY <1>3, <1>4
<1>8. \A f \in DOMAIN Flags : values[f] =
          A!LastGiven(argv, f, IF flag = NULL THEN k ELSE k - 1)
  BY <1>1, <1>3
<1>9. flag \in {NULL} \union DOMAIN Flags /\ flag # NULL
  BY <1>3
<1>10. /\ flag = NULL => ~A!Taken(object.argv, object.i + 1)
       /\ flag # NULL => /\ A!Taken(object.argv, object.i + 1)
                         /\ flag = object.argv[object.i].flag
  BY <1>4, <1>9
<1>11. A!FlagAt(object.argv, object.i) =>
          LET arg == object.argv[object.i] IN
          /\ arg.flag # 0
          /\ IF arg.text # NULL THEN arg.text \in Texts[Flags[arg.flag]]
             ELSE Flags[arg.flag] \in {"boolean", "string"}
  BY <1>7, Zenon
<1>12. ReadSoFar /\ object.i <= Len(object.argv) /\ object.result = "parsing" /\ ArgsInv
  BY <1>1
<1>13. \A f \in DOMAIN Flags : object.values[f] =
          A!LastGiven(object.argv, f, IF flag = NULL THEN object.i ELSE object.i - 1)
  BY <1>8
<1>14. /\ object' = [object EXCEPT !.i = @ + 1, !.argDef = flag, !.values = object.values]
       /\ object.values \in [DOMAIN Flags -> Gives] /\ flag \in {NULL} \union DOMAIN Flags
  BY <1>5, <1>6, <1>9
<1> HIDE DEF values
<1> QED
  BY ONLY <1>10, <1>11, <1>12, <1>13, <1>14, ReadsOn, Zenon

\* A word changes nothing.
LEMMA WordStep ==
    ASSUME ArgsInv, object.result = "parsing", object.i <= Len(object.argv), object.argDef = NULL,
           A!Word
    PROVE  ArgsInv'
<1> DEFINE argv == object.argv
           k == object.i
           values == object.values
<1>1. /\ ReadSoFar /\ ~A!Taken(argv, k)
      /\ \A f \in DOMAIN Flags : values[f] = A!LastGiven(argv, f, k - 1)
  BY UnexpectedIs
<1>2. /\ k \in Nat \ {0} /\ k - 1 \in Nat /\ k - 1 + 1 = k
      /\ k + 1 \in Nat \ {0} /\ k + 1 - 1 = k /\ A!argument = argv[k]
  BY ArgumentIs
<1>3. ~A!IsFlag(argv[k]) /\ ~A!FlagAt(argv, k) /\ ~A!Asks(argv[k])
  <2>1. ~A!IsFlag(argv[k])
    BY <1>2 DEF A!Word
  <2>2. NULL \notin DOMAIN Flags
    BY FlagsAssumption
  <2> QED
    BY <2>1, <2>2 DEF A!FlagAt, A!IsFlag, A!Asks
<1>4. ~A!Taken(argv, k + 1)
  <2>1. A!Taken(argv, k + 1) <=> k + 1 > 1 /\ A!Asks(argv[k + 1 - 1]) /\ ~A!Taken(argv, k + 1 - 1)
    BY <1>2, TakenIs
  <2> QED
    BY <1>2, <1>3, <2>1
<1>5. values \in [DOMAIN Flags -> Gives]
  BY Zenon DEF ArgsInv
<1>6. object' = [object EXCEPT !.i = @ + 1, !.argDef = NULL, !.values = values]
  <2>1. object = [list |-> object.list, argv |-> object.argv, i |-> object.i,
                  argDef |-> object.argDef, values |-> object.values, result |-> object.result]
    BY Zenon DEF ArgsInv
  <2>2. object' = [object EXCEPT !.i = @ + 1]
    BY DEF A!Word
  <2> QED
    BY <2>1, <2>2
<1>7. \A f \in DOMAIN Flags : values[f] = A!LastGiven(argv, f, IF NULL = NULL THEN k ELSE k - 1)
  <2>1. TAKE f \in DOMAIN Flags
  <2>2. A!LastGiven(argv, f, k - 1 + 1) =
           IF A!FlagAt(argv, k - 1 + 1) /\ argv[k - 1 + 1].flag = f THEN A!Given(argv, k - 1 + 1)
           ELSE A!LastGiven(argv, f, k - 1)
    BY <1>2, LastGivenStep, Zenon
  <2>3. A!LastGiven(argv, f, k) = A!LastGiven(argv, f, k - 1)
    BY <1>2, <1>3, <2>2
  <2> QED
    BY <1>1, <2>3
<1>8. NULL \in {NULL} \union DOMAIN Flags
  OBVIOUS
<1> HIDE DEF values
<1> QED
  BY <1>1, <1>3, <1>4, <1>5, <1>6, <1>7, <1>8, ReadsOn, Zenon

\* A command line is refused for an argument that is not right.
LEMMA RefusedStep ==
    ASSUME ArgsInv, object.result = "parsing", NEW values \in [DOMAIN Flags -> Gives],
           object' = [object EXCEPT !.result = "refused", !.values = values],
           NEW n \in 1 .. Len(object.argv), A!FlagAt(object.argv, n), ~A!Right(object.argv, n)
    PROVE  ArgsInv'
<1>1. object' = [list |-> object.list, argv |-> object.argv, i |-> object.i,
                 argDef |-> object.argDef, values |-> values, result |-> "refused"]
  <2>1. object = [list |-> object.list, argv |-> object.argv, i |-> object.i,
                  argDef |-> object.argDef, values |-> object.values, result |-> object.result]
    BY Zenon DEF ArgsInv
  <2> QED
    BY <2>1
<1>2. /\ object' = [list |-> object'.list, argv |-> object'.argv, i |-> object'.i,
                    argDef |-> object'.argDef, values |-> object'.values,
                    result |-> object'.result]
      /\ object'.list = object.list /\ object'.argv = object.argv /\ object'.i = object.i
      /\ object'.values = values /\ object'.result = "refused"
  BY ONLY <1>1
<1>3. /\ object.list \in A!Registered(Flags) /\ object.argv \in Seq(A!Arguments)
      /\ object.i \in 1 .. Len(object.argv) + 1
  BY Zenon DEF ArgsInv
<1>4. /\ object'.values \in [DOMAIN Flags -> Gives]
      /\ object'.result \in {"parsing", "accepted", "refused"} /\ object'.result # "accepted"
      /\ object'.list \in A!Registered(Flags) /\ object'.argv \in Seq(A!Arguments)
      /\ object'.i \in 1 .. Len(object'.argv) + 1
  BY <1>2, <1>3
<1>5. \E m \in 1 .. Len(object'.argv) : A!FlagAt(object'.argv, m) /\ ~A!Right(object'.argv, m)
  BY <1>2
<1> QED
  BY ONLY <1>2, <1>4, <1>5, Zenon DEF ArgsInv

\* A flag that nothing before it expects, and that was registered.
LEMMA FlagIs ==
    ASSUME ArgsInv, object.result = "parsing", object.i <= Len(object.argv), object.argDef = NULL,
           A!IsFlag(A!argument)
    PROVE  /\ A!FlagAt(object.argv, object.i)
           /\ A!argument.flag \in {0} \union DOMAIN Flags
           /\ A!Get(object.list, A!argument.flag) = NULL <=> A!argument.flag = 0
<1>1. A!argument = object.argv[object.i] /\ A!argument.flag \in {0} \union DOMAIN Flags
  BY ArgumentIs
<1>2. ~A!Taken(object.argv, object.i)
  BY UnexpectedIs
<1>3. A!FlagAt(object.argv, object.i)
  BY <1>1, <1>2 DEF A!FlagAt
<1>4. object.list \in A!Registered(Flags)
  BY Zenon DEF ArgsInv
<1>5. 0 \notin DOMAIN Flags /\ NULL \notin DOMAIN Flags
  BY FlagsAre, FlagsAssumption
<1>6. A!Get(object.list, A!argument.flag) =
         IF A!argument.flag \in DOMAIN Flags THEN A!argument.flag ELSE NULL
  BY <1>1, <1>4, GetIsFlag
<1> HIDE DEF A!argument
<1> QED
  BY <1>1, <1>3, <1>5, <1>6

\* A flag that was not registered is refused.
LEMMA UnregisteredStep ==
    ASSUME ArgsInv, object.result = "parsing", object.i <= Len(object.argv), object.argDef = NULL,
           A!Unregistered
    PROVE  ArgsInv'
<1> DEFINE values == object.values
           k == object.i
<1>1. A!IsFlag(A!argument) /\ A!Get(object.list, A!argument.flag) = NULL
  BY Zenon DEF A!Unregistered
<1>2. A!FlagAt(object.argv, k) /\ A!argument.flag = 0
  BY <1>1, FlagIs, Zenon
<1>3. k \in 1 .. Len(object.argv) /\ A!argument = object.argv[k]
  BY ArgumentIs, Zenon
<1>4. object.argv[k].flag = 0
  BY <1>2, <1>3, Zenon
<1>5. ~A!Right(object.argv, k)
  BY <1>4, Zenon DEF A!Right
<1>6. values \in [DOMAIN Flags -> Gives]
  BY Zenon DEF ArgsInv
<1>7. object' = [object EXCEPT !.result = "refused", !.values = values]
  <2>1. object = [list |-> object.list, argv |-> object.argv, i |-> object.i,
                  argDef |-> object.argDef, values |-> object.values, result |-> object.result]
    BY Zenon DEF ArgsInv
  <2>2. object' = [object EXCEPT !.result = "refused"]
    BY Zenon DEF A!Unregistered
  <2> QED
    BY ONLY <2>1, <2>2
<1> HIDE DEF values
<1> QED
  BY <1>2, <1>3, <1>5, <1>6, <1>7, RefusedStep, Zenon

\* A flag that is not given what its type asks for is refused.
LEMMA UnfitStep ==
    ASSUME ArgsInv, object.result = "parsing", object.i <= Len(object.argv), object.argDef = NULL,
           NEW flag \in DOMAIN Flags, A!argument.flag = flag, A!Unfit(flag)
    PROVE  ArgsInv'
<1> DEFINE k == object.i
           kept == Flags[flag] = "boolean" \/ A!argument.text = NULL
           given == IF kept THEN object.values[flag] ELSE A!argument.text
           values == [object.values EXCEPT ![flag] = given]
<1>1. A!IsFlag(A!argument)
  BY FlagsAssumption, FlagsAre DEF A!IsFlag
<1>2. A!FlagAt(object.argv, k)
  BY <1>1, FlagIs, Zenon
<1>3. /\ k \in 1 .. Len(object.argv) /\ A!argument = object.argv[k]
      /\ A!argument \in A!Arguments
  BY ArgumentIs, Zenon
<1>4. object.argv[k].flag = flag /\ object.argv[k].text = A!argument.text
  BY <1>3, Zenon
<1>5. ~A!Right(object.argv, k)
  <2>1. ~A!Fits(flag)
    BY Zenon DEF A!Unfit
  <2>2. IF A!argument.text = NULL THEN Flags[flag] \notin {"boolean", "string"}
        ELSE A!argument.text \notin Texts[Flags[flag]]
    BY <2>1, Zenon DEF A!Fits
  <2> HIDE DEF k, A!argument
  <2> QED
    BY ONLY <1>4, <2>2 DEF A!Right
<1>6. object.values \in [DOMAIN Flags -> Gives]
  BY Zenon DEF ArgsInv
<1>7. given \in Gives
  <2>1. A!argument.text \in ArgWords \union {NULL}
    <3> DEFINE arg == A!argument
    <3>1. arg \in A!Arguments
      BY <1>3
    <3> HIDE DEF arg
    <3>2. arg.text \in ArgWords \union {NULL}
      BY <3>1 DEF A!Arguments
    <3> QED
      BY <3>2 DEF arg
  <2> QED
    BY <1>6, <2>1 DEF Gives
<1> HIDE DEF given
<1>8. values \in [DOMAIN Flags -> Gives]
  BY ONLY <1>6, <1>7
<1>9. object' = [object EXCEPT !.result = "refused", !.values = values]
  <2>1. object' = [object EXCEPT !.result = "refused", !.values[flag] = given]
    BY Zenon DEF A!Unfit, given
  <2>2. object = [list |-> object.list, argv |-> object.argv, i |-> object.i,
                  argDef |-> object.argDef, values |-> object.values, result |-> object.result]
    BY Zenon DEF ArgsInv
  <2> QED
    BY ONLY <2>1, <2>2
<1> HIDE DEF values
<1> QED
  BY <1>2, <1>3, <1>5, <1>8, <1>9, RefusedStep, Zenon

\* A flag that was registered and is given what its type asks for.
LEMMA FlagStep ==
    ASSUME ArgsInv, object.result = "parsing", object.i <= Len(object.argv), object.argDef = NULL,
           NEW flag \in DOMAIN Flags, A!argument.flag = flag,
           A!FlagWithText(flag) \/ A!FlagAlone(flag)
    PROVE  ArgsInv'
<1> DEFINE k == object.i
<1>1. A!argument = object.argv[k] /\ A!argument \in A!Arguments
  BY ArgumentIs, Zenon
<1>2. object.argv[k].flag = flag /\ object.argv[k].text = A!argument.text
  BY <1>1, Zenon
<1>3. CASE A!FlagWithText(flag)
  <2>1. A!argument.text # NULL /\ A!Fits(flag) /\ A!Goes(flag, A!argument.text)
    BY <1>3, Zenon DEF A!FlagWithText
  <2>2. ~A!Asks(object.argv[k]) /\ A!Given(object.argv, k) = A!argument.text
    BY <1>2, <2>1, Zenon DEF A!Asks, A!Given
  <2>3. A!argument.text \in Gives
    <3> DEFINE arg == A!argument
    <3>1. arg \in A!Arguments
      BY <1>1
    <3> HIDE DEF arg
    <3>2. arg.text \in ArgWords \union {NULL}
      BY <3>1 DEF A!Arguments
    <3> QED
      BY <3>2 DEF arg, Gives
  <2> QED
    BY <2>1, <2>2, <2>3, GivenStep, Zenon
<1>4. CASE A!FlagAlone(flag) /\ Flags[flag] = "boolean" /\ A!Goes(flag, TRUE)
  <2>1. A!argument.text = NULL /\ A!Fits(flag)
    BY <1>4, Zenon DEF A!FlagAlone
  <2>2. ~A!Asks(object.argv[k]) /\ A!Given(object.argv, k) = TRUE
    <3> HIDE DEF k, A!argument
    <3> QED
      BY ONLY <1>2, <1>4, <2>1 DEF A!Asks, A!Given
  <2>3. TRUE \in Gives
    BY Zenon DEF Gives
  <2> QED
    BY <1>4, <2>1, <2>2, <2>3, GivenStep, Zenon
<1>5. CASE /\ A!FlagAlone(flag) /\ Flags[flag] = "string"
           /\ object' = [object EXCEPT !.i = @ + 1, !.argDef = flag]
  <2>1. A!argument.text = NULL
    BY <1>5, Zenon DEF A!FlagAlone
  <2> QED
    BY <1>5, <2>1, AsksStep, Zenon
<1> QED
  BY <1>3, <1>4, <1>5, Zenon DEF A!FlagAlone

\* Every argument is read, or refused.
LEMMA ParseStep ==
    ASSUME ArgsInv, A!Parse
    PROVE  ArgsInv'
<1>1. object.result = "parsing" /\ object.i <= Len(object.argv)
  BY Zenon DEF A!Parse
<1>2. CASE A!Expected
  BY <1>1, <1>2, ExpectedStep, Zenon
<1>3. CASE object.argDef = NULL /\ A!Word
  BY <1>1, <1>3, WordStep, Zenon
<1>4. CASE object.argDef = NULL /\ A!Unregistered
  BY <1>1, <1>4, UnregisteredStep, Zenon
<1>5. ASSUME object.argDef = NULL, NEW flag \in DOMAIN Flags, A!argument.flag = flag,
             A!FlagWithText(flag) \/ A!FlagAlone(flag)
      PROVE  ArgsInv'
  BY <1>1, <1>5, FlagStep, Zenon
<1>6. ASSUME object.argDef = NULL, NEW flag \in DOMAIN Flags, A!argument.flag = flag,
             A!Unfit(flag)
      PROVE  ArgsInv'
  BY <1>1, <1>6, UnfitStep, Zenon
<1> QED
  BY <1>2, <1>3, <1>4, <1>5, <1>6, Zenon DEF A!Parse

\* At the end a flag that still expects its text was not right.
LEMMA EndStep ==
    ASSUME ArgsInv, A!End
    PROVE  ArgsInv'
<1> DEFINE l == Len(object.argv)
           values == object.values
<1>1. /\ object.result = "parsing" /\ object.i > l
      /\ object' = [object EXCEPT !.result =
                       IF object.argDef = NULL THEN "accepted" ELSE "refused"]
  BY Zenon DEF A!End
<1>2. ReadSoFar
  BY <1>1 DEF ArgsInv
<1>3. /\ object = [list |-> object.list, argv |-> object.argv, i |-> object.i,
                   argDef |-> object.argDef, values |-> object.values, result |-> object.result]
      /\ object.list \in A!Registered(Flags)
      /\ object.argv \in Seq(A!Arguments)
      /\ object.values \in [DOMAIN Flags -> Gives]
  BY Zenon DEF ArgsInv
<1>4. object.i = l + 1 /\ l \in Nat
  BY <1>1 DEF ArgsInv
<1>5. CASE object.argDef = NULL
  <2>1. object' = [list |-> object.list, argv |-> object.argv, i |-> object.i,
                   argDef |-> object.argDef, values |-> object.values, result |-> "accepted"]
    BY ONLY <1>1, <1>3, <1>5
  <2>2. /\ object' = [list |-> object'.list, argv |-> object'.argv, i |-> object'.i,
                      argDef |-> object'.argDef, values |-> object'.values,
                      result |-> object'.result]
        /\ object'.list = object.list /\ object'.argv = object.argv /\ object'.i = object.i
        /\ object'.argDef = object.argDef
        /\ object'.values = values /\ object'.result = "accepted"
    BY ONLY <2>1
  <2>3. ReadSoFar'
    BY ONLY <1>2, <2>2, Zenon DEF ReadSoFar
  <2>4. object'.i \in 1 .. Len(object'.argv) + 1
    BY ONLY <1>4, <2>2
  <2>5. /\ object'.list \in A!Registered(Flags) /\ object'.argv \in Seq(A!Arguments)
        /\ object'.values \in [DOMAIN Flags -> Gives]
        /\ object'.result \in {"parsing", "accepted", "refused"} /\ object'.result # "refused"
        /\ object'.i = Len(object'.argv) + 1 /\ object'.argDef = NULL
    BY ONLY <1>3, <1>4, <1>5, <2>2
  <2> QED
    BY ONLY <2>2, <2>3, <2>4, <2>5, Zenon DEF ArgsInv
<1>6. CASE object.argDef # NULL
  <2>1. A!Taken(object.argv, l + 1)
    BY <1>2, <1>4, <1>6 DEF ReadSoFar
  <2>2. l + 1 \in Nat \ {0} /\ l + 1 - 1 = l
    BY <1>4
  <2>3. l + 1 > 1 /\ A!Asks(object.argv[l]) /\ ~A!Taken(object.argv, l)
    BY <2>1, <2>2, TakenIs
  <2>4. l \in 1 .. Len(object.argv) /\ ~(l < Len(object.argv))
    BY <1>4, <2>3
  <2>5. NULL \notin DOMAIN Flags
    BY FlagsAssumption
  <2>6. A!FlagAt(object.argv, l)
    BY <2>3, <2>5, Zenon DEF A!FlagAt, A!IsFlag, A!Asks
  <2>7. ~A!Right(object.argv, l)
    <3>1. object.argv[l].text = NULL /\ Flags[object.argv[l].flag] = "string"
      BY <2>3, Zenon DEF A!Asks
    <3> HIDE DEF l
    <3> QED
      BY ONLY <2>4, <3>1 DEF A!Right
  <2>8. object' = [object EXCEPT !.result = "refused", !.values = values]
    BY ONLY <1>1, <1>3, <1>6
  <2>9. values \in [DOMAIN Flags -> Gives]
    BY <1>3
  <2> HIDE DEF values
  <2> QED
    BY <1>1, <2>4, <2>6, <2>7, <2>8, <2>9, RefusedStep, Zenon
<1> QED
  BY <1>5, <1>6

(* What bl_args_parse makes of a command line is what its flags ask for: it *)
(* takes the line when every flag in it was registered and is given what    *)
(* its type asks for, each flag then has what its last place gave it, and   *)
(* bl_args_next_arg finds the first word that no flag takes (Args.c, lines  *)
(* 24-147), whatever the flags and however long the line.                   *)
THEOREM ArgumentsParsed == Spec => []ParsesArgs
<1> DEFINE Inv == which = "arguments" => ArgsInv
<1>1. Init => Inv
  BY ArgsInit DEF Init
<1>2. Inv /\ [Next]_vars => Inv'
  <2>1. CASE UNCHANGED vars
    <3>1. which' = which /\ object' = object
      BY <2>1 DEF vars
    <3>2. ArgsInv => ArgsInv'
      BY <3>1, Zenon DEF ArgsInv, ReadSoFar
    <3> QED
      BY <3>1, <3>2
  <2>2. CASE Next
    BY <2>2, ParseStep, EndStep DEF Next, A!Next
  <2> QED
    BY <2>1, <2>2
<1>3. Inv => ParsesArgs
  BY ArgsRight DEF ParsesArgs
<1> QED
  BY <1>1, <1>2, <1>3, PTL DEF Spec
=============================================================================
