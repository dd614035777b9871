------------------------------ MODULE OrderedMap ------------------------------
(***************************************************************************)
(* The ordered map of src/Types/BL_Map.c: a tree of nodes with parent links *)
(* and weights, rotated like an AVL tree.  A node is named by its key, 0 is *)
(* NULL.  A removed node keeps what its memory holds.                       *)
(***************************************************************************)
EXTENDS Integers

CONSTANTS MaxKey,        \* keys are 1 .. MaxKey
          MaxRemovals    \* bound on the removals of a behaviour

AllKeys == 1 .. MaxKey
Sides   == {"left", "right"}
Other(side) == IF side = "left" THEN "right" ELSE "left"
Sign(side)  == IF side = "left" THEN -1 ELSE 1

\* keys: the occupied nodes; removals: how many.  links has the map's root and
\* the fields child, prev and weight of the nodes; fault: the code has followed
\* NULL or a ring of links.
VARIABLE tree

keys  == tree.keys
links == tree.links

NoLinks == [root |-> 0, fault |-> FALSE,
            child |-> [s \in Sides |-> [n \in AllKeys |-> 0]],
            prev |-> [n \in AllKeys |-> 0], weight |-> [n \in AllKeys |-> 0]]

Init == tree = [keys |-> {}, removals |-> 0, links |-> NoLinks]

Fault(t) == [t EXCEPT !.fault = TRUE]

\* node->left = child, node->right = child
WithChild(t, side, node, child) == [t EXCEPT !.child[side][node] = child]

\* if (node) node->prev = prev
WithPrev(t, node, prev) == IF node = 0 THEN t ELSE [t EXCEPT !.prev[node] = prev]

Weighed(t, node, weight) == [t EXCEPT !.weight[node] = weight]

\* A child and its link back.
Linked(t, side, node, child) == WithPrev(WithChild(t, side, node, child), child, node)

\* What hangs under prev, or at the root, in place of old is new.
Hung(t, prev, old, new) ==
    IF prev = 0 THEN [t EXCEPT !.root = new]
    ELSE WithChild(t, IF t.child.left[prev] = old THEN "left" ELSE "right", prev, new)

-----------------------------------------------------------------------------
(* The rotations return the tree; its new top, not hung yet, is Top.        *)

\* The child raised by internal_rotate_left is the right one.
Raised(t, node, side) == t.child[Other(side)][node]

\* Mutant: the child that changes parents keeps its link to the old one.
RotateOnceUnlinked(t, node, side) ==
    LET up   == Raised(t, node, side)
        lean == IF t.weight[up] = 0 THEN Sign(Other(side)) ELSE 0
    IN  Weighed(Weighed(
            Linked(WithChild([t EXCEPT !.prev[up] = t.prev[node]],
                             Other(side), node, t.child[side][up]), side, up, node),
            node, lean), up, -lean)

\* internal_rotate_left and internal_rotate_right
RotateOnce(t, node, side) ==
    LET up   == Raised(t, node, side)
        lean == IF t.weight[up] = 0 THEN Sign(Other(side)) ELSE 0
    IN  Weighed(Weighed(
            Linked(Linked([t EXCEPT !.prev[up] = t.prev[node]],
                          Other(side), node, t.child[side][up]), side, up, node),
            node, lean), up, -lean)

\* What the double rotations give the nodes that end up left and right, by the
\* weight of the node raised between them: to the left by internal_rotate_
\* right_left, to the right by internal_rotate_left_right.
LeansAfterTwo(weight, side) ==
    CASE weight = 0 -> <<0, 0>>
      [] weight > 0 -> IF side = "left" THEN <<-1, 0>> ELSE <<0, 1>>
      [] weight < 0 -> IF side = "left" THEN <<0, 1>> ELSE <<-1, 0>>

RotateTwice(t, node, side) ==
    LET down  == Raised(t, node, side)
        up    == t.child[side][down]
        left  == IF side = "left" THEN node ELSE down
        right == IF side = "left" THEN down ELSE node
        leans == LeansAfterTwo(t.weight[up], side)
        inner == Linked([t EXCEPT !.prev[up] = t.prev[node]],
                        side, down, t.child[Other(side)][up])
        outer == Linked(inner, Other(side), node, t.child[side][up])
    IN  Weighed(Weighed(Weighed(
            Linked(Linked(outer, Other(side), up, down), side, up, node),
            left, leans[1]), right, leans[2]), up, 0)

\* A rotation towards a side, single unless the raised child leans that way.
Rotate(t, node, side) ==
    LET up == Raised(t, node, side) IN
    IF up = 0 THEN Fault(t)
    ELSE IF t.weight[up] * Sign(side) <= 0 THEN RotateOnce(t, node, side)
    ELSE IF t.child[side][up] = 0 THEN Fault(t)
    ELSE RotateTwice(t, node, side)

Top(t, node, side) ==
    LET up == Raised(t, node, side) IN
    IF up = 0 \/ t.weight[up] * Sign(side) <= 0 THEN up ELSE t.child[side][up]

\* node is rotated, and what comes up hangs under prev in place of old.
HungRotated(t, node, side, prev, old) ==
    Hung(Rotate(t, node, side), prev, old, Top(t, node, side))

SideOf(t, node, prev) == IF t.child.right[prev] = node THEN "right" ELSE "left"

-----------------------------------------------------------------------------
\* The side of node that key belongs to, and where a search goes on from node:
\* nowhere from the last one.
Towards(key, node) == IF key < node THEN "left" ELSE "right"
Onward(t, key, node) ==
    LET next == IF node = key THEN 0 ELSE t.child[Towards(key, node)][node]
    IN  IF next = 0 THEN node ELSE next

\* internal_get_node and internal_find_best_place: the last node on the way to
\* key; no way that ends is longer than there are keys.
Walk(key) ==
    LET at[n \in 0 .. MaxKey] == IF n = 0 THEN links.root ELSE Onward(links, key, at[n - 1])
    IN  at[MaxKey]

Found(key) == links.root # 0 /\ Walk(key) = key

\* A tree that calls can be made on.
Sound ==
    /\ ~links.fault
    /\ keys = { k \in AllKeys : Found(k) }
    /\ \A k \in keys :
           /\ links.prev[k] = 0 <=> links.root = k
           /\ \A side \in Sides :
                  links.child[side][k] # 0 => links.prev[links.child[side][k]] = k

\* A loop on the way up: the links, and the node it has come to, 0 at its end.
On(t, below) == [links |-> t, below |-> below]
Over(t)      == On(t, 0)
Ended(loop)  == IF loop.below = 0 THEN loop.links ELSE Fault(loop.links)

-----------------------------------------------------------------------------
(* bl_map_insert *)

\* One round, where the subtree of below grew; the loop goes on above a rotation
\* as if that had grown too.
Grow(t, below) ==
    LET node == t.prev[below]
        side == SideOf(t, below, node)
    IN  CASE node = 0 -> Over(t)
          [] node # 0 /\ t.weight[node] * Sign(side) < 0 -> Over(Weighed(t, node, 0))
          [] node # 0 /\ t.weight[node] = 0 -> On(Weighed(t, node, Sign(side)), node)
          [] node # 0 /\ t.weight[node] * Sign(side) > 0 ->
                 On(HungRotated(t, node, Other(side), t.prev[node], node),
                    Top(t, node, Other(side)))

GrowOnce(loop) ==
    IF loop.below = 0 \/ loop.links.fault THEN loop ELSE Grow(loop.links, loop.below)

\* The way up is no longer than there are keys.
Grown(t, key) ==
    LET loop[n \in 0 .. MaxKey] == IF n = 0 THEN On(t, key) ELSE GrowOnce(loop[n - 1])
    IN  Ended(loop[MaxKey])

NewNode(key, prev) ==
    [links EXCEPT !.prev[key] = prev, !.weight[key] = 0,
                  !.child.left[key] = 0, !.child.right[key] = 0]

Inserted(key) ==
    IF keys = {} THEN [NewNode(key, 0) EXCEPT !.root = key]
    ELSE LET best == Walk(key)
         IN  Grown(WithChild(NewNode(key, best), Towards(key, best), best, key), key)

Insert(key) ==
    /\ key \notin keys /\ Sound
    /\ tree' = [tree EXCEPT !.keys = @ \union {key}, !.links = Inserted(key)]

-----------------------------------------------------------------------------
(* bl_map_remove.  Each case gives the tree and the node the way up starts  *)
(* from.                                                                    *)

\* internal_get_inorder_successor, and its mirror image in bl_map_prev
Further(t, side, node) ==
    IF t.child[side][node] = 0 THEN node ELSE t.child[side][node]
Outmost(t, side, node) ==
    LET at[n \in 0 .. MaxKey] == IF n = 0 THEN node ELSE Further(t, side, at[n - 1])
    IN  at[MaxKey]

\* next takes over the child of node.
TakesChild(t, side, node, next) == Linked(t, side, next, t.child[side][node])

\* The right child takes the node's place.
CloseSuccessor(t, node, next) ==
    LET prev  == t.prev[node]
        moved == Weighed(WithPrev(TakesChild(t, "left", node, next), next, prev),
                         next, t.weight[node] - 1)
    IN  [tree |-> IF t.weight[node] < 0 THEN HungRotated(moved, next, "right", prev, node)
                  ELSE Hung(moved, prev, node, next),
         from |-> next]

\* What came up by the rotation hangs where the parent of next does.
HungAbove(t, next, top) ==
    LET above == t.prev[next] IN
    IF t.fault \/ t.prev[above] = 0 THEN Fault(t) ELSE Hung(t, t.prev[above], above, top)

\* The successor leaves its place: a right child takes it, but if there is none
\* its parent still has it for a child, and its grandparent may be rotated.
Vacated(t, next) ==
    LET above == t.prev[next]
        right == t.child.right[next]
        top   == Top(t, t.prev[above], "left")
    IN  IF right # 0
        THEN [tree |-> Hung(WithPrev(t, right, above), above, next, right), from |-> right]
        ELSE IF t.weight[above] <= 0 THEN [tree |-> t, from |-> above]
        ELSE [tree |-> HungAbove(Rotate(t, t.prev[above], "left"), next, top), from |-> top]

\* next takes the place of node, and its children.
TakesPlace(t, node, next) ==
    TakesChild(Hung(WithPrev(t, next, t.prev[node]), t.prev[node], node, next),
               "left", node, next)
TakesRight(t, node, next) ==
    IF t.fault \/ t.child.right[node] = 0 THEN Fault(t) ELSE TakesChild(t, "right", node, next)

FarSuccessor(vacated, node, next) ==
    [vacated EXCEPT !.tree = TakesRight(TakesPlace(@, node, next), node, next)]

\* The only child takes the node's place.
OnlyChild(t, node, child) ==
    [tree |-> Hung(WithPrev(t, child, t.prev[node]), t.prev[node], node, child),
     from |-> child]

\* A leaf.  A parent that leans to a left leaf's other side is rotated; one that
\* leans away from a right leaf is asked for the child it just lost.
Leaf(t, node) ==
    LET prev == t.prev[node]
        side == SideOf(t, node, prev)
        cut  == WithChild(t, side, prev, 0)
    IN  CASE prev = 0 -> [tree |-> [t EXCEPT !.root = 0], from |-> node]
          [] prev # 0 /\ t.weight[prev] * Sign(side) >= 0 -> [tree |-> cut, from |-> prev]
          [] OTHER -> IF side = "right" THEN [tree |-> Fault(cut), from |-> prev]
                      ELSE [tree |-> HungRotated(cut, prev, "left", t.prev[prev], prev),
                            from |-> Top(cut, prev, "left")]

Detached(t, node) ==
    LET left  == t.child.left[node]
        right == t.child.right[node]
        next  == Outmost(t, "left", right)
    IN  CASE left # 0 /\ right # 0 -> IF next = right THEN CloseSuccessor(t, node, next)
                                      ELSE FarSuccessor(Vacated(t, next), node, next)
          [] left = 0 /\ right = 0 -> Leaf(t, node)
          [] OTHER -> OnlyChild(t, node, left + right)

\* One round, where the subtree of below shrank; the top of a rotation is hung at
\* the root, while another parent keeps the node it had.
Shrink(t, below) ==
    LET node == t.prev[below]
        prev == t.prev[node]
        side == IF t.child.left[node] = below THEN "left" ELSE "right"
        top  == Top(t, node, side)
    IN  CASE node = 0 -> Over(t)
          [] node # 0 /\ t.weight[node] = 0 -> Over(Weighed(t, node, -Sign(side)))
          [] node # 0 /\ t.weight[node] * Sign(side) > 0 -> On(Weighed(t, node, 0), node)
          [] node # 0 /\ t.weight[node] * Sign(side) < 0 ->
                 On(Hung(Rotate(t, node, side), prev, node, IF prev = 0 THEN top ELSE node), top)

ShrinkOnce(loop) ==
    IF loop.below = 0 \/ loop.links.fault THEN loop ELSE Shrink(loop.links, loop.below)

Shrunk(t, below) ==
    LET loop[n \in 0 .. 2 * MaxKey] == IF n = 0 THEN On(t, below) ELSE ShrinkOnce(loop[n - 1])
    IN  Ended(loop[2 * MaxKey])

Remove(key) ==
    /\ key \in keys /\ Sound
    /\ tree.removals < MaxRemovals
    /\ LET detached == Detached(links, key) IN
       tree' = [keys |-> keys \ {key}, removals |-> tree.removals + 1,
                links |-> Shrunk(detached.tree, detached.from)]

-----------------------------------------------------------------------------
\* bl_map_next, bl_map_prev: 0 after the last.
UpOnce(side, node) ==
    LET prev == links.prev[node]
    IN  IF prev # 0 /\ links.child[side][prev] = node THEN prev ELSE node
UpWhile(node, side) ==
    LET at[n \in 0 .. MaxKey] == IF n = 0 THEN node ELSE UpOnce(side, at[n - 1])
    IN  links.prev[at[MaxKey]]

\* Mutant: the way up ends at the first parent.
BesideBelow(side, node) ==
    IF links.child[side][node] # 0 THEN Outmost(links, Other(side), links.child[side][node])
    ELSE links.prev[node]

Beside(side, node) ==
    IF links.child[side][node] # 0 THEN Outmost(links, Other(side), links.child[side][node])
    ELSE UpWhile(node, side)

NextKey(node) == Beside("right", node)
PrevKey(node) == Beside("left", node)
Front == Outmost(links, "left", links.root)
Back  == Outmost(links, "right", links.root)

Next == \E key \in AllKeys : Insert(key) \/ Remove(key)

Spec == Init /\ [][Next]_tree
-----------------------------------------------------------------------------
Least(S)    == IF S = {} THEN 0 ELSE CHOOSE k \in S : \A l \in S : k <= l
Greatest(S) == IF S = {} THEN 0 ELSE CHOOSE k \in S : \A l \in S : l <= k

\* An iteration goes through the keys in order, both ways.
InOrder ==
    keys # {} =>
        /\ Front = Least(keys) /\ Back = Greatest(keys)
        /\ \A k \in keys :
               /\ NextKey(k) = Least({ l \in keys : l > k })
               /\ PrevKey(k) = Greatest({ l \in keys : l < k })

(* Until something is removed, every key inserted is found, whatever the    *)
(* rotations did, the tree is never followed into NULL (lines 66-284), and  *)
(* an iteration by the parent links that the rotations moved comes to every *)
(* key (lines 505-557).                                                     *)
SearchTree == tree.removals = 0 => Sound /\ InOrder

(* After removals too, as long as every key is found.                       *)
IteratesInOrder == Sound => InOrder

(* A removal takes its key from the map and leaves the others (BL_Map.h,    *)
(* lines 78-87).  Violated.                                                 *)
RemovesOne == tree.removals > 0 => Sound
=============================================================================
