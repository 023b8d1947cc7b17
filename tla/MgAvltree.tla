------------------------------- MODULE MgAvltree -------------------------------
(* The AVL tree of mgavltree.c.  mg_avltree_insert goes down by recursion  *)
(* and repairs on the way back: every return to a caller's frame is a step.*)
EXTENDS BinaryTree

VARIABLES tree, height, root,
          frames,    \* the nodes whose calls of mg_avltree_insert wait
          node,      \* the node to insert, Null between two calls
          ret,       \* what the innermost finished call returned
          members,   \* auxiliary: the nodes inserted
          turns      \* auxiliary: rebalancings in this insertion

vars == <<tree, height, root, frames, node, ret, members, turns>>

Max2(a, b) == IF a > b THEN a ELSE b

\* MG_AVLTREE_HEIGHT
H(h, n) == IF n = Null THEN -1 ELSE h[n]

\* Mutant of Over: the height of the higher side alone.
Over_One(t, h, n) == Max2(H(h, t.child["l"][n]), H(h, t.child["r"][n]))

\* One more than the higher of a node's children.
Over(t, h, n) == Max2(H(h, t.child["l"][n]), H(h, t.child["r"][n])) + 1

Init == /\ tree = NoLinks /\ height = [n \in Node |-> 0] /\ root = Null
        /\ frames = << >> /\ node = Null /\ ret = Null /\ members = {} /\ turns = 0

\* Down to an equal key, whose call returns at once, or to a free place.
Insert(n) ==
    /\ node = Null /\ n \notin members
    /\ node' = n /\ turns' = 0
    /\ LET way == Path(tree, root, Key[n])
           same == way # << >> /\ Key[way[Len(way)]] = Key[n]
       IN  IF same
           THEN /\ frames' = SubSeq(way, 1, Len(way) - 1) /\ ret' = way[Len(way)]
                /\ UNCHANGED <<tree, height, members>>
           ELSE /\ frames' = way /\ ret' = n
                /\ tree' = Fresh(tree, n) /\ height' = [height EXCEPT ![n] = 0]
                /\ members' = members \union {n}
    /\ UNCHANGED root

\* Mutant of Attached: on the left, whatever the key.
Attached_Left(x, s) ==
    LET t == [tree EXCEPT !.child["l"][x] = ret]
    IN  IF ret = node THEN [t EXCEPT !.parent[node] = x] ELSE t

\* What the returned subtree is hung on; a new node learns its parent here.
Attached(x, s) ==
    LET t == [tree EXCEPT !.child[s][x] = ret]
    IN  IF ret = node THEN [t EXCEPT !.parent[node] = x] ELSE t

\* A rotation, with the heights of the two nodes that change places.
Turned(t, h, x, s) ==
    LET t1 == Rotated(t, x, s)
        y  == t1.parent[x]
        h1 == [h EXCEPT ![x] = Over(t1, h, x)]
    IN  [tree |-> t1, height |-> [h1 EXCEPT ![y] = Over(t1, h1, y)], top |-> y]

\* left_right_rotation and right_left_rotation: the child first.
TurnedTwice(t, h, x, s) ==
    LET one == Turned(t, h, t.child[Other(s)][x], Other(s))
    IN  Turned(one.tree, one.height, x, s)

\* Mutant of Outer: the double rotation is never taken.
Outer_Always(y, s) == TRUE

\* Whether the new node went to the outer side of the higher child.
Outer(y, s) == IF s = "l" THEN Key[y] > Key[node] ELSE Key[y] < Key[node]

Heavy(t, x, s) == H(height, t.child[s][x]) - H(height, t.child[Other(s)][x]) = 2

\* Back in the call for node x: hang up, rebalance, take the height.
Unwind ==
    /\ node # Null /\ frames # << >>
    /\ LET x == frames[Len(frames)]
           s == Toward(x, Key[node])
           t == Attached(x, s)
           r == IF Heavy(t, x, s)
                THEN IF Outer(t.child[s][x], s) THEN Turned(t, height, x, Other(s))
                                                ELSE TurnedTwice(t, height, x, Other(s))
                ELSE [tree |-> t, height |-> height, top |-> x]
       IN  /\ tree' = r.tree
           /\ height' = [r.height EXCEPT ![r.top] = Over(r.tree, r.height, r.top)]
           /\ ret' = r.top
           /\ turns' = IF Heavy(t, x, s) THEN turns + 1 ELSE turns
    /\ frames' = SubSeq(frames, 1, Len(frames) - 1)
    /\ UNCHANGED <<root, node, members>>

Return == /\ node # Null /\ frames = << >>
          /\ root' = ret /\ node' = Null /\ ret' = Null
          /\ UNCHANGED <<tree, height, frames, members, turns>>

Next == (\E n \in Node : Insert(n)) \/ Unwind \/ Return
Spec == Init /\ [][Next]_vars

---------------------------------------------------------------------------

\* No rotation loses a node, and child and parent pointers agree.
NothingLost == node = Null => Below(tree, root) = members /\ LinkedBothWays(tree, root)

\* The keys are in order after every rotation, above and below it.
Ordered == node = Null => InOrder(tree, root)

\* The length of the longest way down.
Depth(t, x) == LET from[n \in Node \union {Null}] ==
                       IF n = Null THEN -1 ELSE Max2(from[t.child["l"][n]], from[t.child["r"][n]]) + 1
               IN  from[x]

\* The stored heights are the real ones, so the next insertion decides on
\* facts, and no two sides of a node differ by more than one: every search
\* is logarithmic.
Balanced == node = Null =>
    \A n \in members : /\ height[n] = Depth(tree, n)
                       /\ Depth(tree, tree.child["l"][n]) - Depth(tree, tree.child["r"][n]) \in {-1, 0, 1}

\* One rebalancing restores the height from before the insertion: no
\* ancestor has to turn again, and none meets a difference beyond two.
OneTurn == turns <= 1
=============================================================================
