------------------------------- MODULE MgRbtree -------------------------------
(***************************************************************************)
(* The red-black tree of mgrbtree.c.  Nodes belong to the client, the tree *)
(* is the set of their pointers and colours.  Each turn of a fixup loop is *)
(* a step.  The left and right halves of the code are mirror images and    *)
(* are written once, for a side.  mgrbtree_remove of a probe that is not   *)
(* in the tree is Remove of what Search finds for its key.                 *)
(***************************************************************************)
EXTENDS Integers, FiniteSets

CONSTANTS
    Node,       \* the client's nodes
    Null,       \* NilNode
    Key,        \* what cmp_func compares
    Removable   \* "all", or "far": see MayRemove

RbAssumption ==
    /\ Null \notin Node
    /\ Key \in [Node -> Int]
    /\ Removable \in {"all", "far"}

Side == {"l", "r"}
Other(s) == IF s = "l" THEN "r" ELSE "l"

VARIABLES
    tree,     \* root, and the parent, children and colour of every node
    pc,       \* "idle", "insert" or "remove": in which fixup loop
    node, np, \* the locals node and node_parent of the fixup
    members   \* auxiliary: the nodes inserted and not removed

vars == <<tree, pc, node, np, members>>

Init ==
    /\ tree = [root |-> Null,
               parent |-> [n \in Node |-> Null],
               child |-> [s \in Side |-> [n \in Node |-> Null]],
               red |-> [n \in Node |-> FALSE]]
    /\ pc = "idle" /\ node = Null /\ np = Null /\ members = {}

-----------------------------------------------------------------------------
(* Pointers.                                                               *)

SetAt(f, n, v) == IF n = Null THEN f ELSE [f EXCEPT ![n] = v]

IsRed(t, n) == n # Null /\ t.red[n]
Paint(t, n, isRed) == [t EXCEPT !.red = SetAt(@, n, isRed)]

\* MG_RBTREE_IS_LCHILD
SideOf(t, n) == IF t.child["l"][t.parent[n]] = n THEN "l" ELSE "r"

\* What pointed to n points to m: the root or a child of n's parent.
Redirected(t, n, m) ==
    IF t.parent[n] = Null THEN [t EXCEPT !.root = m]
    ELSE [t EXCEPT !.child[SideOf(t, n)][t.parent[n]] = m]

\* mgrbtree_left_rote for side "l", mgrbtree_right_rote for side "r".
Rote_KeepsParent(t, n, s) ==
    LET o == Other(s)
        c == t.child[o][n]
    IN IF n = Null \/ c = Null THEN t
       ELSE [Redirected(t, n, c) EXCEPT
                !.child[o][n] = t.child[s][c],
                !.child[s][c] = n,
                !.parent[c] = t.parent[n],
                !.parent[n] = c]
Rote(t, n, s) ==
    LET o == Other(s)
        c == t.child[o][n]
    IN IF n = Null \/ c = Null THEN t
       ELSE [Redirected(t, n, c) EXCEPT
                !.child[o][n] = t.child[s][c],
                !.child[s][c] = n,
                !.parent = [SetAt(@, t.child[s][c], n) EXCEPT
                               ![c] = t.parent[n], ![n] = c]]

-----------------------------------------------------------------------------
(* mgrbtree_insert.                                                        *)

GoesLeft_Swapped(x, n) == Key[x] < Key[n]
GoesLeft(x, n) == Key[x] > Key[n]

\* The leaf the loop of mgrbtree_insert ends at.
LeafFor(n) ==
    LET f[x \in Node] ==
            LET c == tree.child[IF GoesLeft(x, n) THEN "l" ELSE "r"][x]
            IN IF c = Null THEN x ELSE f[c]
    IN f[tree.root]

Hung(n) ==
    LET p == IF tree.root = Null THEN Null ELSE LeafFor(n)
        t == [tree EXCEPT !.parent[n] = p, !.red[n] = TRUE,
                          !.child["l"][n] = Null, !.child["r"][n] = Null]
    IN IF p = Null THEN [t EXCEPT !.root = n]
       ELSE [t EXCEPT !.child[IF GoesLeft(p, n) THEN "l" ELSE "r"][p] = n]

Insert(n) ==
    /\ pc = "idle" /\ n \notin members
    /\ tree' = Hung(n)
    /\ members' = members \cup {n}
    /\ node' = n /\ np' = Null /\ pc' = "insert"

\* The grandparent, the uncle and the side of the parent in
\* fixup_insert_mgrbtree_t.
Dad == tree.parent[node]
Grandpa == tree.parent[Dad]
DadSide == SideOf(tree, Dad)
Uncle == tree.child[Other(DadSide)][Grandpa]

FixingInsert ==
    /\ pc = "insert" /\ IsRed(tree, Dad)
    /\ Grandpa # Null

\* Cases 1 and 4.
InsertRecolour ==
    /\ FixingInsert /\ IsRed(tree, Uncle)
    /\ tree' = Paint(Paint(Paint(tree, Dad, FALSE), Uncle, FALSE),
                     Grandpa, TRUE)
    /\ node' = Grandpa
    /\ UNCHANGED <<pc, np, members>>

\* Cases 2, 3, 5 and 6.
InsertRotate ==
    /\ FixingInsert /\ ~IsRed(tree, Uncle)
    /\ LET s == DadSide
           inner == SideOf(tree, node) # s
           t == IF inner THEN Rote(tree, Dad, s) ELSE tree
           n == IF inner THEN Dad ELSE node
           d == t.parent[n]
           g == t.parent[d]
       IN /\ tree' = Rote(Paint(Paint(t, d, FALSE), g, TRUE), g, Other(s))
          /\ node' = n
    /\ UNCHANGED <<pc, np, members>>

InsertDone ==
    /\ pc = "insert" /\ ~IsRed(tree, Dad)
    /\ tree' = Paint(tree, tree.root, FALSE)
    /\ node' = Null /\ pc' = "idle"
    /\ UNCHANGED <<np, members>>

-----------------------------------------------------------------------------
(* __mgrbtree_remove_node_.                                                *)

Leftmost(n) ==
    LET f[x \in Node] ==
            IF tree.child["l"][x] = Null THEN x ELSE f[tree.child["l"][x]]
    IN f[n]

TwoChildren(n) == tree.child["l"][n] # Null /\ tree.child["r"][n] # Null

\* y, the node that leaves its place: n itself or its successor.
Leaving(n) == IF TwoChildren(n) THEN Leftmost(tree.child["r"][n]) ELSE n

\* A client that is limited to "far" removes no node of which the right
\* child is the successor, black and a leaf.
MayRemove(n) ==
    Removable = "all" \/
    ~(TwoChildren(n) /\ LET y == tree.child["r"][n] IN
                           /\ tree.child["l"][y] = Null
                           /\ tree.child["r"][y] = Null
                           /\ ~tree.red[y])

\* The tree once y is out of its place, with x in it.
Spliced(y, x) ==
    LET t == Redirected(tree, y, x)
    IN [t EXCEPT !.parent = SetAt(@, x, tree.parent[y])]

\* n as mgrbtree_init leaves it.  Where the code keeps the pointers of a
\* removed node nobody reads them before they are set again.
Cleared(t, n) ==
    [t EXCEPT !.parent[n] = Null, !.red[n] = FALSE,
              !.child["l"][n] = Null, !.child["r"][n] = Null]

\* y in the place of n.
Replaced_ColourKept(t, n, y) ==
    [Redirected(t, n, y) EXCEPT
        !.parent = [SetAt(SetAt(@, t.child["l"][n], y), t.child["r"][n], y)
                       EXCEPT ![y] = t.parent[n]],
        !.child["l"][y] = t.child["l"][n], !.child["r"][y] = t.child["r"][n]]
Replaced(t, n, y) ==
    [Redirected(t, n, y) EXCEPT
        !.parent = [SetAt(SetAt(@, t.child["l"][n], y), t.child["r"][n], y)
                       EXCEPT ![y] = t.parent[n]],
        !.child["l"][y] = t.child["l"][n], !.child["r"][y] = t.child["r"][n],
        !.red[y] = t.red[n]]

Remove(n) ==
    /\ pc = "idle" /\ n \in members /\ MayRemove(n)
    /\ LET y == Leaving(n)
           x == IF tree.child["l"][y] # Null THEN tree.child["l"][y]
                ELSE tree.child["r"][y]
           s == Spliced(y, x)
           t == Cleared(IF y = n THEN s ELSE Replaced(s, n, y), n)
       IN /\ tree' = t
          /\ IF tree.red[y] THEN UNCHANGED <<pc, node, np>>
             ELSE /\ pc' = "remove" /\ node' = x
                  /\ np' = IF x # Null THEN t.parent[x] ELSE tree.parent[y]
    /\ members' = members \ {n}

\* mgrbtree_search
Search(key) ==
    LET f[x \in Node \cup {Null}] ==
            IF x = Null THEN Null
            ELSE IF Key[x] = key THEN x
            ELSE f[tree.child[IF Key[x] > key THEN "l" ELSE "r"][x]]
    IN f[tree.root]

\* The condition of the loop of mgrbtree_fixup_remove, the side of node and
\* its brother.
DoubleBlack == pc = "remove" /\ node # tree.root /\ ~IsRed(tree, node)
NodeSide == IF tree.child["l"][np] = node THEN "l" ELSE "r"
Brother == tree.child[Other(NodeSide)][np]
Near == tree.child[NodeSide][Brother]
Far == tree.child[Other(NodeSide)][Brother]

\* Case 1.
RemoveRedBrother ==
    /\ DoubleBlack /\ Brother # Null /\ IsRed(tree, Brother)
    /\ tree' = Rote(Paint(Paint(tree, np, TRUE), Brother, FALSE),
                    np, NodeSide)
    /\ UNCHANGED <<pc, node, np, members>>

BothBlack == ~IsRed(tree, Near) /\ ~IsRed(tree, Far)

\* Case 2.
RemoveMoveUp ==
    /\ DoubleBlack /\ Brother # Null /\ ~IsRed(tree, Brother) /\ BothBlack
    /\ tree' = Paint(tree, Brother, TRUE)
    /\ node' = np /\ np' = tree.parent[np]
    /\ UNCHANGED <<pc, members>>

\* Cases 3 and 4; node becomes the root and the loop ends.
CasesThreeFour_NoThree(s) ==
    LET b == tree.child[Other(s)][np]
    IN Rote(Paint(Paint(Paint(tree, tree.child[Other(s)][b], FALSE),
                        b, tree.red[np]), np, FALSE), np, s)
CasesThreeFour(s) ==
    LET t == IF IsRed(tree, Far) THEN tree
             ELSE Rote(Paint(Paint(tree, Brother, TRUE), Near, FALSE),
                       Brother, Other(s))
        b == t.child[Other(s)][np]
    IN Rote(Paint(Paint(Paint(t, t.child[Other(s)][b], FALSE),
                        b, t.red[np]), np, FALSE), np, s)

RemoveRotate ==
    /\ DoubleBlack /\ Brother # Null /\ ~IsRed(tree, Brother) /\ ~BothBlack
    /\ tree' = CasesThreeFour(NodeSide)
    /\ node' = tree'.root /\ np' = tree'.parent[tree'.root]
    /\ UNCHANGED <<pc, members>>

\* A turn of either loop that finds no grandparent or no brother changes
\* nothing, and so is the next one.
IdleTurn ==
    /\ IF pc = "insert" THEN IsRed(tree, Dad) /\ Grandpa = Null
       ELSE DoubleBlack /\ Brother = Null
    /\ UNCHANGED vars

RemoveDone ==
    /\ pc = "remove" /\ ~DoubleBlack
    /\ tree' = Paint(tree, node, FALSE)
    /\ pc' = "idle" /\ node' = Null /\ np' = Null
    /\ UNCHANGED members

-----------------------------------------------------------------------------
Fixup ==
    \/ InsertRecolour \/ InsertRotate \/ InsertDone
    \/ RemoveRedBrother \/ RemoveMoveUp \/ RemoveRotate \/ RemoveDone
    \/ IdleTurn

Next ==
    \/ \E n \in Node : Insert(n) \/ Remove(n)
    \/ Fixup

\* The calls run to their end; nothing makes the client call.
Spec == Init /\ [][Next]_vars /\ WF_vars(Fixup)

-----------------------------------------------------------------------------
(* Properties.                                                             *)

Below(n) ==
    LET f[x \in Node \cup {Null}] ==
            IF x = Null THEN {}
            ELSE {x} \cup f[tree.child["l"][x]] \cup f[tree.child["r"][x]]
    IN f[n]

\* Also half way through a rebalancing, the nodes reached from the root are
\* those inserted and not removed, and each is the child of its parent.
NothingLost ==
    /\ Below(tree.root) = members
    /\ tree.root # Null => tree.parent[tree.root] = Null
    /\ \A n \in members, s \in Side :
          tree.child[s][n] # Null => tree.parent[tree.child[s][n]] = n

\* The tree stays a search tree through every rotation and replacement.
Ordered ==
    \A n \in members :
        /\ \A m \in Below(tree.child["l"][n]) : Key[m] <= Key[n]
        /\ \A m \in Below(tree.child["r"][n]) : Key[m] >= Key[n]

\* mgrbtree_search finds a node with the key if there is one.
SearchFinds ==
    pc = "idle" =>
    \A k \in {Key[n] : n \in Node} :
        IF \E n \in members : Key[n] = k
        THEN Search(k) \in members /\ Key[Search(k)] = k
        ELSE Search(k) = Null

BlackHeights(n) ==
    LET f[x \in Node \cup {Null}] ==
            IF x = Null THEN {0}
            ELSE {h + (IF tree.red[x] THEN 0 ELSE 1) :
                     h \in f[tree.child["l"][x]] \cup f[tree.child["r"][x]]}
    IN f[n]

\* Between two calls the tree is red-black: the root is black, no red node
\* has a red child, and all paths from a node down pass equally many black
\* nodes.
Balanced ==
    pc = "idle" =>
    /\ ~IsRed(tree, tree.root)
    /\ \A n \in members, s \in Side :
          tree.red[n] => ~IsRed(tree, tree.child[s][n])
    /\ Cardinality(BlackHeights(tree.root)) = 1

\* As the comments of mgrbtree_fixup_remove say, node is doubly black in its
\* loop and brother is its brother: so there is one.
BrotherIsThere ==
    DoubleBlack => Brother # Null /\ tree.parent[Brother] = np

\* A rebalancing comes to its end.
FixupReturns == pc # "idle" ~> pc = "idle"

=============================================================================
