------------------------------ MODULE BinaryTree ------------------------------
(* Search trees with parent pointers, as mgsplaytree.c, mgbstree.c and     *)
(* mgavltree.c keep them: t = [child, parent], the two sides mirror images *)
(* of each other.                                                          *)
EXTENDS Integers, FiniteSets, Sequences

CONSTANTS Node,   \* the client's nodes
          Null,   \* NULL
          Key     \* what cmp_func compares

TreeAssumption == Null \notin Node /\ Key \in [Node -> Int]

Side == {"l", "r"}
Other(s) == IF s = "l" THEN "r" ELSE "l"

NoLinks == [child |-> [s \in Side |-> [n \in Node |-> Null]], parent |-> [n \in Node |-> Null]]

\* The nodes' own links as their _init function leaves them.
Fresh(t, n) == [t EXCEPT !.child["l"][n] = Null, !.child["r"][n] = Null, !.parent[n] = Null]

SetParent(t, n, p) == IF n = Null THEN t ELSE [t EXCEPT !.parent[n] = p]

\* The side of p on which the code takes n to be: left if it is the left child.
SideAt(t, p, n) == IF t.child["l"][p] = n THEN "l" ELSE "r"

\* The pointer of p that led to n leads to m.
Redirected(t, p, n, m) == IF p = Null THEN t ELSE [t EXCEPT !.child[SideAt(t, p, n)][p] = m]

\* Mutant of Rotated: the subtree that changes sides keeps its old parent.
Rotated_OldParent(t, n, s) ==
    LET c == t.child[Other(s)][n]
    IN  IF c = Null THEN t ELSE
        [Redirected(t, t.parent[n], n, c) EXCEPT
            !.child[Other(s)][n] = t.child[s][c], !.child[s][c] = n,
            !.parent[c] = t.parent[n], !.parent[n] = c]

\* Mutant of Rotated: the one that goes up keeps its parent.
Rotated_NotUp(t, n, s) ==
    LET c == t.child[Other(s)][n]
    IN  IF c = Null THEN t ELSE
        [Redirected(SetParent(t, t.child[s][c], n), t.parent[n], n, c) EXCEPT
            !.child[Other(s)][n] = t.child[s][c], !.child[s][c] = n, !.parent[n] = c]

\* Mutant of Rotated: the subtree that changes sides is dropped.
Rotated_Drops(t, n, s) ==
    LET c == t.child[Other(s)][n]
    IN  IF c = Null THEN t ELSE
        [Redirected(t, t.parent[n], n, c) EXCEPT
            !.child[Other(s)][n] = Null, !.child[s][c] = n,
            !.parent[c] = t.parent[n], !.parent[n] = c]

\* n goes down to its side s, its child of the other side takes its place.
Rotated(t, n, s) ==
    LET c == t.child[Other(s)][n]
    IN  IF c = Null THEN t ELSE
        [Redirected(SetParent(t, t.child[s][c], n), t.parent[n], n, c) EXCEPT
            !.child[Other(s)][n] = t.child[s][c], !.child[s][c] = n,
            !.parent[c] = t.parent[n], !.parent[n] = c]

\* Where a key is, or would be, below a node.
Toward(n, k) == IF Key[n] > k THEN "l" ELSE "r"

\* The search from x: the node with key k, or Null.
Search(t, x, k) ==
    LET from[n \in Node \union {Null}, d \in 0 .. Cardinality(Node)] ==
            IF n = Null \/ d = 0 THEN Null
            ELSE IF Key[n] = k THEN n
            ELSE from[t.child[Toward(n, k)][n], d - 1]
    IN  from[x, Cardinality(Node)]

\* The way an insertion of key k goes down from x, to a node with that key
\* or without a child on its side.
Path(t, x, k) ==
    LET from[n \in Node \union {Null}, d \in 0 .. Cardinality(Node)] ==
            IF n = Null \/ d = 0 THEN << >>
            ELSE IF Key[n] = k THEN <<n>>
            ELSE <<n>> \o from[t.child[Toward(n, k)][n], d - 1]
    IN  from[x, Cardinality(Node)]

\* The end of a chain of children on side s (min_node, max_node).
Outermost(t, x, s) ==
    LET from[n \in Node] == IF t.child[s][n] = Null THEN n ELSE from[t.child[s][n]]
    IN  from[x]

\* The nodes below x, x included.
Below(t, x) ==
    LET level[d \in 0 .. Cardinality(Node)] ==
            IF d = 0 THEN {x} ELSE level[d - 1] \union {t.child[s][n] : s \in Side, n \in level[d - 1] \ {Null}}
    IN  level[Cardinality(Node)] \ {Null}

\* Every child below x has its parent above it, and only one.
LinkedBothWays(t, x) ==
    /\ \A n \in Below(t, x), s \in Side : t.child[s][n] # Null => t.parent[t.child[s][n]] = n
    /\ \A n \in Below(t, x) : t.child["l"][n] # Null => t.child["l"][n] # t.child["r"][n]

\* Left of a node are smaller keys, right of it larger ones.
InOrder(t, x) ==
    \A n \in Below(t, x) : /\ \A m \in Below(t, t.child["l"][n]) : Key[m] < Key[n]
                           /\ \A m \in Below(t, t.child["r"][n]) : Key[m] > Key[n]
=============================================================================
