------------------------------ MODULE MgSplaytree ------------------------------
(* The splay tree of mgsplaytree.c: every turn of the bottom-up splay is a *)
(* step.  mg_splaytree_search returns what its recursive call returned, as *)
(* the builds do although two of its paths lack the return statement.      *)
EXTENDS BinaryTree

CONSTANTS Inserts,   \* "ends": the client inserts only keys beyond all in
                     \* the tree; "any": in any order
          Removes    \* "never"; "mended": the call after a removal is an
                     \* insertion of a new key; "any"

SplayAssumption == Inserts \in {"ends", "any"} /\ Removes \in {"never", "mended", "any"}

VARIABLES tree, root,
          call,      \* the call in progress: its operation, its argument,
                     \* the node that climbs, and whether one does
          members,   \* auxiliary: the nodes inserted and not removed
          torn       \* auxiliary: the last call took a node out

vars == <<tree, root, call, members, torn>>

Keys == {Key[n] : n \in Node}
Idle == [op |-> "idle", key |-> 0, node |-> Null, x |-> Null, climbs |-> FALSE]

Init == tree = NoLinks /\ root = Null /\ call = Idle /\ members = {} /\ torn = FALSE

\* mg_splaytree_splay_node_to_root begins: an absent key leaves the root.
Splay(op, k, n) ==
    /\ call = Idle
    /\ LET found == Search(tree, root, k)
       IN  call' = [op |-> op, key |-> k, node |-> n, climbs |-> found # Null,
                    x |-> IF found = Null THEN root ELSE found]

\* mg_splaytree_node_init, then mg_splaytree_insert.
Insert(n) ==
    /\ n \notin members
    /\ Inserts = "ends" => \/ \A m \in members : Key[n] <= Key[m]
                           \/ \A m \in members : Key[n] >= Key[m]
    /\ Removes = "mended" /\ torn => \A m \in members : Key[n] # Key[m]
    /\ Splay("insert", Key[n], n)
    /\ tree' = Fresh(tree, n)
    /\ UNCHANGED <<root, members, torn>>

Find(k) == /\ Removes = "mended" => ~ torn
           /\ Splay("find", k, Null)
           /\ UNCHANGED <<tree, root, members, torn>>

\* The probe is in the tree's keys: for another one nfree is called with NULL.
Remove(k) == /\ Removes # "never" /\ (Removes = "mended" => ~ torn)
             /\ \E n \in members : Key[n] = k
             /\ Splay("remove", k, Null)
             /\ UNCHANGED <<tree, root, members, torn>>

Climbing == call # Idle /\ call.climbs /\ tree.parent[call.x] # Null

\* A left child goes up by a right rotation of its parent, which returns
\* the child or, without a child on that side, the parent.
Turn == /\ Climbing
        /\ LET p == tree.parent[call.x]
               s == SideAt(tree, p, call.x)
           IN  /\ tree' = Rotated(tree, p, Other(s))
               /\ call' = [call EXCEPT !.x = IF tree.child[s][p] = Null THEN p ELSE tree.child[s][p]]
        /\ UNCHANGED <<root, members, torn>>

Climbed == call # Idle /\ ~ Climbing

FindDone == /\ Climbed /\ call.op = "find"
            /\ root' = call.x /\ call' = Idle
            /\ UNCHANGED <<tree, members, torn>>

\* Mutant of Hung: the old tree on the other side.
Hung_Swapped(t, n, r) == [t EXCEPT !.child[Toward(r, Key[n])][n] = r, !.parent[r] = n]

\* The whole old tree becomes one child of the new node, the root decides.
Hung(t, n, r) == [t EXCEPT !.child[Other(Toward(r, Key[n]))][n] = r, !.parent[r] = n]

InsertDone ==
    /\ Climbed /\ call.op = "insert" /\ call' = Idle
    /\ LET n == call.node
           r == call.x
       IN  IF r # Null /\ Key[r] = Key[n]
           THEN root' = r /\ UNCHANGED <<tree, members, torn>>
           ELSE /\ tree' = IF r = Null THEN tree ELSE Hung(tree, n, r)
                /\ root' = n /\ members' = members \union {n} /\ torn' = FALSE

\* The left subtree goes under the smallest node of the right one.
Merged(t, r) == LET m == Outermost(t, t.child["r"][r], "l")
                IN  [t EXCEPT !.child["l"][m] = t.child["l"][r], !.parent[t.child["l"][r]] = m]

\* Mutant of RemoveDone: the left subtree is forgotten.
RemoveDone_Forgets ==
    /\ Climbed /\ call.op = "remove" /\ call' = Idle
    /\ members' = members \ {call.x} /\ tree' = tree
    /\ root' = IF tree.child["r"][call.x] # Null THEN tree.child["r"][call.x] ELSE tree.child["l"][call.x]
    /\ torn' = (root' # Null)

\* The removed node keeps its pointers, and the new root its parent.
RemoveDone ==
    /\ Climbed /\ call.op = "remove" /\ call' = Idle
    /\ LET r == call.x
           two == \A s \in Side : tree.child[s][r] # Null
       IN  /\ tree' = IF two THEN Merged(tree, r) ELSE tree
           /\ root' = IF tree.child["r"][r] # Null THEN tree.child["r"][r] ELSE tree.child["l"][r]
           /\ members' = members \ {r}
    /\ torn' = (root' # Null)

Next == \/ \E n \in Node : Insert(n)
        \/ \E k \in Keys : Find(k) \/ Remove(k)
        \/ Turn \/ FindDone \/ InsertDone \/ RemoveDone

Fairness == WF_vars(Turn) /\ WF_vars(FindDone) /\ WF_vars(InsertDone) /\ WF_vars(RemoveDone)
Spec == Init /\ [][Next]_vars /\ Fairness

---------------------------------------------------------------------------

\* No rotation, insertion or removal loses a node or lets in another one.
NothingLost == call = Idle => Below(tree, root) = members

\* Between two calls child and parent pointers agree.
Linked == call = Idle => LinkedBothWays(tree, root)

\* The keys are in order, in the middle of a splay too.
Ordered == \A n \in members : InOrder(tree, n)

\* What the comment of the splay promises (mgsplaytree.c:155): a node that
\* was inserted is found, and is the root when the call returns.
FoundIsRoot == FindDone /\ (\E n \in members : Key[n] = call.key) => root' # Null /\ Key[root'] = call.key
FindBringsToRoot == [][FoundIsRoot]_vars

\* A removed node does not come back into the tree: its owner has freed it.
RemovedStayOut == call = Idle => Below(tree, root) \subseteq members

\* Every call comes to an end: the climb reaches a node without a parent.
CallsReturn == call # Idle ~> call = Idle
=============================================================================
