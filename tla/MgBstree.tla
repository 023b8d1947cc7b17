------------------------------- MODULE MgBstree -------------------------------
(* The binary search tree of mgbstree.c.  The client owns the root pointer *)
(* (mg_Bstree_insert cannot set it) and passes it to every call.           *)
EXTENDS BinaryTree

CONSTANT Deletes   \* what the client deletes: "sound": nodes with at most
                   \* one child that their parent pointer's node leads to;
                   \* "inner": nodes with at most one child, not the root;
                   \* "any": every member

BstAssumption == Deletes \in {"sound", "inner", "any"}

VARIABLES tree, root,
          members,   \* auxiliary: the nodes inserted and not deleted
          deleted,   \* auxiliary: the nodes deleted
          fault      \* whether mg_Bstree_del followed NULL

vars == <<tree, root, members, deleted, fault>>

Init == /\ tree = NoLinks /\ root = Null
        /\ members = {} /\ deleted = {} /\ fault = FALSE

\* MG_BSTREE_INIT_NODE, and the client's own root pointer.
Plant(n) == /\ root = Null
            /\ tree' = Fresh(tree, n) /\ root' = n /\ members' = {n}
            /\ UNCHANGED <<deleted, fault>>

\* Mutant of HungAt: always to the right.
HungAt_Right(t, p, n) == [t EXCEPT !.child["r"][p] = n, !.parent[n] = p]

HungAt(t, p, n) == [t EXCEPT !.child[Toward(p, Key[n])][p] = n, !.parent[n] = p]

\* The recursion ends at an equal key or at a free place.
Insert(n) ==
    /\ root # Null /\ ~ fault /\ n \notin members \union deleted
    /\ LET way == Path(tree, root, Key[n])
           p == way[Len(way)]
       IN  IF Key[p] = Key[n] THEN UNCHANGED <<tree, members>>
           ELSE tree' = HungAt(Fresh(tree, n), p, n) /\ members' = members \union {n}
    /\ UNCHANGED <<root, deleted, fault>>

OnlyChild(n) == IF tree.child["l"][n] # Null THEN tree.child["l"][n] ELSE tree.child["r"][n]
Two(n) == \A s \in Side : tree.child[s][n] # Null
Led(n) == LET p == tree.parent[n] IN p \in members /\ n \in {tree.child[s][p] : s \in Side}

MayDelete(n) == CASE Deletes = "any" -> TRUE
                  [] Deletes = "inner" -> n # root /\ ~ Two(n)
                  [] Deletes = "sound" -> n # root /\ ~ Two(n) /\ Led(n)

\* Mutant of Delete: only a left child takes the place.
Delete_LeftOnly(n) ==
    /\ ~ fault /\ n \in members /\ MayDelete(n)
    /\ tree' = Redirected(tree, tree.parent[n], n, tree.child["l"][n])
    /\ members' = members \ {n} /\ deleted' = deleted \union {n}
    /\ UNCHANGED <<root, fault>>

\* MG_BSTREE_SET_PARENT_CHILD changes the parent's pointer, not the child's
\* and not the caller's root.  With two children the loop runs tmp to NULL.
Delete(n) ==
    /\ ~ fault /\ n \in members /\ MayDelete(n)
    /\ tree' = Redirected(tree, tree.parent[n], n, IF Two(n) THEN tree.child["r"][n] ELSE OnlyChild(n))
    /\ fault' = Two(n)
    /\ members' = members \ {n} /\ deleted' = deleted \union {n}
    /\ UNCHANGED root

Next == \E n \in Node : Plant(n) \/ Insert(n) \/ Delete(n)
Spec == Init /\ [][Next]_vars

---------------------------------------------------------------------------

\* The tree holds exactly the members: nothing falls off when a deleted
\* node's child moves up, though that child's parent pointer goes stale.
NothingLost == Below(tree, root) = members

\* Whatever is deleted, and wherever deleted nodes still hang: the keys stay
\* in order and every member that hangs in the tree is found by its key.
Ordered == InOrder(tree, root)

\* A deleted node is gone, as the test takes it (mgbstree_test.c:70): no
\* later call brings it back into the searches.
DeletedStayOut == \A n \in deleted : Search(tree, root, Key[n]) # n
=============================================================================
