------------------------------- MODULE MCTrees -------------------------------
(* The four search trees, checked side by side: in each behaviour one       *)
(* client uses one of them, under one of the contracts it needs.  The trees *)
(* share nothing; variables of the same name stand for the same thing.      *)
EXTENDS Integers

CONSTANT Null

VARIABLES used,                                \* the tree, and its client
          tree, root, members,
          pc, node, np,                        \* MgRbtree
          call, torn,                          \* MgSplaytree
          deleted, fault,                      \* MgBstree
          height, frames, ret, turns           \* MgAvltree

\* Red-black: nodes 3 and 4 have one key.  "far" keeps clear of the removals
\* that loop for ever, "all" does not.
RbKeys == [n \in 1 .. 9 |-> IF n = 4 THEN 3 ELSE n]
RbFar == INSTANCE MgRbtree WITH Node <- 1 .. 9, Key <- RbKeys, Removable <- "far"
RbAll == INSTANCE MgRbtree WITH Node <- 1 .. 9, Key <- RbKeys, Removable <- "all"

\* Splay and plain trees: nodes 4 and 5 have one key.  The splay tree stays
\* in order under "ends" and "mended", and loses nothing in any case.
Keys5 == [n \in 1 .. 5 |-> IF n = 5 THEN 4 ELSE n]
SplayEnds == INSTANCE MgSplaytree WITH Node <- 1 .. 5, Key <- Keys5,
                 Inserts <- "ends", Removes <- "mended"
SplayAny == INSTANCE MgSplaytree WITH Node <- 1 .. 5, Key <- Keys5,
                 Inserts <- "any", Removes <- "never"
BstSound == INSTANCE MgBstree WITH Node <- 1 .. 5, Key <- Keys5, Deletes <- "sound"
BstAny == INSTANCE MgBstree WITH Node <- 1 .. 5, Key <- Keys5, Deletes <- "any"

\* AVL: nodes 9 and 10 have one key.
AvlKeys == [n \in 1 .. 10 |-> IF n = 10 THEN 9 ELSE n]
Avl == INSTANCE MgAvltree WITH Node <- 1 .. 10, Key <- AvlKeys

ASSUME RbFar!RbAssumption /\ RbAll!RbAssumption
ASSUME SplayEnds!TreeAssumption /\ SplayEnds!SplayAssumption /\ SplayAny!SplayAssumption
ASSUME BstSound!BstAssumption /\ BstAny!BstAssumption /\ Avl!TreeAssumption

rb == <<pc, node, np>>
splay == <<call, torn>>
bst == <<deleted, fault>>
avl == <<height, frames, ret, turns>>
vars == <<used, tree, root, members, rb, splay, bst, avl>>

NoRb == pc = Null /\ np = Null
NoSplay == call = Null /\ torn = Null
NoBst == deleted = Null /\ fault = Null
NoAvl == height = Null /\ frames = Null /\ ret = Null /\ turns = Null

Init ==
    \/ used = "rb far" /\ RbFar!Init /\ root = Null /\ NoSplay /\ NoBst /\ NoAvl
    \/ used = "rb all" /\ RbAll!Init /\ root = Null /\ NoSplay /\ NoBst /\ NoAvl
    \/ used = "splay ends" /\ SplayEnds!Init /\ NoRb /\ node = Null /\ NoBst /\ NoAvl
    \/ used = "splay any" /\ SplayAny!Init /\ NoRb /\ node = Null /\ NoBst /\ NoAvl
    \/ used = "bst sound" /\ BstSound!Init /\ NoRb /\ node = Null /\ NoSplay /\ NoAvl
    \/ used = "bst any" /\ BstAny!Init /\ NoRb /\ node = Null /\ NoSplay /\ NoAvl
    \/ used = "avl" /\ Avl!Init /\ NoRb /\ NoSplay /\ NoBst

RbStep == UNCHANGED <<used, root, splay, bst, avl>>
SplayStep == UNCHANGED <<used, rb, bst, avl>>
BstStep == UNCHANGED <<used, rb, splay, avl>>

Calls ==
    \/ used = "rb far" /\ RbStep /\ \E n \in 1 .. 9 : RbFar!Insert(n) \/ RbFar!Remove(n)
    \/ used = "rb all" /\ RbStep /\ \E n \in 1 .. 9 : RbAll!Insert(n) \/ RbAll!Remove(n)
    \/ used = "splay ends" /\ SplayStep /\ \/ \E n \in 1 .. 5 : SplayEnds!Insert(n)
                                           \/ \E k \in SplayEnds!Keys : SplayEnds!Find(k) \/ SplayEnds!Remove(k)
    \/ used = "splay any" /\ SplayStep /\ \/ \E n \in 1 .. 5 : SplayAny!Insert(n)
                                          \/ \E k \in SplayAny!Keys : SplayAny!Find(k)
    \/ used = "bst sound" /\ BstStep /\ BstSound!Next
    \/ used = "bst any" /\ BstStep /\ BstAny!Next
    \/ used = "avl" /\ Avl!Next /\ UNCHANGED <<used, pc, np, splay, bst>>

\* One more turn of the call in progress.
FarGoesOn == used = "rb far" /\ RbStep /\ RbFar!Fixup
AllGoesOn == used = "rb all" /\ RbStep /\ RbAll!Fixup
EndsGoesOn == /\ used = "splay ends" /\ SplayStep
              /\ SplayEnds!Turn \/ SplayEnds!FindDone \/ SplayEnds!InsertDone \/ SplayEnds!RemoveDone
AnyGoesOn == /\ used = "splay any" /\ SplayStep
             /\ SplayAny!Turn \/ SplayAny!FindDone \/ SplayAny!InsertDone

Next == Calls \/ FarGoesOn \/ AllGoesOn \/ EndsGoesOn \/ AnyGoesOn

\* A call that has begun runs on; nothing makes the client call.
Spec == Init /\ [][Next]_vars /\ WF_vars(FarGoesOn) /\ WF_vars(EndsGoesOn) /\ WF_vars(AnyGoesOn)

------------------------------------------------------------------------------

\* No rotation, rebalancing, insertion or removal loses a node or lets in
\* another one, and in the splay tree each child knows its parent between two
\* calls.  (Other parent pointers go stale: that of a splay tree's new root
\* after a removal, mgsplaytree.c:296, and those of mgbstree.c.)
NothingLost ==
    CASE used \in {"rb far", "rb all"} -> RbFar!NothingLost
      [] used \in {"splay ends", "splay any"} -> SplayEnds!NothingLost /\ SplayEnds!Linked
      [] used = "bst sound" -> BstSound!NothingLost
      [] used = "avl" -> Avl!NothingLost
      [] OTHER -> TRUE

\* The keys stay in order through every turn and replacement.
Ordered ==
    CASE used \in {"rb far", "rb all"} -> RbFar!Ordered
      [] used = "splay ends" -> SplayEnds!Ordered
      [] used \in {"bst sound", "bst any"} -> BstSound!Ordered
      [] used = "avl" -> Avl!Ordered
      [] OTHER -> TRUE

\* Between two calls the tree is as flat as its kind promises, and one
\* rebalancing of an AVL tree has been enough.
Balanced ==
    CASE used = "rb far" -> RbFar!Balanced
      [] used = "avl" -> Avl!Balanced /\ Avl!OneTurn
      [] OTHER -> TRUE

\* The comments of mgrbtree.c:236-240: node is doubly black, "brother" is its
\* brother.  So there is one, whichever node was removed.
BrotherIsThere == used \in {"rb far", "rb all"} => RbFar!BrotherIsThere

\* A key that is there is found: by the search of mgrbtree.c among equal
\* keys, and by the splay, which leaves it at the root (mgsplaytree.c:155).
Found == /\ [](used = "rb far" => RbFar!SearchFinds)
         /\ [][used = "splay ends" => SplayEnds!FoundIsRoot]_vars

\* Every call comes to its end: a fixup goes up, a climb reaches the root.
InCall == \/ used = "rb far" /\ pc # "idle"
          \/ used \in {"splay ends", "splay any"} /\ call # SplayEnds!Idle
CallsReturn == InCall ~> ~ InCall
==============================================================================
