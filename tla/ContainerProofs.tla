--------------------------- MODULE ContainerProofs ---------------------------
(* Theorems about the containers.  The rings and the hash chains of mglist.c, *)
(* for every set of heads and entries: the pointer operations keep next and   *)
(* prev inverse to each other, the calls of the header are built from them,   *)
(* and the calls on a chain keep the pointers to the nodes and the addresses  *)
(* the nodes remember inverse to each other.  The table of mghashtable.c, for *)
(* every number of lines and every comparison: a node stays where its key is  *)
(* looked up, and for its callers the table is a map from keys to sequences   *)
(* of values.  The sort of mgfastsort.c, for every list: it exchanges places, *)
(* and what no waiting call will look at is in order.  The stack of           *)
(* mgstack.c, for every limit: it has what was pushed and not popped, and its *)
(* flag tells the truth.                                                      *)
EXTENDS MgList, FiniteSetTheorems, SequenceTheorems, WellFoundedInduction, TLAPS

CONSTANTS Hnodes, NULL
VARIABLE chain

CONSTANTS N, Key, Datum, None, Lost, Reads, LineKey, Default, MayFail, MaxNodes
VARIABLES lines, table, memory, last

CONSTANTS Value, MaxLen, ByAddress
VARIABLES array, calls, pc, up, down, given

CONSTANTS DataMax, DefaultMax, MaxAlloc
VARIABLES data, num, sorted, held, ret

H == INSTANCE MgHlist

Tab == INSTANCE MgHashtable

Q == INSTANCE MgFastsort WITH list <- array, i <- up, j <- down

St == INSTANCE MgStack

-------------------------------------------------------------------------------
(* The ring.                                                                  *)

Rings == [next : [Nodes -> Nodes \union {Nil}], prev : [Nodes -> Nodes \union {Nil}]]

\* Among the nodes of S the two pointers are inverse, and none leads outside.
BackAndForth(r, S) ==
    \A x \in S : /\ r.next[x] \in S /\ r.prev[x] \in S
                 /\ r.prev[r.next[x]] = x /\ r.next[r.prev[x]] = x

-----------------------------------------------------------------------------
(* The pointer operations.                                                   *)

\* A node that is not in use, or alone, may be initialised (mglist.c:3-9).
LEMMA AloneKeeps ==
    ASSUME NEW r \in Rings, NEW S \in SUBSET Nodes, BackAndForth(r, S),
           NEW x \in Nodes,
           x \in S => Empty(r, x)
    PROVE  Alone(r, x) \in Rings /\ BackAndForth(Alone(r, x), S \union {x})
BY DEF Rings, BackAndForth, Alone, Empty

\* A node that is alone has no neighbours to care about.
LEMMA AloneDrops ==
    ASSUME NEW r \in Rings, NEW S \in SUBSET Nodes, BackAndForth(r, S),
           NEW x \in Nodes,
           x \in S => Empty(r, x)
    PROVE  BackAndForth(r, S \ {x})
BY DEF Rings, BackAndForth, Empty

\* __mglist_del closes the gap behind the node (mglist.c:34-38).
LEMMA UnlinkedKeeps ==
    ASSUME NEW r \in Rings, NEW S \in SUBSET Nodes, BackAndForth(r, S),
           NEW e \in S
    PROVE  Unlinked(r, e) \in Rings /\ BackAndForth(Unlinked(r, e), S \ {e})
BY DEF Rings, BackAndForth, Unlinked, Joined

\* __mglist_add puts a node that was on no ring between two neighbours
\* (mglist.c:11-20).
LEMMA LinkedKeeps ==
    ASSUME NEW r \in Rings, NEW S \in SUBSET Nodes, BackAndForth(r, S),
           NEW e \in Nodes \ S,
           NEW p \in S, NEW q \in S, r.next[p] = q
    PROVE  Linked(r, e, p, q) \in Rings /\ BackAndForth(Linked(r, e, p, q), S \union {e})
BY DEF Rings, BackAndForth, Linked

\* A poisoned node is not in use, whatever its pointers say.
LEMMA PoisonedKeeps ==
    ASSUME NEW r \in Rings, NEW S \in SUBSET Nodes, BackAndForth(r, S),
           NEW e \in Nodes \ S
    PROVE  Poisoned(r, e) \in Rings /\ BackAndForth(Poisoned(r, e), S)
BY DEF Rings, BackAndForth, Poisoned

\* The new node takes the place of the old one, also when the old one was
\* alone: its prev is read again after the new node stands behind its next
\* (mglist.c:49-56).
LEMMA ReplacedKeeps ==
    ASSUME NEW r \in Rings, NEW S \in SUBSET Nodes, BackAndForth(r, S),
           NEW old \in S,
           NEW new \in Nodes \ S
    PROVE  /\ Replaced(r, old, new) \in Rings
           /\ BackAndForth(Replaced(r, old, new), (S \ {old}) \union {new})
BY DEF Rings, BackAndForth, Replaced, Joined

\* Two rings out of one: h keeps what is behind e (mglist.c:158-168).
LEMMA CutKeeps ==
    ASSUME NEW r \in Rings, NEW S \in SUBSET Nodes, BackAndForth(r, S),
           NEW l \in Nodes \ S,
           NEW h \in S, NEW e \in S \ {h}
    PROVE  CutAt(r, l, h, e) \in Rings /\ BackAndForth(CutAt(r, l, h, e), S \union {l})
BY DEF Rings, BackAndForth, CutAt

\* One ring out of two, without the head l (mglist.c:200-212).
LEMMA SplicedKeeps ==
    ASSUME NEW r \in Rings, NEW S \in SUBSET Nodes, BackAndForth(r, S),
           NEW l \in S,
           ~ Empty(r, l), NEW p \in S \ {l, r.prev[l]}, NEW q \in S, r.next[p] = q
    PROVE  /\ SplicedBetween(r, l, p, q) \in Rings
           /\ BackAndForth(SplicedBetween(r, l, p, q), S \ {l})
BY DEF Rings, BackAndForth, SplicedBetween, Empty

-----------------------------------------------------------------------------
(* The calls.                                                                *)

RingInv == ready \subseteq Nodes /\ ring \in Rings /\ BackAndForth(ring, ready)

\* mglist_init, mglist_add and mglist_add_tail.
LEMMA RingGrows ==
    ASSUME ListAssumption, RingInv, NEW x \in Nodes, NEW at \in Nodes,
           Initialise(x) \/ (x \in Entries /\ (Add(x, at) \/ AddTail(x, at)))
    PROVE  RingInv'
<1>1. ready \in SUBSET Nodes /\ ring \in Rings /\ BackAndForth(ring, ready)
  BY DEF RingInv
<1>2. CASE Initialise(x)
  BY <1>1, <1>2, AloneKeeps DEF Initialise, RingInv
<1>3. CASE x \in Entries /\ (Add(x, at) \/ AddTail(x, at))
  <2>1. OnNoList(x) /\ at \in ready \ {x}
    BY <1>3 DEF Add, AddTail, Insertable, Places, OnNoList, ListAssumption
  <2>2. x \in ready => Empty(ring, x)
    BY <2>1 DEF OnNoList
  <2>3. BackAndForth(ring, ready \ {x})
    BY <1>1, <2>2, AloneDrops
  <2>. DEFINE S == ready \ {x}
  <2>4. /\ S \in SUBSET Nodes /\ x \in Nodes \ S /\ at \in S
        /\ ring.next[at] \in S /\ ring.prev[at] \in S /\ ring.next[ring.prev[at]] = at
        /\ BackAndForth(ring, S) /\ S \union {x} = ready \union {x}
    BY <1>1, <2>1, <2>3 DEF BackAndForth
  <2>. HIDE DEF S
  <2>5. CASE Add(x, at)
    <3>1. ring' = Linked(ring, x, at, ring.next[at]) /\ ready' = ready \union {x}
      BY <2>5 DEF Add, AddedAfter
    <3>. QED  BY <1>1, <2>4, <3>1, LinkedKeeps DEF RingInv
  <2>6. CASE AddTail(x, at)
    <3>1. ring' = Linked(ring, x, ring.prev[at], at) /\ ready' = ready \union {x}
      BY <2>6 DEF AddTail, AddedBefore
    <3>. QED  BY <1>1, <2>4, <3>1, LinkedKeeps DEF RingInv
  <2>. QED  BY <1>3, <2>5, <2>6
<1>. QED  BY <1>2, <1>3

\* mglist_del and mglist_del_init.
LEMMA RingShrinks ==
    ASSUME RingInv, NEW e \in Entries, Del(e) \/ DelInit(e)
    PROVE  RingInv'
<1>. DEFINE S == ready \ {e}
            r == Unlinked(ring, e)
<1>1. e \in ready
  BY DEF Del, DelInit, Removable
<1>2. r \in Rings /\ BackAndForth(r, S) /\ S \in SUBSET Nodes /\ e \in Nodes \ S
  BY <1>1, UnlinkedKeeps DEF RingInv
<1>3. CASE Del(e)
  <2>1. ring' = Poisoned(r, e) /\ ready' = S
    BY <1>3 DEF Del
  <2>. HIDE DEF S, r
  <2>. QED  BY <1>2, <2>1, PoisonedKeeps DEF RingInv
<1>4. CASE DelInit(e)
  <2>1. ring' = Alone(r, e) /\ ready' = S \union {e} /\ ready' \subseteq Nodes
    BY <1>1, <1>4 DEF DelInit, RingInv
  <2>. HIDE DEF S, r
  <2>. QED  BY <1>2, <2>1, AloneKeeps DEF RingInv
<1>. QED  BY <1>3, <1>4

\* A node that is taken from its place and put beside another one.
LEMMA MovedKeeps ==
    ASSUME RingInv, NEW e \in ready, NEW at \in ready \ {e},
           \/ ring' = AddedAfter(Unlinked(ring, e), e, at)
           \/ ring' = AddedBefore(Unlinked(ring, e), e, at),
           ready' = ready
    PROVE  RingInv'
<1>. DEFINE S == ready \ {e}
            r == Unlinked(ring, e)
<1>1. r \in Rings /\ BackAndForth(r, S) /\ S \in SUBSET Nodes /\ e \in Nodes \ S
  BY UnlinkedKeeps DEF RingInv
<1>2. at \in S /\ S \union {e} = ready' /\ ready' \subseteq Nodes
  BY DEF RingInv
<1>3. \/ ring' = Linked(r, e, at, r.next[at])
      \/ ring' = Linked(r, e, r.prev[at], at)
  BY DEF AddedAfter, AddedBefore
<1>. HIDE DEF S, r
<1>4. r.next[at] \in S /\ r.prev[at] \in S /\ r.next[r.prev[at]] = at
  BY <1>1, <1>2 DEF BackAndForth
<1>. QED  BY <1>1, <1>2, <1>3, <1>4, LinkedKeeps DEF RingInv

\* mglist_move and mglist_move_tail.
LEMMA RingMoves ==
    ASSUME RingInv, NEW e \in Entries, NEW at \in Nodes, Move(e, at) \/ MoveTail(e, at)
    PROVE  RingInv'
BY MovedKeeps DEF Move, MoveTail, Movable, Removable, Places

\* mglist_rotate_left.
LEMMA RingRotates == ASSUME RingInv, NEW h \in Heads, RotateLeft(h) PROVE RingInv'
<1>1. CASE Empty(ring, h)
  BY <1>1 DEF RotateLeft, RingInv
<1>2. CASE ~ Empty(ring, h)
  <2>1. ring.next[h] \in ready /\ h \in ready \ {ring.next[h]}
    BY <1>2 DEF RotateLeft, RingInv, BackAndForth, Empty
  <2>. QED  BY <1>2, <2>1, MovedKeeps DEF RotateLeft
<1>. QED  BY <1>1, <1>2

\* mglist_replace and mglist_replace_init.
LEMMA RingReplaces ==
    ASSUME RingInv, NEW old \in Nodes, NEW new \in Nodes,
           Replace(old, new) \/ ReplaceInit(old, new)
    PROVE  RingInv'
<1>. DEFINE S == ready \ {new}
            T == (S \ {old}) \union {new}
            r == Replaced(ring, old, new)
<1>1. old \in S /\ (new \in ready => Empty(ring, new))
  BY DEF Replace, ReplaceInit, Replaceable, OnNoList
<1>2. S \in SUBSET Nodes /\ BackAndForth(ring, S) /\ ring \in Rings
  BY <1>1, AloneDrops DEF RingInv
<1>3. /\ r \in Rings /\ BackAndForth(r, T) /\ T \in SUBSET Nodes /\ old \in Nodes
      /\ (old \in T => FALSE)
  BY <1>1, <1>2, ReplacedKeeps
<1>4. CASE Replace(old, new)
  BY <1>1, <1>3, <1>4 DEF Replace, RingInv
<1>5. CASE ReplaceInit(old, new)
  <2>1. ring' = Alone(r, old) /\ ready' = T \union {old} /\ ready' \subseteq Nodes
    BY <1>1, <1>3, <1>5 DEF ReplaceInit, RingInv
  <2>. HIDE DEF r, T, S
  <2>. QED  BY <1>3, <2>1, AloneKeeps DEF RingInv
<1>. QED  BY <1>4, <1>5

\* mglist_cut_position, with the early returns of the code.
LEMMA RingCut ==
    ASSUME RingInv, NEW l \in Heads, NEW h \in Heads, NEW e \in Nodes, Cut(l, h, e)
    PROVE  RingInv'
<1>. DEFINE S == ready \ {l}
<1>1. l \in Nodes \ S /\ h \in S /\ (l \in ready => Empty(ring, l))
  BY DEF Cut, OnNoList, Nodes
<1>2. ring \in Rings /\ S \in SUBSET Nodes /\ BackAndForth(ring, S)
  BY <1>1, AloneDrops DEF RingInv
<1>3. CASE UNCHANGED <<ring, ready>>
  BY <1>3 DEF RingInv, BackAndForth
<1>4. CASE ring' = Alone(ring, l) /\ ready' = ready \union {l}
  BY <1>1, <1>4, AloneKeeps DEF RingInv
<1>5. CASE /\ e # h /\ ring' = CutAt(ring, l, h, e) /\ ready' = ready \union {l}
           /\ ~ (Empty(ring, h) \/ (Singular(ring, h) /\ ring.next[h] # e /\ h # e))
  <2>1. e \in S
    <3>1. CASE Singular(ring, h)
      BY <1>1, <1>2, <1>5, <3>1 DEF BackAndForth
    <3>. QED  BY <1>5, <3>1 DEF Cut
  <2>2. ready' = S \union {l} /\ ready' \subseteq Nodes
    BY <1>1, <1>5 DEF RingInv
  <2>. HIDE DEF S
  <2>. QED  BY <1>1, <1>2, <1>5, <2>1, <2>2, CutKeeps DEF RingInv
<1>. QED  BY <1>3, <1>4, <1>5 DEF Cut

\* The four forms of mglist_splice.
LEMMA RingSplices ==
    ASSUME RingInv, NEW l \in Heads, NEW at \in Nodes,
           \/ Splice(l, at) \/ SpliceTail(l, at)
           \/ SpliceInit(l, at) \/ SpliceTailInit(l, at)
    PROVE  RingInv'
<1>1. /\ l \in ready /\ at \in ready \ {l, ring.next[l], ring.prev[l]}
      /\ ring \in Rings /\ ready \in SUBSET Nodes /\ BackAndForth(ring, ready)
  BY DEF Splice, SpliceTail, SpliceInit, SpliceTailInit, Spliceable, Places, RingInv
<1>2. CASE Empty(ring, l)
  BY <1>1, <1>2
  DEF Splice, SpliceTail, SpliceInit, SpliceTailInit, SplicedAfter, SplicedBefore,
      RingInv
<1>3. CASE ~ Empty(ring, l)
  <2>1. PICK p \in {at, ring.prev[at]}, q \in {at, ring.next[at]} :
           LET r == SplicedBetween(ring, l, p, q)
           IN  /\ ring.next[p] = q
               /\ p \in ready \ {l, ring.prev[l]} /\ q \in ready
               /\ \/ ring' = r /\ ready' = ready \ {l}
                  \/ ring' = Alone(r, l) /\ ready' = ready
    <3>1. /\ ring.next[ring.prev[at]] = at
          /\ ring.next[at] \in ready /\ ring.prev[at] \in ready
          /\ ring.prev[at] # l /\ ring.prev[at] # ring.prev[l]
      BY <1>1 DEF BackAndForth
    <3>2. CASE Splice(l, at) \/ SpliceInit(l, at)
      BY <1>1, <1>3, <3>1, <3>2 DEF Splice, SpliceInit, SplicedAfter
    <3>3. CASE SpliceTail(l, at) \/ SpliceTailInit(l, at)
      BY <1>1, <1>3, <3>1, <3>3 DEF SpliceTail, SpliceTailInit, SplicedBefore
    <3>. QED  BY <3>2, <3>3
  <2>. DEFINE r == SplicedBetween(ring, l, p, q)
              S == ready \ {l}
  <2>2. r \in Rings /\ BackAndForth(r, S) /\ S \in SUBSET Nodes /\ l \in Nodes \ S
    BY <1>1, <1>3, <2>1, SplicedKeeps
  <2>3. \/ ring' = r /\ ready' = S
        \/ ring' = Alone(r, l) /\ ready' = S \union {l}
    BY <1>1, <2>1
  <2>. HIDE DEF r, S
  <2>. QED  BY <2>2, <2>3, AloneKeeps DEF RingInv
<1>. QED  BY <1>2, <1>3

\* Whatever calls are made in whatever order, with mglist_add's and
\* mglist_splice's places anywhere on any list, the pointers of the nodes in use
\* stay inverse to each other and lead to nodes in use (mglist.c).
THEOREM RingHolds == ASSUME ListAssumption PROVE Spec => []Ring
<1>1. Init => RingInv
  BY DEF Init, RingInv, Rings, BackAndForth
<1>2. RingInv /\ [Next]_vars => RingInv'
  <2>1. ASSUME RingInv, \/ UNCHANGED vars \/ Step \/ WalkEnds
                        \/ \E h \in Heads, dir \in {"next", "prev"} : Walk(h, dir)
        PROVE  RingInv'
    BY <2>1 DEF vars, Step, WalkEnds, Walk, RingInv, BackAndForth
  <2>2. Entries \subseteq Nodes /\ Heads \subseteq Nodes
    BY DEF Nodes
  <2>. SUFFICES ASSUME RingInv, [Next]_vars PROVE RingInv'
    OBVIOUS
  <2>3. CASE \E x \in Nodes : Initialise(x)
    BY <2>3, RingGrows
  <2>4. CASE \E e \in Entries, at \in Nodes : Add(e, at) \/ AddTail(e, at)
    BY <2>2, <2>4, RingGrows
  <2>5. CASE \E e \in Entries, at \in Nodes : Move(e, at) \/ MoveTail(e, at)
    BY <2>5, RingMoves
  <2>6. CASE \E e \in Entries : Del(e) \/ DelInit(e)
    BY <2>6, RingShrinks
  <2>7. CASE \E old, new \in Nodes : Replace(old, new) \/ ReplaceInit(old, new)
    BY <2>7, RingReplaces
  <2>8. CASE \E h \in Heads : RotateLeft(h)
    BY <2>8, RingRotates
  <2>9. CASE \E l, h \in Heads, e \in Nodes : Cut(l, h, e)
    BY <2>9, RingCut
  <2>10. CASE \E l \in Heads, at \in Nodes :
                 \/ Splice(l, at) \/ SpliceTail(l, at)
                 \/ SpliceInit(l, at) \/ SpliceTailInit(l, at)
    BY <2>10, RingSplices
  <2>. QED
    BY <2>1, <2>3, <2>4, <2>5, <2>6, <2>7, <2>8, <2>9, <2>10 DEF Next
<1>3. RingInv => Ring
  BY DEF RingInv, BackAndForth, Ring
<1>. QED  BY <1>1, <1>2, <1>3, PTL DEF Spec

-------------------------------------------------------------------------------
(* The chains.                                                                *)

Cells == [first : [Heads -> Hnodes \union {NULL}],
          next : [Hnodes -> Hnodes \union {NULL}],
          pprev : [Hnodes -> H!Places \union {NULL}]]

ChainInv == chain \in Cells /\ H!PprevExact

\* The addresses of two pointers are different, and none is NULL.
LEMMA PlacesApart ==
    /\ \A p \in H!Places : \/ p[1] = "first" /\ p[2] \in Heads /\ p = H!First(p[2])
                           \/ p[1] = "next" /\ p[2] \in Hnodes /\ p = H!NextOf(p[2])
    /\ \A h \in Heads : H!First(h) \in H!Places /\ H!First(h)[1] = "first" /\ H!First(h)[2] = h
    /\ \A n \in Hnodes : H!NextOf(n) \in H!Places /\ H!NextOf(n)[1] = "next" /\ H!NextOf(n)[2] = n
    /\ \A p, q \in H!Places : p[1] = q[1] /\ p[2] = q[2] => p = q
BY DEF H!Places, H!First, H!NextOf

\* s is c with n stored at the place p.
Wrote(s, c, p, n) ==
    /\ s \in Cells /\ s.pprev = c.pprev
    /\ \A q \in H!Places : H!Stored(s, q) = IF q = p THEN n ELSE H!Stored(c, q)

\* b is c with the pprev of the node n, if there is one, set to p.
Reset(b, c, n, p) ==
    /\ b \in Cells /\ b.first = c.first /\ b.next = c.next
    /\ \A q \in H!Places : H!Stored(b, q) = H!Stored(c, q)
    /\ \A k \in Hnodes : b.pprev[k] = IF k = n THEN p ELSE c.pprev[k]

\* What is stored at a place is read from there, and from nowhere else.
LEMMA StoreAt ==
    ASSUME NEW c \in Cells, NEW p \in H!Places, NEW n \in Hnodes \union {NULL}
    PROVE  Wrote(H!Store(c, p, n), c, p, n)
<1>1. CASE p[1] = "first"
  BY <1>1, PlacesApart DEF Wrote, H!Store, H!Stored, Cells
<1>2. CASE p[1] = "next"
  BY <1>2, PlacesApart DEF Wrote, H!Store, H!Stored, Cells
<1>. QED  BY <1>1, <1>2, PlacesApart

\* A pprev that is written, when there is such a node.
LEMMA BackAt ==
    ASSUME NULL \notin Hnodes, NEW c \in Cells, NEW p \in H!Places \union {NULL},
           NEW n \in Hnodes \union {NULL}
    PROVE  Reset(H!Back(c, n, p), c, n, p)
<1>1. CASE n = NULL
  BY <1>1 DEF H!Back, Reset
<1>2. CASE n # NULL
  <2>1. H!Back(c, n, p) = [c EXCEPT !.pprev[n] = p] /\ n \in Hnodes
    BY <1>2 DEF H!Back
  <2>2. /\ H!Back(c, n, p) \in Cells
        /\ H!Back(c, n, p).first = c.first /\ H!Back(c, n, p).next = c.next
        /\ H!Back(c, n, p).pprev = [c.pprev EXCEPT ![n] = p]
    BY <2>1 DEF Cells
  <2>3. \A q \in H!Places : H!Stored(H!Back(c, n, p), q) = H!Stored(c, q)
    BY <2>2, PlacesApart DEF H!Stored
  <2>. QED  BY <2>1, <2>2, <2>3 DEF Cells, Reset
<1>. QED  BY <1>1, <1>2

LEMMA ClearedAt ==
    ASSUME NEW c \in Cells, NEW n \in Hnodes
    PROVE  /\ H!Cleared(c, n) \in Cells
           /\ \A q \in H!Places : H!Stored(H!Cleared(c, n), q) =
                      IF q = H!NextOf(n) THEN NULL ELSE H!Stored(c, q)
           /\ \A k \in Hnodes : H!Cleared(c, n).pprev[k] = IF k = n THEN NULL
                                                           ELSE c.pprev[k]
<1>1. /\ H!Cleared(c, n) \in Cells /\ H!Cleared(c, n).first = c.first
      /\ H!Cleared(c, n).next = [c.next EXCEPT ![n] = NULL]
      /\ H!Cleared(c, n).pprev = [c.pprev EXCEPT ![n] = NULL]
  BY DEF H!Cleared, Cells
<1>2. ASSUME NEW q \in H!Places
      PROVE  H!Stored(H!Cleared(c, n), q) = IF q = H!NextOf(n) THEN NULL ELSE H!Stored(c, q)
  <2>1. CASE q[1] = "first"
    BY <1>1, <2>1, PlacesApart DEF H!Stored
  <2>2. CASE q[1] = "next"
    BY <1>1, <2>2, PlacesApart DEF H!Stored, Cells
  <2>. QED  BY <2>1, <2>2, PlacesApart
<1>. QED  BY <1>1, <1>2 DEF Cells

\* The pointers at the places and the pprevs, read as two functions.
Exact(S, B) ==
    /\ \A n \in Hnodes : \/ B[n] # NULL /\ S[B[n]] = n
                         \/ S[H!NextOf(n)] = NULL /\ B[n] \in {NULL, H!NextOf(n)}
    /\ \A p \in H!Places : S[p] # NULL => B[S[p]] = p

Leads(c) == [p \in H!Places |-> H!Stored(c, p)]

LEMMA ExactMeans ==
    ASSUME NULL \notin H!Places, chain \in Cells
    PROVE  /\ H!PprevExact <=> Exact(Leads(chain), chain.pprev)
           /\ Leads(chain) \in [H!Places -> Hnodes \union {NULL}]
           /\ chain.pprev \in [Hnodes -> H!Places \union {NULL}]
<1>1. \A p \in H!Places : H!Stored(chain, p) \in Hnodes \union {NULL}
  BY PlacesApart DEF H!Stored, Cells
<1>2. \A n \in Hnodes : chain.next[n] = H!Stored(chain, H!NextOf(n)) /\ H!NextOf(n) \in H!Places
  BY PlacesApart DEF H!Stored
<1>3. \A n \in Hnodes : chain.pprev[n] \in H!Places \union {NULL}
  BY DEF Cells
<1>. QED
  BY <1>1, <1>2, <1>3 DEF Cells, H!PprevExact, Exact, Leads, H!OnChain, H!Unhashed

\* What a call has to establish for the pointers it leaves.
LEMMA ExactNext ==
    ASSUME H!HlistAssumption, chain' \in Cells,
           NEW S, NEW B, \A p \in H!Places : H!Stored(chain', p) = S[p],
           \A n \in Hnodes : chain'.pprev[n] = B[n], Exact(S, B)
    PROVE  ChainInv'
<1>1. \A p \in H!Places : H!Stored(chain', p) \in Hnodes \union {NULL}
  BY PlacesApart DEF H!Stored, Cells
<1>2. \A n \in Hnodes : chain'.next[n] = H!Stored(chain', H!NextOf(n)) /\ H!NextOf(n) \in H!Places
  BY PlacesApart DEF H!Stored
<1>3. \A n \in Hnodes : chain'.pprev[n] \in H!Places \union {NULL}
  BY DEF Cells
<1>4. NULL \notin Hnodes /\ NULL \notin H!Places
  BY DEF H!HlistAssumption
<1>. QED
  BY <1>1, <1>2, <1>3, <1>4 DEF ChainInv, H!PprevExact, Exact, H!OnChain, H!Unhashed

\* __mghlist_del: the place that led to n leads to its next.
LEMMA DelKeeps ==
    ASSUME H!HlistAssumption, ChainInv, NEW n \in Hnodes, ~ H!Unhashed(n),
           chain' = H!Cleared(H!Cut(chain, n), n)
    PROVE  ChainInv'
<1>. DEFINE p == chain.pprev[n]
            m == chain.next[n]
            S == Leads(chain)
            B == chain.pprev
            T == [q \in H!Places |-> IF q = H!NextOf(n) THEN NULL
                                     ELSE IF q = p THEN m ELSE S[q]]
            A == [k \in Hnodes |-> IF k = n THEN NULL
                                   ELSE IF k = m THEN p ELSE B[k]]
            s == H!Store(chain, p, m)
            b == H!Back(s, m, p)
<1>1. /\ p \in H!Places /\ m \in Hnodes \union {NULL} /\ chain \in Cells
      /\ NULL \notin Hnodes /\ NULL \notin H!Places /\ H!NextOf(n) \in H!Places
      /\ m = H!Stored(chain, H!NextOf(n))
  BY PlacesApart DEF ChainInv, Cells, H!Unhashed, H!HlistAssumption, H!Stored
<1>2. /\ Exact(S, B) /\ S \in [H!Places -> Hnodes \union {NULL}]
      /\ B \in [Hnodes -> H!Places \union {NULL}]
  BY <1>1, ExactMeans DEF ChainInv
<1>. HIDE DEF p, m, S, B, T, A, b
<1>3. Wrote(s, chain, p, m)
  <2>1. chain \in Cells /\ p \in H!Places /\ m \in Hnodes \union {NULL}
    BY <1>1
  <2>. QED  BY <2>1, StoreAt, Zenon
<1>. HIDE DEF s
<1>. USE DEF b
<1>4. Reset(b, s, m, p)
  <2>1. /\ s \in Cells /\ p \in H!Places \union {NULL}
        /\ m \in Hnodes \union {NULL} /\ NULL \notin Hnodes
    BY <1>1, <1>3 DEF Wrote
  <2>. QED  BY <2>1, BackAt, Zenon
<1>5. chain' = H!Cleared(b, n)
  BY DEF H!Cut, s, p, m
<1>6. /\ chain' \in Cells
      /\ \A q \in H!Places : H!Stored(chain', q) = IF q = H!NextOf(n) THEN NULL
                                                   ELSE H!Stored(b, q)
      /\ \A k \in Hnodes : chain'.pprev[k] = IF k = n THEN NULL ELSE b.pprev[k]
  BY <1>4, <1>5, ClearedAt DEF Reset
<1>7. /\ \A q \in H!Places : H!Stored(chain', q) = T[q]
      /\ \A k \in Hnodes : chain'.pprev[k] = A[k]
  BY <1>1, <1>3, <1>4, <1>6 DEF Leads, S, B, T, A, Wrote, Reset
<1>8. Exact(T, A)
  <2>1. m = S[H!NextOf(n)] /\ p = B[n]
    BY <1>1 DEF Leads, p, S, B
  <2>2. S[p] = n \/ (p = H!NextOf(n) /\ S[H!NextOf(n)] = NULL)
    BY <1>1, <1>2, <2>1 DEF Exact
  <2>. QED  BY <1>1, <1>2, <2>1, <2>2, PlacesApart DEF Exact, T, A
<1>. QED  BY <1>6, <1>7, <1>8, ExactNext

\* The calls that add one node: the place p leads to n, and n to what p led to.
LEMMA AddedExact ==
    ASSUME H!HlistAssumption, NEW S \in [H!Places -> Hnodes \union {NULL}],
           NEW B \in [Hnodes -> H!Places \union {NULL}], Exact(S, B),
           NEW n \in Hnodes, ~ (B[n] # NULL /\ S[B[n]] = n), NEW p \in H!Places,
           \A k \in Hnodes : p = H!NextOf(k) => k # n /\ B[k] # NULL /\ S[B[k]] = k
    PROVE  Exact([q \in H!Places |-> IF q = H!NextOf(n) THEN S[p]
                                     ELSE IF q = p THEN n ELSE S[q]],
                 [k \in Hnodes |-> IF k = n THEN p
                                   ELSE IF k = S[p] THEN H!NextOf(n) ELSE B[k]])
<1>. DEFINE m == S[p]
            T == [q \in H!Places |-> IF q = H!NextOf(n) THEN m
                                     ELSE IF q = p THEN n ELSE S[q]]
            A == [k \in Hnodes |-> IF k = n THEN p
                                   ELSE IF k = m THEN H!NextOf(n) ELSE B[k]]
<1>1. /\ m # n /\ H!NextOf(n) \in H!Places /\ p # H!NextOf(n) /\ S[H!NextOf(n)] = NULL
      /\ NULL \notin Hnodes /\ NULL \notin H!Places /\ m \in Hnodes \union {NULL}
      /\ m # NULL => B[m] = p
  BY PlacesApart DEF H!HlistAssumption, Exact
<1>2. \A k \in Hnodes \ {n, m} : B[k] # p /\ B[k] # H!NextOf(n)
  BY <1>1, PlacesApart DEF Exact
<1>3. ASSUME NEW k \in Hnodes
      PROVE  \/ A[k] # NULL /\ T[A[k]] = k
             \/ T[H!NextOf(k)] = NULL /\ A[k] \in {NULL, H!NextOf(k)}
  BY <1>1, <1>2, <1>3, PlacesApart DEF Exact
<1>4. ASSUME NEW q \in H!Places, T[q] # NULL PROVE A[T[q]] = q
  BY <1>1, <1>2, <1>4 DEF Exact
<1>. QED  BY <1>3, <1>4 DEF Exact

LEMMA AddKeeps ==
    ASSUME H!HlistAssumption, ChainInv, NEW n \in Hnodes, ~ H!OnChain(n),
           NEW p \in H!Places, \A k \in Hnodes : p = H!NextOf(k) => k # n /\ H!OnChain(k),
           chain' \in Cells,
           \A q \in H!Places : H!Stored(chain', q) =
                        IF q = H!NextOf(n) THEN H!Stored(chain, p)
                        ELSE IF q = p THEN n ELSE H!Stored(chain, q),
           \A k \in Hnodes : chain'.pprev[k] = IF k = n THEN p
                     ELSE IF k = H!Stored(chain, p) THEN H!NextOf(n) ELSE chain.pprev[k]
    PROVE  ChainInv'
<1>. DEFINE S == Leads(chain)
            B == chain.pprev
            T == [q \in H!Places |-> IF q = H!NextOf(n) THEN S[p]
                                     ELSE IF q = p THEN n ELSE S[q]]
            A == [k \in Hnodes |-> IF k = n THEN p
                                   ELSE IF k = S[p] THEN H!NextOf(n) ELSE B[k]]
<1>1. /\ Exact(S, B) /\ S \in [H!Places -> Hnodes \union {NULL}]
      /\ B \in [Hnodes -> H!Places \union {NULL}]
  BY ExactMeans DEF ChainInv, H!HlistAssumption
<1>2. ~ (B[n] # NULL /\ S[B[n]] = n)
  BY <1>1 DEF H!OnChain, H!Unhashed, Leads
<1>3. \A q \in H!Places : S[q] = H!Stored(chain, q)
  BY DEF Leads
<1>4. /\ \A q \in H!Places : H!Stored(chain', q) = T[q]
      /\ \A k \in Hnodes : chain'.pprev[k] = A[k]
  BY <1>3
<1>5. \A k \in Hnodes : p = H!NextOf(k) => k # n /\ B[k] # NULL /\ S[B[k]] = k
  BY <1>1 DEF H!OnChain, H!Unhashed, Leads
<1>. HIDE DEF S, B
<1>6. Exact(T, A)
  BY <1>1, <1>2, <1>5, AddedExact
<1>. HIDE DEF T, A
<1>. QED  BY <1>4, <1>6, ExactNext

LEMMA AddHeadKeeps ==
    ASSUME H!HlistAssumption, ChainInv,
           NEW n \in Hnodes, NEW h \in Heads, H!AddHead(n, h)
    PROVE  ChainInv'
<1>. DEFINE f == chain.first[h]
            b == H!Back(chain, f, H!NextOf(n))
<1>1. /\ chain \in Cells /\ f \in Hnodes \union {NULL} /\ NULL \notin Hnodes
      /\ H!NextOf(n) \in H!Places \union {NULL} /\ H!First(h) \in H!Places
      /\ \A k \in Hnodes : H!First(h) # H!NextOf(k)
      /\ f = H!Stored(chain, H!First(h)) /\ ~ H!OnChain(n)
  BY PlacesApart DEF ChainInv, Cells, H!HlistAssumption, H!Stored, H!AddHead
<1>2. chain' = [b EXCEPT !.next[n] = f, !.first[h] = n, !.pprev[n] = H!First(h)]
  BY DEF H!AddHead
<1>. HIDE DEF f
<1>3. Reset(b, chain, f, H!NextOf(n))
  BY <1>1, BackAt, Zenon
<1>. HIDE DEF b
<1>4. /\ chain' \in Cells
      /\ chain'.first = [chain.first EXCEPT ![h] = n]
      /\ chain'.next = [chain.next EXCEPT ![n] = f]
      /\ chain'.pprev = [b.pprev EXCEPT ![n] = H!First(h)]
  BY <1>1, <1>2, <1>3 DEF Cells, Reset
<1>5. \A q \in H!Places : H!Stored(chain', q) = IF q = H!NextOf(n) THEN f
                                       ELSE IF q = H!First(h) THEN n ELSE H!Stored(chain, q)
  BY <1>1, <1>4, PlacesApart DEF H!Stored, Cells
<1>6. \A k \in Hnodes : chain'.pprev[k] = IF k = n THEN H!First(h)
                                    ELSE IF k = f THEN H!NextOf(n) ELSE chain.pprev[k]
  BY <1>1, <1>3, <1>4 DEF Cells, Reset
<1>. QED  BY <1>1, <1>4, <1>5, <1>6, AddKeeps

LEMMA AddBeforeKeeps ==
    ASSUME H!HlistAssumption, ChainInv,
           NEW n \in Hnodes, NEW at \in Hnodes, H!AddBefore(n, at)
    PROVE  ChainInv'
<1>. DEFINE p == chain.pprev[at]
            c == [chain EXCEPT !.pprev[n] = p, !.next[n] = at, !.pprev[at] = H!NextOf(n)]
<1>1. /\ chain \in Cells /\ p \in H!Places /\ H!Stored(chain, p) = at
      /\ ~ H!OnChain(n) /\ n # at
      /\ chain' = H!Store(c, p, n)
  BY DEF ChainInv, Cells, H!AddBefore, H!OnChain, H!Unhashed
<1>2. \A k \in Hnodes : p = H!NextOf(k) => k # n /\ H!OnChain(k)
  <2>1. \A k \in Hnodes : p = H!NextOf(k) => chain.next[k] = at
    BY <1>1, PlacesApart DEF H!Stored
  <2>2. \A k \in Hnodes : ~ H!OnChain(k) => chain.next[k] = NULL
    BY DEF ChainInv, H!PprevExact
  <2>. QED  BY <1>1, <2>1, <2>2 DEF H!HlistAssumption
<1>. HIDE DEF p
<1>3. /\ c \in Cells /\ c.first = chain.first
      /\ c.next = [chain.next EXCEPT ![n] = at]
      /\ c.pprev = [chain.pprev EXCEPT ![n] = p, ![at] = H!NextOf(n)]
  BY <1>1, PlacesApart DEF Cells
<1>. HIDE DEF c
<1>4. /\ chain' \in Cells /\ chain'.pprev = c.pprev
      /\ \A q \in H!Places : H!Stored(chain', q) = IF q = p THEN n ELSE H!Stored(c, q)
  <2>1. c \in Cells /\ p \in H!Places /\ n \in Hnodes \union {NULL}
    BY <1>1, <1>3
  <2>2. Wrote(H!Store(c, p, n), c, p, n)
    BY <2>1, StoreAt, Zenon
  <2>. QED  BY <1>1, <2>2 DEF Wrote
<1>5. \A q \in H!Places : H!Stored(c, q) = IF q = H!NextOf(n) THEN at
                                           ELSE H!Stored(chain, q)
  BY <1>1, <1>3, PlacesApart DEF H!Stored, Cells
<1>6. \A q \in H!Places : H!Stored(chain', q) = IF q = H!NextOf(n) THEN H!Stored(chain, p)
                                              ELSE IF q = p THEN n ELSE H!Stored(chain, q)
  BY <1>1, <1>2, <1>4, <1>5
<1>7. \A k \in Hnodes : chain'.pprev[k] = IF k = n THEN p
                     ELSE IF k = H!Stored(chain, p) THEN H!NextOf(n) ELSE chain.pprev[k]
  BY <1>1, <1>3, <1>4 DEF Cells
<1>. QED  BY <1>1, <1>2, <1>4, <1>6, <1>7, AddKeeps

LEMMA AddAfterKeeps ==
    ASSUME H!HlistAssumption, ChainInv,
           NEW n \in Hnodes, NEW new \in Hnodes, H!AddAfter(n, new)
    PROVE  ChainInv'
<1>. DEFINE m == chain.next[n]
            c == [chain EXCEPT !.next[new] = m, !.next[n] = new, !.pprev[new] = H!NextOf(n)]
<1>1. /\ chain \in Cells /\ m \in Hnodes \union {NULL} /\ m = H!Stored(chain, H!NextOf(n))
      /\ H!OnChain(n) /\ ~ H!OnChain(new) /\ n # new /\ NULL \notin Hnodes
      /\ chain' = H!Back(c, m, H!NextOf(new))
      /\ H!NextOf(new) \in H!Places \union {NULL} /\ H!NextOf(n) \in H!Places
      /\ \A k \in Hnodes : H!NextOf(n) = H!NextOf(k) => k = n
  BY PlacesApart DEF ChainInv, Cells, H!AddAfter, H!Stored, H!HlistAssumption
<1>2. m # new
  BY <1>1 DEF ChainInv, H!PprevExact, H!OnChain, H!Unhashed, H!HlistAssumption
<1>. HIDE DEF m
<1>3. /\ c \in Cells /\ c.first = chain.first
      /\ c.next = [chain.next EXCEPT ![new] = m, ![n] = new]
      /\ c.pprev = [chain.pprev EXCEPT ![new] = H!NextOf(n)]
  BY <1>1, PlacesApart DEF Cells
<1>. HIDE DEF c
<1>4. /\ chain' \in Cells
      /\ \A q \in H!Places : H!Stored(chain', q) = H!Stored(c, q)
      /\ \A k \in Hnodes : chain'.pprev[k] = IF k = m THEN H!NextOf(new)
                                             ELSE c.pprev[k]
  <2>1. /\ c \in Cells /\ H!NextOf(new) \in H!Places \union {NULL}
        /\ m \in Hnodes \union {NULL} /\ NULL \notin Hnodes
    BY <1>1, <1>3
  <2>2. Reset(H!Back(c, m, H!NextOf(new)), c, m, H!NextOf(new))
    BY <2>1, BackAt, Zenon
  <2>. QED  BY <1>1, <2>2 DEF Reset
<1>5. \A q \in H!Places : H!Stored(c, q) = IF q = H!NextOf(new) THEN m
                                    ELSE IF q = H!NextOf(n) THEN new ELSE H!Stored(chain, q)
  BY <1>1, <1>3, PlacesApart DEF H!Stored, Cells
<1>6. \A q \in H!Places : H!Stored(chain', q) =
           IF q = H!NextOf(new) THEN H!Stored(chain, H!NextOf(n))
           ELSE IF q = H!NextOf(n) THEN new ELSE H!Stored(chain, q)
  BY <1>1, <1>4, <1>5
<1>7. \A k \in Hnodes : chain'.pprev[k] = IF k = new THEN H!NextOf(n)
                               ELSE IF k = H!Stored(chain, H!NextOf(n)) THEN H!NextOf(new)
                               ELSE chain.pprev[k]
  BY <1>1, <1>2, <1>3, <1>4 DEF Cells
<1>. QED  BY <1>1, <1>4, <1>6, <1>7, AddKeeps

LEMMA AddFakeKeeps ==
    ASSUME H!HlistAssumption, ChainInv, NEW n \in Hnodes, H!AddFake(n)
    PROVE  ChainInv'
<1>. DEFINE S == Leads(chain)
            B == chain.pprev
            A == [B EXCEPT ![n] = H!NextOf(n)]
<1>1. /\ chain \in Cells /\ ~ H!OnChain(n) /\ H!NextOf(n) \in H!Places
      /\ Exact(S, B) /\ B \in [Hnodes -> H!Places \union {NULL}]
  BY ExactMeans, PlacesApart DEF ChainInv, H!AddFake, H!HlistAssumption
<1>2. chain' \in Cells /\ chain'.pprev = A /\ UNCHANGED <<chain.first, chain.next>>
  BY <1>1 DEF H!AddFake, Cells
<1>3. \A q \in H!Places : H!Stored(chain', q) = S[q]
  BY <1>2, PlacesApart DEF H!Stored, Leads
<1>4. ~ (B[n] # NULL /\ S[B[n]] = n)
  BY <1>1 DEF H!OnChain, H!Unhashed, Leads
<1>. HIDE DEF S, B
<1>5. Exact(S, A)
  BY <1>1, <1>4 DEF Exact, H!HlistAssumption
<1>. HIDE DEF A
<1>. QED  BY <1>2, <1>3, <1>5, ExactNext

\* The first node learns that its place is the new head's.
LEMMA MovedExact ==
    ASSUME H!HlistAssumption, NEW S \in [H!Places -> Hnodes \union {NULL}],
           NEW B \in [Hnodes -> H!Places \union {NULL}], Exact(S, B),
           NEW old \in Heads, NEW new \in Heads, old # new, S[H!First(new)] = NULL
    PROVE  Exact([q \in H!Places |-> IF q = H!First(old) THEN NULL
                                 ELSE IF q = H!First(new) THEN S[H!First(old)] ELSE S[q]],
                 [k \in Hnodes |-> IF k = S[H!First(old)] THEN H!First(new) ELSE B[k]])
<1>. DEFINE f == S[H!First(old)]
            T == [q \in H!Places |-> IF q = H!First(old) THEN NULL
                                     ELSE IF q = H!First(new) THEN f ELSE S[q]]
            A == [k \in Hnodes |-> IF k = f THEN H!First(new) ELSE B[k]]
<1>1. /\ H!First(old) \in H!Places /\ H!First(new) \in H!Places /\ H!First(old) # H!First(new)
      /\ f \in Hnodes \union {NULL} /\ NULL \notin Hnodes /\ NULL \notin H!Places
      /\ f # NULL => B[f] = H!First(old)
      /\ \A k \in Hnodes : H!NextOf(k) # H!First(new) /\ H!NextOf(k) # H!First(old)
              /\ H!NextOf(k) \in H!Places
  BY PlacesApart DEF H!HlistAssumption, Exact
<1>2. \A k \in Hnodes : k # f => B[k] # H!First(old) /\ B[k] # H!First(new)
  BY <1>1 DEF Exact
<1>3. ASSUME NEW k \in Hnodes
      PROVE  \/ A[k] # NULL /\ T[A[k]] = k
             \/ T[H!NextOf(k)] = NULL /\ A[k] \in {NULL, H!NextOf(k)}
  BY <1>1, <1>2, <1>3 DEF Exact
<1>4. ASSUME NEW q \in H!Places, T[q] # NULL PROVE A[T[q]] = q
  BY <1>1, <1>2, <1>4 DEF Exact
<1>. QED  BY <1>3, <1>4 DEF Exact

LEMMA MoveListKeeps ==
    ASSUME H!HlistAssumption, ChainInv,
           NEW old \in Heads, NEW new \in Heads, H!MoveList(old, new)
    PROVE  ChainInv'
<1>. DEFINE f == chain.first[old]
            b == H!Back(chain, f, H!First(new))
            S == Leads(chain)
            B == chain.pprev
            T == [q \in H!Places |-> IF q = H!First(old) THEN NULL
                                     ELSE IF q = H!First(new) THEN f ELSE S[q]]
            A == [k \in Hnodes |-> IF k = f THEN H!First(new) ELSE B[k]]
<1>1. /\ chain \in Cells /\ f \in Hnodes \union {NULL} /\ NULL \notin Hnodes
      /\ H!First(new) \in H!Places \union {NULL} /\ H!First(old) \in H!Places
      /\ H!First(new) # H!First(old)
      /\ f = S[H!First(old)] /\ S[H!First(new)] = NULL
      /\ \A k \in Hnodes : H!NextOf(k) # H!First(new) /\ H!NextOf(k) # H!First(old)
              /\ H!NextOf(k) \in H!Places
      /\ chain' = [b EXCEPT !.first[new] = f, !.first[old] = NULL]
  BY PlacesApart DEF ChainInv, Cells, H!HlistAssumption, H!Stored, H!MoveList, Leads
<1>2. /\ Exact(S, B) /\ S \in [H!Places -> Hnodes \union {NULL}]
      /\ B \in [Hnodes -> H!Places \union {NULL}]
  BY ExactMeans DEF ChainInv, H!HlistAssumption
<1>. HIDE DEF f
<1>3. Reset(b, chain, f, H!First(new))
  <2>1. /\ chain \in Cells /\ H!First(new) \in H!Places \union {NULL}
        /\ f \in Hnodes \union {NULL} /\ NULL \notin Hnodes
    BY <1>1
  <2>. QED  BY <2>1, BackAt, Zenon
<1>. HIDE DEF b
<1>4. /\ chain' \in Cells /\ chain'.pprev = b.pprev /\ chain'.next = chain.next
      /\ chain'.first = [chain.first EXCEPT ![new] = f, ![old] = NULL]
  BY <1>1, <1>3 DEF Cells, Reset
<1>5. \A q \in H!Places : H!Stored(chain', q) = T[q]
  <2>0. /\ chain.first \in [Heads -> Hnodes \union {NULL}]
        /\ f = S[H!First(old)] /\ H!First(new) # H!First(old)
        /\ chain'.next = chain.next
        /\ chain'.first = [chain.first EXCEPT ![new] = f, ![old] = NULL]
    BY <1>1, <1>4 DEF Cells
  <2>1. ASSUME NEW q \in H!Places, q[1] = "first" PROVE H!Stored(chain', q) = T[q]
    BY <2>0, <2>1, PlacesApart DEF H!Stored, Leads
  <2>2. ASSUME NEW q \in H!Places, q[1] = "next" PROVE H!Stored(chain', q) = T[q]
    BY <2>0, <2>2, PlacesApart DEF H!Stored, Leads
  <2>. QED  BY <2>1, <2>2, PlacesApart
<1>6. \A k \in Hnodes : chain'.pprev[k] = A[k]
  BY <1>3, <1>4 DEF Reset
<1>. HIDE DEF S, B
<1>7. Exact(T, A)
  BY <1>1, <1>2, MovedExact DEF H!MoveList
<1>. HIDE DEF T, A
<1>. QED  BY <1>4, <1>5, <1>6, <1>7, ExactNext

\* Whatever calls are made in whatever order, the pprev of every node on a
\* chain is the very place that leads to it (mglist.c:266-366).
THEOREM PprevHolds == ASSUME H!HlistAssumption PROVE H!Spec => []H!PprevExact
<1>1. H!Init => ChainInv
  <2>. SUFFICES ASSUME H!Init PROVE ChainInv
    OBVIOUS
  <2>1. chain \in Cells /\ \A p \in H!Places : H!Stored(chain, p) = NULL
    BY PlacesApart DEF H!Init, Cells, H!Stored
  <2>. QED  BY <2>1 DEF ChainInv, H!PprevExact, H!Init, H!Unhashed
<1>2. ChainInv /\ [H!Next]_chain => ChainInv'
  <2>. SUFFICES ASSUME ChainInv, [H!Next]_chain PROVE ChainInv'
    OBVIOUS
  <2>1. CASE UNCHANGED chain
    BY <2>1 DEF ChainInv, H!PprevExact, H!OnChain, H!Unhashed, H!Stored
  <2>2. ASSUME NEW n \in Hnodes, H!Del(n) \/ H!DelInit(n) PROVE ChainInv'
    BY <2>1, <2>2, DelKeeps DEF H!Del, H!DelInit
  <2>. QED
    BY <2>1, <2>2, AddHeadKeeps, AddBeforeKeeps, AddAfterKeeps, AddFakeKeeps,
       MoveListKeeps
    DEF H!Next
<1>3. ChainInv => H!PprevExact
  BY DEF ChainInv
<1>. QED  BY <1>1, <1>2, <1>3, PTL DEF H!Spec

-------------------------------------------------------------------------------
(* The hash table.                                                            *)

Cell == [key : Key, data : Datum \union {None, Lost}]

\* Every node of the line is one of a key that the line is looked up for.
Fits(s, l) == /\ s \in Seq(Cell)
              /\ \A x \in 1 .. Len(s) : Tab!Same(l, s[x].key)
              /\ \A x \in 1 .. Len(s) : \A m \in 0 .. l - 1 : ~ Tab!Same(m, s[x].key)

FaultFromFailure == memory = "had" \/ MayFail

TableInv == /\ lines \in [Tab!Line -> Seq(Cell)] /\ table \in BOOLEAN
            /\ \A l \in Tab!Line : Fits(lines[l], l)
            /\ ~table => \A l \in Tab!Line : lines[l] = << >>
            /\ FaultFromFailure

LEMMA AppendFits ==
    ASSUME NEW l, NEW s, Fits(s, l), NEW c \in Cell,
           Tab!Same(l, c.key), \A m \in 0 .. l - 1 : ~ Tab!Same(m, c.key)
    PROVE  Fits(Append(s, c), l)
<1>1. s \in Seq(Cell) /\ Len(s) \in Nat
  BY DEF Fits
<1>2. /\ Append(s, c) \in Seq(Cell) /\ Len(Append(s, c)) = Len(s) + 1
      /\ Append(s, c)[Len(s) + 1] = c
      /\ \A x \in 1 .. Len(s) : Append(s, c)[x] = s[x]
  BY <1>1, AppendProperties
<1>3. \A x \in 1 .. Len(Append(s, c)) : x \in 1 .. Len(s) \/ x = Len(s) + 1
  BY <1>1, <1>2
<1>. QED  BY <1>2, <1>3 DEF Fits

LEMMA RemovedAt ==
    ASSUME NEW s \in Seq(Cell), NEW p \in 1 .. Len(s)
    PROVE  /\ Tab!RemoveAt(s, p) \in Seq(Cell) /\ Len(Tab!RemoveAt(s, p)) = Len(s) - 1
           /\ \A x \in 1 .. Len(s) - 1 :
                 Tab!RemoveAt(s, p)[x] = IF x < p THEN s[x] ELSE s[x + 1]
<1> DEFINE u == SubSeq(s, 1, p - 1)
           v == SubSeq(s, p + 1, Len(s))
           r == Tab!RemoveAt(s, p)
<1>1. Len(s) \in Nat /\ p \in Int /\ r = u \o v
  BY DEF Tab!RemoveAt
<1>2. u \in Seq(Cell) /\ Len(u) = p - 1 /\ \A x \in 1 .. p - 1 : u[x] = s[x]
  <2>1. /\ 1 \in Int /\ p - 1 \in Int /\ Len(s) \in Int /\ p - 1 < Len(s)
        /\ \A x \in 1 .. p - 1 : s[x] \in Cell
    BY <1>1
  <2>. QED  BY <2>1, SubSeqProperties
<1>3. v \in Seq(Cell) /\ Len(v) = Len(s) - p /\ \A x \in 1 .. Len(s) - p : v[x] = s[x + p]
  <2>1. /\ p + 1 \in Int /\ Len(s) \in Int /\ p <= Len(s)
        /\ \A x \in p + 1 .. Len(s) : s[x] \in Cell
    BY <1>1
  <2>2. \A x \in 1 .. Len(s) - p : (p + 1) + x - 1 = x + p
    BY <2>1
  <2>. QED  BY <2>1, <2>2, SubSeqProperties
<1>. HIDE DEF u, v
<1>4. /\ u \o v \in Seq(Cell) /\ Len(u \o v) = Len(u) + Len(v)
      /\ \A x \in 1 .. Len(u) + Len(v) :
            (u \o v)[x] = IF x <= Len(u) THEN u[x] ELSE v[x - Len(u)]
  BY <1>2, <1>3, ConcatProperties
<1>. HIDE DEF r
<1>5. r \in Seq(Cell) /\ Len(r) = Len(s) - 1
  BY <1>1, <1>2, <1>3, <1>4
<1>6. \A x \in 1 .. Len(s) - 1 : r[x] = IF x < p THEN s[x] ELSE s[x + 1]
  <2>. SUFFICES ASSUME NEW x \in 1 .. Len(s) - 1
                PROVE  r[x] = IF x < p THEN s[x] ELSE s[x + 1]
    OBVIOUS
  <2>1. r[x] = IF x <= p - 1 THEN u[x] ELSE v[x - (p - 1)]
    BY <1>1, <1>2, <1>3, <1>4
  <2>2. CASE x < p
    <3>1. x <= p - 1 /\ x \in 1 .. p - 1
      BY <1>1, <2>2
    <3>. QED  BY <1>2, <2>1, <2>2, <3>1
  <2>3. CASE ~ (x < p)
    <3>1. ~ (x <= p - 1) /\ x - (p - 1) \in 1 .. Len(s) - p /\ (x - (p - 1)) + p = x + 1
      BY <1>1, <2>3
    <3>. QED  BY <1>3, <2>1, <2>3, <3>1
  <2>. QED  BY <2>2, <2>3
<1>. QED  BY <1>5, <1>6 DEF r

LEMMA RemoveFits ==
    ASSUME NEW l, NEW s, Fits(s, l), NEW p \in 1 .. Len(s)
    PROVE  Fits(Tab!RemoveAt(s, p), l)
<1> DEFINE r == Tab!RemoveAt(s, p)
<1>1. s \in Seq(Cell) /\ Len(s) \in Nat
  BY DEF Fits
<1>2. /\ r \in Seq(Cell) /\ Len(r) = Len(s) - 1
      /\ \A x \in 1 .. Len(s) - 1 : r[x] = IF x < p THEN s[x] ELSE s[x + 1]
  BY <1>1, RemovedAt
<1>. HIDE DEF r
<1>3. \A x \in 1 .. Len(r) : \E y \in 1 .. Len(s) : r[x] = s[y]
  <2>. TAKE x \in 1 .. Len(r)
  <2>1. x \in 1 .. Len(s) /\ x + 1 \in 1 .. Len(s) /\ x \in 1 .. Len(s) - 1
    BY <1>1, <1>2
  <2>. QED  BY <1>2, <2>1
<1>. QED  BY <1>2, <1>3 DEF Fits, r

LEMMA ReplaceFits ==
    ASSUME NEW l, NEW s, Fits(s, l), NEW p \in 1 .. Len(s), NEW d \in Datum \union {Lost}
    PROVE  Fits([s EXCEPT ![p].data = d], l)
<1> DEFINE r == [s EXCEPT ![p].data = d]
<1>1. s \in Seq(Cell) /\ Len(s) \in Nat
  BY DEF Fits
<1>2. s[p] \in Cell
  BY <1>1
<1>3. [s[p] EXCEPT !.data = d] \in Cell /\ [s[p] EXCEPT !.data = d].key = s[p].key
  BY <1>2 DEF Cell
<1>4. /\ r \in Seq(Cell) /\ Len(r) = Len(s)
      /\ r[p] = [s[p] EXCEPT !.data = d] /\ \A x \in 1 .. Len(s) : x # p => r[x] = s[x]
  BY <1>1, <1>3
<1>5. \A x \in 1 .. Len(s) : r[x].key = s[x].key
  BY <1>3, <1>4
<1>. HIDE DEF r
<1>6. Fits(r, l)
  BY <1>4, <1>5 DEF Fits
<1>. QED  BY <1>6 DEF r

LEMMA OneLine ==
    ASSUME NEW k, NEW l \in Tab!GetLine(k), N \in Nat
    PROVE  /\ Tab!GetLine(k) = {l} /\ l \in Tab!Line /\ table
           /\ Tab!Same(l, k) /\ \A m \in 0 .. l - 1 : ~ Tab!Same(m, k)
BY DEF Tab!GetLine, Tab!Line

LEMMA NodeThere ==
    ASSUME N \in Nat, TableInv, NEW k, NEW p \in Tab!GetNode(k)
    PROVE  /\ p[1] \in Tab!Line /\ p[2] \in 1 .. Len(lines[p[1]]) /\ table
           /\ p[1] \in Tab!GetLine(k)
<1>1. p[1] \in Tab!Line /\ table /\ p[1] \in Tab!GetLine(k) /\ p[2] \in DOMAIN lines[p[1]]
  BY DEF Tab!GetNode, Tab!GetLine
<1>2. lines[p[1]] \in Seq(Cell)
  BY <1>1 DEF TableInv
<1>. QED  BY <1>1, <1>2

LEMMA AddedKeeps ==
    ASSUME N \in Nat, TableInv, NEW k \in Key, NEW d \in Datum \union {None}, NEW c,
           Tab!Added(c, k, d), UNCHANGED <<table, memory>>
    PROVE  TableInv'
<1>1. CASE UNCHANGED lines
  BY <1>1 DEF TableInv, FaultFromFailure
<1>2. CASE \E l \in Tab!GetLine(k) : Tab!Append1(l, k, d)
  <2>1. PICK l \in Tab!GetLine(k) :
            lines' = [lines EXCEPT ![l] = Append(@, [key |-> k, data |-> d])]
    BY <1>2 DEF Tab!Append1
  <2>2. /\ l \in Tab!Line /\ table /\ Tab!Same(l, k)
        /\ \A m \in 0 .. l - 1 : ~ Tab!Same(m, k)
    BY OneLine
  <2>3. [key |-> k, data |-> d] \in Cell
    BY DEF Cell
  <2>4. Fits(Append(lines[l], [key |-> k, data |-> d]), l)
    BY <2>2, <2>3, AppendFits DEF TableInv
  <2>5. /\ lines' \in [Tab!Line -> Seq(Cell)]
        /\ \A m \in Tab!Line : Fits(lines'[m], m)
    BY <2>1, <2>2, <2>4 DEF TableInv, Fits
  <2>6. FaultFromFailure'
    BY DEF TableInv, FaultFromFailure
  <2>. QED  BY <2>2, <2>5, <2>6 DEF TableInv
<1>. QED  BY <1>1, <1>2 DEF Tab!Added

LEMMA Started == ASSUME Tab!Init PROVE TableInv
<1>1. /\ lines = [l \in Tab!Line |-> << >>]
      /\ table \in BOOLEAN /\ FaultFromFailure
  BY DEF Tab!Init, FaultFromFailure
<1>2. << >> \in Seq(Cell) /\ Len(<< >>) = 0
  OBVIOUS
<1>. QED  BY <1>1, <1>2 DEF TableInv, Fits

LEMMA CrashKeeps == ASSUME TableInv, MayFail, Tab!Crash PROVE TableInv'
BY DEF Tab!Crash, TableInv, FaultFromFailure

LEMMA TableStep == ASSUME N \in Nat, TableInv, [Tab!Next]_(Tab!vars) PROVE TableInv'
<1>1. ASSUME NEW k \in Key, NEW d \in Datum \union {None}, Tab!AddNode(k, d) PROVE TableInv'
  BY <1>1, AddedKeeps, CrashKeeps DEF Tab!AddNode, Tab!CopyFails
<1>2. ASSUME NEW k \in Key, NEW d \in Datum \union {None}, Tab!PutData(k, d) PROVE TableInv'
  <2>1. CASE Tab!CopyFails(k)
    BY <2>1, CrashKeeps DEF Tab!CopyFails
  <2>2. CASE Tab!Added("put", k, d) /\ UNCHANGED <<table, memory>>
    BY <2>2, AddedKeeps
  <2>3. CASE /\ \E p \in Tab!GetNode(k) : Tab!ReplaceData(k, p[1], p[2], d)
             /\ UNCHANGED <<table, memory>>
    <3>1. PICK p \in Tab!GetNode(k) : Tab!ReplaceData(k, p[1], p[2], d)
      BY <2>3
    <3>2. p[1] \in Tab!Line /\ p[2] \in 1 .. Len(lines[p[1]]) /\ table
      BY NodeThere
    <3>3. CASE UNCHANGED lines
      BY <2>3, <3>3 DEF TableInv, FaultFromFailure
    <3>4. ASSUME NEW v \in Datum \union {Lost}, lines' = [lines EXCEPT ![p[1]][p[2]].data = v]
          PROVE  TableInv'
      <4>1. Fits([lines[p[1]] EXCEPT ![p[2]].data = v], p[1])
        BY <3>2, ReplaceFits DEF TableInv
      <4>2. lines' = [lines EXCEPT ![p[1]] = [lines[p[1]] EXCEPT ![p[2]].data = v]]
        BY <3>4
      <4>3. /\ lines' \in [Tab!Line -> Seq(Cell)]
            /\ \A m \in Tab!Line : Fits(lines'[m], m)
        <5>1. lines \in [Tab!Line -> Seq(Cell)] /\ \A m \in Tab!Line : Fits(lines[m], m)
          BY DEF TableInv
        <5>2. [lines[p[1]] EXCEPT ![p[2]].data = v] \in Seq(Cell)
          BY <4>1 DEF Fits
        <5>3. lines' \in [Tab!Line -> Seq(Cell)]
          BY <3>2, <4>2, <5>1, <5>2
        <5>4. lines'[p[1]] = [lines[p[1]] EXCEPT ![p[2]].data = v]
              /\ \A m \in Tab!Line : m # p[1] => lines'[m] = lines[m]
          BY <3>2, <4>2, <5>1
        <5>. QED  BY <4>1, <5>1, <5>3, <5>4
      <4>4. FaultFromFailure'
        BY <2>3 DEF TableInv, FaultFromFailure
      <4>. QED  BY <2>3, <3>2, <4>3, <4>4 DEF TableInv
    <3>. QED  BY <3>1, <3>3, <3>4 DEF Tab!ReplaceData
  <2>. QED  BY <1>2, <2>1, <2>2, <2>3 DEF Tab!PutData
<1>3. ASSUME NEW k \in Key, Tab!RemoveNode(k) PROVE TableInv'
  <2>0. UNCHANGED table /\ FaultFromFailure'
    BY <1>3 DEF Tab!RemoveNode, TableInv, FaultFromFailure
  <2>1. CASE Tab!GetNode(k) = {}
    <3>1. lines' = [l \in Tab!Line |-> lines[l]] /\ table' = table
      BY <1>3, <2>1 DEF Tab!RemoveNode
    <3>2. lines' = lines
      BY <3>1 DEF TableInv
    <3>. QED  BY <2>0, <3>2 DEF TableInv
  <2>2. CASE Tab!GetNode(k) # {}
    <3> DEFINE p == CHOOSE p \in Tab!GetNode(k) : TRUE
    <3>1. p \in Tab!GetNode(k)
      BY <2>2
    <3>. HIDE DEF p
    <3>2. /\ p[1] \in Tab!Line /\ p[2] \in 1 .. Len(lines[p[1]]) /\ table
          /\ Tab!GetLine(k) = {p[1]}
      BY <3>1, NodeThere, OneLine
    <3>3. \A q \in Tab!GetNode(k) : q[1] = p[1]
      BY <3>2, NodeThere
    <3>4. lines' = [lines EXCEPT ![p[1]] = Tab!RemoveAt(lines[p[1]], p[2])] /\ table' = table
      <4>1. lines' = [l \in Tab!Line |-> IF l = p[1] THEN Tab!RemoveAt(lines[l], p[2])
                                         ELSE lines[l]]
        BY <1>3, <3>1, <3>3 DEF Tab!RemoveNode, p
      <4>. QED  BY <1>3, <3>2, <4>1 DEF TableInv, Tab!RemoveNode
    <3>5. Fits(Tab!RemoveAt(lines[p[1]], p[2]), p[1])
      BY <3>2, RemoveFits DEF TableInv
    <3>6. /\ lines' \in [Tab!Line -> Seq(Cell)]
          /\ \A m \in Tab!Line : Fits(lines'[m], m)
      BY <3>2, <3>4, <3>5 DEF TableInv, Fits
    <3>. QED  BY <2>0, <3>2, <3>6 DEF TableInv
  <2>. QED  BY <2>1, <2>2
<1>4. CASE Tab!Finish
  <2>1. table' = FALSE /\ lines' = [l \in Tab!Line |-> << >>]
    BY <1>4 DEF Tab!Finish
  <2>0. FaultFromFailure'
    BY <1>4 DEF Tab!Finish, TableInv, FaultFromFailure
  <2>2. \A l \in Tab!Line : Fits(<< >>, l)
    BY DEF Fits
  <2>3. << >> \in Seq(Cell)
    OBVIOUS
  <2>. QED  BY <2>0, <2>1, <2>2, <2>3 DEF TableInv
<1>5. CASE UNCHANGED <<lines, table, memory>>
  BY <1>5 DEF TableInv, FaultFromFailure
<1>6. CASE Tab!LinesMissing /\ Tab!Crash
  <2>1. MayFail
    BY <1>6 DEF Tab!LinesMissing, TableInv, FaultFromFailure
  <2>. QED  BY <1>6, <2>1, CrashKeeps
<1>. QED  BY <1>1, <1>2, <1>3, <1>4, <1>5, <1>6 DEF Tab!Next, Tab!Calls, Tab!GetData, Tab!vars

\* Whatever was added, put, lost and removed, a node stands on the line its key
\* is looked up on, the only one where it will be found again
\* (mghashtable.c:230-264).
THEOREM TableHolds == ASSUME Tab!TableAssumption PROVE Tab!Spec => []Tab!OnItsLine
<1>1. N \in Nat
  BY DEF Tab!TableAssumption
<1>2. Tab!Init => TableInv
  BY Started
<1>3. TableInv => Tab!OnItsLine
  <2>. SUFFICES ASSUME TableInv, NEW l \in Tab!Line, NEW x \in 1 .. Len(lines[l])
                PROVE  Tab!GetLine(lines[l][x].key) = {l}
    BY DEF Tab!OnItsLine
  <2>1. table /\ Fits(lines[l], l)
    BY DEF TableInv
  <2>2. l \in Tab!GetLine(lines[l][x].key)
    BY <2>1 DEF Fits, Tab!GetLine
  <2>. QED  BY <1>1, <2>2, OneLine
<1>. QED  BY <1>1, <1>2, <1>3, TableStep, PTL DEF Tab!Spec

-----------------------------------------------------------------------------
(* The values of a key.                                                      *)

\* f lists S, from the first place to the last.
Enumerates(f, n, S) == /\ n \in Nat /\ f \in [1 .. n -> S]
                       /\ \A p \in S : \E x \in 1 .. n : f[x] = p
                       /\ \A x, y \in 1 .. n : x < y => Tab!Before(f[x], f[y])

LEMMA ListedNth ==
    ASSUME NEW S, \A p \in S : p[1] \in Int /\ p[2] \in Int, NEW n, NEW f, Enumerates(f, n, S)
    PROVE  /\ Tab!Cardinality(S) = n
           /\ \A x \in 1 .. n : Tab!Nth(S, x) = f[x]
<1>1. n \in Nat /\ f \in [1 .. n -> S] /\ \A p \in S : \E x \in 1 .. n : f[x] = p
  BY DEF Enumerates
<1>2. \A p, q \in S : ~ (Tab!Before(p, q) /\ Tab!Before(q, p)) /\ ~ Tab!Before(p, p)
  BY DEF Tab!Before
<1>3. \A x, y \in 1 .. n : Tab!Before(f[x], f[y]) <=> x < y
  <2>. SUFFICES ASSUME NEW x \in 1 .. n, NEW y \in 1 .. n
                PROVE  Tab!Before(f[x], f[y]) <=> x < y
    OBVIOUS
  <2>1. x < y \/ x = y \/ y < x
    BY <1>1
  <2>2. f[x] \in S /\ f[y] \in S
    BY <1>1
  <2>3. x < y => Tab!Before(f[x], f[y])
    BY DEF Enumerates
  <2>4. y < x => Tab!Before(f[y], f[x])
    BY DEF Enumerates
  <2>5. x < y => ~ (y < x) /\ x # y
    BY <1>1
  <2>. QED  BY <1>2, <2>1, <2>2, <2>3, <2>4, <2>5
<1>4. \A x, y \in 1 .. n : f[x] = f[y] => x = y
  <2>. SUFFICES ASSUME NEW x \in 1 .. n, NEW y \in 1 .. n, f[x] = f[y] PROVE x = y
    OBVIOUS
  <2>1. f[x] \in S /\ ~ Tab!Before(f[x], f[x])
    BY <1>1, <1>2
  <2>2. ~ (x < y) /\ ~ (y < x)
    BY <1>3, <2>1
  <2>. QED  BY <1>1, <2>2
<1>5. \A T : Tab!Cardinality(T) = Cardinality(T)
  BY DEF Tab!Cardinality, Cardinality
<1>6. Cardinality(S) = n
  <2>1. f \in Bijection(1 .. n, S)
    BY <1>1, <1>4 DEF Bijection, Injection, Surjection, IsInjective
  <2>2. IsFiniteSet(1 .. n) /\ Cardinality(1 .. n) = n
    BY <1>1, FS_Interval
  <2>. QED  BY <2>1, <2>2, FS_Bijection DEF ExistsBijection
<1>7. \A x \in 1 .. n : Cardinality({q \in S : Tab!Before(q, f[x])}) = x - 1
  <2>. SUFFICES ASSUME NEW x \in 1 .. n
                PROVE  Cardinality({q \in S : Tab!Before(q, f[x])}) = x - 1
    OBVIOUS
  <2>. DEFINE T == {q \in S : Tab!Before(q, f[x])}
              g == [y \in 1 .. x - 1 |-> f[y]]
  <2>1. \A y \in 1 .. x - 1 : y \in 1 .. n /\ y < x
    BY <1>1
  <2>2. \A y \in 1 .. x - 1 : g[y] \in T
    BY <1>1, <1>3, <2>1
  <2>3. \A y, z \in 1 .. x - 1 : g[y] = g[z] => y = z
    BY <1>4, <2>1
  <2>4. \A q \in T : \E y \in 1 .. x - 1 : g[y] = q
    <3>. SUFFICES ASSUME NEW q \in T PROVE \E y \in 1 .. x - 1 : g[y] = q
      OBVIOUS
    <3>1. PICK y \in 1 .. n : f[y] = q
      BY <1>1
    <3>2. y < x
      BY <1>3, <3>1
    <3>3. y \in 1 .. x - 1
      BY <1>1, <3>2
    <3>. QED  BY <3>1, <3>3
  <2>. HIDE DEF T
  <2>5. g \in Bijection(1 .. x - 1, T)
    BY <2>2, <2>3, <2>4 DEF Bijection, Injection, Surjection, IsInjective
  <2>. HIDE DEF g
  <2>6. IsFiniteSet(1 .. x - 1) /\ Cardinality(1 .. x - 1) = x - 1
    <3>1. 1 \in Int /\ x - 1 \in Int /\ x - 1 >= 0
      BY <1>1
    <3>. QED  BY <3>1, FS_Interval
  <2>7. Cardinality(T) = x - 1
    BY <2>5, <2>6, FS_Bijection DEF ExistsBijection
  <2>. QED  BY <2>7 DEF T
<1>8. \A x \in 1 .. n : Tab!Nth(S, x) = f[x]
  <2>. SUFFICES ASSUME NEW x \in 1 .. n PROVE Tab!Nth(S, x) = f[x]
    OBVIOUS
  <2>. DEFINE Ranked(p) == Cardinality({q \in S : Tab!Before(q, p)}) = x - 1
  <2>1. f[x] \in S /\ Ranked(f[x])
    BY <1>1, <1>7
  <2>2. \A p \in S : Ranked(p) => p = f[x]
    <3>. SUFFICES ASSUME NEW p \in S, Ranked(p) PROVE p = f[x]
      OBVIOUS
    <3>1. PICK y \in 1 .. n : f[y] = p
      BY <1>1
    <3>2. Cardinality({q \in S : Tab!Before(q, f[y])}) = y - 1
      BY <1>7
    <3>3. y - 1 = x - 1
      BY <3>1, <3>2
    <3>4. y = x
      BY <1>1, <3>3
    <3>. QED  BY <3>1, <3>4
  <2>3. Tab!Nth(S, x) = CHOOSE p \in S : Ranked(p)
    BY <1>5 DEF Tab!Nth
  <2>. HIDE DEF Ranked
  <2>. QED  BY <2>1, <2>2, <2>3
<1>. QED  BY <1>5, <1>6, <1>8

Lined == [Tab!Line -> Seq(Cell)]

LEMMA PlaceIs ==
    ASSUME N \in Nat, NEW ls \in Lined, NEW k
    PROVE  /\ \A p \in Tab!Places(ls, k) :
                 /\ p[1] \in Tab!Line /\ p[2] \in 1 .. Len(ls[p[1]]) /\ p = <<p[1], p[2]>>
                 /\ p[1] \in Int /\ p[2] \in Int
                 /\ ls[p[1]][p[2]].key = k
           /\ \A l \in Tab!Line, x \in Int :
                 <<l, x>> \in Tab!Places(ls, k) <=> x \in 1 .. Len(ls[l]) /\ ls[l][x].key = k
<1>1. \A l \in Tab!Line : l \in Int /\ DOMAIN ls[l] = 1 .. Len(ls[l]) /\ Len(ls[l]) \in Nat
  BY DEF Lined, Tab!Line
<1>. QED  BY <1>1 DEF Tab!Places

DataAt(ls, p) == ls[p[1]][p[2]].data

LEMMA ValuesAre ==
    ASSUME N \in Nat, NEW ls \in Lined, NEW k, NEW n, NEW f, Enumerates(f, n, Tab!Places(ls, k))
    PROVE  Tab!Values(ls, k) = [x \in 1 .. n |-> DataAt(ls, f[x])]
<1>. DEFINE S == Tab!Places(ls, k)
<1>1. \A p \in S : p[1] \in Int /\ p[2] \in Int
  BY PlaceIs
<1>. HIDE DEF S
<1>2. Tab!Cardinality(S) = n /\ \A x \in 1 .. n : Tab!Nth(S, x) = f[x]
  BY <1>1, ListedNth DEF S
<1>3. Tab!Values(ls, k) = [x \in 1 .. n |-> ls[Tab!Nth(S, x)[1]][Tab!Nth(S, x)[2]].data]
  BY <1>2 DEF Tab!Values, S
<1>. QED  BY <1>2, <1>3 DEF DataAt

Known(ls, k) == \E n, f : Enumerates(f, n, Tab!Places(ls, k))

Stored == Datum \union {None, Lost}

LEMMA ValuesSequence ==
    ASSUME N \in Nat, NEW ls \in Lined, NEW k, NEW n, NEW f, Enumerates(f, n, Tab!Places(ls, k))
    PROVE  /\ Tab!Values(ls, k) \in Seq(Stored) /\ Len(Tab!Values(ls, k)) = n
           /\ \A x \in 1 .. n : Tab!Values(ls, k)[x] = DataAt(ls, f[x])
<1>1. n \in Nat /\ f \in [1 .. n -> Tab!Places(ls, k)]
  BY DEF Enumerates
<1>2. \A p \in Tab!Places(ls, k) : DataAt(ls, p) \in Stored
  <2>. SUFFICES ASSUME NEW p \in Tab!Places(ls, k) PROVE DataAt(ls, p) \in Stored
    OBVIOUS
  <2>1. p[1] \in Tab!Line /\ p[2] \in 1 .. Len(ls[p[1]])
    BY PlaceIs
  <2>2. ls[p[1]] \in Seq(Cell)
    BY <2>1 DEF Lined
  <2>3. ls[p[1]][p[2]] \in Cell
    BY <2>1, <2>2, ElementOfSeq
  <2>. QED  BY <2>3 DEF Cell, DataAt, Stored
<1>3. Tab!Values(ls, k) = [x \in 1 .. n |-> DataAt(ls, f[x])]
  BY ValuesAre
<1>4. \A x \in 1 .. n : DataAt(ls, f[x]) \in Stored
  BY <1>1, <1>2
<1>. QED  BY <1>1, <1>3, <1>4

\* Places that move without changing their order or what they hold.
LEMMA Carried ==
    ASSUME N \in Nat, NEW ls \in Lined, NEW ls2 \in Lined, NEW k, Known(ls, k),
           NEW h \in [Tab!Places(ls, k) -> Tab!Places(ls2, k)],
           \A q \in Tab!Places(ls2, k) : \E p \in Tab!Places(ls, k) : h[p] = q,
           \A p, q \in Tab!Places(ls, k) : Tab!Before(p, q) => Tab!Before(h[p], h[q]),
           \A p \in Tab!Places(ls, k) : DataAt(ls2, h[p]) = DataAt(ls, p)
    PROVE  Known(ls2, k) /\ Tab!Values(ls2, k) = Tab!Values(ls, k)
<1>. DEFINE S == Tab!Places(ls, k)
            T == Tab!Places(ls2, k)
<1>1. PICK n, f : Enumerates(f, n, S)
  BY DEF Known
<1>. DEFINE g == [x \in 1 .. n |-> h[f[x]]]
<1>2. /\ n \in Nat /\ f \in [1 .. n -> S]
      /\ \A p \in S : \E x \in 1 .. n : f[x] = p
      /\ \A x, y \in 1 .. n : x < y => Tab!Before(f[x], f[y])
  BY <1>1 DEF Enumerates
<1>. HIDE DEF S, T
<1>3. /\ h \in [S -> T]
      /\ \A q \in T : \E p \in S : h[p] = q
      /\ \A p, q \in S : Tab!Before(p, q) => Tab!Before(h[p], h[q])
      /\ \A p \in S : DataAt(ls2, h[p]) = DataAt(ls, p)
  BY DEF S, T
<1>4. g \in [1 .. n -> T]
  BY <1>2, <1>3
<1>5. \A q \in T : \E x \in 1 .. n : g[x] = q
  BY <1>1, <1>2, <1>3
<1>6. \A x, y \in 1 .. n : x < y => Tab!Before(g[x], g[y])
  BY <1>2, <1>3
<1>7. \A x \in 1 .. n : DataAt(ls2, g[x]) = DataAt(ls, f[x])
  BY <1>2, <1>3
<1>. HIDE DEF g
<1>8. Enumerates(g, n, T)
  BY <1>2, <1>4, <1>5, <1>6 DEF Enumerates
<1>9. /\ Tab!Values(ls2, k) = [x \in 1 .. n |-> DataAt(ls2, g[x])]
      /\ Tab!Values(ls, k) = [x \in 1 .. n |-> DataAt(ls, f[x])]
  BY <1>1, <1>8, ValuesAre DEF S, T
<1>. QED  BY <1>1, <1>4, <1>7, <1>8, <1>9 DEF Known, T

\* Another line, or other keys.
LEMMA SamePlaces ==
    ASSUME N \in Nat, NEW ls \in Lined, NEW ls2 \in Lined, NEW k, Known(ls, k),
           Tab!Places(ls2, k) = Tab!Places(ls, k),
           \A p \in Tab!Places(ls, k) : DataAt(ls2, p) = DataAt(ls, p)
    PROVE  Known(ls2, k) /\ Tab!Values(ls2, k) = Tab!Values(ls, k)
<1>. DEFINE S == Tab!Places(ls, k)
            h == [p \in S |-> p]
<1>1. /\ h \in [Tab!Places(ls, k) -> Tab!Places(ls2, k)]
      /\ \A q \in Tab!Places(ls2, k) : \E p \in Tab!Places(ls, k) : h[p] = q
      /\ \A p, q \in Tab!Places(ls, k) : Tab!Before(p, q) => Tab!Before(h[p], h[q])
      /\ \A p \in Tab!Places(ls, k) : DataAt(ls2, h[p]) = DataAt(ls, p)
  OBVIOUS
<1>. HIDE DEF h
<1>. QED  BY <1>1, Carried

\* A node behind the others of its line, which has all nodes of its key.
LEMMA ValuesAppended ==
    ASSUME N \in Nat, NEW ls \in Lined, NEW l \in Tab!Line, NEW c \in Cell,
           \A p \in Tab!Places(ls, c.key) : p[1] = l,
           NEW ls2 \in Lined, ls2[l] = Append(ls[l], c),
           \A m \in Tab!Line : m # l => ls2[m] = ls[m]
    PROVE  /\ Known(ls, c.key) => /\ Known(ls2, c.key)
                                  /\ Tab!Values(ls2, c.key) = Append(Tab!Values(ls, c.key), c.data)
           /\ \A k : k # c.key /\ Known(ls, k) =>
                 Known(ls2, k) /\ Tab!Values(ls2, k) = Tab!Values(ls, k)
<1>. DEFINE new == <<l, Len(ls[l]) + 1>>
<1>1. ls[l] \in Seq(Cell) /\ Len(ls[l]) \in Nat
  BY DEF Lined
<1>2. /\ Append(ls[l], c) \in Seq(Cell) /\ Len(Append(ls[l], c)) = Len(ls[l]) + 1
      /\ Append(ls[l], c)[Len(ls[l]) + 1] = c
      /\ \A x \in 1 .. Len(ls[l]) : Append(ls[l], c)[x] = ls[l][x]
  BY <1>1, AppendProperties
<1>3. /\ ls2 \in Lined /\ ls2[l] = Append(ls[l], c)
      /\ \A m \in Tab!Line : m # l => ls2[m] = ls[m]
  OBVIOUS
<1>4. \A k : /\ \A p \in Tab!Places(ls, k) : p \in Tab!Places(ls2, k) /\ DataAt(ls2, p) = DataAt(ls, p)
             /\ \A p \in Tab!Places(ls2, k) : p \in Tab!Places(ls, k) \/ (p = new /\ k = c.key)
  <2>. TAKE k
  <2>1. ASSUME NEW p \in Tab!Places(ls, k)
        PROVE  p \in Tab!Places(ls2, k) /\ DataAt(ls2, p) = DataAt(ls, p)
    <3>1. /\ p[1] \in Tab!Line /\ p[2] \in 1 .. Len(ls[p[1]]) /\ p = <<p[1], p[2]>>
          /\ p[2] \in Int /\ ls[p[1]][p[2]].key = k
      BY PlaceIs
    <3>2. p[2] \in 1 .. Len(ls2[p[1]]) /\ ls2[p[1]][p[2]] = ls[p[1]][p[2]]
      BY <1>1, <1>2, <1>3, <3>1
    <3>3. <<p[1], p[2]>> \in Tab!Places(ls2, k)
      BY <1>3, <3>1, <3>2, PlaceIs
    <3>. QED  BY <3>1, <3>2, <3>3 DEF DataAt
  <2>2. ASSUME NEW p \in Tab!Places(ls2, k)
        PROVE  p \in Tab!Places(ls, k) \/ (p = new /\ k = c.key)
    <3>1. /\ p[1] \in Tab!Line /\ p[2] \in 1 .. Len(ls2[p[1]]) /\ p = <<p[1], p[2]>>
          /\ p[2] \in Int /\ ls2[p[1]][p[2]].key = k
      BY <1>3, PlaceIs
    <3>2. CASE p[1] = l /\ p[2] = Len(ls[l]) + 1
      BY <1>2, <1>3, <3>1, <3>2
    <3>3. CASE ~ (p[1] = l /\ p[2] = Len(ls[l]) + 1)
      <4>1. p[2] \in 1 .. Len(ls[p[1]]) /\ ls2[p[1]][p[2]] = ls[p[1]][p[2]]
        BY <1>1, <1>2, <1>3, <3>1, <3>3
      <4>2. <<p[1], p[2]>> \in Tab!Places(ls, k)
        BY <3>1, <4>1, PlaceIs
      <4>. QED  BY <3>1, <4>2
    <3>. QED  BY <3>2, <3>3
  <2>. QED  BY <2>1, <2>2
<1>5. ASSUME NEW k, k # c.key, Known(ls, k)
      PROVE  Known(ls2, k) /\ Tab!Values(ls2, k) = Tab!Values(ls, k)
  <2>1. Tab!Places(ls2, k) = Tab!Places(ls, k) /\ \A p \in Tab!Places(ls, k) : DataAt(ls2, p) = DataAt(ls, p)
    <3>1. \A p : p \in Tab!Places(ls2, k) <=> p \in Tab!Places(ls, k)
      BY <1>4, <1>5
    <3>2. \A p \in Tab!Places(ls, k) : DataAt(ls2, p) = DataAt(ls, p)
      BY <1>4
    <3>. QED  BY <3>1, <3>2
  <2>. QED  BY <1>3, <1>5, <2>1, SamePlaces
<1>6. ASSUME Known(ls, c.key)
      PROVE  /\ Known(ls2, c.key)
             /\ Tab!Values(ls2, c.key) = Append(Tab!Values(ls, c.key), c.data)
  <2>. DEFINE k == c.key
              S == Tab!Places(ls, k)
              T == Tab!Places(ls2, k)
  <2>1. PICK n, f : Enumerates(f, n, S)
    BY <1>6 DEF Known
  <2>. DEFINE g == [x \in 1 .. n + 1 |-> IF x <= n THEN f[x] ELSE new]
  <2>2. /\ n \in Nat /\ f \in [1 .. n -> S]
        /\ \A p \in S : \E x \in 1 .. n : f[x] = p
        /\ \A x, y \in 1 .. n : x < y => Tab!Before(f[x], f[y])
    BY <2>1 DEF Enumerates
  <2>3. new \in T /\ DataAt(ls2, new) = c.data
    <3>1. ls2[l][Len(ls[l]) + 1] = c /\ Len(ls[l]) + 1 \in 1 .. Len(ls2[l]) /\ Len(ls[l]) + 1 \in Int
      BY <1>1, <1>2, <1>3
    <3>2. <<l, Len(ls[l]) + 1>> \in T
      BY <1>3, <3>1, PlaceIs
    <3>. QED  BY <3>1, <3>2 DEF DataAt
  <2>4. \A p \in S : Tab!Before(p, new)
    <3>. SUFFICES ASSUME NEW p \in S PROVE Tab!Before(p, new)
      OBVIOUS
    <3>1. p[1] = l /\ p[2] \in 1 .. Len(ls[l])
      BY PlaceIs
    <3>2. p[2] < Len(ls[l]) + 1
      BY <1>1, <3>1
    <3>. QED  BY <3>1, <3>2 DEF Tab!Before
  <2>5. /\ \A p \in S : p \in T /\ DataAt(ls2, p) = DataAt(ls, p)
        /\ \A p \in T : p \in S \/ p = new
    BY <1>4
  <2>. HIDE DEF S, T, new
  <2>6. g \in [1 .. n + 1 -> T]
    <3>1. \A x \in 1 .. n + 1 : g[x] \in T
      <4>. TAKE x \in 1 .. n + 1
      <4>1. x <= n => x \in 1 .. n
        BY <2>2
      <4>. QED  BY <2>2, <2>3, <2>5, <4>1
    <3>. QED  BY <3>1
  <2>7. \A q \in T : \E x \in 1 .. n + 1 : g[x] = q
    <3>. SUFFICES ASSUME NEW q \in T PROVE \E x \in 1 .. n + 1 : g[x] = q
      OBVIOUS
    <3>1. CASE q = new
      <4>1. n + 1 \in 1 .. n + 1 /\ ~ (n + 1 <= n)
        BY <2>2
      <4>2. g[n + 1] = new
        BY <4>1
      <4>. QED  BY <3>1, <4>1, <4>2
    <3>2. CASE q \in S
      <4>1. PICK x \in 1 .. n : f[x] = q
        BY <2>2, <3>2
      <4>2. x \in 1 .. n + 1 /\ x <= n
        BY <2>2
      <4>. QED  BY <4>1, <4>2
    <3>. QED  BY <2>5, <3>1, <3>2
  <2>8. \A x, y \in 1 .. n + 1 : x < y => Tab!Before(g[x], g[y])
    <3>. SUFFICES ASSUME NEW x \in 1 .. n + 1, NEW y \in 1 .. n + 1, x < y
                  PROVE  Tab!Before(g[x], g[y])
      OBVIOUS
    <3>1. x \in 1 .. n /\ g[x] = f[x] /\ f[x] \in S
      BY <2>2
    <3>2. CASE y <= n
      <4>1. y \in 1 .. n /\ g[y] = f[y]
        BY <2>2, <3>2
      <4>. QED  BY <2>2, <3>1, <4>1
    <3>3. CASE ~ (y <= n)
      BY <2>4, <3>1, <3>3
    <3>. QED  BY <3>2, <3>3
  <2>9. Enumerates(g, n + 1, T)
    <3>1. n + 1 \in Nat
      BY <2>2
    <3>. HIDE DEF g
    <3>. QED  BY <2>6, <2>7, <2>8, <3>1 DEF Enumerates
  <2>10. Known(ls2, k)
    <3>1. n + 1 \in Nat
      BY <2>2
    <3>. HIDE DEF g
    <3>. QED  BY <2>6, <2>9, <3>1 DEF Known, T
  <2>. DEFINE u == Tab!Values(ls, k)
              v == Tab!Values(ls2, k)
  <2>11. /\ u \in Seq(Stored) /\ Len(u) = n /\ \A x \in 1 .. n : u[x] = DataAt(ls, f[x])
    BY <2>1, ValuesSequence DEF S
  <2>12. /\ v \in Seq(Stored) /\ Len(v) = n + 1 /\ \A x \in 1 .. n + 1 : v[x] = DataAt(ls2, g[x])
    <3>. HIDE DEF g
    <3>. QED  BY <1>3, <2>9, ValuesSequence DEF T
  <2>13. c.data \in Stored
    BY DEF Cell, Stored
  <2>. HIDE DEF u, v
  <2>14. /\ Append(u, c.data) \in Seq(Stored) /\ Len(Append(u, c.data)) = n + 1
         /\ Append(u, c.data)[n + 1] = c.data
         /\ \A x \in 1 .. n : Append(u, c.data)[x] = u[x]
    BY <2>11, <2>13, AppendProperties
  <2>15. \A x \in 1 .. n + 1 : v[x] = Append(u, c.data)[x]
    <3>. SUFFICES ASSUME NEW x \in 1 .. n + 1 PROVE v[x] = Append(u, c.data)[x]
      OBVIOUS
    <3>1. CASE x <= n
      <4>1. x \in 1 .. n /\ g[x] = f[x] /\ f[x] \in S
        BY <2>2, <3>1
      <4>. QED  BY <2>5, <2>11, <2>12, <2>14, <4>1
    <3>2. CASE ~ (x <= n)
      <4>1. x = n + 1 /\ g[x] = new
        BY <2>2, <3>2
      <4>. QED  BY <2>3, <2>12, <2>14, <4>1
    <3>. QED  BY <3>1, <3>2
  <2>16. v = Append(u, c.data)
    BY <2>12, <2>14, <2>15, SeqEqual
  <2>. QED  BY <2>10, <2>16 DEF u, v
<1>. QED  BY <1>5, <1>6

IsFirst(p, S) == p \in S /\ \A q \in S : q = p \/ Tab!Before(p, q)

Pairs(S) == \A p \in S : p[1] \in Int /\ p[2] \in Int

StartsWith(f, n, p) == /\ n \in Nat \ {0} /\ f[1] = p
                       /\ \A x \in 1 .. n : x # 1 => f[x] # p

LEMMA FirstListed ==
    ASSUME NEW S, Pairs(S), NEW n, NEW f, Enumerates(f, n, S), NEW first, IsFirst(first, S)
    PROVE  StartsWith(f, n, first)
<1>1. /\ n \in Nat /\ f \in [1 .. n -> S]
      /\ \A p \in S : \E x \in 1 .. n : f[x] = p
      /\ \A x, y \in 1 .. n : x < y => Tab!Before(f[x], f[y])
  BY DEF Enumerates
<1>2. \A p, q \in S : ~ (Tab!Before(p, q) /\ Tab!Before(q, p)) /\ ~ Tab!Before(p, p)
  BY DEF Tab!Before, Pairs
<1>3. PICK y \in 1 .. n : f[y] = first
  BY <1>1 DEF IsFirst
<1>4. 1 \in 1 .. n
  BY <1>1, <1>3
<1>5. \A q \in S : q = first \/ Tab!Before(first, q)
  BY DEF IsFirst
<1>6. y = 1
  <2>1. 1 < y => Tab!Before(f[1], first)
    BY <1>1, <1>3, <1>4
  <2>2. f[1] \in S /\ first \in S
    BY <1>1, <1>3, <1>4
  <2>3. ~ Tab!Before(f[1], first)
    BY <1>2, <1>5, <2>2
  <2>. QED  BY <1>1, <1>3, <2>1, <2>3
<1>7. \A x \in 1 .. n : x # 1 => f[x] # first
  <2>. SUFFICES ASSUME NEW x \in 1 .. n, x # 1 PROVE f[x] # first
    OBVIOUS
  <2>1. 1 < x
    BY <1>1
  <2>2. Tab!Before(f[1], f[x]) /\ f[1] = first /\ f[x] \in S
    BY <1>1, <1>3, <1>4, <1>6, <2>1
  <2>. QED  BY <1>2, <2>2
<1>. QED  BY <1>1, <1>3, <1>4, <1>6, <1>7 DEF StartsWith

WithHead(v, d) == [v EXCEPT ![1] = d]

\* A node whose data is replaced, the first of its key.
LEMMA ValuesReplaced ==
    ASSUME N \in Nat, NEW ls \in Lined, NEW l \in Tab!Line, NEW x \in 1 .. Len(ls[l]),
           NEW k, k = ls[l][x].key, IsFirst(<<l, x>>, Tab!Places(ls, k)), NEW v \in Stored,
           NEW ls2 \in Lined, Len(ls2[l]) = Len(ls[l]), ls2[l][x].key = k, ls2[l][x].data = v,
           \A y \in 1 .. Len(ls[l]) : y # x => ls2[l][y] = ls[l][y],
           \A m \in Tab!Line : m # l => ls2[m] = ls[m]
    PROVE  /\ Known(ls, k) => /\ Known(ls2, k) /\ Tab!Values(ls, k) # << >>
                              /\ Tab!Values(ls2, k) = WithHead(Tab!Values(ls, k), v)
           /\ \A k2 : k2 # k /\ Known(ls, k2) =>
                 Known(ls2, k2) /\ Tab!Values(ls2, k2) = Tab!Values(ls, k2)
<1>1. ls[l] \in Seq(Cell) /\ Len(ls[l]) \in Nat /\ ls[l][x] \in Cell
  BY ElementOfSeq DEF Lined
<1>3. /\ Len(ls2[l]) = Len(ls[l]) /\ ls2[l][x].key = k /\ ls2[l][x].data = v
      /\ \A y \in 1 .. Len(ls[l]) : y # x => ls2[l][y] = ls[l][y]
  OBVIOUS
<1>4. \A m \in Tab!Line : /\ Len(ls2[m]) = Len(ls[m])
                          /\ \A y \in 1 .. Len(ls[m]) :
                                /\ ls2[m][y].key = ls[m][y].key
                                /\ <<m, y>> # <<l, x>> => ls2[m][y].data = ls[m][y].data
  BY <1>3
<1>5. \A k2 : /\ \A p : p \in Tab!Places(ls2, k2) <=> p \in Tab!Places(ls, k2)
              /\ \A p \in Tab!Places(ls, k2) : p # <<l, x>> => DataAt(ls2, p) = DataAt(ls, p)
  <2>. TAKE k2
  <2>1. ASSUME NEW p \in Tab!Places(ls, k2) PROVE p \in Tab!Places(ls2, k2)
    <3>1. /\ p[1] \in Tab!Line /\ p[2] \in 1 .. Len(ls[p[1]]) /\ p = <<p[1], p[2]>>
          /\ p[2] \in Int /\ ls[p[1]][p[2]].key = k2
      BY PlaceIs
    <3>2. p[2] \in 1 .. Len(ls2[p[1]]) /\ ls2[p[1]][p[2]].key = k2
      BY <1>4, <3>1
    <3>3. <<p[1], p[2]>> \in Tab!Places(ls2, k2)
      BY <3>1, <3>2, PlaceIs
    <3>. QED  BY <3>1, <3>3
  <2>2. ASSUME NEW p \in Tab!Places(ls2, k2) PROVE p \in Tab!Places(ls, k2)
    <3>1. /\ p[1] \in Tab!Line /\ p[2] \in 1 .. Len(ls2[p[1]]) /\ p = <<p[1], p[2]>>
          /\ p[2] \in Int /\ ls2[p[1]][p[2]].key = k2
      BY PlaceIs
    <3>2. p[2] \in 1 .. Len(ls[p[1]]) /\ ls[p[1]][p[2]].key = k2
      BY <1>4, <3>1
    <3>3. <<p[1], p[2]>> \in Tab!Places(ls, k2)
      BY <3>1, <3>2, PlaceIs
    <3>. QED  BY <3>1, <3>3
  <2>3. ASSUME NEW p \in Tab!Places(ls, k2), p # <<l, x>> PROVE DataAt(ls2, p) = DataAt(ls, p)
    <3>1. p[1] \in Tab!Line /\ p[2] \in 1 .. Len(ls[p[1]]) /\ p = <<p[1], p[2]>>
      BY PlaceIs
    <3>. QED  BY <1>4, <2>3, <3>1 DEF DataAt
  <2>. QED  BY <2>1, <2>2, <2>3
<1>6. ASSUME NEW k2, k2 # k, Known(ls, k2)
      PROVE  Known(ls2, k2) /\ Tab!Values(ls2, k2) = Tab!Values(ls, k2)
  <2>1. Tab!Places(ls2, k2) = Tab!Places(ls, k2)
    <3>1. \A p : p \in Tab!Places(ls2, k2) <=> p \in Tab!Places(ls, k2)
      BY <1>5
    <3>. QED  BY <3>1
  <2>2. \A p \in Tab!Places(ls, k2) : p # <<l, x>>
    <3>. SUFFICES ASSUME <<l, x>> \in Tab!Places(ls, k2) PROVE FALSE
      OBVIOUS
    <3>1. x \in Int
      OBVIOUS
    <3>2. ls[l][x].key = k2
      BY <3>1, PlaceIs
    <3>. QED  BY <1>6, <3>2
  <2>3. \A p \in Tab!Places(ls, k2) : DataAt(ls2, p) = DataAt(ls, p)
    BY <1>5, <2>2
  <2>. QED  BY <1>6, <2>1, <2>3, SamePlaces
<1>7. ASSUME Known(ls, k)
      PROVE  /\ Known(ls2, k) /\ Tab!Values(ls, k) # << >>
             /\ Tab!Values(ls2, k) = WithHead(Tab!Values(ls, k), v)
  <2>. DEFINE S == Tab!Places(ls, k)
              u == Tab!Values(ls, k)
              w == Tab!Values(ls2, k)
              first == <<l, x>>
  <2>1. PICK n, f : Enumerates(f, n, S)
    BY <1>7 DEF Known
  <2>2. Tab!Places(ls2, k) = S
    <3>1. \A p : p \in Tab!Places(ls2, k) <=> p \in S
      BY <1>5
    <3>. HIDE DEF S
    <3>. QED  BY <3>1
  <2>3. Enumerates(f, n, Tab!Places(ls2, k)) /\ Known(ls2, k)
    BY <2>1, <2>2 DEF Known
  <2>4. /\ n \in Nat \ {0} /\ f[1] = first
        /\ \A y \in 1 .. n : y # 1 => f[y] # first
    <3>1. Pairs(S)
      BY PlaceIs DEF Pairs
    <3>2. IsFirst(first, S)
      OBVIOUS
    <3>. HIDE DEF S, first
    <3>3. StartsWith(f, n, first)
      BY <2>1, <3>1, <3>2, FirstListed
    <3>. QED  BY <3>3 DEF StartsWith
  <2>5. /\ u \in Seq(Stored) /\ Len(u) = n /\ \A y \in 1 .. n : u[y] = DataAt(ls, f[y])
    BY <2>1, ValuesSequence
  <2>6. /\ w \in Seq(Stored) /\ Len(w) = n /\ \A y \in 1 .. n : w[y] = DataAt(ls2, f[y])
    BY <2>3, ValuesSequence
  <2>7. f \in [1 .. n -> S]
    BY <2>1 DEF Enumerates
  <2>8. DataAt(ls2, first) = v
    BY <1>3 DEF DataAt
  <2>9. \A p \in S : p # first => DataAt(ls2, p) = DataAt(ls, p)
    BY <1>5
  <2>. HIDE DEF S, u, w, first
  <2>10. 1 \in 1 .. Len(u)
    BY <2>4, <2>5
  <2>11. /\ [u EXCEPT ![1] = v] \in Seq(Stored) /\ Len([u EXCEPT ![1] = v]) = n
         /\ \A y \in 1 .. n : [u EXCEPT ![1] = v][y] = IF y = 1 THEN v ELSE u[y]
    BY <2>5, <2>10, ExceptSeq
  <2>12. \A y \in 1 .. n : w[y] = [u EXCEPT ![1] = v][y]
    <3>. SUFFICES ASSUME NEW y \in 1 .. n PROVE w[y] = IF y = 1 THEN v ELSE u[y]
      BY <2>11
    <3>1. f[y] \in S
      BY <2>7
    <3>2. w[y] = DataAt(ls2, f[y]) /\ u[y] = DataAt(ls, f[y])
      BY <2>5, <2>6
    <3>3. CASE y = 1
      BY <2>4, <2>8, <3>2, <3>3
    <3>4. CASE y # 1
      <4>1. f[y] # first
        BY <2>4, <3>4
      <4>2. DataAt(ls2, f[y]) = DataAt(ls, f[y])
        BY <2>9, <3>1, <4>1
      <4>. QED  BY <3>2, <3>4, <4>2
    <3>. QED  BY <3>3, <3>4
  <2>13. w = [u EXCEPT ![1] = v]
    BY <2>6, <2>11, <2>12, SeqEqual
  <2>14. u # << >>
    BY <2>4, <2>5
  <2>. QED  BY <2>3, <2>13, <2>14 DEF u, w, WithHead
<1>. QED  BY <1>6, <1>7

\* Where a node stands after the one at p is gone.
Closed(p, q) == IF q[1] = p[1] /\ q[2] > p[2] THEN <<q[1], q[2] - 1>> ELSE q

\* A node that is taken out, the first of its key.
LEMMA ValuesTaken ==
    ASSUME N \in Nat, NEW ls \in Lined, NEW l \in Tab!Line, NEW x \in 1 .. Len(ls[l]),
           NEW k, k = ls[l][x].key, IsFirst(<<l, x>>, Tab!Places(ls, k)),
           NEW ls2 \in Lined, Len(ls2[l]) = Len(ls[l]) - 1,
           \A y \in 1 .. Len(ls[l]) - 1 : ls2[l][y] = IF y < x THEN ls[l][y] ELSE ls[l][y + 1],
           \A m \in Tab!Line : m # l => ls2[m] = ls[m]
    PROVE  /\ Known(ls, k) => /\ Known(ls2, k) /\ Tab!Values(ls, k) # << >>
                              /\ Tab!Values(ls2, k) = Tail(Tab!Values(ls, k))
           /\ \A k2 : k2 # k /\ Known(ls, k2) =>
                 Known(ls2, k2) /\ Tab!Values(ls2, k2) = Tab!Values(ls, k2)
<1>. DEFINE first == <<l, x>>
            Len0 == Len(ls[l])
<1>0. Len0 \in Nat /\ x \in 1 .. Len0 /\ l \in Int
  BY DEF Lined, Tab!Line
<1>1. first[1] = l /\ first[2] = x
  OBVIOUS
<1>2. \A k2 : \A p \in Tab!Places(ls, k2) :
          /\ p[1] \in Tab!Line /\ p[2] \in 1 .. Len(ls[p[1]]) /\ p = <<p[1], p[2]>>
          /\ p[1] \in Int /\ p[2] \in Int
          /\ ls[p[1]][p[2]].key = k2
  BY PlaceIs
<1>3. \A k2 : \A p \in Tab!Places(ls, k2) : p # first =>
          Closed(first, p) \in Tab!Places(ls2, k2) /\ DataAt(ls2, Closed(first, p)) = DataAt(ls, p)
  <2>. SUFFICES ASSUME NEW k2, NEW p \in Tab!Places(ls, k2), p # first
                PROVE  /\ Closed(first, p) \in Tab!Places(ls2, k2)
                       /\ DataAt(ls2, Closed(first, p)) = DataAt(ls, p)
    OBVIOUS
  <2>. DEFINE a == p[1]
              b == p[2]
  <2>1. a \in Tab!Line /\ b \in 1 .. Len(ls[a]) /\ p = <<a, b>> /\ b \in Int /\ ls[a][b].key = k2
    BY <1>2
  <2>. HIDE DEF a, b
  <2>2. CASE a = l /\ b > x
    <3>1. Closed(first, p) = <<l, b - 1>>
      BY <1>1, <2>1, <2>2 DEF Closed, a, b
    <3>2. b - 1 \in 1 .. Len0 - 1 /\ ~ (b - 1 < x) /\ (b - 1) + 1 = b /\ b - 1 \in Int
      BY <1>0, <2>1, <2>2
    <3>3. ls2[l][b - 1] = ls[l][b]
      BY <3>2
    <3>4. b - 1 \in 1 .. Len(ls2[l])
      BY <3>2
    <3>5. <<l, b - 1>> \in Tab!Places(ls2, k2)
      BY <2>1, <2>2, <3>2, <3>3, <3>4, PlaceIs
    <3>6. DataAt(ls2, <<l, b - 1>>) = DataAt(ls, p)
      BY <2>1, <2>2, <3>3 DEF DataAt
    <3>. QED  BY <3>1, <3>5, <3>6
  <2>3. CASE ~ (a = l /\ b > x)
    <3>1. Closed(first, p) = <<a, b>>
      BY <1>1, <2>1, <2>3 DEF Closed, a, b
    <3>2. b \in 1 .. Len(ls2[a]) /\ ls2[a][b] = ls[a][b]
      <4>1. CASE a # l
        BY <2>1, <4>1
      <4>2. CASE a = l
        <5>1. b # x
          BY <2>1, <4>2
        <5>2. b \in 1 .. Len0 - 1 /\ b < x
          BY <1>0, <2>1, <2>3, <4>2, <5>1
        <5>3. ls2[l][b] = ls[l][b]
          BY <5>2
        <5>. QED  BY <4>2, <5>2, <5>3
      <4>. QED  BY <4>1, <4>2
    <3>3. <<a, b>> \in Tab!Places(ls2, k2)
      BY <2>1, <3>2, PlaceIs
    <3>4. DataAt(ls2, <<a, b>>) = DataAt(ls, p)
      BY <2>1, <3>2 DEF DataAt
    <3>. QED  BY <3>1, <3>3, <3>4
  <2>. QED  BY <2>2, <2>3
<1>4. \A k2 : \A q \in Tab!Places(ls2, k2) :
          \E p \in Tab!Places(ls, k2) : p # first /\ Closed(first, p) = q
  <2>. SUFFICES ASSUME NEW k2, NEW q \in Tab!Places(ls2, k2)
                PROVE  \E p \in Tab!Places(ls, k2) : p # first /\ Closed(first, p) = q
    OBVIOUS
  <2>. DEFINE a == q[1]
              b == q[2]
  <2>1. a \in Tab!Line /\ b \in 1 .. Len(ls2[a]) /\ q = <<a, b>> /\ b \in Int /\ ls2[a][b].key = k2
    BY PlaceIs
  <2>. HIDE DEF a, b
  <2>2. CASE a = l /\ ~ (b < x)
    <3>1. b \in 1 .. Len0 - 1 /\ b + 1 \in 1 .. Len0 /\ b + 1 \in Int /\ (b + 1) - 1 = b /\ b + 1 > x
      BY <1>0, <2>1, <2>2
    <3>2. ls2[l][b] = ls[l][b + 1]
      BY <2>2, <3>1
    <3>3. <<l, b + 1>> \in Tab!Places(ls, k2)
      BY <2>1, <2>2, <3>1, <3>2, PlaceIs
    <3>4. <<l, b + 1>> # first
      <4>1. b + 1 # x
        BY <1>0, <3>1
      <4>. QED  BY <4>1
    <3>5. Closed(first, <<l, b + 1>>) = <<l, b>>
      BY <1>1, <3>1 DEF Closed
    <3>. QED  BY <2>1, <2>2, <3>3, <3>4, <3>5
  <2>3. CASE ~ (a = l /\ ~ (b < x))
    <3>1. b \in 1 .. Len(ls[a]) /\ ls2[a][b] = ls[a][b]
      <4>1. CASE a # l
        BY <2>1, <4>1
      <4>2. CASE a = l
        <5>1. b \in 1 .. Len0 - 1 /\ b < x /\ b \in 1 .. Len0
          BY <1>0, <2>1, <2>3, <4>2
        <5>. QED  BY <4>2, <5>1
      <4>. QED  BY <4>1, <4>2
    <3>2. <<a, b>> \in Tab!Places(ls, k2)
      BY <2>1, <3>1, PlaceIs
    <3>3. a = l => b < x
      BY <2>3
    <3>4. <<a, b>> # first
      <4>1. ~ (x < x)
        BY <1>0
      <4>2. ~ (a = l /\ b = x)
        BY <3>3, <4>1
      <4>. QED  BY <4>2
    <3>5. ~ (a = l /\ b > x)
      BY <1>0, <2>1, <3>3
    <3>6. Closed(first, <<a, b>>) = <<a, b>>
      BY <1>1, <3>5 DEF Closed
    <3>. QED  BY <2>1, <3>2, <3>4, <3>6
  <2>. QED  BY <2>2, <2>3
<1>5. \A k2 : \A p, q \in Tab!Places(ls, k2) :
          p # first /\ q # first /\ Tab!Before(p, q) => Tab!Before(Closed(first, p), Closed(first, q))
  <2>. SUFFICES ASSUME NEW k2, NEW p \in Tab!Places(ls, k2), NEW q \in Tab!Places(ls, k2),
                       p # first, q # first, Tab!Before(p, q)
                PROVE  Tab!Before(Closed(first, p), Closed(first, q))
    OBVIOUS
  <2>. DEFINE a == p[1]
              b == p[2]
              c == q[1]
              d == q[2]
  <2>1. p = <<a, b>> /\ q = <<c, d>> /\ a \in Int /\ b \in Int /\ c \in Int /\ d \in Int
    BY <1>2
  <2>. HIDE DEF a, b, c, d
  <2>2. a < c \/ (a = c /\ b < d)
    BY DEF Tab!Before, a, b, c, d
  <2>3. (a = l => b # x) /\ (c = l => d # x)
    BY <2>1
  <2>4. Closed(first, p) = IF a = l /\ b > x THEN <<a, b - 1>> ELSE <<a, b>>
    BY <1>1, <2>1 DEF Closed, a, b
  <2>5. Closed(first, q) = IF c = l /\ d > x THEN <<c, d - 1>> ELSE <<c, d>>
    BY <1>1, <2>1 DEF Closed, c, d
  <2>. DEFINE e == IF a = l /\ b > x THEN b - 1 ELSE b
              g == IF c = l /\ d > x THEN d - 1 ELSE d
  <2>6. Closed(first, p) = <<a, e>> /\ Closed(first, q) = <<c, g>>
    BY <2>4, <2>5
  <2>7. a < c \/ (a = c /\ e < g)
    BY <1>0, <2>1, <2>2, <2>3
  <2>. HIDE DEF e, g, first
  <2>. QED  BY <2>6, <2>7 DEF Tab!Before
<1>6. ASSUME NEW k2, k2 # k, Known(ls, k2)
      PROVE  Known(ls2, k2) /\ Tab!Values(ls2, k2) = Tab!Values(ls, k2)
  <2>. DEFINE S == Tab!Places(ls, k2)
              T == Tab!Places(ls2, k2)
              h == [p \in S |-> Closed(first, p)]
  <2>1. \A p \in S : p # first
    <3>. SUFFICES ASSUME first \in S PROVE FALSE
      OBVIOUS
    <3>1. ls[l][x].key = k2
      BY <1>1, <1>2
    <3>. QED  BY <1>6, <3>1
  <2>2. h \in [S -> T]
    BY <1>3, <2>1
  <2>3. \A q \in T : \E p \in S : h[p] = q
    BY <1>4
  <2>4. \A p, q \in S : Tab!Before(p, q) => Tab!Before(h[p], h[q])
    BY <1>5, <2>1
  <2>5. \A p \in S : DataAt(ls2, h[p]) = DataAt(ls, p)
    BY <1>3, <2>1
  <2>. HIDE DEF h
  <2>. QED  BY <1>6, <2>2, <2>3, <2>4, <2>5, Carried
<1>7. ASSUME Known(ls, k)
      PROVE  /\ Known(ls2, k) /\ Tab!Values(ls, k) # << >>
             /\ Tab!Values(ls2, k) = Tail(Tab!Values(ls, k))
  <2>. DEFINE S == Tab!Places(ls, k)
              T == Tab!Places(ls2, k)
              u == Tab!Values(ls, k)
              w == Tab!Values(ls2, k)
  <2>1. PICK n, f : Enumerates(f, n, S)
    BY <1>7 DEF Known
  <2>. DEFINE g == [y \in 1 .. n - 1 |-> Closed(first, f[y + 1])]
  <2>2. StartsWith(f, n, first)
    <3>1. Pairs(S)
      BY <1>2 DEF Pairs
    <3>2. IsFirst(first, S)
      OBVIOUS
    <3>. HIDE DEF S, first
    <3>. QED  BY <2>1, <3>1, <3>2, FirstListed
  <2>3. /\ \A p \in S : p # first => Closed(first, p) \in T /\ DataAt(ls2, Closed(first, p)) = DataAt(ls, p)
        /\ \A q \in T : \E p \in S : p # first /\ Closed(first, p) = q
        /\ \A p, q \in S :
              p # first /\ q # first /\ Tab!Before(p, q) => Tab!Before(Closed(first, p), Closed(first, q))
    BY <1>3, <1>4, <1>5
  <2>4. /\ n \in Nat /\ n # 0 /\ f \in [1 .. n -> S]
        /\ \A p \in S : \E y \in 1 .. n : f[y] = p
        /\ \A y, z \in 1 .. n : y < z => Tab!Before(f[y], f[z])
        /\ f[1] = first /\ \A y \in 1 .. n : y # 1 => f[y] # first
    BY <2>1, <2>2 DEF Enumerates, StartsWith
  <2>. HIDE DEF S, T, first
  <2>5. \A y \in 1 .. n - 1 : y + 1 \in 1 .. n /\ y + 1 # 1 /\ f[y + 1] \in S /\ f[y + 1] # first
    <3>. TAKE y \in 1 .. n - 1
    <3>1. y + 1 \in 1 .. n /\ y + 1 # 1
      BY <2>4
    <3>. QED  BY <2>4, <3>1
  <2>6. g \in [1 .. n - 1 -> T]
    BY <2>3, <2>5
  <2>7. \A q \in T : \E y \in 1 .. n - 1 : g[y] = q
    <3>. SUFFICES ASSUME NEW q \in T PROVE \E y \in 1 .. n - 1 : g[y] = q
      OBVIOUS
    <3>1. PICK p \in S : p # first /\ Closed(first, p) = q
      BY <2>3
    <3>2. PICK z \in 1 .. n : f[z] = p
      BY <2>4
    <3>3. z # 1
      BY <2>4, <3>1, <3>2
    <3>4. z - 1 \in 1 .. n - 1 /\ (z - 1) + 1 = z
      BY <2>4, <3>3
    <3>5. g[z - 1] = q
      BY <3>1, <3>2, <3>4
    <3>. QED  BY <3>4, <3>5
  <2>8. \A y, z \in 1 .. n - 1 : y < z => Tab!Before(g[y], g[z])
    <3>. SUFFICES ASSUME NEW y \in 1 .. n - 1, NEW z \in 1 .. n - 1, y < z
                  PROVE  Tab!Before(g[y], g[z])
      OBVIOUS
    <3>1. y + 1 < z + 1
      BY <2>4
    <3>2. Tab!Before(f[y + 1], f[z + 1])
      BY <2>4, <2>5, <3>1
    <3>. QED  BY <2>3, <2>5, <3>2
  <2>9. \A y \in 1 .. n - 1 : DataAt(ls2, g[y]) = DataAt(ls, f[y + 1])
    BY <2>3, <2>5
  <2>10. n - 1 \in Nat
    BY <2>4
  <2>. HIDE DEF g
  <2>11. Enumerates(g, n - 1, T) /\ Known(ls2, k)
    BY <2>6, <2>7, <2>8, <2>10 DEF Enumerates, Known, T
  <2>12. /\ u \in Seq(Stored) /\ Len(u) = n /\ \A y \in 1 .. n : u[y] = DataAt(ls, f[y])
    BY <2>1, ValuesSequence DEF S
  <2>13. /\ w \in Seq(Stored) /\ Len(w) = n - 1 /\ \A y \in 1 .. n - 1 : w[y] = DataAt(ls2, g[y])
    BY <2>11, ValuesSequence DEF T
  <2>. HIDE DEF u, w
  <2>14. u # << >>
    BY <2>4, <2>12
  <2>15. /\ Tail(u) \in Seq(Stored) /\ Len(Tail(u)) = n - 1
         /\ \A y \in 1 .. n - 1 : Tail(u)[y] = u[y + 1]
    BY <2>12, <2>14, HeadTailProperties
  <2>16. \A y \in 1 .. n - 1 : w[y] = Tail(u)[y]
    BY <2>5, <2>9, <2>12, <2>13, <2>15
  <2>17. w = Tail(u)
    BY <2>13, <2>15, <2>16, SeqEqual
  <2>. QED  BY <2>11, <2>14, <2>17 DEF u, w
<1>. QED  BY <1>6, <1>7

-----------------------------------------------------------------------------
(* The table as a map of sequences.                                          *)

MapInv == TableInv /\ \A k \in Key : Known(lines, k)

LEMMA PlacesOnLine ==
    ASSUME N \in Nat, TableInv, NEW k \in Key, NEW p \in Tab!Places(lines, k)
    PROVE  /\ p[1] \in Tab!Line /\ p[2] \in 1 .. Len(lines[p[1]]) /\ p = <<p[1], p[2]>>
           /\ p[2] \in Int /\ lines[p[1]][p[2]].key = k
           /\ table /\ Tab!GetLine(k) = {p[1]}
<1>1. lines \in Lined
  BY DEF TableInv, Lined
<1>2. /\ p[1] \in Tab!Line /\ p[2] \in 1 .. Len(lines[p[1]]) /\ p = <<p[1], p[2]>>
      /\ p[2] \in Int /\ lines[p[1]][p[2]].key = k
  BY <1>1, PlaceIs
<1>3. Fits(lines[p[1]], p[1])
  BY <1>2 DEF TableInv
<1>4. table
  <2>1. lines[p[1]] # << >>
    BY <1>2
  <2>. QED  BY <1>2, <2>1 DEF TableInv
<1>5. p[1] \in Tab!GetLine(k)
  BY <1>2, <1>3, <1>4 DEF Fits, Tab!GetLine
<1>. QED  BY <1>2, <1>4, <1>5, OneLine

LEMMA NodeIsFirst ==
    ASSUME N \in Nat, TableInv, NEW k \in Key, NEW p \in Tab!GetNode(k)
    PROVE  /\ IsFirst(p, Tab!Places(lines, k))
           /\ p[1] \in Tab!Line /\ p[2] \in 1 .. Len(lines[p[1]]) /\ p = <<p[1], p[2]>>
           /\ lines[p[1]][p[2]].key = k
<1>1. lines \in Lined
  BY DEF TableInv, Lined
<1>2. /\ p[1] \in Tab!Line /\ p[1] \in Tab!GetLine(k) /\ p[2] \in DOMAIN lines[p[1]] /\ p = <<p[1], p[2]>>
      /\ lines[p[1]][p[2]].key = k
      /\ \A x \in 1 .. p[2] - 1 : lines[p[1]][x].key # k
  BY DEF Tab!GetNode, Tab!GetLine
<1>3. p[2] \in 1 .. Len(lines[p[1]]) /\ p[2] \in Int
  BY <1>1, <1>2 DEF Lined
<1>4. p \in Tab!Places(lines, k)
  <2>1. <<p[1], p[2]>> \in Tab!Places(lines, k)
    BY <1>1, <1>2, <1>3, PlaceIs
  <2>. QED  BY <1>2, <2>1
<1>5. ASSUME NEW q \in Tab!Places(lines, k) PROVE q = p \/ Tab!Before(p, q)
  <2>1. /\ q[2] \in 1 .. Len(lines[q[1]]) /\ q = <<q[1], q[2]>> /\ q[2] \in Int
        /\ lines[q[1]][q[2]].key = k /\ Tab!GetLine(k) = {q[1]}
    BY PlacesOnLine
  <2>2. q[1] = p[1]
    BY <1>2, <2>1
  <2>3. ~ (q[2] < p[2])
    <3>. SUFFICES ASSUME q[2] < p[2] PROVE FALSE
      OBVIOUS
    <3>1. q[2] \in 1 .. p[2] - 1
      BY <1>3, <2>1
    <3>. QED  BY <1>2, <2>1, <2>2, <3>1
  <2>4. q[2] = p[2] \/ p[2] < q[2]
    BY <1>3, <2>1, <2>3
  <2>. QED  BY <1>2, <2>1, <2>2, <2>4 DEF Tab!Before
<1>. QED  BY <1>2, <1>3, <1>4, <1>5 DEF IsFirst

\* What the lookup finds is the first value.
LEMMA LookedUp ==
    ASSUME N \in Nat, MapInv, NEW k \in Key
    PROVE  /\ Tab!Values(lines, k) \in Seq(Stored)
           /\ Tab!GetNode(k) = {} <=> Tab!Values(lines, k) = << >>
           /\ \A p \in Tab!GetNode(k) : DataAt(lines, p) = Tab!Values(lines, k)[1]
           /\ \A p, q \in Tab!GetNode(k) : p = q
<1>. DEFINE S == Tab!Places(lines, k)
            u == Tab!Values(lines, k)
<1>1. lines \in Lined
  BY DEF MapInv, TableInv, Lined
<1>2. PICK n, f : Enumerates(f, n, S)
  BY DEF MapInv, Known
<1>3. u \in Seq(Stored) /\ Len(u) = n /\ \A y \in 1 .. n : u[y] = DataAt(lines, f[y])
  BY <1>1, <1>2, ValuesSequence
<1>4. Pairs(S)
  BY <1>1, PlaceIs DEF Pairs
<1>5. \A p \in Tab!GetNode(k) : IsFirst(p, S)
  BY NodeIsFirst DEF MapInv
<1>6. /\ n \in Nat /\ f \in [1 .. n -> S] /\ \A p \in S : \E x \in 1 .. n : f[x] = p
      /\ \A x, y \in 1 .. n : x < y => Tab!Before(f[x], f[y])
  BY <1>2 DEF Enumerates
<1>7. n # 0 => f[1] \in Tab!GetNode(k)
  <2>. SUFFICES ASSUME n # 0 PROVE f[1] \in Tab!GetNode(k)
    OBVIOUS
  <2>. DEFINE p == f[1]
  <2>1. 1 \in 1 .. n /\ p \in S
    BY <1>6
  <2>2. /\ p[1] \in Tab!Line /\ p[2] \in 1 .. Len(lines[p[1]]) /\ p = <<p[1], p[2]>>
        /\ p[2] \in Int /\ lines[p[1]][p[2]].key = k /\ Tab!GetLine(k) = {p[1]}
    BY <2>1, PlacesOnLine DEF MapInv
  <2>. HIDE DEF p
  <2>3. \A x \in 1 .. p[2] - 1 : lines[p[1]][x].key # k
    <3>. SUFFICES ASSUME NEW x \in 1 .. p[2] - 1, lines[p[1]][x].key = k PROVE FALSE
      OBVIOUS
    <3>1. x \in 1 .. Len(lines[p[1]]) /\ x \in Int /\ x < p[2]
      <4>1. Len(lines[p[1]]) \in Nat
        BY <1>1, <2>2 DEF Lined
      <4>. QED  BY <2>2, <4>1
    <3>. DEFINE q == <<p[1], x>>
    <3>2. q \in S
      BY <1>1, <2>2, <3>1, PlaceIs
    <3>3. PICK y \in 1 .. n : f[y] = q
      BY <1>6, <3>2
    <3>4. y = 1 \/ 1 < y
      BY <1>6
    <3>5. q[1] = p[1] /\ q[2] = x /\ p[1] \in Int
      BY <2>2 DEF Tab!Line
    <3>. HIDE DEF q
    <3>6. y # 1
      <4>1. q # p
        BY <2>2, <3>1, <3>5
      <4>. QED  BY <3>3, <4>1 DEF p
    <3>7. Tab!Before(p, q)
      BY <1>6, <2>1, <3>3, <3>4, <3>6 DEF p
    <3>. QED  BY <2>2, <3>1, <3>5, <3>7 DEF Tab!Before
  <2>4. p[2] \in DOMAIN lines[p[1]]
    <3>1. lines[p[1]] \in Seq(Cell)
      BY <1>1, <2>2 DEF Lined
    <3>2. DOMAIN lines[p[1]] = 1 .. Len(lines[p[1]])
      BY <3>1, LenProperties
    <3>. QED  BY <2>2, <3>2
  <2>5. p \in {p[1]} \X DOMAIN lines[p[1]]
    BY <2>2, <2>4
  <2>6. p \in UNION {{l} \X DOMAIN lines[l] : l \in Tab!GetLine(k)}
    BY <2>2, <2>5
  <2>7. p \in Tab!GetNode(k)
    BY <2>2, <2>3, <2>6 DEF Tab!GetNode
  <2>. QED  BY <2>7 DEF p
<1>8. \A p \in Tab!GetNode(k) : n # 0 /\ p = f[1]
  <2>. SUFFICES ASSUME NEW p \in Tab!GetNode(k) PROVE n # 0 /\ p = f[1]
    OBVIOUS
  <2>1. IsFirst(p, S)
    BY <1>5
  <2>. HIDE DEF S
  <2>2. StartsWith(f, n, p)
    BY <1>2, <1>4, <2>1, FirstListed
  <2>. QED  BY <2>2 DEF StartsWith
<1>9. n # 0 <=> u # << >>
  <2>. HIDE DEF u
  <2>. QED  BY <1>3
<1>10. n # 0 => u[1] = DataAt(lines, f[1])
  <2>1. n # 0 => 1 \in 1 .. n
    BY <1>6
  <2>. HIDE DEF u
  <2>. QED  BY <1>3, <2>1
<1>. HIDE DEF u, S
<1>11. Tab!GetNode(k) = {} <=> u = << >>
  BY <1>7, <1>8, <1>9
<1>. QED  BY <1>3, <1>8, <1>10, <1>11 DEF u

Map(ls) == [k \in Key |-> Tab!Values(ls, k)]

RefusedKeys == IF table THEN {k \in Key : \A l \in Tab!Line : ~ Tab!Same(l, k)} ELSE Key

\* A set of numbers has a first one.
LEMMA HasLeast ==
    ASSUME NEW S \in SUBSET Nat, S # {}
    PROVE  \E m \in S : \A x \in S : m <= x
<1> DEFINE R == {ss \in Nat \X Nat : ss[1] < ss[2]}
<1>1. IsWellFoundedOn(R, Nat)
  BY NatLessThanWellFounded DEF OpToRel
<1>2. PICK m \in S : \A x \in S : ~(<<x, m>> \in R)
  BY <1>1, WFMin
<1>3. \A x \in S : x < m => <<x, m>> \in R
  OBVIOUS
<1>. HIDE DEF R
<1>4. \A x \in S : ~(x < m)
  BY <1>2, <1>3
<1>. QED  BY <1>4

\* A key has no line just if no line's key matches.
LEMMA RefusedIs ==
    ASSUME N \in Nat, NEW k \in Key, table \in BOOLEAN
    PROVE  k \in RefusedKeys <=> Tab!GetLine(k) = {}
<1>1. CASE ~ table
  BY <1>1 DEF RefusedKeys, Tab!GetLine
<1>2. CASE table
  <2>. DEFINE S == {l \in Tab!Line : Tab!Same(l, k)}
  <2>1. S \in SUBSET Nat
    BY DEF Tab!Line
  <2>2. ASSUME S # {} PROVE Tab!GetLine(k) # {}
    <3>. HIDE DEF S
    <3>1. PICK m \in S : \A x \in S : m <= x
      BY <2>1, <2>2, HasLeast
    <3>2. m \in Tab!Line /\ Tab!Same(m, k)
      BY <3>1 DEF S
    <3>3. \A j \in 0 .. m - 1 : ~ Tab!Same(j, k)
      <4>. SUFFICES ASSUME NEW j \in 0 .. m - 1, Tab!Same(j, k) PROVE FALSE
        OBVIOUS
      <4>1. j \in Tab!Line /\ j < m /\ m \in Int
        BY <3>2 DEF Tab!Line
      <4>2. j \in S
        BY <4>1 DEF S
      <4>. QED  BY <3>1, <4>1, <4>2
    <3>. QED  BY <1>2, <3>2, <3>3 DEF Tab!GetLine
  <2>3. S = {} => Tab!GetLine(k) = {}
    BY DEF Tab!GetLine
  <2>. QED  BY <1>2, <2>2, <2>3 DEF RefusedKeys
<1>. QED  BY <1>1, <1>2

\* A call that returns.
Running == memory # "fault" /\ UNCHANGED memory

\* The operators of MultiMap, on Map(lines).
Accepted(c, v, d, w) == w = IF c = "put" /\ v # << >> THEN WithHead(v, d) ELSE Append(v, d)

LEMMA PromisedAccept ==
    ASSUME Running, NEW c \in {"put", "add"}, NEW k \in Key, NEW d \in Datum \union {None},
           k \notin RefusedKeys, Tab!Returns(c, k, 1), NEW v, v = Map(lines)[k],
           NEW w, Accepted(c, v, d, w),
           Map(lines)' = [Map(lines) EXCEPT ![k] = w]
    PROVE  Tab!Table!Step
<1>1. Tab!Table!Accept(c, k, d)
  BY DEF Tab!Table!Accept, Tab!Table!Returns, Tab!Returns, Tab!Table!ReplaceAt, Map, RefusedKeys, WithHead, Accepted
<1>. QED  BY <1>1 DEF Tab!Table!Step, Tab!Table!Next, Tab!Table!Call, Running

LEMMA PromisedDecline ==
    ASSUME Running, NEW c \in {"put", "add"}, NEW k \in Key, NEW d \in Datum \union {None},
           Tab!Returns(c, k, 0), UNCHANGED Map(lines),
           k \in RefusedKeys \/ MayFail \/ (c = "put" /\ d = None /\ Map(lines)[k] # << >>)
    PROVE  Tab!Table!Step
<1>1. Tab!Table!Decline(c, k, d)
  BY DEF Tab!Table!Decline, Tab!Table!Returns, Tab!Returns, Map, RefusedKeys
<1>. QED  BY <1>1 DEF Tab!Table!Step, Tab!Table!Next, Tab!Table!Call, Running

LEMMA PromisedLoss ==
    ASSUME Running, NEW k \in Key, MayFail, Tab!Returns("put", k, 0),
           NEW v, v = Map(lines)[k], v # << >>, NEW w, w = WithHead(v, Lost),
           Map(lines)' = [Map(lines) EXCEPT ![k] = w]
    PROVE  Tab!Table!Step
<1>1. Tab!Table!FailAndLose(k)
  BY DEF Tab!Table!FailAndLose, Tab!Table!Returns, Tab!Returns, Tab!Table!ReplaceAt, Map, WithHead
<1>. QED  BY <1>1 DEF Tab!Table!Step, Tab!Table!Next, Tab!Table!Call, Running

FirstValue(v) == IF v = << >> THEN None ELSE Head(v)

LEMMA PromisedGet ==
    ASSUME Running, NEW k \in Key, Tab!Returns("get", k, FirstValue(Map(lines)[k])), UNCHANGED Map(lines)
    PROVE  Tab!Table!Step
<1>1. Tab!Table!Get(k)
  BY DEF Tab!Table!Get, Tab!Table!First, Tab!Table!Returns, Tab!Returns, Map, FirstValue
<1>. QED  BY <1>1 DEF Tab!Table!Step, Tab!Table!Next, Tab!Table!Call, Running

LEMMA PromisedTake ==
    ASSUME Running, NEW k \in Key, NEW v, v = Map(lines)[k], Tab!Returns("remove", k, FirstValue(v)),
           NEW w, w = IF v = << >> THEN v ELSE Tail(v),
           Map(lines)' = [Map(lines) EXCEPT ![k] = w]
    PROVE  Tab!Table!Step
<1>1. Tab!Table!TakeOut(k)
  BY DEF Tab!Table!TakeOut, Tab!Table!First, Tab!Table!Returns, Tab!Returns, Map, FirstValue
<1>. QED  BY <1>1 DEF Tab!Table!Step, Tab!Table!Next, Tab!Table!Call, Running

LEMMA PromisedFinish ==
    ASSUME Running, Tab!Returns("finish", None, None), Map(lines)' = [k \in Key |-> << >>]
    PROVE  Tab!Table!Step
<1>1. Tab!Table!Finish
  BY DEF Tab!Table!Finish, Tab!Table!Returns, Tab!Returns, Map
<1>. QED  BY <1>1 DEF Tab!Table!Step, Tab!Table!Next, Tab!Table!Call, Running

LEMMA PromisedNothing ==
    ASSUME UNCHANGED <<lines, memory, last>> PROVE Tab!Table!Step
<1>1. UNCHANGED Tab!Table!vars
  BY DEF Tab!Table!vars
<1>. QED  BY <1>1 DEF Tab!Table!Step

LEMMA PromisedCrash ==
    ASSUME MapInv, MayFail, memory # "fault", Tab!Crash PROVE Tab!Table!Step /\ MapInv'
<1>1. TableInv'
  BY CrashKeeps DEF MapInv
<1>2. UNCHANGED <<lines, last>> /\ memory' = "fault"
  BY DEF Tab!Crash
<1>3. Tab!Table!Crash
  BY <1>2 DEF Tab!Table!Crash
<1>4. Tab!Table!Step
  BY <1>3 DEF Tab!Table!Step, Tab!Table!Next
<1>. QED  BY <1>1, <1>2, <1>4 DEF MapInv

\* What one call does to the values of its key, and to no other key's.
Turned(ls, ls2, k, w) == /\ Known(ls2, k) /\ Tab!Values(ls2, k) = w
                         /\ \A k2 : k2 # k /\ Known(ls, k2) =>
                               Known(ls2, k2) /\ Tab!Values(ls2, k2) = Tab!Values(ls, k2)

OthersKept(ls, ls2, l) == \A m \in Tab!Line : m # l => ls2[m] = ls[m]

FirstAt(ls, l, x, k) == /\ l \in Tab!Line /\ x \in 1 .. Len(ls[l]) /\ k = ls[l][x].key
                        /\ IsFirst(<<l, x>>, Tab!Places(ls, k))

DataSet(s, s2, x, d) == /\ Len(s2) = Len(s) /\ s2[x].key = s[x].key /\ s2[x].data = d
                        /\ \A y \in 1 .. Len(s) : y # x => s2[y] = s[y]

LEMMA SetIsDataSet ==
    ASSUME NEW s \in Seq(Cell), NEW x \in 1 .. Len(s), NEW d \in Stored
    PROVE  DataSet(s, [s EXCEPT ![x].data = d], x, d)
<1>1. Len(s) \in Nat /\ s[x] \in Cell
  BY ElementOfSeq
<1>2. /\ [s[x] EXCEPT !.data = d] \in Cell
      /\ [s[x] EXCEPT !.data = d].key = s[x].key /\ [s[x] EXCEPT !.data = d].data = d
  BY <1>1 DEF Cell, Stored
<1>3. [s EXCEPT ![x].data = d] = [s EXCEPT ![x] = [s[x] EXCEPT !.data = d]]
  OBVIOUS
<1>. QED  BY <1>1, <1>2, <1>3 DEF DataSet

OneCut(s, s2, x) == /\ Len(s2) = Len(s) - 1
                    /\ \A y \in 1 .. Len(s) - 1 : s2[y] = IF y < x THEN s[y] ELSE s[y + 1]

LEMMA ReplacedTurns ==
    ASSUME N \in Nat, NEW ls \in Lined, NEW ls2 \in Lined, NEW l, NEW x, NEW k, NEW v \in Stored,
           FirstAt(ls, l, x, k), Known(ls, k), DataSet(ls[l], ls2[l], x, v), OthersKept(ls, ls2, l)
    PROVE  Tab!Values(ls, k) # << >> /\ Turned(ls, ls2, k, WithHead(Tab!Values(ls, k), v))
<1>1. /\ l \in Tab!Line /\ x \in 1 .. Len(ls[l]) /\ k = ls[l][x].key
      /\ IsFirst(<<l, x>>, Tab!Places(ls, k))
  BY DEF FirstAt
<1>2. /\ Len(ls2[l]) = Len(ls[l]) /\ ls2[l][x].key = k /\ ls2[l][x].data = v
      /\ \A y \in 1 .. Len(ls[l]) : y # x => ls2[l][y] = ls[l][y]
  BY <1>1 DEF DataSet
<1>3. \A m \in Tab!Line : m # l => ls2[m] = ls[m]
  BY DEF OthersKept
<1>4. /\ Known(ls, k) => /\ Known(ls2, k) /\ Tab!Values(ls, k) # << >>
                         /\ Tab!Values(ls2, k) = WithHead(Tab!Values(ls, k), v)
      /\ \A k2 : k2 # k /\ Known(ls, k2) =>
            Known(ls2, k2) /\ Tab!Values(ls2, k2) = Tab!Values(ls, k2)
  BY <1>1, <1>2, <1>3, ValuesReplaced
<1>. QED  BY <1>4 DEF Turned

LEMMA TakenTurns ==
    ASSUME N \in Nat, NEW ls \in Lined, NEW ls2 \in Lined, NEW l, NEW x, NEW k,
           FirstAt(ls, l, x, k), Known(ls, k), OneCut(ls[l], ls2[l], x), OthersKept(ls, ls2, l)
    PROVE  Tab!Values(ls, k) # << >> /\ Turned(ls, ls2, k, Tail(Tab!Values(ls, k)))
<1>1. /\ l \in Tab!Line /\ x \in 1 .. Len(ls[l]) /\ k = ls[l][x].key
      /\ IsFirst(<<l, x>>, Tab!Places(ls, k))
  BY DEF FirstAt
<1>2. /\ Len(ls2[l]) = Len(ls[l]) - 1
      /\ \A y \in 1 .. Len(ls[l]) - 1 : ls2[l][y] = IF y < x THEN ls[l][y] ELSE ls[l][y + 1]
  BY DEF OneCut
<1>3. \A m \in Tab!Line : m # l => ls2[m] = ls[m]
  BY DEF OthersKept
<1>4. /\ Known(ls, k) => /\ Known(ls2, k) /\ Tab!Values(ls, k) # << >>
                         /\ Tab!Values(ls2, k) = Tail(Tab!Values(ls, k))
      /\ \A k2 : k2 # k /\ Known(ls, k2) =>
            Known(ls2, k2) /\ Tab!Values(ls2, k2) = Tab!Values(ls, k2)
  BY <1>1, <1>2, <1>3, ValuesTaken
<1>. QED  BY <1>4 DEF Turned

LEMMA MapOf ==
    ASSUME NEW ls, NEW ls2, NEW k \in Key, NEW w, Turned(ls, ls2, k, w),
           \A k2 \in Key : Known(ls, k2)
    PROVE  /\ Map(ls2) = [Map(ls) EXCEPT ![k] = w]
           /\ \A k2 \in Key : Known(ls2, k2)
<1>1. Tab!Values(ls2, k) = w /\ \A k2 \in Key : k2 # k => Tab!Values(ls2, k2) = Tab!Values(ls, k2)
  BY DEF Turned
<1>2. Map(ls2) = [Map(ls) EXCEPT ![k] = w]
  BY <1>1 DEF Map
<1>. QED  BY <1>2 DEF Turned

MapBecomes(k, w) == Map(lines)' = [Map(lines) EXCEPT ![k] = w]

LEMMA Promises ==
    ASSUME Running, NEW k \in Key, NEW w, MapBecomes(k, w), NEW v, v = Map(lines)[k]
    PROVE  /\ \A c \in {"put", "add"}, d \in Datum \union {None} :
                 /\ k \notin RefusedKeys /\ Tab!Returns(c, k, 1)
                 /\ Accepted(c, v, d, w)
                 => Tab!Table!Step
           /\ MayFail /\ Tab!Returns("put", k, 0) /\ v # << >> /\ w = WithHead(v, Lost) => Tab!Table!Step
           /\ Tab!Returns("remove", k, FirstValue(v)) /\ w = (IF v = << >> THEN v ELSE Tail(v))
                 => Tab!Table!Step
<1>1. Map(lines)' = [Map(lines) EXCEPT ![k] = w]
  BY DEF MapBecomes
<1>2. ASSUME NEW c \in {"put", "add"}, NEW d \in Datum \union {None}, k \notin RefusedKeys,
             Tab!Returns(c, k, 1), Accepted(c, v, d, w)
      PROVE  Tab!Table!Step
  BY <1>1, <1>2, PromisedAccept
<1>3. ASSUME MayFail, Tab!Returns("put", k, 0), v # << >>, w = WithHead(v, Lost)
      PROVE  Tab!Table!Step
  BY <1>1, <1>3, PromisedLoss
<1>4. ASSUME Tab!Returns("remove", k, FirstValue(v)), w = IF v = << >> THEN v ELSE Tail(v)
      PROVE  Tab!Table!Step
  BY <1>1, <1>4, PromisedTake
<1>. QED  BY <1>2, <1>3, <1>4

LEMMA MapTurned ==
    ASSUME TableInv', \A k2 \in Key : Known(lines, k2),
           NEW k \in Key, NEW w, Turned(lines, lines', k, w)
    PROVE  MapBecomes(k, w) /\ MapInv'
<1>1. /\ Map(lines') = [Map(lines) EXCEPT ![k] = w]
      /\ \A k2 \in Key : Known(lines', k2)
  BY MapOf
<1>2. Map(lines)' = Map(lines')
  BY DEF Map
<1>. QED  BY <1>1, <1>2 DEF MapBecomes, MapInv

LEMMA AppendTurns ==
    ASSUME N \in Nat, NEW ls \in Lined, NEW ls2 \in Lined, NEW l \in Tab!Line, NEW c \in Cell,
           Known(ls, c.key), \A p \in Tab!Places(ls, c.key) : p[1] = l,
           ls2[l] = Append(ls[l], c), OthersKept(ls, ls2, l)
    PROVE  Turned(ls, ls2, c.key, Append(Tab!Values(ls, c.key), c.data))
<1>1. \A m \in Tab!Line : m # l => ls2[m] = ls[m]
  BY DEF OthersKept
<1>2. /\ Known(ls, c.key) => /\ Known(ls2, c.key)
                             /\ Tab!Values(ls2, c.key) = Append(Tab!Values(ls, c.key), c.data)
      /\ \A k : k # c.key /\ Known(ls, k) =>
            Known(ls2, k) /\ Tab!Values(ls2, k) = Tab!Values(ls, k)
  BY <1>1, ValuesAppended
<1>. QED  BY <1>2 DEF Turned

LEMMA AddedPromised ==
    ASSUME Running, N \in Nat, MapInv, TableInv', NEW c \in {"put", "add"}, NEW k \in Key,
           NEW d \in Datum \union {None}, Tab!Added(c, k, d), UNCHANGED table,
           c = "put" => Tab!GetNode(k) = {}
    PROVE  Tab!Table!Step /\ MapInv'
<1>. DEFINE v == Tab!Values(lines, k)
            w == Append(v, d)
<1>1. /\ lines \in Lined /\ lines' \in Lined /\ table \in BOOLEAN /\ TableInv
      /\ \A k2 \in Key : Known(lines, k2)
  BY DEF MapInv, TableInv, Lined
<1>2. c = "put" => v = << >>
  BY LookedUp
<1>3. Map(lines)[k] = v
  BY DEF Map
<1>4. ASSUME NEW l \in Tab!GetLine(k), Tab!Append1(l, k, d), Tab!Returns(c, k, 1)
      PROVE  Tab!Table!Step /\ MapInv'
  <2>. DEFINE cell == [key |-> k, data |-> d]
  <2>1. l \in Tab!Line /\ Tab!GetLine(k) = {l}
    BY OneLine
  <2>2. cell \in Cell /\ cell.key = k /\ cell.data = d
    BY DEF Cell
  <2>3. \A p \in Tab!Places(lines, k) : p[1] = l
    <3>. SUFFICES ASSUME NEW p \in Tab!Places(lines, k) PROVE p[1] = l
      OBVIOUS
    <3>1. Tab!GetLine(k) = {p[1]}
      BY <1>1, PlacesOnLine
    <3>. QED  BY <2>1, <3>1
  <2>4. lines'[l] = Append(lines[l], cell) /\ OthersKept(lines, lines', l)
    BY <1>1, <1>4, <2>1 DEF Tab!Append1, Lined, OthersKept
  <2>. HIDE DEF cell
  <2>5. Turned(lines, lines', cell.key, Append(Tab!Values(lines, cell.key), cell.data))
    BY <1>1, <2>1, <2>2, <2>3, <2>4, AppendTurns
  <2>6. Turned(lines, lines', k, w)
    BY <2>2, <2>5
  <2>. HIDE DEF w
  <2>7. MapBecomes(k, w) /\ MapInv'
    BY <1>1, <2>6, MapTurned
  <2>8. k \notin RefusedKeys
    BY <1>1, <2>1, RefusedIs
  <2>. HIDE DEF v
  <2>9. Accepted(c, v, d, w)
    BY <1>2 DEF w, Accepted
  <2>10. Tab!Table!Step
    BY <1>3, <1>4, <2>7, <2>8, <2>9, Promises
  <2>. QED  BY <2>7, <2>10
<1>5. ASSUME Tab!GetLine(k) = {} \/ MayFail, Tab!Returns(c, k, 0), UNCHANGED lines
      PROVE  Tab!Table!Step /\ MapInv'
  <2>1. k \in RefusedKeys \/ MayFail
    BY <1>1, <1>5, RefusedIs
  <2>2. UNCHANGED Map(lines)
    BY <1>5 DEF Map
  <2>3. Tab!Table!Step
    BY <1>5, <2>1, <2>2, PromisedDecline
  <2>4. MapInv'
    BY <1>1, <1>5 DEF MapInv
  <2>. QED  BY <2>3, <2>4
<1>. QED  BY <1>4, <1>5 DEF Tab!Added

LEMMA PutPromised ==
    ASSUME Running, N \in Nat, MapInv, TableInv', NEW k \in Key, NEW d \in Datum \union {None},
           NEW p \in Tab!GetNode(k), Tab!ReplaceData(k, p[1], p[2], d), UNCHANGED table
    PROVE  Tab!Table!Step /\ MapInv'
<1>. DEFINE v == Tab!Values(lines, k)
            l == p[1]
            x == p[2]
<1>1. /\ lines \in Lined /\ lines' \in Lined /\ table \in BOOLEAN /\ TableInv
      /\ \A k2 \in Key : Known(lines, k2)
  BY DEF MapInv, TableInv, Lined
<1>2. /\ IsFirst(p, Tab!Places(lines, k)) /\ l \in Tab!Line /\ x \in 1 .. Len(lines[l])
      /\ p = <<l, x>> /\ lines[l][x].key = k
  BY <1>1, NodeIsFirst
<1>3. Map(lines)[k] = v /\ v # << >>
  BY LookedUp DEF Map
<1>4. k \notin RefusedKeys
  <2>1. Tab!GetLine(k) # {}
    BY <1>1, NodeThere
  <2>. QED  BY <1>1, <2>1, RefusedIs
<1>. HIDE DEF l, x
<1>5. ASSUME NEW w \in Stored, lines' = [lines EXCEPT ![l][x].data = w]
      PROVE  MapInv' /\ MapBecomes(k, WithHead(v, w))
  <2>1. lines'[l] = [lines[l] EXCEPT ![x].data = w] /\ OthersKept(lines, lines', l)
    BY <1>1, <1>2, <1>5 DEF Lined, OthersKept
  <2>2. FirstAt(lines, l, x, k)
    BY <1>2 DEF FirstAt
  <2>3. DataSet(lines[l], lines'[l], x, w)
    <3>1. lines[l] \in Seq(Cell)
      BY <1>1, <1>2 DEF Lined
    <3>2. DataSet(lines[l], [lines[l] EXCEPT ![x].data = w], x, w)
      BY <1>2, <3>1, SetIsDataSet
    <3>. QED  BY <2>1, <3>2
  <2>4. Turned(lines, lines', k, WithHead(v, w))
    BY <1>1, <2>1, <2>2, <2>3, ReplacedTurns
  <2>. HIDE DEF v
  <2>. QED  BY <1>1, <2>4, MapTurned
<1>. HIDE DEF v
<1>6. CASE d = None /\ Tab!Returns("put", k, 0) /\ UNCHANGED lines
  <2>1. UNCHANGED Map(lines)
    BY <1>6 DEF Map
  <2>2. MapInv'
    BY <1>1, <1>6 DEF MapInv
  <2>. QED  BY <1>3, <1>6, <2>1, <2>2, PromisedDecline
<1>7. CASE d # None /\ Tab!Returns("put", k, 1) /\ lines' = [lines EXCEPT ![l][x].data = d]
  <2>1. d \in Stored
    BY DEF Stored
  <2>2. MapInv' /\ MapBecomes(k, WithHead(v, d))
    BY <1>5, <1>7, <2>1
  <2>. DEFINE w == WithHead(v, d)
  <2>3. Accepted("put", v, d, w)
    BY <1>3 DEF Accepted
  <2>4. MapBecomes(k, w)
    BY <2>2
  <2>. HIDE DEF w
  <2>5. Tab!Table!Step
    BY <1>3, <1>4, <1>7, <2>3, <2>4, Promises
  <2>. QED  BY <2>2, <2>5
<1>8. CASE /\ d # None /\ MayFail /\ Tab!Returns("put", k, 0)
           /\ lines' = [lines EXCEPT ![l][x].data = Lost]
  <2>1. Lost \in Stored
    BY DEF Stored
  <2>2. MapInv' /\ MapBecomes(k, WithHead(v, Lost))
    BY <1>5, <1>8, <2>1
  <2>3. Tab!Table!Step
    BY <1>3, <1>8, <2>2, Promises
  <2>. QED  BY <2>2, <2>3
<1>. QED  BY <1>6, <1>7, <1>8 DEF Tab!ReplaceData, l, x

\* get and remove return the first value.
LEMMA FoundIs ==
    ASSUME N \in Nat, MapInv, NEW k \in Key
    PROVE  Tab!DataOf(Tab!GetNode(k)) = FirstValue(Tab!Values(lines, k))
<1>. DEFINE v == Tab!Values(lines, k)
            S == Tab!GetNode(k)
<1>1. /\ v \in Seq(Stored)
      /\ S = {} <=> v = << >>
      /\ \A p \in S : DataAt(lines, p) = v[1]
      /\ \A p, q \in S : p = q
  BY LookedUp
<1>. HIDE DEF v, S
<1>2. CASE S = {}
  <2>1. Tab!DataOf(S) = None
    BY <1>2 DEF Tab!DataOf
  <2>2. FirstValue(v) = None
    BY <1>1, <1>2 DEF FirstValue
  <2>. QED  BY <2>1, <2>2 DEF S, v
<1>3. CASE S # {}
  <2>. DEFINE p == CHOOSE p \in S : TRUE
  <2>1. p \in S
    BY <1>3
  <2>2. Tab!DataOf(S) = DataAt(lines, p)
    BY <1>3 DEF Tab!DataOf, DataAt
  <2>. HIDE DEF p
  <2>3. v # << >> /\ Head(v) = v[1]
    BY <1>1, <1>3
  <2>. QED  BY <1>1, <2>1, <2>2, <2>3 DEF FirstValue, S, v
<1>. QED  BY <1>2, <1>3

LEMMA RemovePromised ==
    ASSUME Running, N \in Nat, MapInv, TableInv', NEW k \in Key, Tab!RemoveNode(k)
    PROVE  Tab!Table!Step /\ MapInv'
<1>. DEFINE v == Tab!Values(lines, k)
            w == Tail(v)
<1>1. /\ lines \in Lined /\ lines' \in Lined /\ table \in BOOLEAN /\ TableInv
      /\ \A k2 \in Key : Known(lines, k2)
  BY DEF MapInv, TableInv, Lined
<1>2. Map(lines)[k] = v
  BY DEF Map
<1>3. Tab!Returns("remove", k, FirstValue(v))
  <2>1. Tab!Returns("remove", k, Tab!DataOf(Tab!GetNode(k)))
    BY DEF Tab!RemoveNode
  <2>. QED  BY <2>1, FoundIs
<1>4. CASE Tab!GetNode(k) = {}
  <2>1. lines' = [l \in Tab!Line |-> lines[l]]
    BY <1>4 DEF Tab!RemoveNode
  <2>2. lines' = lines
    BY <1>1, <2>1 DEF Lined
  <2>3. v = << >>
    BY <1>4, LookedUp
  <2>. HIDE DEF v
  <2>4. MapBecomes(k, v)
    <3>1. Map(lines)' = Map(lines)
      BY <2>2 DEF Map
    <3>2. Map(lines) = [Map(lines) EXCEPT ![k] = v]
      BY <1>2 DEF Map
    <3>. QED  BY <3>1, <3>2 DEF MapBecomes
  <2>5. Tab!Table!Step
    BY <1>2, <1>3, <2>3, <2>4, Promises
  <2>6. MapInv'
    BY <1>1, <2>2 DEF MapInv
  <2>. QED  BY <2>5, <2>6
<1>5. CASE Tab!GetNode(k) # {}
  <2>. DEFINE p == CHOOSE p \in Tab!GetNode(k) : TRUE
              l == p[1]
              x == p[2]
  <2>1. p \in Tab!GetNode(k)
    BY <1>5
  <2>2. \A q \in Tab!GetNode(k) : q = p
    BY <2>1, LookedUp
  <2>3. lines' = [m \in Tab!Line |-> IF m = l THEN Tab!RemoveAt(lines[m], x) ELSE lines[m]]
    <3>1. lines' = [m \in Tab!Line |-> IF \E q \in Tab!GetNode(k) : q[1] = m
                                       THEN Tab!RemoveAt(lines[m], x) ELSE lines[m]]
      BY DEF Tab!RemoveNode
    <3>. HIDE DEF p
    <3>2. \A m : (\E q \in Tab!GetNode(k) : q[1] = m) <=> m = l
      BY <2>1, <2>2
    <3>. QED  BY <3>1, <3>2
  <2>. HIDE DEF p
  <2>4. /\ IsFirst(p, Tab!Places(lines, k)) /\ l \in Tab!Line /\ x \in 1 .. Len(lines[l])
        /\ p = <<l, x>> /\ lines[l][x].key = k
    BY <1>1, <2>1, NodeIsFirst
  <2>. HIDE DEF l, x
  <2>5. FirstAt(lines, l, x, k)
    BY <2>4 DEF FirstAt
  <2>6. lines'[l] = Tab!RemoveAt(lines[l], x) /\ OthersKept(lines, lines', l)
    BY <2>3, <2>4 DEF OthersKept
  <2>7. lines[l] \in Seq(Cell)
    BY <1>1, <2>4 DEF Lined
  <2>8. OneCut(lines[l], lines'[l], x)
    <3>1. /\ Len(lines'[l]) = Len(lines[l]) - 1
          /\ \A y \in 1 .. Len(lines[l]) - 1 :
                lines'[l][y] = IF y < x THEN lines[l][y] ELSE lines[l][y + 1]
      BY <2>4, <2>6, <2>7, RemovedAt
    <3>. QED  BY <3>1 DEF OneCut
  <2>9. v # << >> /\ Turned(lines, lines', k, w)
    BY <1>1, <2>5, <2>6, <2>8, TakenTurns
  <2>. HIDE DEF v, w
  <2>10. MapBecomes(k, w) /\ MapInv'
    BY <1>1, <2>9, MapTurned
  <2>11. w = IF v = << >> THEN v ELSE Tail(v)
    BY <2>9 DEF w
  <2>12. Tab!Table!Step
    BY <1>2, <1>3, <2>10, <2>11, Promises
  <2>. QED  BY <2>10, <2>12
<1>. QED  BY <1>4, <1>5

\* A table without nodes.
LEMMA NoValues ==
    ASSUME N \in Nat, NEW ls \in Lined, \A l \in Tab!Line : ls[l] = << >>, NEW k
    PROVE  Known(ls, k) /\ Tab!Values(ls, k) = << >>
<1>. DEFINE f == [x \in 1 .. 0 |-> x]
            S == Tab!Places(ls, k)
<1>1. S = {}
  <2>1. \A p \in S : FALSE
    BY PlaceIs
  <2>. HIDE DEF S
  <2>. QED  BY <2>1
<1>2. 0 \in Nat /\ f \in [1 .. 0 -> {}]
  OBVIOUS
<1>. HIDE DEF S
<1>3. Enumerates(f, 0, S)
  BY <1>1, <1>2 DEF Enumerates
<1>4. Tab!Values(ls, k) \in Seq(Stored) /\ Len(Tab!Values(ls, k)) = 0
  <2>. HIDE DEF f
  <2>. QED  BY <1>3, ValuesSequence DEF S
<1>5. Known(ls, k)
  BY <1>3 DEF Known, S
<1>. QED  BY <1>4, <1>5, EmptySeq

LEMMA MapStep ==
    ASSUME N \in Nat, MapInv, [Tab!Next]_(Tab!vars) PROVE Tab!Table!Step /\ MapInv'
<1>0. TableInv' /\ TableInv
  BY TableStep DEF MapInv
<1>. SUFFICES ASSUME memory # "fault" \/ UNCHANGED Tab!vars PROVE Tab!Table!Step /\ MapInv'
  BY DEF Tab!Next
<1>5. CASE UNCHANGED Tab!vars
  <2>1. UNCHANGED <<lines, memory, last>>
    BY <1>5 DEF Tab!vars
  <2>2. MapInv'
    BY <1>0, <2>1 DEF MapInv
  <2>. QED  BY <2>1, <2>2, PromisedNothing
<1>. SUFFICES ASSUME memory # "fault", Tab!Next PROVE Tab!Table!Step /\ MapInv'
  BY <1>5
<1>1. ASSUME NEW k \in Key, NEW d \in Datum \union {None}, Tab!AddNode(k, d)
      PROVE  Tab!Table!Step /\ MapInv'
  <2>1. "add" \in {"put", "add"} /\ "add" # "put"
    OBVIOUS
  <2>2. CASE Tab!Added("add", k, d) /\ UNCHANGED <<table, memory>>
    BY <1>0, <2>1, <2>2, AddedPromised DEF Running
  <2>3. CASE Tab!CopyFails(k)
    BY <2>3, PromisedCrash DEF Tab!CopyFails
  <2>. QED  BY <1>1, <2>2, <2>3 DEF Tab!AddNode
<1>2. ASSUME NEW k \in Key, NEW d \in Datum \union {None}, Tab!PutData(k, d)
      PROVE  Tab!Table!Step /\ MapInv'
  <2>1. CASE Tab!GetNode(k) = {} /\ Tab!Added("put", k, d) /\ UNCHANGED <<table, memory>>
    <3>1. "put" \in {"put", "add"}
      OBVIOUS
    <3>. QED  BY <1>0, <2>1, <3>1, AddedPromised DEF Running
  <2>2. ASSUME NEW p \in Tab!GetNode(k), Tab!ReplaceData(k, p[1], p[2], d),
               UNCHANGED <<table, memory>>
        PROVE  Tab!Table!Step /\ MapInv'
    BY <1>0, <2>2, PutPromised DEF Running
  <2>3. CASE Tab!CopyFails(k)
    BY <2>3, PromisedCrash DEF Tab!CopyFails
  <2>. QED  BY <1>2, <2>1, <2>2, <2>3 DEF Tab!PutData
<1>3. ASSUME NEW k \in Key, Tab!GetData(k) PROVE Tab!Table!Step /\ MapInv'
  <2>1. UNCHANGED lines /\ Running
    BY <1>3 DEF Tab!GetData, Running
  <2>2. UNCHANGED Map(lines) /\ Map(lines)[k] = Tab!Values(lines, k)
    BY <2>1 DEF Map
  <2>3. Tab!Returns("get", k, FirstValue(Map(lines)[k]))
    BY <1>3, <2>2, FoundIs DEF Tab!GetData
  <2>4. Tab!Table!Step
    BY <2>1, <2>2, <2>3, PromisedGet
  <2>5. MapInv'
    BY <1>0, <2>1 DEF MapInv
  <2>. QED  BY <2>4, <2>5
<1>4. CASE Tab!Finish
  <2>1. lines' = [l \in Tab!Line |-> << >>] /\ Tab!Returns("finish", None, None) /\ Running
    BY <1>4 DEF Tab!Finish, Running
  <2>2. lines' \in Lined /\ \A l \in Tab!Line : lines'[l] = << >>
    BY <1>0, <2>1 DEF TableInv, Lined
  <2>3. \A k \in Key : Known(lines', k) /\ Tab!Values(lines', k) = << >>
    BY <2>2, NoValues
  <2>4. Map(lines)' = [k \in Key |-> << >>]
    <3>1. Map(lines)' = [k \in Key |-> Tab!Values(lines', k)]
      BY DEF Map
    <3>. QED  BY <2>3, <3>1
  <2>5. Tab!Table!Step
    BY <2>1, <2>4, PromisedFinish
  <2>. QED  BY <1>0, <2>3, <2>5 DEF MapInv
<1>6. ASSUME NEW k \in Key, Tab!RemoveNode(k) PROVE Tab!Table!Step /\ MapInv'
  BY <1>0, <1>6, RemovePromised DEF Tab!RemoveNode, Running
<1>7. CASE Tab!LinesMissing /\ Tab!Crash
  <2>1. MayFail
    BY <1>0, <1>7 DEF Tab!LinesMissing, TableInv, FaultFromFailure
  <2>. QED  BY <1>7, <2>1, PromisedCrash
<1>. QED  BY <1>1, <1>2, <1>3, <1>4, <1>6, <1>7 DEF Tab!Next, Tab!Calls

\* For its callers the table is a map from keys to sequences of values, for
\* every number of lines and comparison: put replaces the first value or adds
\* one, add_node shadows nothing, remove uncovers the next value, and no call
\* touches another key, until one of the allocations the code does not check
\* fails and the program ends at the access through NULL; where memory does
\* not fail it never ends so (mghashtable.c:59-78, 135-162, 230-340).
THEOREM TableIsMap == ASSUME Tab!TableAssumption PROVE Tab!Spec => Tab!ImplementsMultiMap
<1>1. N \in Nat
  BY DEF Tab!TableAssumption
<1>2. Tab!Init => MapInv /\ Tab!Table!Init
  <2>. SUFFICES ASSUME Tab!Init PROVE MapInv /\ Tab!Table!Init
    OBVIOUS
  <2>1. TableInv
    BY Started
  <2>2. lines \in Lined /\ \A l \in Tab!Line : lines[l] = << >>
    BY <2>1 DEF TableInv, Lined, Tab!Init
  <2>3. \A k \in Key : Known(lines, k) /\ Tab!Values(lines, k) = << >>
    BY <1>1, <2>2, NoValues
  <2>4. [k \in Key |-> Tab!Values(lines, k)] = [k \in Key |-> << >>]
    BY <2>3
  <2>5. Tab!Table!Init
    <3>1. memory = "fault" => MayFail
      BY <2>1 DEF TableInv, FaultFromFailure
    <3>. QED  BY <2>4, <3>1 DEF Tab!Table!Init, Tab!Init
  <2>. QED  BY <2>1, <2>3, <2>5 DEF MapInv
<1>3. MapInv /\ [Tab!Next]_(Tab!vars) => MapInv' /\ [Tab!Table!Next]_(Tab!Table!vars)
  BY <1>1, MapStep DEF Tab!Table!Step
<1>. QED
  BY <1>2, <1>3, PTL DEF Tab!Spec, Tab!ImplementsMultiMap, Tab!Table!Spec

-------------------------------------------------------------------------------
(* The sort.                                                                  *)

\* The places of v in s.
PlacesOf(s, v) == {k \in 1 .. Len(s) : s[k] = v}

Exchanged(s, a, b) == [s EXCEPT ![a] = s[b], ![b] = s[a]]

LEMMA ExchangedAt ==
    ASSUME NEW s \in Seq(Int), NEW a \in 1 .. Len(s), NEW b \in 1 .. Len(s)
    PROVE  LET t == Exchanged(s, a, b)
           IN  /\ t \in Seq(Int) /\ Len(t) = Len(s)
               /\ t[a] = s[b] /\ t[b] = s[a]
               /\ \A k \in 1 .. Len(s) : k # a /\ k # b => t[k] = s[k]
  BY DEF Exchanged

LEMMA ExchangedCounts ==
    ASSUME NEW s \in Seq(Int), NEW a \in 1 .. Len(s), NEW b \in 1 .. Len(s), NEW v
    PROVE  Cardinality(PlacesOf(Exchanged(s, a, b), v)) = Cardinality(PlacesOf(s, v))
<1> DEFINE t == Exchanged(s, a, b)
           S == PlacesOf(s, v)
           T == PlacesOf(t, v)
           f == [k \in S |-> IF k = a THEN b ELSE IF k = b THEN a ELSE k]
<1>1. /\ t \in Seq(Int) /\ Len(t) = Len(s) /\ t[a] = s[b] /\ t[b] = s[a]
      /\ \A k \in 1 .. Len(s) : k # a /\ k # b => t[k] = s[k]
  BY ExchangedAt
<1>2. IsFiniteSet(S)
  <2>1. IsFiniteSet(1 .. Len(s))
    BY FS_Interval
  <2>. QED  BY <2>1, FS_Subset DEF PlacesOf
<1>3. f \in Bijection(S, T)
  <2>. HIDE DEF t
  <2>1. \A k \in S : f[k] \in T
    BY <1>1 DEF PlacesOf
  <2>2. \A k, l \in S : f[k] = f[l] => k = l
    BY DEF PlacesOf
  <2>3. \A l \in T : \E k \in S : f[k] = l
    <3>. SUFFICES ASSUME NEW l \in T PROVE \E k \in S : f[k] = l
      OBVIOUS
    <3>1. CASE l = a
      <4>1. b \in S /\ f[b] = a
        BY <1>1, <3>1 DEF PlacesOf
      <4>. QED  BY <3>1, <4>1
    <3>2. CASE l = b
      <4>1. a \in S /\ f[a] = b
        BY <1>1, <3>2 DEF PlacesOf
      <4>. QED  BY <3>2, <4>1
    <3>3. CASE l # a /\ l # b
      <4>1. l \in S /\ f[l] = l
        BY <1>1, <3>3 DEF PlacesOf
      <4>. QED  BY <4>1
    <3>. QED  BY <3>1, <3>2, <3>3
  <2>. QED
    BY <2>1, <2>2, <2>3 DEF Bijection, Injection, Surjection, IsInjective
<1>4. Cardinality(T) = Cardinality(S)
  BY <1>2, <1>3, FS_Bijection DEF ExistsBijection
<1>. QED  BY <1>4

SortTypes ==
    /\ array \in Seq(Int) /\ given \in Seq(Int) /\ calls \in Seq(Int \X Int)
    /\ pc \in {"call", "up", "down", "swap"}
    /\ up \in Int /\ down \in Int

\* The ranges that wait lie in the array, one behind the other.
WaitShape ==
    /\ \A k \in 1 .. Len(calls) : 1 <= calls[k][1] /\ calls[k][2] <= Len(array)
    /\ \A k, l \in 1 .. Len(calls) : k < l => calls[k][2] < calls[l][1]

\* The first of them is being parted: what the indices have passed is on its
\* side of the key, which is still in the first place.
PartShape ==
    pc # "call" =>
        /\ calls # << >> /\ Q!First < Q!End
        /\ up \in Q!First .. Q!End /\ down \in Q!First .. Q!End
        /\ ~ByAddress =>
              /\ \A a \in Q!First .. up - 1 : array[a] <= array[Q!First]
              /\ \A a \in down + 1 .. Q!End : array[Q!First] <= array[a]
              /\ pc \in {"down", "swap"} => up = Q!End \/ array[Q!First] < array[up]
              /\ pc = "swap" => down = Q!First \/ array[down] < array[Q!First]

\* No range that waits has both places.
Apart(a, b) == ~\E k \in 1 .. Len(calls) : calls[k][1] <= a /\ b <= calls[k][2]

OrderedApart ==
    ~ByAddress => \A a, b \in 1 .. Len(array) : a < b /\ Apart(a, b) => array[a] <= array[b]

SameValues ==
    \A v : Cardinality(PlacesOf(array, v)) = Cardinality(PlacesOf(given, v))

SortInv == SortTypes /\ WaitShape /\ PartShape /\ OrderedApart /\ SameValues

LEMMA SortInit == ASSUME Q!SortAssumption, Q!Init PROVE SortInv
<1>1. array \in Seq(Int) /\ given = array /\ calls = << <<1, Len(array)>> >> /\ pc = "call"
      /\ up = 0 /\ down = 0
  <2>1. PICK n \in 1 .. MaxLen : array \in [1 .. n -> Value]
    BY DEF Q!Init
  <2>2. MaxLen \in Nat /\ Value \subseteq Int
    BY DEF Q!SortAssumption
  <2>. n \in Nat
    BY <2>2
  <2>3. \A k \in 1 .. n : array[k] \in Int
    BY <2>1, <2>2
  <2>4. array \in [1 .. n -> Int]
    BY <2>1, <2>3
  <2>. QED  BY <2>4 DEF Q!Init
<1>2. SortTypes /\ WaitShape
  BY <1>1 DEF SortTypes, WaitShape
<1>3. PartShape
  BY <1>1 DEF PartShape
<1>4. \A a, b \in 1 .. Len(array) : ~Apart(a, b)
  BY <1>1 DEF Apart
<1>. QED  BY <1>1, <1>2, <1>3, <1>4 DEF SortInv, OrderedApart, SameValues

\* The first range that waits.
LEMMA FirstWaits ==
    ASSUME SortInv, calls # << >>
    PROVE  /\ Len(calls) \in Nat /\ 1 \in 1 .. Len(calls)
           /\ calls[1] = Head(calls) /\ Q!First = calls[1][1] /\ Q!End = calls[1][2]
           /\ Q!First \in Int /\ Q!End \in Int
           /\ 1 <= Q!First /\ Q!End <= Len(array) /\ Len(array) \in Nat
           /\ Tail(calls) \in Seq(Int \X Int) /\ Len(Tail(calls)) = Len(calls) - 1
           /\ \A k \in 1 .. Len(calls) - 1 : Tail(calls)[k] = calls[k + 1]
<1>1. calls \in Seq(Int \X Int) /\ WaitShape /\ array \in Seq(Int)
  BY DEF SortInv, SortTypes
<1>2. Len(calls) \in Nat /\ 1 \in 1 .. Len(calls) /\ calls[1] = Head(calls)
      /\ Len(array) \in Nat
  BY <1>1
<1>3. /\ Tail(calls) \in Seq(Int \X Int) /\ Len(Tail(calls)) = Len(calls) - 1
      /\ \A k \in 1 .. Len(calls) - 1 : Tail(calls)[k] = calls[k + 1]
  BY <1>1
<1>4. calls[1] \in Int \X Int
  BY <1>1, <1>2
<1>. QED  BY <1>1, <1>2, <1>3, <1>4 DEF WaitShape, Q!First, Q!End

LEMMA SortCall == ASSUME SortInv, Q!Call PROVE SortInv'
<1>1. pc = "call" /\ calls # << >> /\ UNCHANGED <<array, given>>
  BY DEF Q!Call
<1>2. SortTypes /\ WaitShape /\ OrderedApart /\ SameValues
  BY DEF SortInv
<1>3. CASE Q!First >= Q!End /\ calls' = Tail(calls) /\ UNCHANGED <<pc, up, down>>
  <2>1. SortTypes'
    BY <1>1, <1>2, <1>3, FirstWaits DEF SortTypes
  <2>2. WaitShape'
    BY <1>1, <1>2, <1>3, FirstWaits DEF WaitShape
  <2>3. PartShape'
    BY <1>1, <1>3 DEF PartShape
  <2>4. ASSUME NEW a \in 1 .. Len(array), NEW b \in 1 .. Len(array), a < b, Apart(a, b)'
        PROVE  Apart(a, b)
    <3>1. ASSUME NEW k \in 1 .. Len(calls), calls[k][1] <= a, b <= calls[k][2]
          PROVE  FALSE
      <4>1. k # 1
        BY <1>1, <1>3, <2>4, <3>1, FirstWaits
      <4>2. k - 1 \in 1 .. Len(Tail(calls)) /\ Tail(calls)[k - 1] = calls[k]
        BY <1>1, <4>1, FirstWaits
      <4>. QED  BY <1>3, <2>4, <3>1, <4>2 DEF Apart
    <3>. QED  BY <3>1 DEF Apart
  <2>5. OrderedApart'
    BY <1>1, <1>2, <2>4 DEF OrderedApart
  <2>. QED  BY <1>1, <1>2, <2>1, <2>2, <2>3, <2>5 DEF SortInv, SameValues
<1>4. CASE /\ Q!First < Q!End /\ up' = Q!First /\ down' = Q!End /\ pc' = "up"
           /\ UNCHANGED calls
  <2>1. SortTypes' /\ WaitShape' /\ OrderedApart' /\ SameValues'
    <3>1. up' \in Int /\ down' \in Int
      BY <1>1, <1>4, FirstWaits
    <3>2. SortTypes'
      BY <1>1, <1>2, <1>4, <3>1 DEF SortTypes
    <3>3. WaitShape' /\ SameValues'
      BY <1>1, <1>2, <1>4 DEF WaitShape, SameValues
    <3>4. OrderedApart'
      BY <1>1, <1>2, <1>4 DEF OrderedApart, Apart
    <3>. QED  BY <3>2, <3>3, <3>4
  <2>2. Q!First' = Q!First /\ Q!End' = Q!End
    BY <1>4 DEF Q!First, Q!End
  <2>3. PartShape'
    BY <1>1, <1>4, <2>2, FirstWaits DEF PartShape
  <2>. QED  BY <2>1, <2>3 DEF SortInv
<1>5. Q!First \in Int /\ Q!End \in Int
  BY <1>1, FirstWaits
<1>. QED  BY <1>1, <1>3, <1>4, <1>5 DEF Q!Call

LEMMA SortPass == ASSUME SortInv, Q!Up \/ Q!Down PROVE SortInv'
<1>1. /\ pc \in {"up", "down"} /\ pc' \in {"up", "down", "swap"}
      /\ UNCHANGED <<array, calls, given>>
  BY DEF Q!Up, Q!Down
<1>2. SortTypes /\ WaitShape /\ PartShape /\ OrderedApart /\ SameValues
  BY DEF SortInv
<1>3. Q!First' = Q!First /\ Q!End' = Q!End
  BY <1>1 DEF Q!First, Q!End
<1>4. /\ calls # << >> /\ Q!First < Q!End /\ Q!First \in Int /\ Q!End \in Int
      /\ up \in Q!First .. Q!End /\ down \in Q!First .. Q!End
      /\ \A a \in Q!First .. Q!End : array[a] \in Int
  <2>1. /\ calls # << >> /\ Q!First < Q!End
        /\ up \in Q!First .. Q!End /\ down \in Q!First .. Q!End
    BY <1>1, <1>2 DEF PartShape
  <2>2. /\ Q!First \in Int /\ Q!End \in Int /\ 1 <= Q!First
        /\ Q!End <= Len(array) /\ Len(array) \in Nat
    BY <2>1, FirstWaits
  <2>3. array \in Seq(Int) /\ \A a \in Q!First .. Q!End : a \in 1 .. Len(array)
    BY <1>2, <2>2 DEF SortTypes
  <2>. QED  BY <2>1, <2>2, <2>3
<1>5. CASE Q!Up
  <2>1. ~ByAddress => \/ /\ up < Q!End /\ array[up] <= array[Q!First] /\ up' = up + 1
                         /\ pc' = pc /\ down' = down
                      \/ /\ up = Q!End \/ array[Q!First] < array[up]
                         /\ pc' = "down" /\ up' = up /\ down' = down
    BY <1>4, <1>5 DEF Q!Up, Q!Cmp
  <2>2. /\ up' \in Q!First .. Q!End /\ down' = down /\ pc = "up"
        /\ pc' \in {"up", "down"}
    BY <1>4, <1>5 DEF Q!Up
  <2>3. ASSUME ~ByAddress
        PROVE  /\ \A a \in Q!First .. up' - 1 : array[a] <= array[Q!First]
               /\ \A a \in down + 1 .. Q!End : array[Q!First] <= array[a]
               /\ pc' = "down" => up' = Q!End \/ array[Q!First] < array[up']
    <3>1. /\ \A a \in Q!First .. up - 1 : array[a] <= array[Q!First]
          /\ \A a \in down + 1 .. Q!End : array[Q!First] <= array[a]
      BY <1>1, <1>2, <2>2, <2>3 DEF PartShape
    <3>2. CASE up' = up + 1 /\ pc' = "up" /\ array[up] <= array[Q!First]
      <4>1. \A a \in Q!First .. up' - 1 : a \in Q!First .. up - 1 \/ a = up
        BY <1>4, <3>2
      <4>. QED  BY <3>1, <3>2, <4>1
    <3>3. CASE up' = up /\ (up = Q!End \/ array[Q!First] < array[up])
      BY <3>1, <3>3
    <3>. QED  BY <2>1, <2>2, <2>3, <3>2, <3>3
  <2>4. PartShape'
    BY <1>1, <1>3, <1>4, <2>2, <2>3 DEF PartShape
  <2>5. SortTypes'
    BY <1>1, <1>2, <1>4, <2>2 DEF SortTypes
  <2>. QED
    BY <1>1, <1>2, <2>4, <2>5 DEF SortInv, WaitShape, OrderedApart, Apart, SameValues
<1>6. CASE Q!Down
  <2>1. ~ByAddress => \/ /\ Q!First < down /\ array[Q!First] <= array[down] /\ down' = down - 1
                         /\ pc' = pc /\ up' = up
                      \/ /\ down = Q!First \/ array[down] < array[Q!First]
                         /\ pc' = "swap" /\ up' = up /\ down' = down
    BY <1>4, <1>6 DEF Q!Down, Q!Cmp
  <2>2. /\ down' \in Q!First .. Q!End /\ up' = up /\ pc = "down"
        /\ pc' \in {"down", "swap"}
    BY <1>4, <1>6 DEF Q!Down
  <2>3. ASSUME ~ByAddress
        PROVE  /\ \A a \in Q!First .. up - 1 : array[a] <= array[Q!First]
               /\ \A a \in down' + 1 .. Q!End : array[Q!First] <= array[a]
               /\ up = Q!End \/ array[Q!First] < array[up]
               /\ pc' = "swap" => down' = Q!First \/ array[down'] < array[Q!First]
    <3>1. /\ \A a \in Q!First .. up - 1 : array[a] <= array[Q!First]
          /\ \A a \in down + 1 .. Q!End : array[Q!First] <= array[a]
          /\ up = Q!End \/ array[Q!First] < array[up]
      BY <1>1, <1>2, <2>2, <2>3 DEF PartShape
    <3>2. CASE down' = down - 1 /\ pc' = "down" /\ array[Q!First] <= array[down]
      <4>1. \A a \in down' + 1 .. Q!End : a \in down + 1 .. Q!End \/ a = down
        BY <1>4, <3>2
      <4>. QED  BY <3>1, <3>2, <4>1
    <3>3. CASE down' = down /\ (down = Q!First \/ array[down] < array[Q!First])
      BY <3>1, <3>3
    <3>. QED  BY <2>1, <2>2, <2>3, <3>2, <3>3
  <2>4. PartShape'
    BY <1>1, <1>3, <1>4, <2>2, <2>3 DEF PartShape
  <2>5. SortTypes'
    BY <1>1, <1>2, <1>4, <2>2 DEF SortTypes
  <2>. QED
    BY <1>1, <1>2, <2>4, <2>5 DEF SortInv, WaitShape, OrderedApart, Apart, SameValues
<1>. QED  BY <1>5, <1>6

\* Two places that change within the first range leave what is outside it in
\* order: no range that waits has a place of it and another one behind it.
LEMMA ExchangeApart ==
    ASSUME SortInv, calls # << >>, ~ByAddress,
           NEW x \in Q!First .. Q!End, NEW y \in Q!First .. Q!End,
           NEW t, t = Exchanged(array, x, y),
           NEW a \in 1 .. Len(array), NEW b \in 1 .. Len(array),
           a < b, Apart(a, b)
    PROVE  t[a] <= t[b]
<1>1. /\ array \in Seq(Int) /\ OrderedApart /\ WaitShape
      /\ calls \in Seq(Int \X Int)
  BY DEF SortInv, SortTypes
<1>2. x \in 1 .. Len(array) /\ y \in 1 .. Len(array)
  BY FirstWaits
<1>. DEFINE At(k) == IF k = x THEN y ELSE IF k = y THEN x ELSE k
<1>3. /\ t[x] = array[y] /\ t[y] = array[x]
      /\ \A k \in 1 .. Len(array) : k # x /\ k # y => t[k] = array[k]
  BY <1>1, <1>2, ExchangedAt
<1>4. \A k \in 1 .. Len(array) :
          /\ At(k) \in 1 .. Len(array) /\ t[k] = array[At(k)]
          /\ At(k) = k \/ (k \in Q!First .. Q!End /\ At(k) \in Q!First .. Q!End)
  BY <1>2, <1>3
<1>. HIDE DEF At
<1>5. PICK c \in 1 .. Len(array) : /\ t[a] = array[c]
                                   /\ c = a \/ (a \in Q!First .. Q!End /\ c \in Q!First .. Q!End)
  BY <1>4
<1>6. PICK d \in 1 .. Len(array) : /\ t[b] = array[d]
                                   /\ d = b \/ (b \in Q!First .. Q!End /\ d \in Q!First .. Q!End)
  BY <1>4
<1>7. ~(a \in Q!First .. Q!End /\ b \in Q!First .. Q!End)
  BY FirstWaits DEF Apart
<1>8. c < d /\ Q!First \in Int /\ Q!End \in Int
  <2>1. Q!First \in Int /\ Q!End \in Int
    BY FirstWaits
  <2>. QED  BY <1>5, <1>6, <1>7, <2>1
<1>9. Apart(c, d)
  <2>1. ASSUME NEW k \in 1 .. Len(calls), calls[k][1] <= c, d <= calls[k][2]
        PROVE  FALSE
    <3>1. calls[k] \in Int \X Int /\ k # 1
      <4>1. CASE k = 1
        <5>1. Q!First <= c /\ d <= Q!End
          BY <2>1, <4>1, FirstWaits
        <5>. QED  BY <1>5, <1>6, <1>7, <1>8, <5>1
      <4>. QED  BY <1>1, <4>1
    <3>2. Q!End < calls[k][1]
      BY <1>1, <3>1, FirstWaits DEF WaitShape
    <3>. calls[k][1] \in Int /\ calls[k][2] \in Int /\ Q!First \in Int /\ Q!End \in Int
      BY <3>1, FirstWaits
    <3>3. c = a /\ d = b
      <4>1. Q!End < c /\ Q!End < d
        BY <1>8, <2>1, <3>2
      <4>. QED  BY <1>5, <1>6, <4>1
    <3>. QED  BY <2>1, <3>3 DEF Apart
  <2>. QED  BY <2>1 DEF Apart
<1>. QED  BY <1>1, <1>5, <1>6, <1>8, <1>9 DEF OrderedApart

LEMMA SortSwap == ASSUME SortInv, Q!Swap PROVE SortInv'
<1>1. /\ pc = "swap" /\ pc' = "up" /\ up < down /\ array' = Exchanged(array, up, down)
      /\ UNCHANGED <<calls, up, down, given>>
  BY DEF Q!Swap, Q!Swapped, Exchanged
<1>2. SortTypes /\ WaitShape /\ PartShape /\ OrderedApart /\ SameValues
  BY DEF SortInv
<1>3. Q!First' = Q!First /\ Q!End' = Q!End
  BY <1>1 DEF Q!First, Q!End
<1>4. /\ calls # << >> /\ Q!First < Q!End /\ Q!First \in Int /\ Q!End \in Int
      /\ up \in Q!First .. Q!End /\ down \in Q!First .. Q!End
      /\ up \in 1 .. Len(array) /\ down \in 1 .. Len(array)
      /\ array \in Seq(Int) /\ \A a \in Q!First .. Q!End : a \in 1 .. Len(array)
  <2>1. /\ calls # << >> /\ Q!First < Q!End
        /\ up \in Q!First .. Q!End /\ down \in Q!First .. Q!End
    BY <1>1, <1>2 DEF PartShape
  <2>2. /\ Q!First \in Int /\ Q!End \in Int /\ 1 <= Q!First
        /\ Q!End <= Len(array) /\ Len(array) \in Nat
    BY <2>1, FirstWaits
  <2>3. array \in Seq(Int)
    BY <1>2 DEF SortTypes
  <2>. QED  BY <2>1, <2>2, <2>3
<1>5. /\ array' \in Seq(Int) /\ Len(array') = Len(array)
      /\ array'[up] = array[down] /\ array'[down] = array[up]
      /\ \A k \in 1 .. Len(array) : k # up /\ k # down => array'[k] = array[k]
  BY <1>1, <1>4, ExchangedAt
<1>6. SortTypes' /\ WaitShape'
  BY <1>1, <1>2, <1>5 DEF SortTypes, WaitShape
<1>7. ASSUME ~ByAddress
      PROVE  /\ \A a \in Q!First .. up - 1 : array'[a] <= array'[Q!First]
             /\ \A a \in down + 1 .. Q!End : array'[Q!First] <= array'[a]
  <2>1. /\ \A a \in Q!First .. up - 1 : array[a] <= array[Q!First]
        /\ \A a \in down + 1 .. Q!End : array[Q!First] <= array[a]
        /\ array[Q!First] < array[up]
    BY <1>1, <1>2, <1>4, <1>7 DEF PartShape
  <2>2. array[Q!First] \in Int /\ Q!First # up
    <3>1. Q!First \in Q!First .. Q!End
      BY <1>4
    <3>. QED  BY <1>4, <2>1, <3>1
  <2>3. array'[Q!First] = array[Q!First]
    BY <1>1, <1>4, <1>5, <2>2
  <2>4. \A a \in Q!First .. up - 1 : array'[a] = array[a]
    BY <1>1, <1>4, <1>5
  <2>5. \A a \in down + 1 .. Q!End : array'[a] = array[a]
    BY <1>1, <1>4, <1>5
  <2>. QED  BY <2>1, <2>3, <2>4, <2>5
<1>8. PartShape'
  BY <1>1, <1>3, <1>4, <1>7 DEF PartShape
<1>9. OrderedApart'
  <2>1. \A a, b : Apart(a, b)' <=> Apart(a, b)
    BY <1>1 DEF Apart
  <2>2. ASSUME ~ByAddress, NEW a \in 1 .. Len(array), NEW b \in 1 .. Len(array),
               a < b, Apart(a, b)
        PROVE  array'[a] <= array'[b]
    BY <1>1, <1>4, <2>2, ExchangeApart
  <2>. QED  BY <1>5, <2>1, <2>2 DEF OrderedApart
<1>10. SameValues'
  BY <1>1, <1>2, <1>4, ExchangedCounts DEF SameValues
<1>. QED  BY <1>6, <1>8, <1>9, <1>10 DEF SortInv

LEMMA SortSplit == ASSUME SortInv, Q!Split PROVE SortInv'
<1> DEFINE F == Q!First
           E == Q!End
<1>1. /\ pc = "swap" /\ pc' = "call" /\ up >= down /\ array' = Exchanged(array, F, down)
      /\ calls' = << <<F, down - 1>>, <<down + 1, E>> >> \o Tail(calls)
      /\ UNCHANGED <<up, down, given>>
  BY DEF Q!Split, Q!Swapped, Exchanged
<1>2. SortTypes /\ WaitShape /\ PartShape /\ OrderedApart /\ SameValues
  BY DEF SortInv
<1>. calls # << >> /\ SortInv
  BY <1>1, <1>2 DEF PartShape
<1>3. Len(calls) \in Nat /\ Len(calls) >= 1 /\ Len(array) \in Nat
  BY FirstWaits
<1>4. /\ F < E /\ F \in Int /\ E \in Int /\ 1 <= F /\ E <= Len(array)
       /\ up \in F .. E /\ down \in F .. E
  BY <1>1, <1>2, FirstWaits DEF PartShape
<1>5. array \in Seq(Int) /\ calls \in Seq(Int \X Int)
  BY <1>2 DEF SortTypes
<1>6. /\ F < E /\ F \in Int /\ E \in Int /\ 1 <= F /\ E <= Len(array)
      /\ up \in F .. E /\ down \in F .. E
      /\ F \in 1 .. Len(array) /\ down \in 1 .. Len(array)
      /\ array \in Seq(Int) /\ Len(array) \in Nat /\ Len(calls) \in Nat
      /\ \A a \in F .. E : a \in 1 .. Len(array)
  <2>. HIDE DEF F, E
  <2>. QED  BY <1>4, <1>5
<1>7. /\ array' \in Seq(Int) /\ Len(array') = Len(array)
      /\ array'[F] = array[down] /\ array'[down] = array[F]
      /\ \A k \in 1 .. Len(array) : k # F /\ k # down => array'[k] = array[k]
  BY <1>1, <1>6, ExchangedAt
<1>8. /\ calls' \in Seq(Int \X Int) /\ Len(calls') = Len(calls) + 1
      /\ calls'[1] = <<F, down - 1>> /\ calls'[2] = <<down + 1, E>>
      /\ \A k \in 2 .. Len(calls) : calls'[k + 1] = calls[k]
  <2>1. << <<F, down - 1>>, <<down + 1, E>> >> \in Seq(Int \X Int)
    BY <1>6
  <2>2. /\ Tail(calls) \in Seq(Int \X Int) /\ Len(Tail(calls)) = Len(calls) - 1
        /\ \A k \in 1 .. Len(calls) - 1 : Tail(calls)[k] = calls[k + 1]
    BY FirstWaits
  <2>. HIDE DEF F, E
  <2>3. calls' \in Seq(Int \X Int) /\ Len(calls') = Len(calls) + 1
    BY <1>1, <1>6, <2>1, <2>2
  <2>4. calls'[1] = <<F, down - 1>> /\ calls'[2] = <<down + 1, E>>
    BY <1>1, <1>6, <2>1, <2>2
  <2>5. \A k \in 2 .. Len(calls) : calls'[k + 1] = Tail(calls)[k - 1]
    BY <1>1, <1>6, <2>1, <2>2
  <2>6. \A k \in 2 .. Len(calls) : k - 1 \in 1 .. Len(calls) - 1 /\ (k - 1) + 1 = k
    BY <1>6
  <2>7. \A k \in 2 .. Len(calls) : Tail(calls)[k - 1] = calls[k]
    BY <2>2, <2>6
  <2>. QED  BY <2>3, <2>4, <2>5, <2>7
<1>9. calls[1][1] = F /\ calls[1][2] = E
  BY <1>6, FirstWaits
<1>. HIDE DEF F, E
<1>10. SortTypes'
  BY <1>1, <1>2, <1>7, <1>8 DEF SortTypes
<1>11. \A k \in 3 .. Len(calls') : k - 1 \in 2 .. Len(calls) /\ calls'[k] = calls[k - 1]
  BY <1>6, <1>8
<1>12. /\ calls'[1][1] = F /\ calls'[1][2] = down - 1
       /\ calls'[2][1] = down + 1 /\ calls'[2][2] = E
       /\ \A k \in 1 .. Len(calls') : k = 1 \/ k = 2 \/ k \in 3 .. Len(calls')
  BY <1>6, <1>8
<1>13. /\ F \in Int /\ E \in Int /\ down \in Int /\ up \in Int
       /\ 1 <= F /\ F < E /\ E <= Len(array) /\ F <= down /\ down <= E
       /\ Len(array) \in Nat /\ Len(array') = Len(array) /\ up >= down
  BY <1>1, <1>4, <1>3, <1>7
<1>14. \A a \in F .. E : array[a] \in Int /\ array'[a] \in Int
  <2>1. array \in Seq(Int) /\ array' \in Seq(Int) /\ Len(array') = Len(array)
    BY <1>7, <1>5
  <2>2. \A a \in F .. E : a \in 1 .. Len(array)
    BY <1>13
  <2>. QED  BY <2>1, <2>2
<1>15. WaitShape'
  <2>1. \A k \in 1 .. Len(calls) : calls[k][1] \in Int /\ calls[k][2] \in Int
    <3>1. \A k \in 1 .. Len(calls) : calls[k] \in Int \X Int
      BY <1>5
    <3>. QED  BY <3>1
  <2>2. /\ 1 \in 1 .. Len(calls)
        /\ \A k \in 2 .. Len(calls) : k \in 1 .. Len(calls) /\ 1 < k
    BY <1>3
  <2>3. \A k \in 2 .. Len(calls) : /\ E < calls[k][1] /\ calls[k][2] <= Len(array)
                                   /\ 1 <= calls[k][1]
    BY <1>2, <1>9, <2>2 DEF WaitShape
  <2>4. \A k \in 3 .. Len(calls') : /\ E < calls'[k][1] /\ calls'[k][2] <= Len(array)
                                    /\ 1 <= calls'[k][1] /\ calls'[k][1] \in Int
    BY <1>11, <2>1, <2>2, <2>3
  <2>5. \A k \in 1 .. Len(calls') : 1 <= calls'[k][1] /\ calls'[k][2] <= Len(array')
    <3>1. ASSUME NEW k \in 1 .. Len(calls')
          PROVE  1 <= calls'[k][1] /\ calls'[k][2] <= Len(array')
      <4>1. CASE k = 1
        BY <1>12, <1>13, <4>1
      <4>2. CASE k = 2
        BY <1>12, <1>13, <4>2
      <4>3. CASE k \in 3 .. Len(calls')
        BY <1>7, <2>4, <4>3
      <4>. QED  BY <1>12, <4>1, <4>2, <4>3
    <3>. QED  BY <3>1
  <2>6. ASSUME NEW k \in 1 .. Len(calls'), NEW l \in 1 .. Len(calls'), k < l
        PROVE  calls'[k][2] < calls'[l][1]
    <3>1. CASE k \in 3 .. Len(calls')
      <4>1. l \in 3 .. Len(calls')
        BY <2>6, <3>1
      <4>2. /\ k - 1 \in 1 .. Len(calls) /\ l - 1 \in 1 .. Len(calls) /\ k - 1 < l - 1
            /\ calls'[k] = calls[k - 1] /\ calls'[l] = calls[l - 1]
        BY <1>11, <2>2, <2>6, <3>1, <4>1
      <4>. QED  BY <1>2, <4>2 DEF WaitShape
    <3>2. CASE (k = 1 \/ k = 2) /\ l \in 3 .. Len(calls')
      <4>1. E < calls'[l][1] /\ calls'[l][1] \in Int
        BY <2>4, <3>2
      <4>2. calls'[k][2] <= E /\ calls'[k][2] \in Int
        BY <1>12, <1>13, <3>2
      <4>. QED  BY <1>13, <4>1, <4>2
    <3>3. CASE k = 1 /\ l = 2
      BY <1>12, <1>13, <3>3
    <3>4. \/ k \in 3 .. Len(calls')
          \/ k = 1 /\ l = 2
          \/ (k = 1 \/ k = 2) /\ l \in 3 .. Len(calls')
      <4>1. /\ k \in Int /\ l \in Int /\ Len(calls') \in Int
            /\ 1 <= k /\ k < l /\ l <= Len(calls')
        BY <2>6, <1>8, <1>3
      <4>. QED  BY <4>1
    <3>. QED  BY <3>1, <3>2, <3>3, <3>4
  <2>. QED  BY <2>5, <2>6 DEF WaitShape
<1>16. OrderedApart'
  <2>. SUFFICES ASSUME ~ByAddress, NEW a \in 1 .. Len(array), NEW b \in 1 .. Len(array),
                       a < b, Apart(a, b)'
                PROVE  array'[a] <= array'[b]
    BY <1>7 DEF OrderedApart
  <2>1. CASE Apart(a, b)
    <3>1. F \in Q!First .. Q!End /\ down \in Q!First .. Q!End
      BY <1>6 DEF F, E
    <3>. QED  BY <1>1, <1>6, <2>1, <3>1, ExchangeApart
  <2>2. CASE ~Apart(a, b)
    <3>1. PICK k \in 1 .. Len(calls) : calls[k][1] <= a /\ b <= calls[k][2]
      BY <2>2 DEF Apart
    <3>2. k = 1
      <4>1. ASSUME k # 1 PROVE FALSE
        <5>1. k + 1 \in 1 .. Len(calls') /\ calls'[k + 1] = calls[k]
          BY <1>6, <1>8, <4>1
        <5>. QED  BY <3>1, <5>1 DEF Apart
      <4>. QED  BY <4>1
    <3>3. F <= a /\ b <= E
      BY <1>9, <3>1, <3>2
    <3>4. ~(F <= a /\ b <= down - 1) /\ ~(down + 1 <= a /\ b <= E)
      <4>1. 1 \in 1 .. Len(calls') /\ 2 \in 1 .. Len(calls')
        BY <1>6, <1>8
      <4>2. ~(calls'[1][1] <= a /\ b <= calls'[1][2]) /\ ~(calls'[2][1] <= a /\ b <= calls'[2][2])
        BY <4>1 DEF Apart
      <4>. QED  BY <1>12, <4>2
    <3>5. a <= down /\ down <= b
      BY <1>6, <3>3, <3>4
    <3>6. /\ \A c \in F .. up - 1 : array[c] <= array[F]
          /\ \A c \in down + 1 .. E : array[F] <= array[c]
          /\ down = F \/ array[down] < array[F]
      BY <1>1, <1>2 DEF PartShape, F, E
    <3>7. \A c \in F .. E : array[c] \in Int /\ array'[c] \in Int
      BY <1>14
    <3>8. F \in F .. E
      BY <1>6
    <3>9. array'[a] <= array[F]
      <4>1. CASE a = F
        BY <1>7, <3>6, <3>7, <3>8, <4>1, <1>13
      <4>2. CASE a = down /\ a # F
        BY <1>7, <3>7, <3>8, <4>2
      <4>3. CASE a # down /\ a # F
        <5>1. a \in F .. up - 1
          BY <1>13, <3>3, <3>5, <4>3
        <5>2. array'[a] = array[a]
          BY <1>7, <4>3
        <5>. QED  BY <3>6, <5>1, <5>2
      <4>. QED  BY <4>1, <4>2, <4>3
    <3>10. array[F] <= array'[b]
      <4>1. CASE b = down
        BY <1>7, <3>7, <3>8, <4>1
      <4>2. CASE b # down
        <5>1. b \in down + 1 .. E /\ b # F
          BY <1>13, <3>3, <3>5, <4>2
        <5>2. array'[b] = array[b]
          BY <1>7, <4>2, <5>1
        <5>. QED  BY <3>6, <5>1, <5>2
      <4>. QED  BY <4>1, <4>2
    <3>11. array'[a] \in Int /\ array'[b] \in Int /\ array[F] \in Int
      <4>1. a \in F .. E /\ b \in F .. E
        BY <1>6, <3>3
      <4>. QED  BY <3>7, <3>8, <4>1
    <3>. QED  BY <3>9, <3>10, <3>11
  <2>. QED  BY <2>1, <2>2
<1>17. SameValues'
  BY <1>1, <1>2, <1>6, ExchangedCounts DEF SameValues
<1>18. PartShape'
  BY <1>1 DEF PartShape
<1>. QED  BY <1>10, <1>15, <1>16, <1>17, <1>18 DEF SortInv

LEMMA SortAlways == ASSUME Q!SortAssumption PROVE Q!Spec => []SortInv
<1>1. Q!Init => SortInv
  BY SortInit
<1>2. SortInv /\ [Q!Next]_(Q!vars) => SortInv'
  <2>1. ASSUME SortInv, UNCHANGED Q!vars PROVE SortInv'
    BY <2>1 DEF SortInv, SortTypes, WaitShape, PartShape, OrderedApart, Apart, SameValues,
       Q!vars, Q!First, Q!End
  <2>. QED  BY <2>1, SortCall, SortPass, SortSwap, SortSplit DEF Q!Next
<1>. QED  BY <1>1, <1>2, PTL DEF Q!Spec

\* Whatever cmp answers, mgfastsort exchanges places of the list and nothing
\* else, and its indices never leave the range of the call (mgfastsort.c:6-29).
THEOREM SortPermutes ==
    ASSUME Q!SortAssumption PROVE Q!Spec => [](Q!Permutes /\ Q!InRange)
<1>1. ASSUME SortInv PROVE Q!Permutes
  <2>1. \A s, v : Q!Times(s, v) = Cardinality({k \in DOMAIN s : s[k] = v})
    BY DEF Q!Times, Q!Cardinality, Cardinality
  <2>2. DOMAIN array = 1 .. Len(array) /\ DOMAIN given = 1 .. Len(given)
    BY <1>1 DEF SortInv, SortTypes
  <2>3. \A v : Cardinality(PlacesOf(array, v)) = Cardinality(PlacesOf(given, v))
    BY <1>1 DEF SortInv, SameValues
  <2>4. \A v : Q!Times(array, v) = Q!Times(given, v)
    BY <2>1, <2>2, <2>3 DEF PlacesOf
  <2>. QED  BY <2>4 DEF Q!Permutes
<1>2. ASSUME SortInv PROVE Q!InRange
  BY <1>2 DEF SortInv, PartShape, Q!InRange
<1>. QED  BY <1>1, <1>2, SortAlways, PTL

\* With a cmp of what is stored, all that may be out of order is in a range that
\* waits for its call: when none is left the list is sorted (mgfastsort.c:6-29).
THEOREM SortSorts ==
    ASSUME Q!SortAssumption, ~ByAddress
    PROVE  Q!Spec => []( /\ Q!SortedElsewhere
                         /\ calls = << >> =>
                              \A a, b \in DOMAIN array : a < b => array[a] <= array[b] )
<1>1. ASSUME SortInv
      PROVE  \A a, b \in DOMAIN array : a < b /\ Apart(a, b) => array[a] <= array[b]
  <2>1. DOMAIN array = 1 .. Len(array)
    BY <1>1 DEF SortInv, SortTypes
  <2>2. OrderedApart
    BY <1>1 DEF SortInv
  <2>. QED  BY <2>1, <2>2 DEF OrderedApart
<1>2. ASSUME SortInv PROVE Q!SortedElsewhere
  <2>1. ASSUME NEW a, NEW b, ~\E r \in Q!ToSet(calls) : r[1] <= a /\ b <= r[2]
        PROVE  Apart(a, b)
    BY <1>2, <2>1 DEF SortInv, SortTypes, Q!ToSet, Apart
  <2>. QED  BY <1>1, <1>2, <2>1 DEF Q!SortedElsewhere
<1>3. ASSUME SortInv, calls = << >>
      PROVE  \A a, b \in DOMAIN array : a < b => array[a] <= array[b]
  <2>1. \A a, b : Apart(a, b)
    BY <1>3 DEF Apart
  <2>. QED  BY <1>1, <1>3, <2>1
<1>. QED  BY <1>2, <1>3, SortAlways, PTL

-------------------------------------------------------------------------------
(* The stack.                                                                *)

\* The cells below n that hold v.
CellsOf(s, n, v) == {c \in 0 .. n - 1 : s[c] = v}

Holds(s, n, h) == /\ \A c \in 0 .. n - 1 : s[c] \in Value
                  /\ \A v \in Value : Cardinality(CellsOf(s, n, v)) = h[v]

InOrder(s, n) == \A c \in 1 .. n - 1 : s[c - 1] <= s[c]

Room(s, m, n) == m \in Nat \ {0} /\ s \in [0 .. m - 1 -> Value \union {St!None}] /\ n \in 0 .. m

StackInv == /\ \E m : Room(data, m, num)
            /\ held \in [Value -> Int]
            /\ Holds(data, num, held)
            /\ sorted => InOrder(data, num)

LEMMA CellsFinite ==
    ASSUME NEW s, NEW n \in Nat, NEW v
    PROVE  IsFiniteSet(CellsOf(s, n, v)) /\ Cardinality(CellsOf(s, n, v)) \in Nat
<1>1. IsFiniteSet(0 .. n - 1)
  BY FS_Interval
<1>2. CellsOf(s, n, v) \subseteq 0 .. n - 1
  BY DEF CellsOf
<1>. QED  BY <1>1, <1>2, FS_Subset, FS_CardinalityType

LEMMA AllocIs ==
    ASSUME NEW m, Room(data, m, num) PROVE St!Alloc = m
<1>1. DOMAIN data = 0 .. m - 1 /\ m \in Nat
  BY DEF Room
<1>2. Cardinality(0 .. m - 1) = m
  <2>1. Cardinality(0 .. m - 1) = IF m - 1 < 0 THEN 0 ELSE (m - 1) - 0 + 1
    BY <1>1, FS_Interval
  <2>. QED  BY <1>1, <2>1
<1>. QED  BY <1>1, <1>2 DEF St!Alloc, St!Cardinality, Cardinality

\* A cell more, or one less.
LEMMA OneMore ==
    ASSUME NEW s, NEW t, NEW n \in Nat, NEW v \in Value, NEW h \in [Value -> Int],
           Holds(s, n, h), t[n] = v, \A c \in 0 .. n - 1 : t[c] = s[c]
    PROVE  Holds(t, n + 1, [h EXCEPT ![v] = @ + 1])
<1>1. \A c \in 0 .. (n + 1) - 1 : c \in 0 .. n - 1 \/ c = n
  OBVIOUS
<1>2. \A c \in 0 .. (n + 1) - 1 : t[c] \in Value
  BY <1>1 DEF Holds
<1>3. ASSUME NEW w \in Value
      PROVE  Cardinality(CellsOf(t, n + 1, w)) = [h EXCEPT ![v] = @ + 1][w]
  <2>1. CASE w = v
    <3>1. CellsOf(t, n + 1, w) = CellsOf(s, n, w) \union {n}
      BY <1>1, <2>1 DEF CellsOf
    <3>2. n \notin CellsOf(s, n, w)
      BY DEF CellsOf
    <3>3. Cardinality(CellsOf(t, n + 1, w)) = Cardinality(CellsOf(s, n, w)) + 1
      BY <3>1, <3>2, CellsFinite, FS_AddElement
    <3>. QED  BY <2>1, <3>3 DEF Holds
  <2>2. CASE w # v
    <3>1. CellsOf(t, n + 1, w) = CellsOf(s, n, w)
      BY <1>1, <2>2 DEF CellsOf
    <3>. QED  BY <2>2, <3>1 DEF Holds
  <2>. QED  BY <2>1, <2>2
<1>. QED  BY <1>2, <1>3 DEF Holds

LEMMA OneLess ==
    ASSUME NEW s, NEW n \in Nat \ {0}, NEW h \in [Value -> Int], Holds(s, n, h)
    PROVE  /\ Holds(s, n - 1, [h EXCEPT ![s[n - 1]] = @ - 1])
           /\ s[n - 1] \in Value
<1>1. \A c \in 0 .. n - 1 : c \in 0 .. (n - 1) - 1 \/ c = n - 1
  OBVIOUS
<1>2. s[n - 1] \in Value /\ \A c \in 0 .. (n - 1) - 1 : s[c] \in Value
  BY DEF Holds
<1>. DEFINE v == s[n - 1]
<1>3. ASSUME NEW w \in Value
      PROVE  Cardinality(CellsOf(s, n - 1, w)) = [h EXCEPT ![v] = @ - 1][w]
  <2>0. n - 1 \in Nat
    OBVIOUS
  <2>1. CASE w = v
    <3>1. CellsOf(s, n, w) = CellsOf(s, n - 1, w) \union {n - 1}
      BY <1>1, <2>1 DEF CellsOf
    <3>2. n - 1 \notin CellsOf(s, n - 1, w)
      BY DEF CellsOf
    <3>3. IsFiniteSet(CellsOf(s, n - 1, w)) /\ Cardinality(CellsOf(s, n - 1, w)) \in Nat
      BY <2>0, CellsFinite
    <3>4. Cardinality(CellsOf(s, n, w)) = Cardinality(CellsOf(s, n - 1, w)) + 1
      BY <3>1, <3>2, <3>3, FS_AddElement
    <3>5. Cardinality(CellsOf(s, n, w)) = h[w]
      BY DEF Holds
    <3>. QED  BY <1>2, <2>1, <3>3, <3>4, <3>5
  <2>2. CASE w # v
    <3>1. CellsOf(s, n - 1, w) = CellsOf(s, n, w)
      BY <1>1, <2>2 DEF CellsOf
    <3>. QED  BY <2>2, <3>1 DEF Holds
  <2>. QED  BY <2>1, <2>2
<1>. QED  BY <1>2, <1>3 DEF Holds

\* Cells in another order.
LEMMA Reordered ==
    ASSUME NEW s, NEW t, NEW n \in Nat, NEW h, Holds(s, n, h),
           NEW p \in Bijection(0 .. n - 1, 0 .. n - 1), \A c \in 0 .. n - 1 : t[c] = s[p[c]]
    PROVE  Holds(t, n, h)
<1>1. /\ p \in [0 .. n - 1 -> 0 .. n - 1]
      /\ \A a, b \in 0 .. n - 1 : p[a] = p[b] => a = b
      /\ \A b \in 0 .. n - 1 : \E a \in 0 .. n - 1 : p[a] = b
  BY DEF Bijection, Injection, Surjection, IsInjective
<1>2. \A c \in 0 .. n - 1 : t[c] \in Value
  BY <1>1 DEF Holds
<1>3. ASSUME NEW v \in Value PROVE Cardinality(CellsOf(t, n, v)) = h[v]
  <2>. DEFINE S == CellsOf(t, n, v)
              T == CellsOf(s, n, v)
              f == [c \in S |-> p[c]]
  <2>0. /\ S \subseteq 0 .. n - 1 /\ \A c \in S : p[c] \in T
        /\ \A b \in T : b \in 0 .. n - 1 /\ \A a \in 0 .. n - 1 : p[a] = b => a \in S
    BY <1>1 DEF CellsOf
  <2>1. /\ f \in [S -> T] /\ \A a, b \in S : f[a] = f[b] => a = b
        /\ \A b \in T : \E a \in S : f[a] = b
    <3>. HIDE DEF S, T
    <3>. QED  BY <1>1, <2>0
  <2>2. IsFiniteSet(S)
    BY CellsFinite
  <2>. HIDE DEF S, T
  <2>3. f \in Bijection(S, T)
    BY <2>1 DEF Bijection, Injection, Surjection, IsInjective
  <2>4. Cardinality(T) = Cardinality(S)
    BY <2>2, <2>3, FS_Bijection DEF ExistsBijection
  <2>. QED  BY <2>4 DEF S, T, Holds
<1>. QED  BY <1>2, <1>3 DEF Holds

\* What a push leaves, in the array or in one twice as long.
LEMMA PushKeeps ==
    ASSUME NEW cells, NEW m, Room(cells, m, num), num # m, NEW v \in Value,
           held \in [Value -> Int], Holds(cells, num, held), St!PushInto(cells, v)
    PROVE  StackInv'
<1>1. /\ num \in Nat /\ num \in 0 .. m - 1 /\ m \in Nat
      /\ cells \in [0 .. m - 1 -> Value \union {St!None}]
  BY DEF Room
<1>2. /\ data' = [cells EXCEPT ![num] = v] /\ num' = num + 1 /\ sorted' = FALSE
      /\ held' = [held EXCEPT ![v] = @ + 1]
  BY DEF St!PushInto, St!Stored
<1>3. /\ data' \in [0 .. m - 1 -> Value \union {St!None}] /\ data'[num] = v
      /\ \A c \in 0 .. num - 1 : data'[c] = cells[c]
  BY <1>1, <1>2
<1>4. Room(data', m, num')
  BY <1>1, <1>2, <1>3 DEF Room
<1>5. Holds(data', num + 1, [held EXCEPT ![v] = @ + 1])
  BY <1>1, <1>3, OneMore
<1>6. Holds(data', num', held')
  BY <1>2, <1>5
<1>7. held' \in [Value -> Int]
  BY <1>2
<1>. QED  BY <1>2, <1>4, <1>6, <1>7 DEF StackInv

\* Through every growth, failed growth and sort the stack has the values that
\* were pushed and not popped, and its flag is true only of an array in order,
\* for every limit and length (mgstack.c:58-115).
THEOREM StackHolds ==
    ASSUME St!StackAssumption
    PROVE  St!Spec => [](St!NothingLost /\ St!FlagMeansSorted)
<1>1. St!Init => StackInv
  <2>. SUFFICES ASSUME St!Init PROVE StackInv
    OBVIOUS
  <2>1. /\ data = [c \in 0 .. St!InitialMax - 1 |-> St!None] /\ num = 0 /\ sorted = FALSE
        /\ held = [v \in Value |-> 0] /\ St!InitialMax \in Nat \ {0}
    BY DEF St!Init, St!InitialMax, St!StackAssumption
  <2>2. Room(data, St!InitialMax, num)
    BY <2>1 DEF Room
  <2>3. Holds(data, num, held)
    <3>1. \A v : CellsOf(data, num, v) = {}
      BY <2>1 DEF CellsOf
    <3>2. Cardinality({}) = 0
      BY FS_EmptySet
    <3>3. \A c \in 0 .. num - 1 : FALSE
      BY <2>1
    <3>4. \A v \in Value : held[v] = 0
      BY <2>1
    <3>. QED  BY <3>1, <3>2, <3>3, <3>4 DEF Holds
  <2>4. held \in [Value -> Int]
    BY <2>1
  <2>. QED  BY <2>1, <2>2, <2>3, <2>4 DEF StackInv
<1>2. StackInv /\ [St!Next]_(St!vars) => StackInv'
  <2>. SUFFICES ASSUME StackInv, [St!Next]_(St!vars) PROVE StackInv'
    OBVIOUS
  <2>0. PICK m : Room(data, m, num)
    BY DEF StackInv
  <2>1. /\ m \in Nat /\ num \in 0 .. m /\ data \in [0 .. m - 1 -> Value \union {St!None}]
        /\ St!Alloc = m /\ num \in Nat /\ DOMAIN data = 0 .. m - 1
        /\ held \in [Value -> Int] /\ Holds(data, num, held) /\ m # 0
    <3>1. St!Alloc = m
      BY <2>0, AllocIs
    <3>2. /\ m \in Nat \ {0} /\ num \in 0 .. m /\ data \in [0 .. m - 1 -> Value \union {St!None}]
      BY <2>0 DEF Room
    <3>3. held \in [Value -> Int] /\ Holds(data, num, held)
      BY DEF StackInv
    <3>. QED  BY <3>1, <3>2, <3>3
  <2>2. ASSUME NEW v \in Value, St!Push(v) PROVE StackInv'
    <3>1. CASE num # St!Alloc /\ St!PushInto(data, v)
      BY <2>0, <2>1, <3>1, PushKeeps
    <3>2. ASSUME num = St!Alloc, NEW cells \in St!Doubled, St!PushInto(cells, v) PROVE StackInv'
      <4>1. /\ cells \in [0 .. 2 * m - 1 -> Value \union {St!None}]
            /\ \A c \in 0 .. m - 1 : cells[c] = data[c]
        BY <2>1 DEF St!Doubled
      <4>2. num = m /\ 2 * m \in Nat
        BY <2>1, <3>2
      <4>3. Holds(cells, num, held)
        <5>1. \A w : CellsOf(cells, num, w) = CellsOf(data, num, w)
          BY <4>1, <4>2 DEF CellsOf
        <5>2. \A c \in 0 .. num - 1 : cells[c] \in Value
          BY <2>1, <4>1, <4>2 DEF Holds
        <5>. QED  BY <2>1, <5>1, <5>2 DEF Holds
      <4>4. Room(cells, 2 * m, num) /\ num # 2 * m
        BY <2>1, <4>1, <4>2 DEF Room
      <4>. QED  BY <2>1, <3>2, <4>3, <4>4, PushKeeps
    <3>3. ASSUME NEW code, St!Refused(code) PROVE StackInv'
      BY <3>3 DEF St!Refused, StackInv
    <3>. QED  BY <2>2, <3>1, <3>2, <3>3 DEF St!Push
  <2>3. CASE St!Pop
    <3>1. CASE num = 0 /\ St!Refused(St!None)
      BY <3>1 DEF St!Refused, StackInv
    <3>2. CASE num > 0 /\ ~ (num = 0 /\ St!Refused(St!None))
      <4>1. /\ num' = num - 1 /\ data' = data /\ sorted' = sorted
            /\ held' = [held EXCEPT ![data[num - 1]] = @ - 1]
        BY <2>3, <3>2 DEF St!Pop
      <4>2. num \in Nat \ {0}
        BY <2>1, <3>2
      <4>3. Holds(data, num - 1, [held EXCEPT ![data[num - 1]] = @ - 1])
        BY <2>1, <4>2, OneLess
      <4>4. Holds(data', num', held')
        BY <4>1, <4>3
      <4>5. Room(data', m, num')
        BY <2>1, <4>1, <4>2 DEF Room
      <4>6. sorted' => InOrder(data', num')
        <5>1. \A c \in 1 .. (num - 1) - 1 : c \in 1 .. num - 1
          BY <4>2
        <5>. QED  BY <4>1, <5>1 DEF StackInv, InOrder
      <4>7. held' \in [Value -> Int]
        <5>1. data[num - 1] \in Value
          BY <2>1, <4>2, OneLess
        <5>. QED  BY <2>1, <4>1, <5>1
      <4>. QED  BY <4>4, <4>5, <4>6, <4>7 DEF StackInv
    <3>. QED  BY <2>1, <2>3, <3>1, <3>2 DEF St!Pop
  <2>4. CASE St!Sort
    <3>1. PICK p \in St!Bijection(St!Filled, St!Filled) :
             /\ data' = [c \in DOMAIN data |-> IF c < num THEN data[p[c]] ELSE data[c]]
             /\ \A c \in 1 .. num - 1 : data'[c - 1] <= data'[c]
      BY <2>4 DEF St!Sort
    <3>2. num' = num /\ held' = held /\ p \in Bijection(0 .. num - 1, 0 .. num - 1)
      BY <2>4 DEF St!Sort, St!Filled, St!Bijection, Bijection, St!Injection, Injection,
                  St!Surjection, Surjection, St!IsInjective, IsInjective
    <3>3. p \in [0 .. num - 1 -> 0 .. num - 1]
      BY <3>2 DEF Bijection, Injection
    <3>4. \A c \in 0 .. num - 1 : data'[c] = data[p[c]] /\ p[c] \in 0 .. m - 1
      BY <2>1, <3>1, <3>3
    <3>5. data' \in [0 .. m - 1 -> Value \union {St!None}]
      <4>1. \A c \in 0 .. m - 1 : (IF c < num THEN data[p[c]] ELSE data[c]) \in Value \union {St!None}
        BY <2>1, <3>3
      <4>. QED  BY <2>1, <3>1, <4>1
    <3>6. Room(data', m, num')
      BY <2>1, <3>2, <3>5 DEF Room
    <3>7. Holds(data', num, held)
      BY <2>1, <3>2, <3>4, Reordered
    <3>8. InOrder(data', num)
      BY <3>1 DEF InOrder
    <3>. QED  BY <2>1, <3>2, <3>6, <3>7, <3>8 DEF StackInv
  <2>5. CASE UNCHANGED St!vars
    BY <2>5 DEF St!vars, StackInv
  <2>. QED  BY <2>2, <2>3, <2>4, <2>5 DEF St!Next
<1>3. StackInv => St!NothingLost /\ St!FlagMeansSorted
  BY DEF StackInv, St!NothingLost, St!FlagMeansSorted, St!CellsOf, St!Filled, Holds, CellsOf, InOrder,
         St!Cardinality, Cardinality
<1>. QED  BY <1>1, <1>2, <1>3, PTL DEF St!Spec

===============================================================================
