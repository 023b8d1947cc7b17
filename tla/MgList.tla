-------------------------------- MODULE MgList --------------------------------
(* The intrusive ring of mglist.c: every call of the header as an action   *)
(* on the next and prev pointers, and the iteration macros that survive    *)
(* the removal of the current entry.  What the calls promise is stated on  *)
(* sequences: List(h), the entries met from h onwards.                     *)
EXTENDS SequencesExt

CONSTANTS Heads,    \* list heads
          Entries,  \* embedded list nodes
          Nil       \* NULL, and the content of memory nobody initialised

Nodes == Heads \union Entries

ListAssumption == Heads \intersect Entries = {} /\ Nil \notin Nodes

VARIABLES ring,    \* ring.next, ring.prev: the two pointers of every node
          ready,   \* nodes the client may pass on: initialised, and not left
                   \* behind by mglist_del, mglist_replace or mglist_splice
          cursor   \* the running iteration, or Idle

vars == <<ring, ready, cursor>>

Idle == [on |-> Nil, head |-> Nil, pos |-> Nil, n |-> Nil, seen |-> << >>, todo |-> << >>]

Init == /\ ring = [next |-> [x \in Nodes |-> Nil], prev |-> [x \in Nodes |-> Nil]]
        /\ ready = {} /\ cursor = Idle

---------------------------------------------------------------------------
(* The ring operations, on r = [next, prev].                               *)

Alone(r, x) == [next |-> [r.next EXCEPT ![x] = x], prev |-> [r.prev EXCEPT ![x] = x]]

Linked(r, x, p, q) == [next |-> [r.next EXCEPT ![x] = q, ![p] = x],
                       prev |-> [r.prev EXCEPT ![q] = x, ![x] = p]]

\* Mutant of Joined: the way back is forgotten.
Joined_OneWay(r, p, q) == [next |-> [r.next EXCEPT ![p] = q], prev |-> r.prev]

Joined(r, p, q) == [next |-> [r.next EXCEPT ![p] = q], prev |-> [r.prev EXCEPT ![q] = p]]

Unlinked(r, e) == Joined(r, r.prev[e], r.next[e])

AddedAfter(r, e, at) == Linked(r, e, at, r.next[at])
AddedBefore(r, e, at) == Linked(r, e, r.prev[at], at)

Poisoned(r, e) == [next |-> [r.next EXCEPT ![e] = Nil], prev |-> [r.prev EXCEPT ![e] = Nil]]

\* The old prev is read after the new node stands behind the old next.
Replaced(r, old, new) ==
    LET q  == r.next[old]
        r1 == [next |-> [r.next EXCEPT ![new] = q], prev |-> [r.prev EXCEPT ![q] = new]]
    IN  Joined(r1, r1.prev[old], new)

Empty(r, h) == r.next[h] = h
Singular(r, h) == ~ Empty(r, h) /\ r.next[h] = r.prev[h]

\* Mutant of CutAt: the cut list keeps the end of the whole one.
CutAt_OldEnd(r, l, h, e) == [next |-> [r.next EXCEPT ![l] = r.next[h], ![e] = l, ![h] = r.next[e]],
                             prev |-> [r.prev EXCEPT ![r.next[h]] = l, ![l] = r.prev[h], ![r.next[e]] = h]]

CutAt(r, l, h, e) == [next |-> [r.next EXCEPT ![l] = r.next[h], ![e] = l, ![h] = r.next[e]],
                      prev |-> [r.prev EXCEPT ![r.next[h]] = l, ![l] = e, ![r.next[e]] = h]]

SplicedBetween(r, l, p, q) == [next |-> [r.next EXCEPT ![p] = r.next[l], ![r.prev[l]] = q],
                               prev |-> [r.prev EXCEPT ![r.next[l]] = p, ![q] = r.prev[l]]]

---------------------------------------------------------------------------
(* What the client sees.                                                   *)

Chain(f, h) ==
    LET from[x \in Nodes \union {Nil}, k \in 0 .. Cardinality(Nodes)] ==
            IF x \in {h, Nil} \/ k = 0 THEN << >> ELSE <<x>> \o from[f[x], k - 1]
    IN  from[f[h], Cardinality(Nodes)]

List(h) == IF h \in ready THEN Chain(ring.next, h) ELSE << >>
Lists == [h \in Heads |-> List(h)]

\* An initialised node is on no list when its pointers lead to itself.
OnNoList(x) == x \in ready => Empty(ring, x)

\* A place in a list: a head or an entry of a list.
Places == {x \in ready : x \in Heads \/ ~ OnNoList(x)}

---------------------------------------------------------------------------
(* The calls, under the client's side of the contract: an entry is added   *)
(* when it is on no list, and only ready nodes are handed over.  While an  *)
(* iteration runs its body touches the current entry only.                 *)

\* mglist_init: a node that is not in use.
Initialise(x) == /\ cursor = Idle /\ x \notin ready
                 /\ ring' = Alone(ring, x) /\ ready' = ready \union {x}
                 /\ UNCHANGED cursor

Insertable(e, at) == cursor = Idle /\ OnNoList(e) /\ at \in Places

Add(e, at) == /\ Insertable(e, at)
              /\ ring' = AddedAfter(ring, e, at)
              /\ ready' = ready \union {e} /\ UNCHANGED cursor

AddTail(e, at) == /\ Insertable(e, at)
                  /\ ring' = AddedBefore(ring, e, at)
                  /\ ready' = ready \union {e} /\ UNCHANGED cursor

Removable(e) == e \in ready /\ (cursor = Idle \/ cursor.pos = e)

Del(e) == /\ Removable(e)
          /\ ring' = Poisoned(Unlinked(ring, e), e)
          /\ ready' = ready \ {e} /\ UNCHANGED cursor

DelInit(e) == /\ Removable(e)
              /\ ring' = Alone(Unlinked(ring, e), e)
              /\ UNCHANGED <<ready, cursor>>

\* The body of an iteration moves the current entry to another list.
Movable(e, at) == /\ Removable(e) /\ at \in Places \ {e}
                  /\ cursor # Idle => at # cursor.head /\ at \notin ToSet(List(cursor.head))

Move(e, at) == /\ Movable(e, at)
               /\ ring' = AddedAfter(Unlinked(ring, e), e, at)
               /\ UNCHANGED <<ready, cursor>>

MoveTail(e, at) == /\ Movable(e, at)
                   /\ ring' = AddedBefore(Unlinked(ring, e), e, at)
                   /\ UNCHANGED <<ready, cursor>>

RotateLeft(h) == /\ cursor = Idle /\ h \in ready
                 /\ ring' = IF Empty(ring, h) THEN ring
                            ELSE AddedBefore(Unlinked(ring, ring.next[h]), ring.next[h], h)
                 /\ UNCHANGED <<ready, cursor>>

\* Entries replace entries, heads replace heads; new is on no list.
Replaceable(old, new) ==
    /\ cursor = Idle /\ old # new /\ old \in ready /\ OnNoList(new)
    /\ {old, new} \subseteq Entries \/ {old, new} \subseteq Heads

Replace(old, new) == /\ Replaceable(old, new)
                     /\ ring' = Replaced(ring, old, new)
                     /\ ready' = (ready \ {old}) \union {new} /\ UNCHANGED cursor

ReplaceInit(old, new) == /\ Replaceable(old, new)
                         /\ ring' = Alone(Replaced(ring, old, new), old)
                         /\ ready' = ready \union {old, new} /\ UNCHANGED cursor

\* With a single entry the code itself rejects an entry of another list.
Cut(l, h, e) ==
    /\ cursor = Idle /\ l # h /\ h \in ready /\ OnNoList(l)
    /\ \/ e \in ready \ {l} /\ e \in ToSet(List(h)) \union {h}
       \/ Empty(ring, h) \/ Singular(ring, h)
    /\ UNCHANGED cursor
    /\ IF Empty(ring, h) \/ (Singular(ring, h) /\ ring.next[h] # e /\ h # e)
       THEN UNCHANGED <<ring, ready>>
       ELSE /\ ring' = IF e = h THEN Alone(ring, l) ELSE CutAt(ring, l, h, e)
            /\ ready' = ready \union {l}

\* The first and the last entry of l are on its list: they are named for proofs.
Spliceable(l, at) ==
    /\ cursor = Idle /\ l \in ready
    /\ at \in Places \ ({l, ring.next[l], ring.prev[l]} \union ToSet(List(l)))

SplicedAfter(l, at) == IF Empty(ring, l) THEN ring ELSE SplicedBetween(ring, l, at, ring.next[at])
\* Mutant of SplicedBefore: splice_tail at the front.
SplicedBefore_After(l, at) == SplicedAfter(l, at)

SplicedBefore(l, at) == IF Empty(ring, l) THEN ring ELSE SplicedBetween(ring, l, ring.prev[at], at)

\* Without _init the head of a spliced list keeps its pointers.
Splice(l, at) == /\ Spliceable(l, at) /\ ring' = SplicedAfter(l, at)
                 /\ ready' = IF Empty(ring, l) THEN ready ELSE ready \ {l}
                 /\ UNCHANGED cursor

SpliceTail(l, at) == /\ Spliceable(l, at) /\ ring' = SplicedBefore(l, at)
                     /\ ready' = IF Empty(ring, l) THEN ready ELSE ready \ {l}
                     /\ UNCHANGED cursor

SpliceInit(l, at) == /\ Spliceable(l, at)
                     /\ ring' = IF Empty(ring, l) THEN ring ELSE Alone(SplicedAfter(l, at), l)
                     /\ UNCHANGED <<ready, cursor>>

SpliceTailInit(l, at) == /\ Spliceable(l, at)
                         /\ ring' = IF Empty(ring, l) THEN ring ELSE Alone(SplicedBefore(l, at), l)
                         /\ UNCHANGED <<ready, cursor>>

---------------------------------------------------------------------------
(* mglist_for_each_safe and mglist_for_each_prev_safe (dir = "prev"); the  *)
(* mglist_for_each_entry_safe forms run the same pointers.                 *)

Walk(h, dir) ==
    /\ cursor = Idle /\ h \in ready
    /\ cursor' = [on |-> dir, head |-> h, pos |-> ring[dir][h], n |-> ring[dir][ring[dir][h]],
                  seen |-> << >>, todo |-> List(h)]
    /\ UNCHANGED <<ring, ready>>

\* Mutant of Step: the next pointer is read after the body, as mglist_for_each does.
Step_Unsafe == /\ cursor # Idle /\ cursor.pos # cursor.head
               /\ cursor' = [cursor EXCEPT !.pos = ring[cursor.on][cursor.pos], !.seen = Append(@, cursor.pos)]
               /\ UNCHANGED <<ring, ready>>

\* pos = n, n = pos->next, after the body ran for pos.
Step == /\ cursor # Idle /\ cursor.pos # cursor.head
        /\ cursor' = [cursor EXCEPT !.pos = cursor.n, !.n = ring[cursor.on][cursor.n],
                                    !.seen = Append(@, cursor.pos)]
        /\ UNCHANGED <<ring, ready>>

WalkEnds == /\ cursor # Idle /\ cursor.pos = cursor.head
            /\ cursor' = Idle
            /\ UNCHANGED <<ring, ready>>

Next == \/ \E x \in Nodes : Initialise(x)
        \/ \E e \in Entries, at \in Nodes : \/ Add(e, at) \/ AddTail(e, at)
                                            \/ Move(e, at) \/ MoveTail(e, at)
        \/ \E e \in Entries : Del(e) \/ DelInit(e)
        \/ \E old, new \in Nodes : Replace(old, new) \/ ReplaceInit(old, new)
        \/ \E h \in Heads : RotateLeft(h) \/ \E dir \in {"next", "prev"} : Walk(h, dir)
        \/ \E l, h \in Heads, e \in Nodes : Cut(l, h, e)
        \/ \E l \in Heads, at \in Nodes : \/ Splice(l, at) \/ SpliceTail(l, at)
                                          \/ SpliceInit(l, at) \/ SpliceTailInit(l, at)
        \/ Step \/ WalkEnds

Spec == Init /\ [][Next]_vars

---------------------------------------------------------------------------
(* Properties.                                                             *)

\* The pointers of the nodes in use are inverse to each other and lead to
\* nodes in use: no call leaves a node pointing at one it unlinked
\* (mglist.c:11-20, 34-38, 49-56, 158-168, 200-212).
Ring == \A x \in ready : LET q == ring.next[x] IN LET p == ring.prev[x] IN
            p \in ready /\ q \in ready /\ ring.prev[q] = x /\ ring.next[p] = x

\* No list runs into another one, and walking back meets the same entries
\* in the opposite order, whatever was spliced, cut and moved.
ListsApart ==
    \A h \in ready \intersect Heads :
        /\ List(h) = Reverse(Chain(ring.prev, h))
        /\ ToSet(List(h)) \subseteq Entries /\ IsInjective(List(h))
        /\ \A g \in (ready \intersect Heads) \ {h} : ToSet(List(h)) \intersect ToSet(List(g)) = {}

\* The sequences before and after a call.
Without(ls, e) == [h \in Heads |-> SelectSeq(ls[h], LAMBDA x : x # e)]

Inserted(ls, at, s, after) ==
    [h \in Heads |->
        IF at = h THEN (IF after THEN s \o ls[h] ELSE ls[h] \o s)
        ELSE IF at \in ToSet(ls[h])
             THEN LET i == IndexFirstSubSeq(<<at>>, ls[h]) - (IF after THEN 0 ELSE 1)
                  IN  SubSeq(ls[h], 1, i) \o s \o SubSeq(ls[h], i + 1, Len(ls[h]))
             ELSE ls[h]]

Swapped(ls, old, new) ==
    IF old \in Heads THEN [ls EXCEPT ![new] = ls[old], ![old] = << >>]
    ELSE [h \in Heads |-> ReplaceAll(ls[h], old, new)]

CutLists(ls, l, h, i) ==
    [ls EXCEPT ![l] = SubSeq(ls[h], 1, i), ![h] = SubSeq(ls[h], i + 1, Len(ls[h]))]

\* Every call rearranges the sequences as its comment says and touches no
\* other entry: "在head后面添加new" and the rest of mglist.h:31-118, splice
\* with the order of both lists kept, cut with the entry itself moved.
Rearranges ==
        /\ \A e \in Entries, at \in Nodes :
             /\ Add(e, at) => Lists' = Inserted(Lists, at, <<e>>, TRUE)
             /\ AddTail(e, at) => Lists' = Inserted(Lists, at, <<e>>, FALSE)
             /\ Move(e, at) => Lists' = Inserted(Without(Lists, e), at, <<e>>, TRUE)
             /\ MoveTail(e, at) => Lists' = Inserted(Without(Lists, e), at, <<e>>, FALSE)
        /\ \A e \in Entries : Del(e) \/ DelInit(e) => Lists' = Without(Lists, e)
        /\ \A old, new \in Nodes :
             Replace(old, new) \/ ReplaceInit(old, new) => Lists' = Swapped(Lists, old, new)
        /\ \A l \in Heads, at \in Nodes :
             /\ Splice(l, at) \/ SpliceInit(l, at) =>
                    Lists' = Inserted([Lists EXCEPT ![l] = << >>], at, List(l), TRUE)
             /\ SpliceTail(l, at) \/ SpliceTailInit(l, at) =>
                    Lists' = Inserted([Lists EXCEPT ![l] = << >>], at, List(l), FALSE)
        /\ \A h \in Heads :
             /\ RotateLeft(h) /\ List(h) # << >> =>
                    Lists' = [Lists EXCEPT ![h] = Append(Tail(@), Head(@))]
             /\ \A l \in Heads :
                  /\ Cut(l, h, h) => Lists' = Lists
                  /\ \A i \in 1 .. Len(List(h)) :
                       Cut(l, h, List(h)[i]) => Lists' = CutLists(Lists, l, h, i)
CallsRearrange == [][Rearranges]_vars

\* A safe iteration runs its body once for every entry that was on the list
\* when it began, in order, though the body may delete or move the current
\* entry, and is never led into a pointer mglist_del cleared
\* (mglist.h:185-201).
SafeWalkVisitsAll ==
    cursor # Idle =>
        LET order == IF cursor.on = "next" THEN cursor.todo ELSE Reverse(cursor.todo)
        IN  /\ cursor.pos # Nil
            /\ IsPrefix(cursor.seen, order)
            /\ cursor.pos = cursor.head => cursor.seen = order
=============================================================================
