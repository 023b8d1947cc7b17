-------------------------------- MODULE MgHlist --------------------------------
(* The hash chains of mglist.c: a head with one pointer, and nodes that    *)
(* know the address of the pointer that leads to them.                     *)
EXTENDS SequencesExt

CONSTANTS Heads, Hnodes, NULL

VARIABLE chain   \* chain.first[h], chain.next[n], chain.pprev[n]

\* The places a pprev can point to: &h->first and &n->next.
First(h) == <<"first", h>>
NextOf(n) == <<"next", n>>
Places == {First(h) : h \in Heads} \union {NextOf(n) : n \in Hnodes}

HlistAssumption == /\ Heads \intersect Hnodes = {} /\ NULL \notin Heads \union Hnodes
                   /\ NULL \notin Places   \* no address of a pointer is NULL

\* INIT_MG_HLIST_HEAD and INIT_MG_HLIST_NODE.
Init == chain = [first |-> [h \in Heads |-> NULL], next |-> [n \in Hnodes |-> NULL],
                 pprev |-> [n \in Hnodes |-> NULL]]

Stored(c, p) == c[p[1]][p[2]]                              \* *p
Store(c, p, n) == [c EXCEPT ![p[1]] = [@ EXCEPT ![p[2]] = n]]   \* *p = n

\* n->pprev = p, when there is such a node.
Back(c, n, p) == IF n = NULL THEN c ELSE [c EXCEPT !.pprev[n] = p]

Unhashed(n) == chain.pprev[n] = NULL

\* Its pprev leads back to it: neither unhashed nor a fake.
OnChain(n) == ~ Unhashed(n) /\ Stored(chain, chain.pprev[n]) = n

---------------------------------------------------------------------------

Cut(c, n) == Back(Store(c, c.pprev[n], c.next[n]), c.next[n], c.pprev[n])
Cleared(c, n) == [c EXCEPT !.next[n] = NULL, !.pprev[n] = NULL]

Chain(h) ==
    LET from[x \in Hnodes \union {NULL}, k \in 0 .. Cardinality(Hnodes)] ==
            IF x = NULL \/ k = 0 THEN << >> ELSE <<x>> \o from[chain.next[x], k - 1]
    IN  from[chain.first[h], Cardinality(Hnodes)]

Chains == [h \in Heads |-> Chain(h)]

\* mghlist_del is for a node on a chain, or one that mghlist_add_fake made
\* look like it.
Del(n) == /\ ~ Unhashed(n)
          /\ chain' = Cleared(Cut(chain, n), n)

\* mghlist_del_init may be called for any node.
DelInit(n) == chain' = IF Unhashed(n) THEN chain ELSE Cleared(Cut(chain, n), n)

\* Mutant of AddHead: the old first keeps the head's address.
AddHead_Forgets(n, h) ==
    /\ ~ OnChain(n)
    /\ chain' = [chain EXCEPT !.next[n] = chain.first[h], !.first[h] = n, !.pprev[n] = First(h)]

AddHead(n, h) ==
    /\ ~ OnChain(n)
    /\ chain' = [Back(chain, chain.first[h], NextOf(n))
                   EXCEPT !.next[n] = chain.first[h], !.first[h] = n, !.pprev[n] = First(h)]

\* The pointer that led to at leads to n now.
AddBefore(n, at) ==
    /\ ~ OnChain(n) /\ OnChain(at)
    /\ chain' = Store([chain EXCEPT !.pprev[n] = chain.pprev[at], !.next[n] = at, !.pprev[at] = NextOf(n)],
                      chain.pprev[at], n)

\* Mutant of AddAfter: the second node of the call in front of the first.
AddAfter_Before(n, new) == AddBefore(new, n)

\* The second argument is the new node.
AddAfter(n, new) ==
    /\ OnChain(n) /\ ~ OnChain(new)
    /\ chain' = Back([chain EXCEPT !.next[new] = chain.next[n], !.next[n] = new, !.pprev[new] = NextOf(n)],
                     chain.next[n], NextOf(new))

AddFake(n) == /\ ~ OnChain(n)
              /\ chain' = [chain EXCEPT !.pprev[n] = NextOf(n)]

\* Mutant of MoveList: the first node still believes in the old head.
MoveList_OldHead(old, new) ==
    /\ old # new /\ chain.first[new] = NULL
    /\ chain' = [chain EXCEPT !.first[new] = chain.first[old], !.first[old] = NULL]

\* To a head without nodes.
MoveList(old, new) ==
    /\ old # new /\ chain.first[new] = NULL
    /\ chain' = [Back(chain, chain.first[old], First(new))
                   EXCEPT !.first[new] = chain.first[old], !.first[old] = NULL]

Next == \/ \E n \in Hnodes : Del(n) \/ DelInit(n) \/ AddFake(n) \/ \E h \in Heads : AddHead(n, h)
        \/ \E n, at \in Hnodes : AddBefore(n, at) \/ AddAfter(n, at)
        \/ \E old, new \in Heads : MoveList(old, new)

Spec == Init /\ [][Next]_chain

---------------------------------------------------------------------------

\* The pprev of a node on a chain is the very place that leads to it, so
\* __mghlist_del can bypass it without knowing its head (mglist.c:271-279), and
\* no other place leads to it; a node on no chain leads nowhere, and is
\* unhashed or a fake whose pprev is its own next pointer.
PprevExact ==
    /\ \A n \in Hnodes :
         \/ OnChain(n)
         \/ chain.next[n] = NULL /\ (Unhashed(n) \/ chain.pprev[n] = NextOf(n))
    /\ \A p \in Places :
         Stored(chain, p) # NULL => chain.pprev[Stored(chain, p)] = p

\* Every chain ends, no node is on two chains or twice on one, and those that
\* are on one are on the chain of a head.
ChainsApart ==
    /\ UNION {ToSet(Chain(h)) : h \in Heads} = {n \in Hnodes : OnChain(n)}
    /\ \A h, g \in Heads :
         /\ IsInjective(Chain(h))
         /\ Chain(h) # << >> => chain.next[Last(Chain(h))] = NULL
         /\ h # g => ToSet(Chain(h)) \intersect ToSet(Chain(g)) = {}

\* Every call changes the sequences as the header says (mglist.h:440-475):
\* mghlist_add_after puts its second argument behind the first, a fake
\* disturbs nobody, del_init of a node on no chain neither.
Around(s, n, at, k) == LET i == IndexFirstSubSeq(<<at>>, s) + k
                       IN  SubSeq(s, 1, i) \o <<n>> \o SubSeq(s, i + 1, Len(s))
Rearranges ==
        /\ \A n \in Hnodes, h \in Heads : AddHead(n, h) => Chains' = [Chains EXCEPT ![h] = <<n>> \o @]
        /\ \A n \in Hnodes : /\ Del(n) \/ DelInit(n) => Chains' = [h \in Heads |-> Remove(Chain(h), n)]
                             /\ AddFake(n) => Chains' = Chains
        /\ \A n, at \in Hnodes, h \in Heads :
             at \in ToSet(Chain(h)) =>
                /\ AddBefore(n, at) => Chains' = [Chains EXCEPT ![h] = Around(@, n, at, -1)]
                /\ AddAfter(at, n) => Chains' = [Chains EXCEPT ![h] = Around(@, n, at, 0)]
        /\ \A old, new \in Heads :
             MoveList(old, new) => Chains' = [Chains EXCEPT ![new] = Chain(old), ![old] = << >>]
CallsRearrange == [][Rearranges]_chain
=============================================================================
