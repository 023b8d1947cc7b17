------------------------------ MODULE MgHashtable ------------------------------
(* The table of mghashtable.c: numbered lines, each with a list of nodes,  *)
(* chosen by comparing a line's key with the caller's key.  The lists are  *)
(* those of MgList, taken as the sequences they implement.                 *)
EXTENDS SequencesExt, Integers

CONSTANTS N,         \* line_num
          Key,       \* the keys callers use
          Datum,     \* the values they store
          None,      \* NULL, or a value without data
          Lost,      \* data NULL with the length of what was there
          Reads,     \* what the comparison reads at a key: its first int
                     \* (default_key_cmp), or its first character
          LineKey,   \* what the lines' own keys read as
          Default,   \* whether key_cmp is default_key_cmp
          MayFail,   \* whether malloc, calloc and realloc may fail
          MaxNodes   \* bound on the nodes of the table

Line == 0 .. N - 1

TableAssumption == /\ N \in Nat \ {0} /\ MaxNodes \in Nat
                          /\ Reads \in [Key -> Int] /\ LineKey \in [Line -> Int]
                          /\ {Default, MayFail} \subseteq BOOLEAN
                          /\ None \notin Datum /\ Lost \notin Datum \union {None}

VARIABLES lines,     \* lines[l]: the nodes of line l, as [key, data]
          table,     \* whether *table points to a table
          memory,    \* "had", "no lines" (table->lines is NULL), or "fault":
                     \* the program ended at an access through NULL
          last       \* the call made last and what it returned

vars == <<lines, table, memory, last>>

\* Only the table's own malloc is checked: without the lines the table is
\* there all the same, and the keys of the lines are written unseen.
Init == /\ lines = [l \in Line |-> << >>]
        /\ \/ table = TRUE /\ memory = "had"
           \/ MayFail /\ table = FALSE /\ memory = "had"
           \/ MayFail /\ table = TRUE /\ memory \in {"no lines", "fault"}
        /\ last = [call |-> "init", key |-> None, result |-> None]

LinesMissing == table /\ memory = "no lines"

Crash == memory' = "fault" /\ UNCHANGED <<lines, table, last>>

Returns(c, k, r) == last' = [call |-> c, key |-> k, result |-> r]

\* C's remainder has the sign of the dividend.
Rem(i, n) == IF i >= 0 THEN i % n ELSE 0 - ((0 - i) % n)

Same(l, k) == LineKey[l] = (IF Default THEN Rem(Reads[k], N) ELSE Reads[k])

\* The first line that matches, as a set with at most one member.
GetLine(k) == IF table THEN {l \in Line : Same(l, k) /\ \A j \in 0 .. l - 1 : ~ Same(j, k)} ELSE {}

\* The place of the first node of the key, as <<line, index>>.
GetNode(k) == {p \in UNION {{l} \X DOMAIN lines[l] : l \in GetLine(k)} :
                 /\ lines[p[1]][p[2]].key = k
                 /\ \A i \in 1 .. p[2] - 1 : lines[p[1]][i].key # k}

Room == ReduceSet(LAMBDA l, acc : acc + Len(lines[l]), Line, 0) < MaxNodes

Append1(l, k, d) == lines' = [lines EXCEPT ![l] = Append(@, [key |-> k, data |-> d])]

\* Mutant of Added: any line with the key will do.
Added_AnyLine(c, k, d) ==
    \/ \E l \in Line : Same(l, k) /\ table /\ Room /\ Append1(l, k, d) /\ Returns(c, k, 1)
    \/ (GetLine(k) = {} \/ MayFail) /\ Returns(c, k, 0) /\ UNCHANGED lines

\* node_init for the line, or no memory for the node.
Added(c, k, d) ==
    \/ \E l \in GetLine(k) : Room /\ Append1(l, k, d) /\ Returns(c, k, 1)
    \/ (GetLine(k) = {} \/ MayFail) /\ Returns(c, k, 0) /\ UNCHANGED lines

\* The node is had, the copy of its key or of its data is not: memcpy
\* writes through what malloc returned.
CopyFails(k) == MayFail /\ GetLine(k) # {} /\ Crash

AddNode(k, d) == \/ Added("add", k, d) /\ UNCHANGED <<table, memory>>
                 \/ CopyFails(k)

\* node_replace_data: the result of realloc replaces data before it is
\* looked at, data_len only after it.
ReplaceData(k, l, i, d) ==
    \/ d = None /\ Returns("put", k, 0) /\ UNCHANGED lines
    \/ d # None /\ Returns("put", k, 1) /\ lines' = [lines EXCEPT ![l][i].data = d]
    \/ d # None /\ MayFail /\ Returns("put", k, 0) /\ lines' = [lines EXCEPT ![l][i].data = Lost]

\* Mutant of PutData: mghashtable_add_node for every value.
PutData_AddsAlways(k, d) == Added("put", k, d) /\ UNCHANGED <<table, memory>>

PutData(k, d) == \/ /\ \/ \E p \in GetNode(k) : ReplaceData(k, p[1], p[2], d)
                       \/ GetNode(k) = {} /\ Added("put", k, d)
                    /\ UNCHANGED <<table, memory>>
                 \/ GetNode(k) = {} /\ CopyFails(k)

DataOf(places) == IF places = {} THEN None
                  ELSE LET p == CHOOSE p \in places : TRUE IN lines[p[1]][p[2]].data

GetData(k) == Returns("get", k, DataOf(GetNode(k))) /\ UNCHANGED <<lines, table, memory>>

\* The node is unlinked and returned; its memory is the caller's now.
RemoveNode(k) ==
    /\ Returns("remove", k, DataOf(GetNode(k)))
    /\ lines' = [l \in Line |-> IF \E p \in GetNode(k) : p[1] = l
                                THEN RemoveAt(lines[l], (CHOOSE p \in GetNode(k) : TRUE)[2]) ELSE lines[l]]
    /\ UNCHANGED <<table, memory>>

\* Mutant of Finish: the nodes outlive the table.
Finish_KeepsNodes == /\ table /\ table' = FALSE /\ Returns("finish", None, None)
                     /\ UNCHANGED <<lines, memory>>

Finish == /\ table /\ table' = FALSE
          /\ lines' = [l \in Line |-> << >>]
          /\ Returns("finish", None, None) /\ UNCHANGED memory

\* A table without lines is compared with, line 0 first, through NULL.
Calls == /\ ~ LinesMissing
         /\ \/ \E k \in Key, d \in Datum \union {None} : AddNode(k, d) \/ PutData(k, d)
            \/ \E k \in Key : GetData(k) \/ RemoveNode(k)

Next == /\ memory # "fault"
        /\ Calls \/ (LinesMissing /\ Crash) \/ Finish

Spec == Init /\ [][Next]_vars

---------------------------------------------------------------------------

\* Every node stands on the line its key is looked up on, the only place
\* where get, put and remove will look for it, whatever line was first to
\* match when it was added (mghashtable.c:230-247, 249-264).
OnItsLine == \A l \in Line : \A i \in 1 .. Len(lines[l]) : GetLine(lines[l][i].key) = {l}

\* The places of a key's nodes, from the first line to the last.
Places(nodes, k) == {p \in UNION {{l} \X DOMAIN nodes[l] : l \in Line} : nodes[p[1]][p[2]].key = k}
Before(p, q) == p[1] < q[1] \/ (p[1] = q[1] /\ p[2] < q[2])
Nth(places, i) == CHOOSE p \in places : Cardinality({q \in places : Before(q, p)}) = i - 1

\* The values of a key, in the order of its nodes.
Values(nodes, k) ==
    LET own == Places(nodes, k)
    IN  [i \in 1 .. Cardinality(own) |-> nodes[Nth(own, i)[1]][Nth(own, i)[2]].data]

\* Keys that no line takes: with default_key_cmp a negative first int leaves
\* a negative remainder, which is no line's key; after mghashtable_finish
\* there is no line at all.
Table == INSTANCE MultiMap WITH map <- [k \in Key |-> Values(lines, k)],
            refused <- IF table THEN {k \in Key : \A l \in Line : ~ Same(l, k)} ELSE Key,
            fault <- memory = "fault"

\* For its callers the table is a map from keys to sequences of values: a
\* put replaces what get would return or adds it, add_node shadows nothing,
\* remove uncovers the next value, and no call touches another key.  Where
\* memory may fail, the program may end at an unchecked allocation instead
\* (mghashtable.c:65, 70, 118, 150, 157); nothing else ends it.
ImplementsMultiMap == Table!Spec
=============================================================================
