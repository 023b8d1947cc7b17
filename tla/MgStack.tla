-------------------------------- MODULE MgStack --------------------------------
(* mg_stack: an array of pointers that doubles when it is full, unless the    *)
(* caller set a limit, with a sort that is skipped while the flag is set.     *)
(* The sort itself is MgFastsort: here it leaves any order comp accepts.      *)
EXTENDS SequencesExt, Integers

CONSTANTS Value,        \* what comp reads behind the pointers
          DataMax,      \* data_max of mg_stack_init; 0: no limit
          DefaultMax,   \* DEFAULT_NUM_MAX
          MaxAlloc      \* bound: the array is not doubled beyond this

StackAssumption == /\ Value \subseteq Int /\ DataMax \in Nat
                          /\ DefaultMax \in Nat \ {0} /\ MaxAlloc \in Nat

VARIABLES data, num, sorted,   \* the array (its domain is alloc_num cells), and its fields
          held, ret            \* auxiliary: how often each value was pushed and
                               \* not popped, and what the last call returned

vars == <<data, num, sorted, held, ret>>

None == -1

InitialMax == IF DataMax = 0 THEN DefaultMax ELSE DataMax
Limited == DataMax # 0
Alloc == Cardinality(DOMAIN data)

Init == /\ data = [c \in 0 .. InitialMax - 1 |-> None]
        /\ num = 0 /\ sorted = FALSE /\ held = [v \in Value |-> 0] /\ ret = 0

\* Mutant of Stored: the cell before, as after a pop that has been counted twice.
Stored_Low(cells, v) == IF num = 0 THEN [cells EXCEPT ![0] = v] ELSE [cells EXCEPT ![num - 1] = v]

Stored(cells, v) == [cells EXCEPT ![num] = v]

\* Mutant of PushInto: the flag stays.
PushInto_KeepFlag(cells, v) ==
    /\ data' = Stored(cells, v)
    /\ num' = num + 1 /\ ret' = 0 /\ UNCHANGED sorted
    /\ held' = [held EXCEPT ![v] = @ + 1]

PushInto(cells, v) ==
    /\ data' = Stored(cells, v)
    /\ num' = num + 1 /\ sorted' = FALSE /\ ret' = 0
    /\ held' = [held EXCEPT ![v] = @ + 1]

\* What realloc gives: the old cells, and new ones with anything in them.
Doubled == {cells \in [0 .. 2 * Alloc - 1 -> Value \cup {None}] :
              /\ \A c \in DOMAIN data : cells[c] = data[c]
              /\ \A c, d \in DOMAIN cells \ DOMAIN data : cells[c] = cells[d]}

Refused(code) == ret' = code /\ UNCHANGED <<data, num, sorted, held>>

Push(v) == \/ num # Alloc /\ PushInto(data, v)
           \/ num = Alloc /\ Limited /\ Refused(-2)
           \/ num = Alloc /\ ~ Limited /\ Refused(-3)          \* no memory
           \/ /\ num = Alloc /\ ~ Limited /\ 2 * Alloc <= MaxAlloc
              /\ \E cells \in Doubled : PushInto(cells, v)

\* The flag stays: what is left of a sorted array is sorted.
Pop == \/ num = 0 /\ Refused(None)
       \/ /\ num > 0 /\ num' = num - 1
          /\ ret' = data[num - 1] /\ held' = [held EXCEPT ![data[num - 1]] = @ - 1]
          /\ UNCHANGED <<data, sorted>>

Filled == 0 .. num - 1

\* Mutant of Sort: the last place is not part of the range.
Sort_Short ==
    /\ num > 1 /\ ~ sorted
    /\ \E p \in Bijection(0 .. num - 2, 0 .. num - 2) :
          /\ data' = [c \in DOMAIN data |-> IF c < num - 1 THEN data[p[c]] ELSE data[c]]
          /\ \A c \in 1 .. num - 2 : data'[c - 1] <= data'[c]
    /\ sorted' = TRUE /\ UNCHANGED <<num, held, ret>>

Sort == /\ num > 1 /\ ~ sorted
        /\ \E p \in Bijection(Filled, Filled) :
              /\ data' = [c \in DOMAIN data |-> IF c < num THEN data[p[c]] ELSE data[c]]
              /\ \A c \in 1 .. num - 1 : data'[c - 1] <= data'[c]
        /\ sorted' = TRUE /\ UNCHANGED <<num, held, ret>>

Next == (\E v \in Value : Push(v)) \/ Pop \/ Sort
Spec == Init /\ [][Next]_vars

---------------------------------------------------------------------------

CellsOf(v) == {c \in Filled : data[c] = v}

\* What is in the array are the values pushed and not popped, through every
\* growth, failed growth and sort.
NothingLost == /\ \A c \in Filled : data[c] \in Value
               /\ \A v \in Value : Cardinality(CellsOf(v)) = held[v]

\* The flag lets the next sort return at once (mgstack.c:96), so whatever
\* pushes and pops came after the last sort, it is true only of an array in order.
FlagMeansSorted == sorted => \A c \in 1 .. num - 1 : data[c - 1] <= data[c]
=============================================================================
