------------------------------ MODULE MgFastsort ------------------------------
(* mgfastsort: the partition by two indices, one step per comparison, and  *)
(* the pending calls of the recursion.  cmp gets the addresses of two      *)
(* places of the list; the first place of the range is the key.            *)
EXTENDS SequencesExt, Integers

CONSTANTS Value,      \* integers, what a comparison function reads
          MaxLen,     \* longest list
          ByAddress   \* cmp compares the addresses themselves, as mgstack.c's
                      \* _stack_ptr_comp does, instead of what is stored there

SortAssumption == Value \subseteq Int /\ MaxLen \in Nat /\ ByAddress \in BOOLEAN

VARIABLES list, calls,   \* the list, and the ranges still to be sorted
          pc, i, j,      \* the call in progress and its indices
          given          \* auxiliary: the list as it was given

vars == <<list, calls, pc, i, j, given>>

Init == /\ list \in UNION {[1 .. n -> Value] : n \in 1 .. MaxLen}
        /\ given = list /\ calls = << <<1, Len(list)>> >>
        /\ pc = "call" /\ i = 0 /\ j = 0

First == Head(calls)[1]
End == Head(calls)[2]

Cmp(a, b) == IF ByAddress THEN b - a ELSE list[a] - list[b]

\* Mutant of Swapped: without tmp.
Swapped_Copy(a, b) == [list EXCEPT ![a] = list[b]]

Swapped(a, b) == [list EXCEPT ![a] = list[b], ![b] = list[a]]

\* A range of one place or none is returned from at once.
Call == /\ pc = "call" /\ calls # << >>
        /\ IF First >= End THEN calls' = Tail(calls) /\ UNCHANGED <<pc, i, j>>
           ELSE i' = First /\ j' = End /\ pc' = "up" /\ UNCHANGED calls
        /\ UNCHANGED <<list, given>>

\* Mutant of Up: past the end of the range.
Up_Beyond == /\ pc = "up"
             /\ IF i < Len(list) /\ Cmp(i, First) <= 0 THEN i' = i + 1 /\ UNCHANGED pc
                ELSE pc' = "down" /\ UNCHANGED i
             /\ UNCHANGED <<list, calls, j, given>>

Up == /\ pc = "up"
      /\ IF i < End /\ Cmp(i, First) <= 0 THEN i' = i + 1 /\ UNCHANGED pc
         ELSE pc' = "down" /\ UNCHANGED i
      /\ UNCHANGED <<list, calls, j, given>>

Down == /\ pc = "down"
        /\ IF j > First /\ Cmp(j, First) >= 0 THEN j' = j - 1 /\ UNCHANGED pc
           ELSE pc' = "swap" /\ UNCHANGED j
        /\ UNCHANGED <<list, calls, i, given>>

Swap == /\ pc = "swap" /\ i < j
        /\ list' = Swapped(i, j) /\ pc' = "up"
        /\ UNCHANGED <<calls, i, j, given>>

\* Mutant of Split: the second part loses its first place.
Split_Short == /\ pc = "swap" /\ i >= j
               /\ list' = Swapped(First, j)
               /\ calls' = <<<<First, j - 1>>, <<j + 2, End>>>> \o Tail(calls)
               /\ pc' = "call" /\ UNCHANGED <<i, j, given>>

\* Mutant of Split: the key is part of the second range.
Split_Keep == /\ pc = "swap" /\ i >= j
              /\ list' = Swapped(First, j)
              /\ calls' = <<<<First, j - 1>>, <<j, End>>>> \o Tail(calls)
              /\ pc' = "call" /\ UNCHANGED <<i, j, given>>

\* Mutant of Split: one call, for the first part and the key.
Split_First == /\ pc = "swap" /\ i >= j
               /\ list' = Swapped(First, j)
               /\ calls' = << <<First, j>> >> \o Tail(calls)
               /\ pc' = "call" /\ UNCHANGED <<i, j, given>>

\* The key goes between the two parts, which are sorted by calls of their own.
Split == /\ pc = "swap" /\ i >= j
         /\ list' = Swapped(First, j)
         /\ calls' = <<<<First, j - 1>>, <<j + 1, End>>>> \o Tail(calls)
         /\ pc' = "call" /\ UNCHANGED <<i, j, given>>

Next == Call \/ Up \/ Down \/ Swap \/ Split
Spec == Init /\ [][Next]_vars /\ WF_vars(Next)

---------------------------------------------------------------------------

Times(s, v) == Cardinality({k \in DOMAIN s : s[k] = v})

\* Only swaps: every value is there as often as it was given, in every step.
Permutes == \A v \in Value : Times(list, v) = Times(given, v)

\* The indices stay in the range of the call, also when every place is
\* equal to the key or on one side of it (mgfastsort.c:17-22).
InRange == pc \in {"up", "down", "swap"} => {i, j} \subseteq First .. End

\* What waits for a call is all that can be out of order: of two places
\* that no waiting range holds together, the first is not larger.
SortedElsewhere ==
    pc = "call" => \A a, b \in DOMAIN list :
        a < b /\ ~ (\E r \in ToSet(calls) : r[1] <= a /\ b <= r[2]) => list[a] <= list[b]

\* The sort comes to an end.
Ends == <>(calls = << >>)
=============================================================================
