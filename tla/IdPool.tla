-------------------------------- MODULE IdPool --------------------------------
(* What mgbitmap promises its client: a pool of the numbers strictly        *)
(* between low and high, which grants the first free one after the last     *)
(* granted, round the range, and refuses only when all are busy.  Numbers   *)
(* may be busy from the start: the memory of the bitmap is not cleared.     *)
EXTENDS Integers

VARIABLES
    open,       \* whether the pool exists
    low, high,  \* its bounds
    busy,       \* numbers not free
    last,       \* the number granted last, low before the first
    answer      \* what the last request returned; high says refused

vars == <<open, low, high, busy, last, answer>>

Ids == (low + 1) .. (high - 1)

\* How far after the last granted number id is met, going round the range.
Ahead(id) == IF id > last THEN id - last ELSE id - last + (high - low - 1)

FirstFree(id) ==
    /\ id \in Ids \ busy
    /\ \A other \in Ids \ busy : Ahead(id) <= Ahead(other)

Init == ~open /\ low = 0 /\ high = 0 /\ busy = {} /\ last = 0 /\ answer = 0

Open ==
    /\ ~open /\ open'
    /\ low' \in Nat /\ high' \in Nat /\ last' = low'
    /\ busy' \subseteq Ids'
    /\ answer' = answer

Grant(id) ==
    /\ open /\ FirstFree(id)
    /\ busy' = busy \cup {id} /\ last' = id /\ answer' = id
    /\ UNCHANGED <<open, low, high>>

Refuse ==
    /\ open /\ Ids \subseteq busy
    /\ answer' = high
    /\ UNCHANGED <<open, low, high, busy, last>>

Release(id) ==
    /\ open
    /\ busy' = busy \ {id}
    /\ UNCHANGED <<open, low, high, last, answer>>

Close ==
    /\ open /\ ~open'
    /\ busy' = {} /\ low' = 0 /\ high' = 0 /\ last' = 0
    /\ UNCHANGED answer

Next ==
    \/ Open \/ Refuse \/ Close
    \/ \E id \in Ids : Grant(id) \/ Release(id)

Spec == Init /\ [][Next]_vars

=============================================================================
