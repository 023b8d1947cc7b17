------------------------------- MODULE MultiMap -------------------------------
(* What mghashtable.c promises its callers: every key has a sequence of    *)
(* values, of which get, put and remove see the first; a failed put may    *)
(* cost the first value (Lost), and some keys have no place in the table.  *)
(* The program may end when memory runs out, not otherwise.                *)
EXTENDS SequencesExt

CONSTANTS Key, Datum, None,
          Lost,      \* the value of a node whose memory could not be had
          MayFail    \* whether memory can run out

VARIABLES map,       \* Key -> Seq of values
          refused,   \* keys that have no place, decided by the table
          fault,     \* whether the program has ended
          last       \* the call made last and what it returned

Init == /\ fault \in BOOLEAN /\ fault => MayFail
        /\ map = [k \in Key |-> << >>]
        /\ last = [call |-> "init", key |-> None, result |-> None]

Returns(c, k, r) == last' = [call |-> c, key |-> k, result |-> r]

Accept(c, k, d) ==
    /\ k \notin refused /\ Returns(c, k, 1)
    /\ map' = [map EXCEPT ![k] = IF c = "put" /\ @ # << >> THEN ReplaceAt(@, 1, d) ELSE Append(@, d)]

\* A value without data is not put in the place of another one.
Decline(c, k, d) ==
    /\ Returns(c, k, 0) /\ UNCHANGED map
    /\ k \in refused \/ MayFail \/ (c = "put" /\ d = None /\ map[k] # << >>)

FailAndLose(k) == /\ MayFail /\ map[k] # << >>
                  /\ Returns("put", k, 0)
                  /\ map' = [map EXCEPT ![k] = ReplaceAt(@, 1, Lost)]

First(k) == IF map[k] = << >> THEN None ELSE Head(map[k])

Get(k) == Returns("get", k, First(k)) /\ UNCHANGED map

TakeOut(k) == /\ Returns("remove", k, First(k))
              /\ map' = [map EXCEPT ![k] = IF @ = << >> THEN @ ELSE Tail(@)]

Finish == /\ Returns("finish", None, None)
          /\ map' = [k \in Key |-> << >>]

Call == \/ \E k \in Key, d \in Datum \union {None}, c \in {"put", "add"} : Accept(c, k, d) \/ Decline(c, k, d)
        \/ \E k \in Key : FailAndLose(k) \/ Get(k) \/ TakeOut(k)
        \/ Finish

Crash == MayFail /\ fault' = TRUE /\ UNCHANGED <<map, last>>

Next == ~ fault /\ ((Call /\ UNCHANGED fault) \/ Crash)

vars == <<map, fault, last>>
Step == [Next]_vars
Spec == Init /\ [][Next]_vars
=============================================================================
