-------------------------- MODULE CallbackRegistry --------------------------
(***************************************************************************)
(* What an event loop promises to the code that registers callbacks with   *)
(* it, whatever data structures it is built from.  A registration is       *)
(* accepted once, its callback runs only while it is active, it is ended   *)
(* (its destroy callback is due) exactly once, and a run of the loop does  *)
(* not return while a registration is still active.                        *)
(***************************************************************************)
CONSTANTS
    Registrations,   \* the registrations made over the life of the process
    Nobody           \* "no callback is running"

VARIABLES
    status,   \* [Registrations -> {"fresh", "active", "ended"}]
    firing,   \* the registration whose event callback runs, or Nobody
    over      \* TRUE while no loop is initialised: at first, and after a run

vars == <<status, firing, over>>

TypeOK ==
    /\ status \in [Registrations -> {"fresh", "active", "ended"}]
    /\ firing \in Registrations \cup {Nobody}
    /\ over \in BOOLEAN

Init ==
    /\ status = [u \in Registrations |-> "fresh"]
    /\ firing = Nobody
    /\ over = TRUE

Register(u) ==
    /\ ~over
    /\ status[u] = "fresh"
    /\ status' = [status EXCEPT ![u] = "active"]
    /\ UNCHANGED <<firing, over>>

\* A registration the loop turns down is over at once: it never fires, and
\* no destroy callback is due.
Refuse(u) ==
    /\ ~over
    /\ status[u] = "fresh"
    /\ status' = [status EXCEPT ![u] = "ended"]
    /\ UNCHANGED <<firing, over>>

End(u) ==
    /\ ~over
    /\ status[u] = "active"
    /\ status' = [status EXCEPT ![u] = "ended"]
    /\ UNCHANGED <<firing, over>>

Fire(u) ==
    /\ ~over
    /\ firing = Nobody
    /\ status[u] = "active"
    /\ firing' = u
    /\ UNCHANGED <<status, over>>

Fired ==
    /\ firing # Nobody
    /\ firing' = Nobody
    /\ UNCHANGED <<status, over>>

Finish ==
    /\ ~over
    /\ firing = Nobody
    /\ \A u \in Registrations : status[u] # "active"
    /\ over' = TRUE
    /\ UNCHANGED <<status, firing>>

Restart ==
    /\ over
    /\ over' = FALSE
    /\ UNCHANGED <<status, firing>>

Next ==
    \/ \E u \in Registrations :
          Register(u) \/ Refuse(u) \/ End(u) \/ Fire(u)
    \/ Fired
    \/ Finish
    \/ Restart

Step == [Next]_vars
Spec == Init /\ [][Next]_vars

=============================================================================
