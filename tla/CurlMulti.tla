------------------------------ MODULE CurlMulti ------------------------------
(* External: libcurl's multi interface as the two clients of it use it.      *)
(* While the client is in one of its calls (inside), libcurl asks to watch   *)
(* sockets and to set a timer through the client's callbacks, and ends       *)
(* transfers; each action here is one such callback's request, and the       *)
(* client's module adds what its callback does.                              *)
EXTENDS FiniteSets, Naturals

CONSTANTS Transfer,    \* easy handles
          Sock         \* numbers socket() may return

VARIABLES known, wants,  \* the sockets libcurl wants watched, and for what
          assigned,      \* those with a socketp (curl_multi_assign)
          deadline,      \* the time libcurl has asked to be called at
          state,         \* of the transfers
          inside         \* the libcurl call the client is in

engine == <<known, wants, assigned, deadline, state, inside>>

Interest == SUBSET {"in", "out"}

EngineInit == /\ known = {} /\ wants = [s \in Sock |-> {}] /\ assigned = {}
              /\ deadline = "none" /\ state = [t \in Transfer |-> "absent"]
              /\ inside = "nothing"

InState(what) == {t \in Transfer : state[t] \in what}
Running == InState({"running"})

\* curl_multi_add_handle: the transfer starts by a deadline that is now.
EngineAdd(t) == /\ state[t] = "absent" /\ state' = [state EXCEPT ![t] = "running"]

\* The calls made of the client's callback functions during a call.
MayAsk == inside \in {"add", "socket", "timer"}

AskWatch(s, w) == /\ inside \in {"socket", "timer"} /\ Running # {}
                  /\ (s \in known => w # wants[s])
                  /\ known' = known \cup {s} /\ wants' = [wants EXCEPT ![s] = w]
                  /\ UNCHANGED <<deadline, state, inside>>

AskRemove(s) == /\ inside \in {"socket", "timer"} /\ s \in known
                /\ known' = known \ {s} /\ wants' = [wants EXCEPT ![s] = {}]
                /\ assigned' = assigned \ {s}
                /\ UNCHANGED <<deadline, state, inside>>

AskTimer(d) == /\ MayAsk /\ d # deadline /\ (inside = "add" => d = "now")
               /\ deadline' = d
               /\ UNCHANGED <<known, wants, assigned, state, inside>>

\* A transfer ends; its message waits for curl_multi_info_read.
EngineEnds(t, how) == /\ inside \in {"socket", "timer"} /\ state[t] = "running"
                      /\ state' = [state EXCEPT ![t] = how]
                      /\ UNCHANGED <<known, wants, assigned, deadline, inside>>

\* Time passes for libcurl only while the client waits or works.
TimePasses == /\ deadline = "later" /\ deadline' = "now"
              /\ UNCHANGED <<known, wants, assigned, state, inside>>

\* A call on account of the timer has used up a deadline that was reached,
\* before it asks for another.
EngineTimeout == deadline' = IF deadline = "now" THEN "none" ELSE deadline
=============================================================================
