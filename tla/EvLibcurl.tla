------------------------------ MODULE EvLibcurl ------------------------------
(* ev_libcurl.c: libcurl's sockets and timer on libev, fed with URLs through  *)
(* a named pipe while transfers run.                                          *)
EXTENDS CurlMulti

CONSTANT Errors      \* libcurl may return an error other than CURLM_BAD_SOCKET

EvLibcurlAssumption == IsFiniteSet(Transfer) /\ Errors \in BOOLEAN

VARIABLES infos,         \* sockets that have a SockInfo, libcurl's socketp
          watching, for, \* the active ev_io watchers and their kind
          timer,         \* timer_event: "stopped" or "running"
          owed,          \* external: libcurl has to ask for the timer again
          stillRunning,  \* g->still_running
          conns          \* transfers that have a ConnInfo

own == <<infos, watching, for, timer, owed, stillRunning, conns>>
sockets == <<known, wants, assigned, infos, watching, for>>
vars == <<engine, own>>

Init == /\ EngineInit
        /\ infos = {} /\ watching = {} /\ for = [s \in Sock |-> {}]
        /\ timer = "stopped" /\ owed = FALSE /\ stillRunning = 0 /\ conns = {}

\* fifo_cb reads a URL and new_conn adds it; libcurl sets its timer to now.
FifoCb(t) == /\ inside = "nothing" /\ EngineAdd(t)
             /\ conns' = conns \cup {t} /\ inside' = "add" /\ owed' = (deadline # "now")
             /\ UNCHANGED <<sockets, deadline, timer, stillRunning>>

\* Mutant of SetSock: the watcher is changed while it is active.
SetSock_NoStop(s, w) == /\ watching' = watching \cup {s}
                        /\ for' = IF s \in watching THEN for ELSE [for EXCEPT ![s] = w]

\* ev_io_stop if it was set, then a watcher of the new kind is started.
SetSock(s, w) == watching' = watching \cup {s} /\ for' = [for EXCEPT ![s] = w]

\* sock_cb: addsock or setsock.
SockCb(s, w) == /\ AskWatch(s, w) /\ SetSock(s, w)
                /\ infos' = infos \cup {s} /\ assigned' = assigned \cup {s}
                /\ UNCHANGED <<timer, owed, stillRunning, conns>>

\* Mutant of RemSock: without ev_io_stop.
RemSock_Active(s) == /\ AskRemove(s) /\ infos' = infos \ {s}
                     /\ UNCHANGED <<watching, for, timer, owed, stillRunning, conns>>

\* sock_cb for CURL_POLL_REMOVE: remsock.
RemSock(s) == /\ AskRemove(s) /\ infos' = infos \ {s}
              /\ watching' = watching \ {s} /\ for' = [for EXCEPT ![s] = {}]
              /\ UNCHANGED <<timer, owed, stillRunning, conns>>

\* Mutant of Started: whole seconds only, none for less than one.
Started_Whole(d) == IF d = "later" THEN "running" ELSE "stopped"

\* A time given in milliseconds is cut to whole seconds: the timer runs, but
\* not for as long as it was asked to.
Started(d) == IF d = "none" THEN "stopped" ELSE "running"

MultiTimerCb(d) == /\ AskTimer(d) /\ (owed => d # "none") /\ owed' = FALSE
                   /\ (d # "none" => Running # {})
                   /\ timer' = Started(d)
                   /\ UNCHANGED <<infos, watching, for, stillRunning, conns>>

\* A removal of the last transfer's timeouts is part of its end.
TransferEnds(t) == /\ EngineEnds(t, "ok") \/ EngineEnds(t, "failed")
                   /\ Cardinality(Running) = 1 => deadline = "none"
                   /\ ~ owed /\ UNCHANGED own

EventCb(s) == /\ inside = "nothing" /\ s \in watching /\ for[s] # {}
              /\ inside' = "socket"
              /\ UNCHANGED <<known, wants, assigned, deadline, state, own>>

\* timer_cb: the one-shot timer has stopped itself.  If it came too early
\* libcurl asks for it again, whatever it asked for before.
TimerCb == /\ inside = "nothing" /\ timer = "running"
           /\ timer' = "stopped" /\ inside' = "timer"
           /\ deadline' = "none" /\ owed' = (deadline = "later" /\ Running # {})
           /\ UNCHANGED <<sockets, state, stillRunning, conns>>

AddReturns == /\ inside = "add" /\ ~ owed /\ inside' = "nothing"
              /\ UNCHANGED <<known, wants, assigned, deadline, state, own>>

\* Mutant of Count: as it was before the call.
Count_Before == stillRunning

Count == Cardinality(Running)

\* Mutant of Report: a failed transfer is only reported.
Report_KeepFailed ==
    /\ inside \in {"socket", "timer"} /\ ~ owed
    /\ stillRunning' = Count
    /\ state' = [t \in Transfer |-> IF state[t] = "ok" THEN "gone"
                                    ELSE IF state[t] = "failed" THEN "kept" ELSE state[t]]
    /\ conns' = conns \ InState({"ok"})
    /\ timer' = IF inside = "socket" /\ stillRunning' <= 0 THEN "stopped" ELSE timer
    /\ inside' = "nothing" /\ UNCHANGED <<sockets, deadline, owed>>

\* curl_multi_socket_action returns, and the messages are read
\* (check_multi_info): every ended transfer is removed and freed.  event_cb
\* then stops the timer when nothing runs; timer_cb does not.
Report ==
    /\ inside \in {"socket", "timer"} /\ ~ owed
    /\ stillRunning' = Count
    /\ state' = [t \in Transfer |-> IF state[t] \in {"ok", "failed"} THEN "gone" ELSE state[t]]
    /\ conns' = conns \ InState({"ok", "failed"})
    /\ timer' = IF inside = "socket" /\ stillRunning' <= 0 THEN "stopped" ELSE timer
    /\ inside' = "nothing" /\ UNCHANGED <<sockets, deadline, owed>>

\* mcode_or_die: the process exits.
Die == /\ Errors /\ MayAsk /\ inside' = "dead"
       /\ UNCHANGED <<known, wants, assigned, deadline, state, own>>

Tick == inside = "nothing" /\ TimePasses /\ UNCHANGED own

Next == \/ \E t \in Transfer : FifoCb(t) \/ TransferEnds(t)
        \/ \E s \in Sock, w \in Interest : SockCb(s, w)
        \/ \E s \in Sock : RemSock(s) \/ EventCb(s)
        \/ \E d \in {"none", "later", "now"} : MultiTimerCb(d)
        \/ TimerCb \/ AddReturns \/ Report \/ Die \/ Tick

\* The loop runs on, libcurl's calls return after what they have to ask, and
\* libev serves an expired timer in each iteration, whatever sockets are ready.
Spec == /\ Init /\ [][Next]_vars
        /\ WF_vars(\E d \in {"later", "now"} : owed /\ MultiTimerCb(d))
        /\ WF_vars(AddReturns) /\ WF_vars(Report)
        /\ SF_vars(Tick) /\ SF_vars(TimerCb)

---------------------------------------------------------------------------

\* Between two calls the active watchers are those of the sockets libcurl
\* wants watched, of the kind it wants, and there is a SockInfo for each of
\* them and for no other (sock_cb, setsock, remsock).
WatchedAsAsked == inside = "nothing" =>
    watching = known /\ infos = known /\ for = wants

\* While a transfer waits for a time, timer_event runs: neither a stop in
\* event_cb, nor one that came too early, nor a new URL loses it.
TimerAsAsked ==
    inside = "nothing" /\ deadline # "none" /\ Running # {} => timer = "running"

\* "-1 means delete, other values are timeout times in milliseconds"
\* (ev_libcurl.c:61): timer_cb does not run before the time libcurl asked for.
NeverEarly == [][inside = "nothing" /\ inside' = "timer" => deadline # "later"]_vars

\* The ConnInfos are those of the transfers that run or wait for their report.
NoneForgotten == conns = InState({"running", "ok", "failed"})

\* What libcurl has to do by now it is called for, and what ended is reported.
DeadlineServed == (deadline = "now") ~> (deadline # "now" \/ inside = "dead")
=============================================================================
