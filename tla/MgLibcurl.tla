------------------------------ MODULE MgLibcurl ------------------------------
(* mglibcurl.c: libcurl's sockets and timer on the event loop of mainloop.c.  *)
(* The loop is here what its calls do to a descriptor (Mainloop has how).     *)
(* The number of the timer is kept in main's tfd for ever; once mainloop      *)
(* closed it, socket() may return it.                                         *)
EXTENDS CurlMulti

CONSTANTS Tfd,        \* the number of the timer, one of Sock
          Deletes,    \* libcurl asks for -1, to delete the timer
          Reuses      \* socket() returns the timer's number once it is free

LibcurlAssumption == Tfd \in Sock /\ Deletes \in BOOLEAN /\ Reuses \in BOOLEAN

VARIABLES registered,  \* [Sock -> what the loop has under this number]
          events,      \* the events it is registered for
          timer        \* of the timerfd

loop == <<registered, events, timer>>
vars == <<engine, loop>>

\* main, up to mainloop_run; the handles are added by AddHandle.
Init == /\ EngineInit
        /\ registered = [s \in Sock |-> IF s = Tfd THEN "timer" ELSE "nothing"]
        /\ events = [s \in Sock |-> {}]
        /\ timer = "set"

\* External: mainloop_add_fd, mainloop_modify_fd and mainloop_remove_fd.
LoopAdd(s, ev) == /\ registered' = [registered EXCEPT ![s] = "socket"]
                  /\ events' = [events EXCEPT ![s] = ev] /\ UNCHANGED timer
LoopModify(s, ev) == /\ events' = [events EXCEPT ![s] = IF registered[s] = "nothing" THEN @ ELSE ev]
                     /\ UNCHANGED <<registered, timer>>
LoopRemove(s) == /\ registered' = [registered EXCEPT ![s] = "nothing"]
                 /\ events' = [events EXCEPT ![s] = {}]
                 /\ timer' = IF registered[s] = "timer" THEN "closed" ELSE timer

\* main: all handles are added before the loop runs.
AddHandle(t) == /\ inside \in {"nothing", "add"}
                /\ EngineAdd(t) /\ inside' = "add"
                /\ UNCHANGED <<known, wants, assigned, deadline, loop>>

StartRun == /\ inside = "add" /\ InState({"absent"}) = {} /\ inside' = "nothing"
            /\ UNCHANGED <<known, wants, assigned, deadline, state, loop>>

\* The numbers socket() can return: open ones are not returned again.
Free(s) == s \notin known /\ (s = Tfd => timer = "closed" /\ Reuses)

\* handle_socket for a socket to watch: the first time it is added, and
\* socketp set; EVENT_ERR is part of every interest.
HandleSocket(s, w) ==
    /\ s \in known \/ Free(s)
    /\ AskWatch(s, w)
    /\ IF s \notin assigned THEN LoopAdd(s, w \cup {"err"}) /\ assigned' = assigned \cup {s}
       ELSE LoopModify(s, w \cup {"err"}) /\ UNCHANGED assigned

\* Mutant of HandleRemove: the registration stays.
HandleRemove_Stays(s) == AskRemove(s) /\ UNCHANGED loop

HandleRemove(s) == AskRemove(s) /\ LoopRemove(s)

\* multi_timer_cb; 0 is made 1 ms by the loop.  timerfd_settime fails on a
\* number that is closed or a socket.
MultiTimerDelete == Deletes /\ AskTimer("none") /\ LoopRemove(Tfd)

\* Mutant of TimerReset: only one that has not expired yet.
TimerReset_Unexpired == IF timer \in {"closed", "expired"} THEN timer ELSE "set"

TimerReset == IF timer = "closed" THEN timer ELSE "set"

MultiTimerSet(d) == /\ d # "none" /\ AskTimer(d) /\ timer' = TimerReset
                    /\ events' = [events EXCEPT ![Tfd] = IF timer = "closed" \/ registered[Tfd] = "nothing" THEN @ ELSE {"in"}]
                    /\ UNCHANGED registered

TransferEnds(t) == UNCHANGED loop /\ (EngineEnds(t, "ok") \/ EngineEnds(t, "failed"))

\* The loop finds a socket ready: event_cb.  libcurl looks the number up itself:
\* an event left over from a socket it has removed is a call like any other.
EventCb(s) == /\ inside = "nothing" /\ InState({"absent"}) = {} /\ registered[s] = "socket"
              /\ inside' = "socket"
              /\ UNCHANGED <<known, wants, assigned, deadline, state, loop>>

\* The timer has expired: timer_cb.
TimerCb == /\ inside = "nothing" /\ InState({"absent"}) = {} /\ timer = "expired"
           /\ timer' = "unset" /\ EngineTimeout /\ inside' = "timer"
           /\ UNCHANGED <<known, wants, assigned, state, registered, events>>

ActionReturns == /\ inside \in {"socket", "timer"} /\ inside' = "report"
                 /\ UNCHANGED <<known, wants, assigned, deadline, state, loop>>

\* Mutant of CheckMultiInfo: stops at the first message of a failed transfer.
CheckMultiInfo_Break ==
    /\ inside = "report" /\ inside' = "nothing"
    /\ state' = [t \in Transfer |-> IF state[t] = "ok" /\ InState({"failed"}) = {} THEN "gone"
                                    ELSE IF state[t] = "failed" THEN "kept" ELSE state[t]]
    /\ UNCHANGED <<known, wants, assigned, deadline, loop>>

\* check_multi_info: a failed transfer is reported and its handle kept, for
\* nobody asks for it again.
CheckMultiInfo ==
    /\ inside = "report" /\ inside' = "nothing"
    /\ state' = [t \in Transfer |-> IF state[t] = "ok" THEN "gone"
                                    ELSE IF state[t] = "failed" THEN "kept" ELSE state[t]]
    /\ UNCHANGED <<known, wants, assigned, deadline, loop>>

\* The kernel: the timer counts the time libcurl asked for.
Tick == /\ inside = "nothing"
        /\ \/ TimePasses /\ UNCHANGED loop
           \/ /\ timer = "set" /\ deadline # "later" /\ timer' = "expired"
              /\ UNCHANGED <<engine, registered, events>>

Callbacks == \/ \E s \in Sock, w \in Interest : HandleSocket(s, w)
             \/ \E s \in Sock : HandleRemove(s)
             \/ MultiTimerDelete \/ \E d \in {"later", "now"} : MultiTimerSet(d)
             \/ \E t \in Transfer : TransferEnds(t)

Next == \/ \E t \in Transfer : AddHandle(t)
        \/ StartRun \/ Callbacks \/ ActionReturns \/ CheckMultiInfo \/ Tick
        \/ \E s \in Sock : EventCb(s)
        \/ TimerCb

\* The thread runs on and every libcurl call returns; time passes, and the
\* loop serves the timer even if sockets are ready for ever (every batch
\* reports all expired timers).
Spec == /\ Init /\ [][Next]_vars
        /\ WF_vars(StartRun) /\ WF_vars(\E t \in Transfer : AddHandle(t))
        /\ WF_vars(ActionReturns) /\ WF_vars(CheckMultiInfo)
        /\ SF_vars(Tick) /\ SF_vars(TimerCb)

---------------------------------------------------------------------------

\* Between two calls the loop watches exactly the sockets libcurl wants
\* watched, for what it wants (handle_socket), and the timer if it has one.
WatchedAsAsked ==
    \A s \in Sock : (inside = "nothing" /\ registered[s] # "timer") =>
        IF s \in known THEN registered[s] = "socket" /\ events[s] = wants[s] \cup {"err"}
        ELSE registered[s] = "nothing"

\* When libcurl waits for a time, the timer is set or has expired.
TimerAsAsked == deadline # "none" => timer \in {"set", "expired"}

\* A deadline that is reached gets its call.
DeadlineServed == (deadline = "now") ~> (deadline # "now")

\* The message of every transfer that ended is taken from libcurl, and the
\* handle of every one that ended well is removed.
EndsReported == \A t \in Transfer :
    /\ (state[t] = "failed") ~> (state[t] = "kept")
    /\ (state[t] = "ok") ~> (state[t] = "gone")
=============================================================================
