------------------------------ MODULE MCProgress ------------------------------
(* The loop and the programs that wait for something, side by side: what     *)
(* they do in the end, when threads run on and calls return.  Each behaviour *)
(* runs one of them.  They share nothing; variables of the same name stand   *)
(* for the same thing.                                                       *)
EXTENDS Integers

CONSTANT Null

VARIABLES used,
          head, freeHead, next, rec, place, ep, terminate, batch, cb, pc,
          phase, calls, find, suspended, sweep, nreg, accepted, ended,
          fault,                                                      \* Mainloop
          known, wants, assigned, deadline, state, inside,            \* CurlMulti
          registered, events, timer,                                  \* MgLibcurl
          infos, watching, for, owed, stillRunning, conns,            \* EvLibcurl
          clients, open, main, ready, at, sender, i, fd, frame,
          number, names, content, starts, mail, held, object,
          got, whole,                                                 \* FrameShare
          times, net, sock, foreign, failed, answered, shown                  \* Ping

\* A client whose callbacks remove only their own descriptor.
Loop == INSTANCE Mainloop WITH
    Record <- {"r1", "r2"}, UserFd <- {0}, TimerFd <- {1}, MaxReg <- 2, MaxCalls <- 2, MaxEvents <- 2,
    CallbackOps <- {"add", "modify", "remove_own", "quit"}, DestroyOps <- {}, AfterQuitOps <- {}, Failures <- {}

\* Two transfers, three numbers; the number of the loop's timer is 3.
\* A libcurl that keeps its timer, and one that deletes it.
Keeps == INSTANCE MgLibcurl WITH Transfer <- {"t1", "t2"}, Sock <- {3, 4, 5}, Tfd <- 3,
             Deletes <- FALSE, Reuses <- FALSE
Deletes == INSTANCE MgLibcurl WITH Transfer <- {"t1", "t2"}, Sock <- {3, 4, 5}, Tfd <- 3,
             Deletes <- TRUE, Reuses <- FALSE
Ev == INSTANCE EvLibcurl WITH Transfer <- {"t1", "t2"}, Sock <- {3, 4}, Errors <- TRUE

\* One slot, three rounds and a server that is started again.
Rounds == INSTANCE FrameShare WITH Client <- {"c1", "c2"}, MaxClient <- 1, Fd <- {4, 5},
             MaxFrame <- 3, Room <- 1, Starts <- 2

\* Other programs ping as well; nothing is lost.
Ping == INSTANCE Ping WITH Times <- 4, IdRange <- 2, Pid <- 1, Local <- FALSE, Lossy <- FALSE, Foreign <- 1

ASSUME Keeps!LibcurlAssumption /\ Deletes!LibcurlAssumption /\ Ev!EvLibcurlAssumption
ASSUME Rounds!FrameAssumption /\ Ping!PingAssumption

loop == <<head, freeHead, next, rec, place, ep, terminate, batch, cb, pc,
          phase, calls, find, suspended, sweep, nreg, accepted, ended, fault>>
engine == <<known, wants, assigned, deadline, inside>>
mg == <<registered, events>>
ev == <<infos, watching, for, owed, stillRunning, conns>>
share == <<clients, open, main, ready, sender, i, fd, frame, number, names, content, starts,
           mail, held, object, got, whole>>
ping == <<times, net, sock, foreign, failed, answered, shown>>
vars == <<used, loop, engine, state, mg, timer, ev, share, at, ping>>

NoLoop == /\ head = Null /\ freeHead = Null /\ next = Null /\ rec = Null /\ place = Null
          /\ ep = Null /\ terminate = Null /\ batch = Null /\ cb = Null /\ pc = Null
          /\ phase = Null /\ calls = Null /\ find = Null /\ suspended = Null /\ sweep = Null
          /\ nreg = Null /\ accepted = Null /\ ended = Null /\ fault = Null
NoEngine == known = Null /\ wants = Null /\ assigned = Null /\ deadline = Null /\ inside = Null
NoMg == registered = Null /\ events = Null
NoEv == /\ infos = Null /\ watching = Null /\ for = Null /\ owed = Null
        /\ stillRunning = Null /\ conns = Null
NoShare == /\ clients = Null /\ open = Null /\ main = Null /\ ready = Null /\ sender = Null
           /\ i = Null /\ fd = Null /\ frame = Null /\ number = Null /\ names = Null
           /\ content = Null /\ starts = Null /\ mail = Null /\ held = Null /\ object = Null
           /\ got = Null /\ whole = Null
NoPing == /\ times = Null /\ net = Null /\ sock = Null /\ foreign = Null /\ failed = Null
          /\ answered = Null /\ shown = Null
NoTransfers == NoEngine /\ NoMg /\ timer = Null /\ NoEv

Init ==
    \/ used = "loop" /\ Loop!Init /\ NoEngine /\ NoMg /\ NoEv /\ state = Null /\ NoShare /\ at = Null /\ NoPing
    \/ used = "keeps" /\ Keeps!Init /\ NoLoop /\ NoEv /\ NoShare /\ at = Null /\ NoPing
    \/ used = "deletes" /\ Deletes!Init /\ NoLoop /\ NoEv /\ NoShare /\ at = Null /\ NoPing
    \/ used = "ev" /\ Ev!Init /\ NoLoop /\ NoMg /\ NoShare /\ at = Null /\ NoPing
    \/ used = "rounds" /\ Rounds!Init /\ NoLoop /\ NoTransfers /\ NoPing
    \/ used = "ping" /\ Ping!Init /\ NoLoop /\ NoTransfers /\ state = Null /\ NoShare

LoopRest == UNCHANGED <<used, engine, state, mg, ev, share, at, ping>>
MgRest == UNCHANGED <<used, loop, ev, share, at, ping>>
EvRest == UNCHANGED <<used, loop, mg, share, at, ping>>
ShareRest == UNCHANGED <<used, loop, engine, mg, timer, ev, ping>>
PingRest == UNCHANGED <<used, loop, engine, state, mg, timer, ev, share>>

Next ==
    \/ used = "loop" /\ Loop!Next /\ LoopRest
    \/ used = "keeps" /\ Keeps!Next /\ MgRest
    \/ used = "deletes" /\ Deletes!Next /\ MgRest
    \/ used = "ev" /\ Ev!Next /\ EvRest
    \/ used = "rounds" /\ Rounds!Next /\ ShareRest
    \/ used = "ping" /\ Ping!Next /\ PingRest

\* Threads and loops run on, calls return, time passes and packets that are
\* not lost arrive, as each module says.
Fairness ==
    /\ WF_vars(used = "loop" /\ (Loop!FinishCall \/ Loop!ClientReturns \/ Loop!Loop) /\ LoopRest)
    /\ WF_vars(used = "keeps" /\ Keeps!StartRun /\ MgRest)
    /\ WF_vars(used = "keeps" /\ (\E t \in {"t1", "t2"} : Keeps!AddHandle(t)) /\ MgRest)
    /\ WF_vars(used = "keeps" /\ (Keeps!ActionReturns \/ Keeps!CheckMultiInfo) /\ MgRest)
    /\ SF_vars(used = "keeps" /\ Keeps!Tick /\ MgRest)
    /\ SF_vars(used = "keeps" /\ Keeps!TimerCb /\ MgRest)
    /\ WF_vars(used = "deletes" /\ (Deletes!ActionReturns \/ Deletes!CheckMultiInfo) /\ MgRest)
    /\ WF_vars(used = "ev" /\ (\E d \in {"later", "now"} : owed /\ Ev!MultiTimerCb(d)) /\ EvRest)
    /\ WF_vars(used = "ev" /\ (Ev!AddReturns \/ Ev!Report) /\ EvRest)
    /\ SF_vars(used = "ev" /\ Ev!Tick /\ EvRest)
    /\ SF_vars(used = "ev" /\ Ev!TimerCb /\ EvRest)
    /\ WF_vars(used = "rounds" /\ Rounds!MainThread /\ ShareRest)
    /\ WF_vars(used = "rounds" /\ Rounds!Sender /\ ShareRest)
    /\ \A c \in {"c1", "c2"} :
           WF_vars(used = "rounds" /\ (Rounds!Receive(c) \/ Rounds!Printed(c)) /\ ShareRest)
    /\ WF_vars(used = "ping" /\ Ping!Step /\ PingRest)
    /\ WF_vars(used = "ping" /\ Ping!Network /\ PingRest)

Spec == Init /\ [][Next]_vars /\ Fairness

------------------------------------------------------------------------------

\* Between two libcurl calls each program watches exactly the sockets libcurl
\* wants watched, for what it wants, in whatever order they came, changed and
\* went (mglibcurl.c:89-123, ev_libcurl.c:170-243), and no transfer that
\* ended is forgotten.
WatchedAsAsked ==
    /\ used = "keeps" => Keeps!WatchedAsAsked /\ Keeps!TimerAsAsked
    /\ used = "deletes" => Deletes!WatchedAsAsked
    /\ used = "ev" => Ev!WatchedAsAsked /\ Ev!TimerAsAsked /\ Ev!NoneForgotten

\* "For all other values of timeout_ms, this should set or *update* the timer
\* to the new value" (mglibcurl.c:142-143), also after it was deleted.
TimerAsAsked == used \in {"keeps", "deletes"} => Keeps!TimerAsAsked

\* A run of the loop leaves nothing allocated, open or not destroyed
\* (mainloop.c:404-417).
CleanStop == used = "loop" => Loop!CleanStop

\* A quit during a run of the loop ends it: mainloop_run returns.  A timer
\* that has expired is served, ended or set again, or the loop told to quit
\* (mainloop.c:45-58, 107-138, 385-417).
InLoop(p) == used = "loop" /\ p
LoopServes ==
    /\ InLoop(terminate /\ phase = "run") ~> InLoop(pc = "stopped")
    /\ InLoop(phase = "run" /\ ep[1].rec # Null /\ timer[1] = "expired")
           ~> InLoop(timer[1] # "expired" \/ terminate)

Waits == \/ used \in {"keeps", "ev"} /\ deadline = "now"
         \/ used = "rounds" /\ sender # "sleep"
         \/ used = "ping" /\ at # "quit"
Served == CASE used \in {"keeps", "ev"} -> deadline # "now" \/ inside = "dead"
            [] used = "rounds" -> sender \in {"sleep", "dead"}
            [] used = "ping" -> at = "quit"
            [] OTHER -> FALSE
Ended(t) == used \in {"keeps", "deletes"} /\ state[t] \in {"ok", "failed"}
Reported(t) == used \in {"keeps", "deletes"} /\ state[t] \in {"gone", "kept"}
\* A deadline of libcurl that is reached gets its call and transfers that
\* ended their report, a round of the frame sender ends, and without loss the
\* ping program comes to its end.
ServedInTheEnd == /\ Waits ~> Served
                  /\ \A t \in {"t1", "t2"} : Ended(t) ~> Reported(t)
==============================================================================
