---------------------------- MODULE MCInterference ----------------------------
(* What may interfere with a component while it works, checked side by side: *)
(* each behaviour is one of them.  Destroy callbacks that call the loop      *)
(* again, callbacks that remove the registrations of others while memory     *)
(* runs short or while select's result is walked, a client that asks for any *)
(* range of numbers and frees what it does not hold, the two threads of the  *)
(* frame server, and a network with loss and other people's packets.         *)
EXTENDS Integers, TLC

CONSTANTS Record, Null

VARIABLES used,
          head, freeHead, next, rec, place, ep, timer, terminate, batch, cb, pc,
          phase, calls, find, suspended, sweep, nreg, accepted, ended, fault,
          min, max, last, map, offset, count, result, held,
          list, free, fdOf, rfds, wfds, maxfd, where, quit, data, orfds, owfds,
          expired, asked, ready, due, called,
          clients, open, main, at, sender, i, fd, frame, number, names, content,
          starts, state, mail, object, got, whole,
          times, net, sock, foreign, failed, answered, shown

\* Destroy callbacks remove, modify and quit; only timers are registered.
Reentrant == INSTANCE Mainloop WITH
    UserFd <- {}, TimerFd <- {1, 2}, MaxReg <- 3, MaxCalls <- 3, MaxEvents <- 2,
    CallbackOps <- {"add", "modify", "remove_own", "quit"},
    DestroyOps <- {"modify", "remove_own", "quit"}, AfterQuitOps <- {}, Failures <- {}

Cross == INSTANCE Mainloop WITH
    UserFd <- {0}, TimerFd <- {1, 2}, MaxReg <- 3, MaxCalls <- 2, MaxEvents <- 3,
    CallbackOps <- {"add", "modify", "remove_own", "remove_other"},
    DestroyOps <- {}, AfterQuitOps <- {}, Failures <- {"nomem"}

\* Any two bounds, and a client that also frees a number outside the map.
Edges == INSTANCE MgBitmap WITH
    OffsetMax <- 15, MapWords <- 2, Ranges <- (0 .. 15) \X (0 .. 15), Garbage <- {{}}, Careless <- {9}

\* Callbacks of the select backend add, change and remove other descriptors.
Selects == INSTANCE SelectLoop WITH Fd <- {3, 4, 5}, Timers <- {5}, Record <- 1 .. 3, OwnToo <- FALSE

\* Two slots and a number more than two clients need; one slot, three rounds
\* and a server that is started again.
Slots == INSTANCE FrameShare WITH Client <- {"c1", "c2"}, MaxClient <- 2, Fd <- {4, 5, 6},
             MaxFrame <- 2, Room <- 1, Starts <- 1
Starts2 == INSTANCE FrameShare WITH Client <- {"c1", "c2"}, MaxClient <- 1, Fd <- {4, 5},
             MaxFrame <- 3, Room <- 1, Starts <- 2

\* Other programs ping other hosts, with whatever identifiers.
Pings == INSTANCE Ping WITH Times <- 2, IdRange <- 2, Pid <- 1, Local <- FALSE,
             Lossy <- TRUE, Foreign <- 1

ASSUME Selects!SelectAssumption /\ Slots!FrameAssumption /\ Starts2!FrameAssumption
ASSUME Pings!PingAssumption

loop == <<head, freeHead, next, rec, place, ep, timer, terminate, batch, cb,
          phase, calls, find, suspended, sweep, nreg, accepted, ended, fault>>
bits == <<min, max, last, map, offset, count, result>>
select == <<list, free, fdOf, rfds, wfds, maxfd, where, quit, data, orfds, owfds,
            expired, asked, due, called>>
frames == <<clients, open, main, sender, i, fd, frame, number, names, content,
            starts, state, mail, object, got, whole>>
pings == <<times, net, sock, foreign, failed, answered, shown>>
vars == <<used, loop, pc, bits, held, select, ready, frames, at, pings>>

NoLoop == /\ head = Null /\ freeHead = Null /\ next = Null /\ rec = Null /\ place = Null
          /\ ep = Null /\ timer = Null /\ terminate = Null /\ batch = Null /\ cb = Null
          /\ phase = Null /\ calls = Null /\ find = Null /\ suspended = Null /\ sweep = Null
          /\ nreg = Null /\ accepted = Null /\ ended = Null /\ fault = Null
NoBits == /\ min = Null /\ max = Null /\ last = Null /\ map = Null
          /\ offset = Null /\ count = Null /\ result = Null
NoSelect == /\ list = Null /\ free = Null /\ fdOf = Null /\ rfds = Null /\ wfds = Null
            /\ maxfd = Null /\ where = Null /\ quit = Null /\ data = Null /\ orfds = Null
            /\ owfds = Null /\ expired = Null /\ asked = Null /\ due = Null /\ called = Null
NoFrames == /\ clients = Null /\ open = Null /\ main = Null /\ sender = Null /\ i = Null
            /\ fd = Null /\ frame = Null /\ number = Null /\ names = Null /\ content = Null
            /\ starts = Null /\ state = Null /\ mail = Null /\ object = Null
            /\ got = Null /\ whole = Null
NoPings == /\ times = Null /\ net = Null /\ sock = Null /\ foreign = Null /\ failed = Null
           /\ answered = Null /\ shown = Null
NoNet == NoFrames /\ at = Null /\ NoPings
NoCore == NoLoop /\ pc = Null /\ NoBits /\ NoSelect

Init == \/ used = "reentrant" /\ Reentrant!Init /\ NoBits /\ NoSelect /\ NoNet /\ held = Null /\ ready = Null
        \/ used = "cross" /\ Cross!Init /\ NoBits /\ NoSelect /\ NoNet /\ held = Null /\ ready = Null
        \/ used = "edges" /\ Edges!Init /\ NoLoop /\ NoSelect /\ NoNet /\ ready = Null
        \/ used = "select" /\ Selects!Init /\ NoLoop /\ pc = Null /\ NoBits /\ NoNet /\ held = Null
        \/ used = "slots" /\ Slots!Init /\ NoCore /\ NoPings
        \/ used = "starts" /\ Starts2!Init /\ NoCore /\ NoPings
        \/ used = "pings" /\ Pings!Init /\ NoCore /\ NoFrames /\ held = Null /\ ready = Null

LoopRest == UNCHANGED <<used, bits, held, select, ready, frames, at, pings>>
FramesRest == UNCHANGED <<used, loop, pc, bits, select, pings>>

Next == \/ used = "reentrant" /\ Reentrant!Next /\ LoopRest
        \/ used = "cross" /\ Cross!Next /\ LoopRest
        \/ used = "edges" /\ Edges!Next /\ UNCHANGED <<used, loop, select, ready, frames, at, pings>>
        \/ used = "select" /\ Selects!Next /\ UNCHANGED <<used, loop, pc, bits, held, frames, at, pings>>
        \/ used = "slots" /\ Slots!Next /\ FramesRest
        \/ used = "starts" /\ Starts2!Next /\ FramesRest
        \/ used = "pings" /\ Pings!Next /\ UNCHANGED <<used, loop, pc, bits, held, select, ready, frames>>

Spec == Init /\ [][Next]_vars

Addresses == Permutations(Record)

------------------------------------------------------------------------------

\* The registration list and the free list stay sound and apart, and no
\* memory is misused by destroy callbacks that end their own timer again
\* (mainloop.c:329-347).
ListsSound == /\ used = "reentrant" => Reentrant!ListsApart /\ Reentrant!NoMemoryFault
              /\ used = "cross" => Cross!ListsApart

\* Callbacks that remove what others registered make the batch stale, but
\* never the kernel's interest list: it has what is registered and nothing
\* that is gone (mainloop.c:73-105, 312-347).  The two sets of the select
\* backend follow the list in the same way (163-193).
InterestSound == /\ used = "cross" => Cross!InterestLive /\ Cross!AcceptedIsWatched
                 /\ used = "select" => Selects!SetsFollowList

\* A round of the select backend calls each readable registration once and
\* none that is gone, though callbacks change the list that is walked
\* (mainloop.c:195-233).
RoundServed == used = "select" => Selects!RoundServesAll /\ Selects!CalledIsLive

\* What the loop promises is kept to destroy callbacks that call it again.
PromisesKept == /\ used = "reentrant" => Reentrant!Registry!Init
                /\ [][used = "reentrant" => Reentrant!Registry!Step]_vars

\* Whatever range the client asked for, and though it frees a number that
\* nobody holds, outside the map too, only the number 0, which a bitmap opened at 0 returns to
\* everybody, has two holders (mgbitmap.c:45-72).
OnlyZeroShared == used = "edges" => Edges!OnlyZeroShared

\* Both threads of the frame server use clients[] without a lock
\* (mgframe_share.c:242-246, 287-317): all the same a client that stays in
\* its slot through a round gets the round's frame once, and every slot but
\* the one being cleared holds an open connection of its own.
FramesReachAll ==
    /\ used = "slots" => Slots!SentOnce /\ Slots!RoundReachesAll /\ Slots!SlotsOpen
    /\ used = "starts" => Starts2!SentOnce /\ Starts2!RoundReachesAll /\ Starts2!SlotsOpen

\* The raw socket of the ping program gets everybody's packets, and may fail:
\* a number of its own is printed only once its request was answered, one of
\* others only under the same identifier, and every request is caused by a
\* packet taken from the socket or a receive that failed (icmp.c:76-115,
\* ping_test.c:26-48).
AnswersShown ==
    used = "pings" => Pings!ShownWasAnswered /\ Pings!ExchangesCounted
==============================================================================
