------------------------------ MODULE FrameShare ------------------------------
(* mgframe_share.c: a server whose main thread accepts and closes clients,     *)
(* whose second thread sends each of them a frame in shared memory, and the    *)
(* client program.  Both threads use clients[] without a lock.                 *)
EXTENDS FiniteSets, Sequences, Integers

CONSTANTS Client,      \* client processes
          MaxClient,   \* MAX_CLIENT
          Fd,          \* numbers the server's accept and shm_open may return
          MaxFrame,    \* bound: frames over the whole run
          Room,        \* frames a socket's buffer holds
          Starts       \* bound: how often the server is started

FrameAssumption ==
    /\ MaxClient \in Nat \ {0} /\ Fd \subseteq Nat \ {0} /\ MaxFrame \in Nat
    /\ Room \in Nat \ {0} /\ Starts \in Nat \ {0}
    /\ Client \intersect {"nobody", "frame"} = {}

Slot == 1 .. MaxClient

VARIABLES
    clients,       \* clients[], 0 for -1
    open,          \* what each number of the server is open for
    main, ready,   \* where main is; what its select reported
    at,            \* its loop variable
    sender, i, fd, \* where the other thread is, its loop variable and the
                   \* number it has tested
    frame, number, \* its frame: number of the frame and of its descriptor
    names,         \* the objects of shared memory, by name
    content,       \* the frame each object holds
    starts,
    state, mail,   \* of the clients: frames not received yet
    held, object,  \* the frame a client has received and mapped
    got, whole     \* auxiliary: frames sent to each client, and the clients
                   \* that were in a slot since the round began

table == <<clients, open>>
mains == <<main, ready, at>>
senders == <<sender, i, fd, frame, number>>
memory == <<names, content>>
theirs == <<state, mail, held, object>>
ghosts == <<got, whole>>
vars == <<table, mains, senders, memory, starts, theirs, ghosts>>

Nobody == "nobody"
FrameFd == "frame"

Fresh == /\ clients = [s \in Slot |-> 0]
         /\ open = [n \in Fd |-> Nobody]
         /\ main = "select" /\ ready = {} /\ at = 0
         /\ sender = "sleep" /\ i = 0 /\ fd = 0 /\ number = 0

Init == /\ Fresh /\ frame = 0 /\ starts = 1
        /\ names = [n \in {"frame_0", "/tmp/frame_0"} |-> 0] /\ content = << >>
        /\ state = [c \in Client |-> "out"] /\ mail = [c \in Client |-> << >>]
        /\ held = [c \in Client |-> 0] /\ object = [c \in Client |-> 0]
        /\ got = [c \in Client |-> << >>] /\ whole = {}

Alive == main # "dead"
Connected == {n \in Fd : open[n] \in Client}
FreeFds == {n \in Fd : open[n] = Nobody}
InSlots(cs, os) == {c \in Client : \E s \in Slot : cs[s] # 0 /\ os[cs[s]] = c}

------------------------------------------------------------------------------
(* The main thread.                                                           *)

\* select reports the listening socket (0) and the clients that have closed.
Select ==
    /\ main = "select"
    /\ ready' = {n \in Fd : \E s \in Slot : clients[s] = n /\ open[n] \in Client /\ state[open[n]] = "gone"}
                \cup {n \in {0} : \E c \in Client : state[c] \in {"waiting", "left"}}
    /\ ready' # {}
    /\ main' = "accept" /\ at' = 1 /\ UNCHANGED <<table, senders, memory, starts, theirs, ghosts>>

FreeSlots == {s \in Slot : clients[s] = 0}

\* Mutant of FirstFree: the table is filled from its end.
FirstFree_Last == CHOOSE s \in FreeSlots : \A t \in FreeSlots : s >= t

FirstFree == CHOOSE s \in FreeSlots : \A t \in FreeSlots : s <= t

\* The connection gets the first free slot, or is closed.  One whose client has
\* left while it waited is accepted as well.
Accept(c, n) ==
    /\ main = "accept" /\ 0 \in ready /\ state[c] \in {"waiting", "left"} /\ n \in FreeFds
    /\ IF FreeSlots # {}
       THEN clients' = [clients EXCEPT ![FirstFree] = n] /\ open' = [open EXCEPT ![n] = c]
       ELSE UNCHANGED table
    /\ state' = [state EXCEPT ![c] = IF @ = "left" THEN "gone"
                                     ELSE IF FreeSlots # {} THEN "in" ELSE "closed"]
    /\ main' = "scan" /\ at' = 1
    /\ UNCHANGED <<ready, senders, memory, starts, mail, held, object, ghosts>>

\* accept fails without a number: the scan is left out.
AcceptFails ==
    /\ main = "accept" /\ 0 \in ready /\ FreeFds = {}
    /\ main' = "select" /\ UNCHANGED <<table, ready, at, senders, memory, starts, theirs, ghosts>>

NothingToAccept ==
    /\ main = "accept" /\ 0 \notin ready /\ main' = "scan" /\ at' = 1
    /\ UNCHANGED <<table, ready, senders, memory, starts, theirs, ghosts>>

\* One slot: a client whose read returns 0 is closed, and then cleared.
Scan ==
    /\ main = "scan" /\ at <= MaxClient
    /\ IF clients[at] # 0 /\ clients[at] \in ready
       THEN main' = "clear" /\ open' = [open EXCEPT ![clients[at]] = Nobody] /\ UNCHANGED at
       ELSE at' = at + 1 /\ UNCHANGED <<main, open>>
    /\ whole' = whole \cap InSlots(clients, open')
    /\ UNCHANGED <<clients, ready, senders, memory, starts, theirs, got>>

\* Mutant of Clear: the slot keeps the number.
Clear_Never ==
    /\ main = "clear" /\ main' = "scan" /\ at' = at + 1
    /\ UNCHANGED <<table, ready, senders, memory, starts, theirs, ghosts>>

Clear == /\ main = "clear" /\ clients' = [clients EXCEPT ![at] = 0]
         /\ main' = "scan" /\ at' = at + 1
         /\ UNCHANGED <<open, ready, senders, memory, starts, theirs, ghosts>>

Scanned == /\ main = "scan" /\ at > MaxClient /\ main' = "select"
           /\ UNCHANGED <<table, ready, at, senders, memory, starts, theirs, ghosts>>

------------------------------------------------------------------------------
(* frame_send_thread.                                                         *)

\* frame_create: shm_open of the name, which makes an object or opens the one
\* that has it, and the memcpy into it.
Create(n) ==
    /\ Alive /\ sender = "sleep" /\ frame < MaxFrame /\ n \in FreeFds
    /\ frame' = frame + 1 /\ number' = n /\ open' = [open EXCEPT ![n] = FrameFd]
    /\ IF names["frame_0"] = 0
       THEN /\ content' = Append(content, frame + 1)
            /\ names' = [names EXCEPT !["frame_0"] = Len(content) + 1]
       ELSE content' = [content EXCEPT ![names["frame_0"]] = frame + 1] /\ UNCHANGED names
    /\ sender' = "test" /\ i' = 1 /\ whole' = InSlots(clients, open)
    /\ UNCHANGED <<clients, mains, fd, starts, theirs, got>>

Test == /\ Alive /\ sender = "test" /\ i <= MaxClient
        /\ IF clients[i] = 0 THEN i' = i + 1 /\ UNCHANGED <<sender, fd>>
           ELSE sender' = "send" /\ fd' = clients[i] /\ UNCHANGED i
        /\ UNCHANGED <<table, mains, frame, number, memory, starts, theirs, ghosts>>

\* clients[i] is read for the test and for the call; without a lock or
\* volatile the second may be a new read or the value of the first.
Target == {fd, clients[i]}

\* Mutants of NextSlot: the same again, when the slot has changed meanwhile; the
\* loop variable is the other thread's.
NextSlot_Over == IF clients[i] = fd THEN i + 1 ELSE i + 2
NextSlot_Shared == at + 1

NextSlot == i + 1

\* sendmsg to a client whose socket is open; it blocks while there is no room.
Send(n) ==
    /\ Alive /\ sender = "send" /\ n \in Target \cap Connected
    /\ state[open[n]] = "in" /\ Len(mail[open[n]]) < Room
    /\ mail' = [mail EXCEPT ![open[n]] = Append(@, [frame |-> frame, object |-> names["frame_0"]])]
    /\ got' = [got EXCEPT ![open[n]] = Append(@, frame)]
    /\ sender' = "test" /\ i' = NextSlot
    /\ UNCHANGED <<table, mains, fd, frame, number, memory, starts, state, held, object, whole>>

\* Mutant of AfterError: the send is tried again.
AfterError_Retry == <<"send", i>>

AfterError == <<"test", i + 1>>

\* The number is closed, or that of the frame itself: EBADF, ENOTSOCK.
SendFails(n) ==
    /\ Alive /\ sender = "send" /\ n \in Target \ Connected
    /\ sender' = AfterError[1] /\ i' = AfterError[2]
    /\ UNCHANGED <<table, mains, fd, frame, number, memory, starts, theirs, ghosts>>

\* The client has closed its end: sendmsg raises SIGPIPE, which nobody handles.
SendPipe(n) ==
    /\ Alive /\ sender = "send" /\ n \in Target \cap Connected
    /\ state[open[n]] = "gone"
    /\ main' = "dead" /\ sender' = "dead"
    /\ UNCHANGED <<table, ready, at, i, fd, frame, number, memory, starts, theirs, ghosts>>

Unlinked(name) == [names EXCEPT ![name] = 0]

\* frame_destroy: the object is unlinked under "/tmp/frame_0".
Destroy == /\ Alive /\ sender = "test" /\ i > MaxClient
           /\ names' = Unlinked("/tmp/frame_0")
           /\ open' = [open EXCEPT ![number] = Nobody] /\ number' = 0
           /\ sender' = "sleep" /\ i' = 0 /\ fd' = 0 /\ whole' = {}
           /\ UNCHANGED <<clients, mains, frame, content, starts, theirs, got>>

------------------------------------------------------------------------------
(* The client program, and the server's next start.                           *)

Connect(c) == /\ Alive /\ state[c] = "out" /\ state' = [state EXCEPT ![c] = "waiting"]
              /\ UNCHANGED <<table, mains, senders, memory, starts, mail, held, object, ghosts>>

Receive(c) == /\ state[c] \in {"in", "cut"} /\ held[c] = 0 /\ mail[c] # << >>
              /\ held' = [held EXCEPT ![c] = Head(mail[c]).frame]
              /\ object' = [object EXCEPT ![c] = Head(mail[c]).object]
              /\ mail' = [mail EXCEPT ![c] = Tail(@)]
              /\ UNCHANGED <<table, mains, senders, memory, starts, state, ghosts>>

\* The data is printed, and the client's frame_destroy unmaps it.
Printed(c) == /\ held[c] # 0 /\ held' = [held EXCEPT ![c] = 0]
              /\ object' = [object EXCEPT ![c] = 0] /\ names' = Unlinked("/tmp/frame_0")
              /\ UNCHANGED <<table, mains, senders, content, starts, state, mail, ghosts>>

\* It is ended, or its recvmsg finds the connection closed.
Exit(c) == /\ \/ state[c] \in {"in", "waiting"}
              \/ state[c] \in {"closed", "cut"} /\ mail[c] = << >> /\ held[c] = 0
           /\ state' = [state EXCEPT ![c] = IF @ = "waiting" THEN "left" ELSE "gone"]
           /\ mail' = [mail EXCEPT ![c] = << >>]
           /\ held' = [held EXCEPT ![c] = 0] /\ object' = [object EXCEPT ![c] = 0]
           /\ UNCHANGED <<table, mains, senders, memory, starts, ghosts>>

\* Somebody starts the server again: nothing is left of the old one but the
\* names, and the clients' connections are cut.
Restart == /\ main = "dead" /\ starts < Starts /\ starts' = starts + 1
           /\ clients' = [s \in Slot |-> 0] /\ open' = [n \in Fd |-> Nobody]
           /\ main' = "select" /\ ready' = {} /\ at' = 0
           /\ sender' = "sleep" /\ i' = 0 /\ fd' = 0 /\ number' = 0
           /\ state' = [c \in Client |-> CASE state[c] \in {"in", "waiting"} -> "cut"
                                         [] state[c] = "left" -> "gone"
                                         [] OTHER -> state[c]]
           /\ whole' = {} /\ UNCHANGED <<frame, memory, mail, held, object, got>>

MainThread == \/ Select \/ AcceptFails \/ NothingToAccept \/ Scan \/ Clear \/ Scanned
              \/ \E c \in Client, n \in Fd : Accept(c, n)
Sender == \/ Test \/ Destroy
          \/ \E n \in Fd \cup {0} : Send(n) \/ SendFails(n) \/ SendPipe(n)
Clients == \E c \in Client : Connect(c) \/ Exit(c) \/ Receive(c) \/ Printed(c)

Next == MainThread \/ Sender \/ (\E n \in Fd : Create(n)) \/ Clients \/ Restart

\* The threads run, and clients read what they get.
Spec == /\ Init /\ [][Next]_vars
        /\ WF_vars(MainThread) /\ WF_vars(Sender)
        /\ \A c \in Client : WF_vars(Receive(c) \/ Printed(c))

------------------------------------------------------------------------------

\* A client that stays in its slot is not sent the round's frame twice, whatever
\* becomes of the numbers around it.  (A client that comes while the round
\* goes on may be: its number may be one the other thread has in hand.)
SentOnce == \A c \in whole : Cardinality({k \in 1 .. Len(got[c]) : got[c][k] = frame}) <= 1

\* A client that stays in its slot through a round gets the round's frame.
RoundReachesAll ==
    sender = "test" /\ i > MaxClient =>
        \A c \in whole : state[c] = "in" => got[c] # << >> /\ got[c][Len(got[c])] = frame

\* But for the moment between close and the assignment, a slot holds an open
\* connection, and no two the same.
SlotsOpen ==
    main # "dead" => \A s \in Slot : clients[s] # 0 =>
        /\ clients[s] \in Connected \/ (main = "clear" /\ at = s)
        /\ \A t \in Slot \ {s} : clients[t] = clients[s] => main = "clear" /\ at \in {s, t}

\* Every round of the sender ends, if its clients read.
RoundsEnd == (sender # "sleep") ~> (sender \in {"sleep", "dead"})

\* What a client prints is the frame it received (mgframe_share.c:354).
PrintsItsFrame == \A c \in Client : held[c] # 0 => content[object[c]] = held[c]

\* A client that goes away is noticed by the error of sendmsg (line 127), and
\* the server goes on.
ServerLives == Alive
==============================================================================
