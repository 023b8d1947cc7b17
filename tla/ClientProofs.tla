----------------------------- MODULE ClientProofs -----------------------------
(* Theorems about the clients of the event loop: the two transfer clients,    *)
(* for every set of transfers and of sockets, whatever libcurl asks for in    *)
(* its calls; and ping, for every number of requests and foreign packets.      *)
EXTENDS EvLibcurl, Integers, Sequences, FiniteSetTheorems, TLAPS

CONSTANTS Tfd, Deletes, Reuses
VARIABLES registered, events

Mg == INSTANCE MgLibcurl

CONSTANTS Times, IdRange, Pid, Local, Lossy, Foreign
VARIABLES at, times, net, sock, foreign, failed, answered, shown

P == INSTANCE Ping

\* What libcurl asks for.
EngineTypeOK ==
    /\ known \subseteq Sock /\ assigned \subseteq Sock
    /\ wants \in [Sock -> Mg!Interest]
    /\ deadline \in {"none", "later", "now"}
    /\ inside \in {"nothing", "add", "socket", "timer", "report", "dead"}

-----------------------------------------------------------------------------
(* mglibcurl.c.                                                            *)

\* What the loop has is what libcurl asked for, also inside a call.  The number
\* of the timer is no socket's: this needs a libcurl that never deletes the
\* timer, or a system that does not give its number to a socket.
MgInv ==
    /\ EngineTypeOK
    /\ registered \in [Sock -> {"nothing", "socket", "timer"}]
    /\ events \in [Sock -> SUBSET {"in", "out", "err"}]
    /\ timer \in {"closed", "unset", "set", "expired"}
    /\ Tfd \notin known /\ assigned = known
    /\ \A s \in Sock \ {Tfd} :
         registered[s] = IF s \in known THEN "socket" ELSE "nothing"
    /\ \A s \in known : events[s] = wants[s] \cup {"err"}
    /\ registered[Tfd] = IF timer = "closed" THEN "nothing" ELSE "timer"
    /\ timer = "closed" => Deletes

NumbersApart == Mg!LibcurlAssumption /\ ~(Deletes /\ Reuses)

LEMMA MgInit == ASSUME NumbersApart, Mg!Init PROVE MgInv
BY DEF NumbersApart, Mg!LibcurlAssumption, Mg!Init, Mg!EngineInit, MgInv,
   EngineTypeOK,
   Mg!Interest

LEMMA MgHandleSocket ==
    ASSUME NumbersApart, MgInv, NEW s \in Sock, NEW w \in Mg!Interest,
           Mg!HandleSocket(s, w)
    PROVE  MgInv'
<1>1. /\ s # Tfd /\ known' = known \cup {s} /\ wants' = [wants EXCEPT ![s] = w]
      /\ assigned' = known' /\ UNCHANGED <<deadline, inside, timer>>
  BY DEF NumbersApart, MgInv, Mg!HandleSocket, Mg!Free, Mg!AskWatch, Mg!LoopAdd,
     Mg!LoopModify
<1>2. /\ registered' = [registered EXCEPT ![s] = "socket"]
      /\ events' = [events EXCEPT ![s] = w \cup {"err"}]
  BY <1>1 DEF MgInv, Mg!HandleSocket, Mg!LoopAdd, Mg!LoopModify
<1>3. EngineTypeOK'
  BY <1>1 DEF MgInv, EngineTypeOK
<1>. QED  BY <1>1, <1>2, <1>3 DEF MgInv, EngineTypeOK, Mg!Interest

LEMMA MgHandleRemove ==
    ASSUME NumbersApart, MgInv, NEW s \in Sock, Mg!HandleRemove(s)
    PROVE  MgInv'
<1>1. /\ s \in known /\ s # Tfd /\ known' = known \ {s} /\ assigned' = known'
      /\ wants' = [wants EXCEPT ![s] = {}] /\ UNCHANGED <<deadline, inside, timer>>
      /\ registered' = [registered EXCEPT ![s] = "nothing"]
      /\ events' = [events EXCEPT ![s] = {}]
  BY DEF MgInv, Mg!HandleRemove, Mg!AskRemove, Mg!LoopRemove
<1>2. EngineTypeOK'
  BY <1>1 DEF MgInv, EngineTypeOK, Mg!Interest
<1>. QED  BY <1>1, <1>2 DEF MgInv, EngineTypeOK

LEMMA MgTimerAsked ==
    ASSUME NumbersApart, MgInv,
           Mg!MultiTimerDelete \/ \E d \in {"later", "now"} : Mg!MultiTimerSet(d)
    PROVE  MgInv'
<1>1. /\ deadline' \in {"none", "later", "now"}
      /\ UNCHANGED <<known, wants, assigned, inside>>
  BY DEF Mg!MultiTimerDelete, Mg!MultiTimerSet, Mg!AskTimer
<1>2. EngineTypeOK'
  BY <1>1 DEF MgInv, EngineTypeOK
<1>3. CASE Mg!MultiTimerDelete
  BY <1>1, <1>2, <1>3
  DEF NumbersApart, Mg!LibcurlAssumption, MgInv, Mg!MultiTimerDelete, Mg!LoopRemove,
      EngineTypeOK
<1>4. ASSUME NEW d \in {"later", "now"}, Mg!MultiTimerSet(d) PROVE MgInv'
  BY <1>1, <1>2, <1>4
  DEF NumbersApart, Mg!LibcurlAssumption, MgInv, Mg!MultiTimerSet, Mg!TimerReset,
      EngineTypeOK
<1>. QED  BY <1>3, <1>4

\* The other steps leave libcurl's sockets and the loop's as they are.
LEMMA MgOthers ==
    ASSUME NumbersApart, MgInv, [Mg!Next]_(Mg!vars), ~ Mg!Callbacks
    PROVE  MgInv'
<1>1. /\ UNCHANGED <<known, wants, assigned, registered, events>>
      /\ deadline' \in {"none", "later", "now"}
      /\ inside' \in {"nothing", "add", "socket", "timer", "report", "dead"}
      /\ timer' = timer \/ (timer # "closed" /\ timer' \in {"unset", "expired"})
  BY DEF Mg!Next, Mg!vars, Mg!engine, Mg!loop, Mg!AddHandle, Mg!EngineAdd,
     Mg!StartRun, Mg!EventCb, Mg!TimerCb, Mg!EngineTimeout, Mg!ActionReturns,
     Mg!CheckMultiInfo, Mg!Tick, Mg!TimePasses, MgInv, EngineTypeOK
<1>2. EngineTypeOK'
  BY <1>1 DEF MgInv, EngineTypeOK
<1>. QED  BY <1>1, <1>2 DEF MgInv

LEMMA MgNext ==
    ASSUME NumbersApart, MgInv, [Mg!Next]_(Mg!vars)
    PROVE  MgInv'
<1>1. ASSUME NEW t \in Transfer, Mg!TransferEnds(t) PROVE MgInv'
  <2>1. UNCHANGED <<known, wants, assigned, deadline, inside, registered,
                    events, timer>>
    BY <1>1 DEF Mg!TransferEnds, Mg!EngineEnds, Mg!loop
  <2>. QED  BY <2>1 DEF MgInv, EngineTypeOK
<1>. QED
  BY <1>1, MgHandleSocket, MgHandleRemove, MgTimerAsked, MgOthers DEF Mg!Callbacks

LEMMA MgAlways == ASSUME NumbersApart PROVE Mg!Spec => []MgInv
<1>1. Mg!Init => MgInv
  BY MgInit
<1>2. MgInv /\ [Mg!Next]_(Mg!vars) => MgInv'
  BY MgNext
<1>. QED  BY <1>1, <1>2, PTL DEF Mg!Spec

\* handle_socket keeps the loop to what libcurl asked for, in whatever order
\* sockets came, changed and went (mglibcurl.c:89-123), as long as the number
\* of a deleted timer is not given to a socket.
THEOREM SocketsWatched == ASSUME NumbersApart PROVE Mg!Spec => []Mg!WatchedAsAsked
<1>1. ASSUME MgInv, Mg!LibcurlAssumption PROVE Mg!WatchedAsAsked
  BY <1>1 DEF MgInv, Mg!WatchedAsAsked
<1>2. MgInv => Mg!WatchedAsAsked
  BY <1>1 DEF NumbersApart
<1>. QED  BY <1>2, MgAlways, PTL

\* While libcurl waits for a time the timer runs or has expired, and it has
\* not expired before that time: what was left of an earlier one is dropped.
MgTimerInv ==
    /\ deadline # "none" => timer \in {"set", "expired"}
    /\ timer = "expired" => deadline # "later"

\* For a libcurl that never deletes its timer, "set or *update* the timer to
\* the new value" (mglibcurl.c:142-143) is kept: no deadline goes without one.
THEOREM TimerKept ==
    ASSUME NumbersApart, ~Deletes PROVE Mg!Spec => []Mg!TimerAsAsked
<1>1. Mg!Init => MgTimerInv
  BY DEF Mg!Init, Mg!EngineInit, MgTimerInv
<1>2. ASSUME MgInv, MgTimerInv, [Mg!Next]_(Mg!vars) PROVE MgTimerInv'
  <2>1. timer # "closed" /\ timer \in {"unset", "set", "expired"}
    BY <1>2 DEF MgInv
  <2>2. ASSUME NEW d \in {"later", "now"}, Mg!MultiTimerSet(d) PROVE MgTimerInv'
    BY <2>1, <2>2 DEF Mg!MultiTimerSet, Mg!TimerReset, MgTimerInv
  <2>3. CASE Mg!TimerCb
    BY <1>2, <2>3 DEF Mg!TimerCb, Mg!EngineTimeout, MgTimerInv, MgInv, EngineTypeOK
  <2>4. CASE Mg!Tick
    BY <1>2, <2>4 DEF Mg!Tick, Mg!TimePasses, Mg!loop, Mg!engine, MgTimerInv
  <2>5. ASSUME NEW s \in Sock, Mg!HandleRemove(s) PROVE MgTimerInv'
    <3>1. s # Tfd /\ registered[s] # "timer" /\ UNCHANGED deadline
      BY <1>2, <2>5 DEF MgInv, EngineTypeOK, Mg!HandleRemove, Mg!AskRemove
    <3>. QED  BY <1>2, <2>5, <3>1 DEF Mg!HandleRemove, Mg!LoopRemove, MgTimerInv
  <2>6. CASE UNCHANGED <<deadline, timer>>
    BY <1>2, <2>6 DEF MgTimerInv
  <2>. QED
    BY <1>2, <2>2, <2>3, <2>4, <2>5, <2>6
    DEF Mg!Next, Mg!Callbacks, Mg!MultiTimerDelete, Mg!HandleSocket, Mg!AskWatch,
        Mg!LoopAdd, Mg!LoopModify, Mg!TransferEnds, Mg!EngineEnds, Mg!AddHandle,
        Mg!StartRun, Mg!EventCb, Mg!ActionReturns, Mg!CheckMultiInfo, Mg!vars,
        Mg!engine, Mg!loop
<1>3. MgInv /\ MgTimerInv /\ [Mg!Next]_(Mg!vars) => MgTimerInv'
  BY <1>2
<1>4. MgTimerInv => Mg!TimerAsAsked
  BY DEF MgTimerInv, Mg!TimerAsAsked
<1>. QED  BY <1>1, <1>3, <1>4, MgAlways, PTL DEF Mg!Spec

-----------------------------------------------------------------------------
(* ev_libcurl.c.                                                           *)

\* What ran or has a message to be read.
Owned == {"running", "ok", "failed"}

\* The watchers and the SockInfos follow libcurl's sockets at every moment,
\* timer_event its deadline, and the ConnInfos its transfers.
EvInv ==
    /\ state \in [Transfer -> {"absent", "running", "ok", "failed", "gone"}]
    /\ known \subseteq Sock /\ wants \in [Sock -> Interest]
    /\ watching = known /\ infos = known /\ for = wants
    /\ deadline # "none" => timer = "running" /\ Running # {}
    /\ conns = InState(Owned)

LEMMA EvInit == ASSUME Init PROVE EvInv
BY DEF Init, EngineInit, EvInv, InState, Interest, Owned

LEMMA EvSockets ==
    ASSUME EvInv, NEW s \in Sock,
           RemSock(s) \/ \E w \in Interest : SockCb(s, w)
    PROVE  EvInv'
<1>1. UNCHANGED <<deadline, state, timer, conns>>
  BY DEF RemSock, AskRemove, SockCb, AskWatch
<1>2. (known \subseteq Sock /\ wants \in [Sock -> Interest])'
  <2>1. CASE RemSock(s)
    <3>1. {} \in Interest
      BY DEF Interest
    <3>. QED  BY <2>1, <3>1 DEF EvInv, RemSock, AskRemove
  <2>2. ASSUME NEW w \in Interest, SockCb(s, w)
        PROVE  (known \subseteq Sock /\ wants \in [Sock -> Interest])'
    BY <2>2, SMT DEF EvInv, SockCb, AskWatch
  <2>. QED  BY <2>1, <2>2
<1>3. watching' = known' /\ infos' = known' /\ for' = wants'
  <2>1. CASE RemSock(s)
    BY <2>1 DEF EvInv, RemSock, AskRemove
  <2>2. ASSUME NEW w \in Interest, SockCb(s, w)
        PROVE  watching' = known' /\ infos' = known' /\ for' = wants'
    BY <2>2 DEF EvInv, SockCb, AskWatch, SetSock
  <2>. QED  BY <2>1, <2>2
<1>. QED  BY <1>1, <1>2, <1>3 DEF EvInv, Running, InState

LEMMA EvTimers ==
    ASSUME EvInv,
           TimerCb \/ Tick \/ \E d \in {"none", "later", "now"} : MultiTimerCb(d)
    PROVE  EvInv'
<1>1. UNCHANGED <<known, wants, watching, infos, for, state, conns>>
  BY DEF TimerCb, Tick, TimePasses, MultiTimerCb, AskTimer, sockets,
     own
<1>2. deadline' # "none" => timer' = "running" /\ Running # {}
  BY DEF EvInv, TimerCb, Tick, TimePasses, MultiTimerCb, AskTimer,
     Started, own
<1>. QED  BY <1>1, <1>2 DEF EvInv, Running, InState

\* The last transfer to end takes the deadline with it.
LEMMA EvTransfers ==
    ASSUME EvLibcurlAssumption, EvInv, NEW t \in Transfer,
           FifoCb(t) \/ TransferEnds(t)
    PROVE  EvInv'
<1>1. CASE FifoCb(t)
  <2>1. /\ state' = [state EXCEPT ![t] = "running"] /\ conns' = conns \cup {t}
        /\ UNCHANGED <<known, wants, watching, infos, for, deadline, timer>>
    BY <1>1 DEF FifoCb, EngineAdd, sockets
  <2>. QED  BY <2>1 DEF EvInv, Running, InState, Owned
<1>2. CASE TransferEnds(t)
  <2>1. /\ state[t] = "running" /\ Running # {}
        /\ \E how \in {"ok", "failed"} : state' = [state EXCEPT ![t] = how]
        /\ UNCHANGED <<known, wants, watching, infos, for, deadline, timer, conns>>
        /\ Cardinality(Running) = 1 => deadline = "none"
    BY <1>2 DEF TransferEnds, EngineEnds, own, Running, InState
  <2>2. InState(Owned)' = InState(Owned)
    BY <2>1 DEF EvInv, InState, Owned
  <2>3. Running' = Running \ {t}
    BY <2>1 DEF EvInv, Running, InState
  <2>4. ASSUME deadline # "none" PROVE Running' # {}
    <3>1. Running # {t}
      BY <2>1, <2>4, FS_Singleton
    <3>. QED  BY <2>1, <2>3, <3>1
  <2>5. (state \in [Transfer -> {"absent", "running", "ok", "failed", "gone"}])'
    BY <2>1 DEF EvInv
  <2>. QED  BY <2>1, <2>2, <2>4, <2>5 DEF EvInv
<1>. QED  BY <1>1, <1>2

\* event_cb stops the timer only when no transfer runs, and then libcurl waits
\* for no time.
LEMMA EvReport ==
    ASSUME EvLibcurlAssumption, EvInv, Report
    PROVE  EvInv'
<1>1. /\ state' = [t \in Transfer |->
                    IF state[t] \in {"ok", "failed"} THEN "gone" ELSE state[t]]
      /\ conns' = conns \ InState({"ok", "failed"})
      /\ UNCHANGED <<known, wants, watching, infos, for, deadline>>
      /\ timer' = timer \/ Cardinality(Running) <= 0
  BY DEF Report, Count, sockets
<1>2. Running' = Running /\ InState(Owned)' = Running
  BY <1>1 DEF EvInv, Running, InState, Owned
<1>3. conns' = Running
  BY <1>1 DEF EvInv, Running, InState, Owned
<1>4. ASSUME Cardinality(Running) <= 0 PROVE Running = {}
  <2>1. Running \subseteq Transfer
    BY DEF Running, InState
  <2>2. IsFiniteSet(Running)
    BY <2>1, FS_Subset DEF EvLibcurlAssumption
  <2>3. Cardinality(Running) \in Nat
    BY <2>2, FS_CardinalityType
  <2>. QED  BY <1>4, <2>2, <2>3, FS_EmptySet
<1>5. (state \in [Transfer -> {"absent", "running", "ok", "failed", "gone"}])'
  BY <1>1 DEF EvInv
<1>. QED  BY <1>1, <1>2, <1>3, <1>4, <1>5 DEF EvInv

LEMMA EvNext ==
    ASSUME EvLibcurlAssumption, EvInv, [Next]_(vars)
    PROVE  EvInv'
<1>1. ASSUME \/ AddReturns \/ Die \/ UNCHANGED vars
             \/ \E s \in Sock : EventCb(s)
      PROVE  EvInv'
  <2>1. UNCHANGED <<known, wants, watching, infos, for, deadline, timer, state,
                    conns>>
    BY <1>1 DEF AddReturns, Die, EventCb, vars, engine, own
  <2>. QED  BY <2>1 DEF EvInv, Running, InState
<1>. QED
  BY <1>1, EvSockets, EvTimers, EvTransfers, EvReport DEF Next

LEMMA EvAlways == ASSUME EvLibcurlAssumption PROVE Spec => []EvInv
<1>1. Init => EvInv
  BY EvInit
<1>2. EvInv /\ [Next]_(vars) => EvInv'
  BY EvNext
<1>. QED  BY <1>1, <1>2, PTL DEF Spec

\* Between two calls the active watchers and the SockInfos are those of the
\* sockets libcurl wants watched, of the kind it wants (ev_libcurl.c:170-243).
THEOREM WatchersFollow ==
    ASSUME EvLibcurlAssumption PROVE Spec => []WatchedAsAsked
<1>1. EvInv => WatchedAsAsked
  BY DEF EvInv, WatchedAsAsked
<1>. QED  BY <1>1, EvAlways, PTL

\* timer_event runs while libcurl waits for a time: it is not lost by the stop
\* in event_cb, by a timer_cb that came too early or by a new URL; and every
\* transfer that has not been reported has its ConnInfo (ev_libcurl.c:61-167).
THEOREM TimerFollows ==
    ASSUME EvLibcurlAssumption
    PROVE  Spec => [](TimerAsAsked /\ NoneForgotten)
<1>1. EvInv => TimerAsAsked /\ NoneForgotten
  BY DEF EvInv, TimerAsAsked, NoneForgotten, Owned
<1>. QED  BY <1>1, EvAlways, PTL

-----------------------------------------------------------------------------
(* ping_test.c, on a host that does not ping itself.                       *)

Alone == P!PingAssumption /\ ~Local

Packets == [kind : {"request", "reply"}, id : 0 .. IdRange - 1, seq : Nat, own : BOOLEAN]

\* The identifier of the program's own packets.
OwnId == Pid % IdRange

PingTypes ==
    /\ times \in Nat /\ foreign \in 0 .. Foreign /\ failed \in Nat
    /\ net \subseteq Packets /\ sock \in Seq(Packets) /\ shown \in Seq(Packets)
    /\ \A p \in net : p.own

\* The program's own replies were answered; what is shown has its identifier.
PingAnswered ==
    /\ \A p \in net : p.kind = "reply" => p.seq \in answered
    /\ \A k \in 1 .. Len(sock) : sock[k].own => sock[k].seq \in answered
    /\ \A k \in 1 .. Len(shown) : shown[k].own => shown[k].seq \in answered
    /\ \A k \in 1 .. Len(shown) : shown[k].id = OwnId

\* An own number is on its way, in the socket or shown, in one place, and was
\* sent.
PingOnce ==
    /\ \A p \in net : p.seq <= times
    /\ \A k \in 1 .. Len(sock) : sock[k].own => sock[k].seq <= times
    /\ \A k \in 1 .. Len(shown) : shown[k].own => shown[k].seq <= times
    /\ \A p, q \in net : p.seq = q.seq => p = q
    /\ \A j, k \in 1 .. Len(sock) :
          (sock[j].own /\ sock[k].own /\ sock[j].seq = sock[k].seq) => j = k
    /\ \A j, k \in 1 .. Len(shown) :
          (shown[j].own /\ shown[k].own /\ shown[j].seq = shown[k].seq) => j = k
    /\ \A p \in net, k \in 1 .. Len(sock) : sock[k].own => sock[k].seq # p.seq
    /\ \A p \in net, k \in 1 .. Len(shown) : shown[k].own => shown[k].seq # p.seq
    /\ \A j \in 1 .. Len(sock), k \in 1 .. Len(shown) :
          (sock[j].own /\ shown[k].own) => sock[j].seq # shown[k].seq

PingCount ==
    IsFiniteSet(net) /\ Cardinality(net) + Len(sock) <= 1 + foreign + failed

PingInv == PingTypes /\ PingAnswered /\ PingOnce /\ PingCount

LEMMA OwnIdSame == OwnId' = OwnId
  BY DEF OwnId

LEMMA OwnIdType == ASSUME Alone PROVE OwnId \in 0 .. IdRange - 1 /\ IdRange \in Nat \ {0}
  BY DEF Alone, P!PingAssumption, OwnId

\* A packet with the program's number as its identifier has the cut one.
LEMMA MineIsOwn ==
    ASSUME Alone, NEW p \in Packets, P!Mine(p) PROVE p.id = OwnId
<1>1. Pid \in 0 .. IdRange - 1 /\ IdRange \in Nat \ {0}
  BY DEF P!Mine, Packets, Alone, P!PingAssumption
<1>2. Pid % IdRange = Pid
  BY <1>1
<1>. QED  BY <1>2 DEF P!Mine, OwnId

LEMMA PingInit == ASSUME Alone, P!Init PROVE PingInv
<1>1. net = {P!Request(0)} /\ sock = << >> /\ shown = << >> /\ times = 0 /\ foreign = 0 /\ failed = 0
  BY DEF Alone, P!Init, P!First
<1>2. P!Request(0) \in Packets /\ P!Request(0).own
      /\ P!Request(0).kind = "request" /\ P!Request(0).seq = 0
  BY OwnIdType DEF P!Request, Packets, OwnId
<1>3. PingTypes
  BY <1>1, <1>2 DEF PingTypes, Alone, P!PingAssumption
<1>4. PingAnswered /\ PingOnce
  BY <1>1, <1>2 DEF PingAnswered, PingOnce
<1>5. PingCount
  <2>1. IsFiniteSet(net) /\ Cardinality(net) = 1 /\ Len(sock) = 0
    BY <1>1, FS_Singleton
  <2>. QED  BY <1>1, <2>1 DEF PingCount
<1>. QED  BY <1>3, <1>4, <1>5 DEF PingInv

LEMMA PingQuiet ==
    ASSUME PingInv, UNCHANGED <<times, net, sock, foreign, failed, answered, shown>>
    PROVE  PingInv'
  BY DEF PingInv, PingTypes, PingAnswered, PingOnce, PingCount

\* A callback takes a packet from the socket, d of them, or fails to, and sends
\* the next request.
LEMMA PingTakes ==
    ASSUME Alone, PingInv, NEW d \in {0, 1}, P!Continue(d),
           \/ d = 0 /\ failed' = failed + 1 /\ shown' = shown
           \/ /\ d = 1 /\ sock # << >> /\ failed' = failed
              /\ \/ shown' = shown
                 \/ P!Mine(sock[1]) /\ shown' = Append(shown, sock[1]),
           UNCHANGED <<foreign, answered>>
    PROVE  PingInv'
<1> DEFINE n == times + 1
           req == P!Request(n)
<1>1. /\ sock' = SubSeq(sock, d + 1, Len(sock)) /\ times' = n
      /\ net' = net \/ net' = net \cup {req}
  <2>1. SubSeq(sock, d + 1, Len(sock)) \o << >> = SubSeq(sock, d + 1, Len(sock))
    BY DEF PingInv, PingTypes
  <2>. QED  BY <2>1 DEF P!Continue, P!Sent, Alone
<1>2. /\ times \in Nat /\ foreign \in 0 .. Foreign /\ failed \in Nat
      /\ net \subseteq Packets /\ sock \in Seq(Packets) /\ shown \in Seq(Packets)
      /\ Len(sock) \in Nat /\ Len(shown) \in Nat
  BY DEF PingInv, PingTypes
<1>3. /\ req \in Packets /\ req.own /\ req.kind = "request" /\ req.seq = n
  BY <1>2, OwnIdType DEF P!Request, Packets, OwnId
<1>. HIDE DEF req
<1>4. /\ d <= Len(sock) /\ (d = 1 => sock[1] \in Packets /\ 1 \in 1 .. Len(sock))
      /\ Len(sock') = Len(sock) - d /\ sock' \in Seq(Packets)
      /\ \A k \in 1 .. Len(sock') : k + d \in 1 .. Len(sock) /\ sock'[k] = sock[k + d]
  <2>1. d <= Len(sock) /\ (d = 1 => sock[1] \in Packets /\ 1 \in 1 .. Len(sock))
    BY <1>2
  <2>2. /\ SubSeq(sock, d + 1, Len(sock)) \in Seq(Packets)
        /\ Len(SubSeq(sock, d + 1, Len(sock))) = Len(sock) - d
        /\ \A k \in 1 .. Len(sock) - d : SubSeq(sock, d + 1, Len(sock))[k] = sock[k + d]
    BY <1>2, <2>1
  <2>. QED  BY <1>1, <1>2, <2>1, <2>2
<1>5. /\ shown' \in Seq(Packets)
      /\ \/ shown' = shown
         \/ /\ d = 1 /\ sock[1].id = OwnId /\ Len(shown') = Len(shown) + 1
            /\ shown'[Len(shown) + 1] = sock[1]
            /\ \A k \in 1 .. Len(shown) : shown'[k] = shown[k]
  <2>1. CASE d = 1 /\ P!Mine(sock[1]) /\ shown' = Append(shown, sock[1])
    <3>1. sock[1].id = OwnId
      BY <1>4, <2>1, MineIsOwn
    <3>. QED  BY <1>2, <1>4, <2>1, <3>1
  <2>. QED  BY <1>2, <2>1
<1>6. \A k \in 1 .. Len(shown') :
          \/ k \in 1 .. Len(shown) /\ shown'[k] = shown[k]
          \/ k = Len(shown) + 1 /\ d = 1 /\ sock[1].id = OwnId /\ shown'[k] = sock[1]
  BY <1>2, <1>5
<1>7. PingTypes'
  BY <1>1, <1>2, <1>3, <1>4, <1>5 DEF PingInv, PingTypes
<1>8. PingAnswered'
  <2>1. PingAnswered
    BY DEF PingInv
  <2>2. \A p \in net' : p.kind = "reply" => p.seq \in answered
    BY <1>1, <1>3, <2>1 DEF PingAnswered
  <2>3. \A k \in 1 .. Len(sock') : sock'[k].own => sock'[k].seq \in answered
    BY <1>4, <2>1 DEF PingAnswered
  <2>4. \A k \in 1 .. Len(shown') :
            /\ shown'[k].own => shown'[k].seq \in answered
            /\ shown'[k].id = OwnId
    <3>1. d = 1 /\ sock[1].own => sock[1].seq \in answered
      BY <1>4, <2>1 DEF PingAnswered
    <3>2. \A k \in 1 .. Len(shown) :
             (shown[k].own => shown[k].seq \in answered) /\ shown[k].id = OwnId
      BY <2>1 DEF PingAnswered
    <3>. QED  BY <1>6, <3>1, <3>2
  <2>. QED  BY <2>2, <2>3, <2>4, OwnIdSame DEF PingAnswered
<1>9. PingOnce'
  <2>1. \A p \in net' : p \in net \/ (p = req /\ p.seq = n)
    BY <1>1, <1>3
  <2>2. /\ \A p \in net : p.seq \in Nat /\ p.seq <= times
        /\ \A k \in 1 .. Len(sock) :
              sock[k].own => sock[k].seq \in Nat /\ sock[k].seq <= times
        /\ \A k \in 1 .. Len(shown) :
              shown[k].own => shown[k].seq \in Nat /\ shown[k].seq <= times
    <3>1. /\ \A p \in net : p.seq \in Nat
          /\ \A k \in 1 .. Len(sock) : sock[k].seq \in Nat
          /\ \A k \in 1 .. Len(shown) : shown[k].seq \in Nat
      <4>1. \A x \in Packets : x.seq \in Nat
        BY DEF Packets
      <4>. QED  BY <1>2, <4>1
    <3>. QED  BY <3>1 DEF PingInv, PingOnce
  <2>3. PingOnce
    BY DEF PingInv
  <2>4. \A k \in 1 .. Len(shown') :
            shown'[k].own => shown'[k].seq \in Nat /\ shown'[k].seq <= times
    <3> SUFFICES ASSUME NEW k \in 1 .. Len(shown'), shown'[k].own
                 PROVE  shown'[k].seq \in Nat /\ shown'[k].seq <= times
      OBVIOUS
    <3>1. CASE k \in 1 .. Len(shown) /\ shown'[k] = shown[k]
      BY <2>2, <3>1
    <3>2. CASE d = 1 /\ shown'[k] = sock[1]
      BY <1>4, <2>2, <3>2
    <3>. QED  BY <1>6, <3>1, <3>2
  <2>5. /\ \A p \in net' : p.seq <= times'
        /\ \A k \in 1 .. Len(sock') : sock'[k].own => sock'[k].seq <= times'
        /\ \A k \in 1 .. Len(shown') : shown'[k].own => shown'[k].seq <= times'
    <3>1. \A p \in net' : p.seq <= n
      BY <1>2, <2>1, <2>2
    <3>2. \A k \in 1 .. Len(sock') : sock'[k].own => sock'[k].seq <= n
      <4> SUFFICES ASSUME NEW k \in 1 .. Len(sock'), sock'[k].own
                   PROVE  sock'[k].seq <= n
        OBVIOUS
      <4>1. k + d \in 1 .. Len(sock) /\ sock[k + d].own /\ sock[k + d].seq = sock'[k].seq
        BY <1>4
      <4>2. sock'[k].seq \in Nat /\ sock'[k].seq <= times
        BY <2>2, <4>1
      <4>. QED  BY <1>2, <4>2
    <3>3. \A k \in 1 .. Len(shown') : shown'[k].own => shown'[k].seq <= n
      BY <1>2, <2>4
    <3>. QED  BY <1>1, <3>1, <3>2, <3>3
  <2>6. \A p, q \in net' : p.seq = q.seq => p = q
    BY <1>2, <2>1, <2>2, <2>3 DEF PingOnce
  <2>7. \A j, k \in 1 .. Len(sock') :
            (sock'[j].own /\ sock'[k].own /\ sock'[j].seq = sock'[k].seq) => j = k
    <3> SUFFICES ASSUME NEW j \in 1 .. Len(sock'), NEW k \in 1 .. Len(sock'),
                        sock'[j].own, sock'[k].own, sock'[j].seq = sock'[k].seq
                 PROVE  j = k
      OBVIOUS
    <3>1. /\ j + d \in 1 .. Len(sock) /\ k + d \in 1 .. Len(sock)
          /\ sock[j + d].own /\ sock[k + d].own /\ sock[j + d].seq = sock[k + d].seq
      BY <1>4
    <3>2. j + d = k + d
      BY <2>3, <3>1 DEF PingOnce
    <3>. QED  BY <3>2
  <2>8. \A j, k \in 1 .. Len(shown') :
            (shown'[j].own /\ shown'[k].own /\ shown'[j].seq = shown'[k].seq) => j = k
    <3> SUFFICES ASSUME NEW j \in 1 .. Len(shown'), NEW k \in 1 .. Len(shown'),
                        shown'[j].own, shown'[k].own, shown'[j].seq = shown'[k].seq
                 PROVE  j = k
      OBVIOUS
    <3>1. d = 1 /\ sock[1].own
          => \A i \in 1 .. Len(shown) : shown[i].own => shown[i].seq # sock[1].seq
      BY <1>4, <2>3 DEF PingOnce
    <3>2. CASE /\ j \in 1 .. Len(shown) /\ shown'[j] = shown[j]
               /\ k \in 1 .. Len(shown) /\ shown'[k] = shown[k]
      BY <2>3, <3>2 DEF PingOnce
    <3>3. CASE /\ j = Len(shown) + 1 /\ d = 1 /\ shown'[j] = sock[1]
               /\ k \in 1 .. Len(shown) /\ shown'[k] = shown[k]
      BY <3>1, <3>3
    <3>4. CASE /\ k = Len(shown) + 1 /\ d = 1 /\ shown'[k] = sock[1]
               /\ j \in 1 .. Len(shown) /\ shown'[j] = shown[j]
      BY <3>1, <3>4
    <3>. QED  BY <1>6, <3>2, <3>3, <3>4
  <2>9. \A p \in net', k \in 1 .. Len(sock') : sock'[k].own => sock'[k].seq # p.seq
    <3> SUFFICES ASSUME NEW p \in net', NEW k \in 1 .. Len(sock'), sock'[k].own
                 PROVE  sock'[k].seq # p.seq
      OBVIOUS
    <3>1. k + d \in 1 .. Len(sock) /\ sock'[k] = sock[k + d]
      BY <1>4
    <3>2. CASE p \in net
      BY <2>3, <3>1, <3>2 DEF PingOnce
    <3>3. CASE p.seq = n
      BY <1>2, <2>2, <3>1, <3>3
    <3>. QED  BY <2>1, <3>2, <3>3
  <2>10. \A p \in net', k \in 1 .. Len(shown') :
            shown'[k].own => shown'[k].seq # p.seq
    <3> SUFFICES ASSUME NEW p \in net', NEW k \in 1 .. Len(shown'), shown'[k].own
                 PROVE  shown'[k].seq # p.seq
      OBVIOUS
    <3>1. CASE p \in net
      <4>1. CASE k \in 1 .. Len(shown) /\ shown'[k] = shown[k]
        BY <2>3, <3>1, <4>1 DEF PingOnce
      <4>2. CASE d = 1 /\ shown'[k] = sock[1]
        BY <1>4, <2>3, <3>1, <4>2 DEF PingOnce
      <4>. QED  BY <1>6, <4>1, <4>2
    <3>2. CASE p.seq = n
      BY <1>2, <2>4, <3>2
    <3>. QED  BY <2>1, <3>1, <3>2
  <2>11. \A j \in 1 .. Len(sock'), k \in 1 .. Len(shown') :
            (sock'[j].own /\ shown'[k].own) => sock'[j].seq # shown'[k].seq
    <3> SUFFICES ASSUME NEW j \in 1 .. Len(sock'), NEW k \in 1 .. Len(shown'),
                        sock'[j].own, shown'[k].own
                 PROVE  sock'[j].seq # shown'[k].seq
      OBVIOUS
    <3>1. j + d \in 1 .. Len(sock) /\ sock'[j] = sock[j + d] /\ j \in Nat /\ j >= 1
      BY <1>4
    <3>2. CASE k \in 1 .. Len(shown) /\ shown'[k] = shown[k]
      BY <2>3, <3>1, <3>2 DEF PingOnce
    <3>3. CASE d = 1 /\ shown'[k] = sock[1]
      <4>1. j + d # 1 /\ 1 \in 1 .. Len(sock)
        BY <1>4, <3>1, <3>3
      <4>. QED  BY <2>3, <3>1, <3>3, <4>1 DEF PingOnce
    <3>. QED  BY <1>6, <3>2, <3>3
  <2>. QED  BY <2>5, <2>6, <2>7, <2>8, <2>9, <2>10, <2>11 DEF PingOnce
<1>10. PingCount'
  <2>1. /\ IsFiniteSet(net) /\ Cardinality(net) \in Nat
        /\ Cardinality(net) + Len(sock) <= 1 + foreign + failed
    BY FS_CardinalityType DEF PingInv, PingCount
  <2>2. IsFiniteSet(net') /\ Cardinality(net') \in Nat
        /\ Cardinality(net') <= Cardinality(net) + 1
    <3>1. /\ IsFiniteSet(net \cup {req})
          /\ Cardinality(net \cup {req}) \in {Cardinality(net), Cardinality(net) + 1}
      BY <2>1, FS_AddElement
    <3>2. IsFiniteSet(net')
      BY <1>1, <2>1, <3>1
    <3>3. Cardinality(net') \in {Cardinality(net), Cardinality(net) + 1}
      BY <1>1, <3>1
    <3>. QED  BY <2>1, <3>2, <3>3
  <2>3. (d = 0 /\ failed' = failed + 1) \/ (d = 1 /\ failed' = failed)
    OBVIOUS
  <2>4. failed' \in Nat /\ foreign' = foreign /\ foreign \in Nat
    BY <1>2, <1>7 DEF PingTypes, Alone, P!PingAssumption
  <2>5. Len(sock') = Len(sock) - d /\ Len(sock) \in Nat
    BY <1>2, <1>4
  <2>6. Cardinality(net') + Len(sock') <= 1 + foreign' + failed'
    <3>1. CASE d = 0 /\ failed' = failed + 1
      BY <1>2, <2>1, <2>2, <2>4, <2>5, <3>1
    <3>2. CASE d = 1 /\ failed' = failed
      BY <1>2, <2>1, <2>2, <2>4, <2>5, <3>2
    <3>. QED  BY <2>3, <3>1, <3>2
  <2>. QED  BY <2>2, <2>6 DEF PingCount
<1>. QED  BY <1>7, <1>8, <1>9, <1>10 DEF PingInv

LEMMA PingReceive ==
    ASSUME Alone, PingInv, P!Receive \/ P!ReceiveFails PROVE PingInv'
<1>1. CASE P!Receive
  BY <1>1, PingTakes DEF P!Receive
<1>2. CASE P!ReceiveFails
  BY <1>2, PingTakes DEF P!ReceiveFails
<1>. QED  BY <1>1, <1>2

\* The other host, the network, and other programs.

LEMMA PingAnswer ==
    ASSUME Alone, PingInv, NEW p, P!Answer(p) PROVE PingInv'
<1> DEFINE r == [p EXCEPT !.kind = "reply"]
<1>1. /\ p \in net /\ net' = (net \ {p}) \cup {r}
      /\ answered' = answered \cup {p.seq}
      /\ UNCHANGED <<times, sock, foreign, failed, shown>>
  BY DEF P!Answer
<1>2. r \in Packets /\ r.own /\ r.seq = p.seq
  BY <1>1 DEF PingInv, PingTypes, Packets
<1>. HIDE DEF r
<1>3. PingTypes'
  BY <1>1, <1>2, OwnIdSame DEF PingInv, PingTypes
<1>4. PingAnswered'
  BY <1>1, <1>2, OwnIdSame DEF PingInv, PingAnswered
<1>5. PingOnce'
  BY <1>1, <1>2, OwnIdSame DEF PingInv, PingOnce
<1>6. PingCount'
  <2>1. /\ IsFiniteSet(net) /\ IsFiniteSet(net \ {p})
        /\ Cardinality(net \ {p}) = Cardinality(net) - 1
    BY <1>1, FS_RemoveElement DEF PingInv, PingCount
  <2>2. /\ IsFiniteSet(net') /\ Cardinality(net') <= Cardinality(net)
        /\ Cardinality(net) \in Nat /\ Cardinality(net') \in Nat
    <3>1. /\ IsFiniteSet((net \ {p}) \cup {r})
          /\ Cardinality((net \ {p}) \cup {r}) \in
                {Cardinality(net \ {p}), Cardinality(net \ {p}) + 1}
      BY <2>1, FS_AddElement
    <3>2. Cardinality(net) \in Nat /\ Cardinality(net') \in Nat
      BY <1>1, <2>1, <3>1, FS_CardinalityType
    <3>. QED  BY <1>1, <2>1, <3>1, <3>2
  <2>. QED  BY <1>1, <2>2 DEF PingInv, PingTypes, PingCount
<1>. QED  BY <1>3, <1>4, <1>5, <1>6 DEF PingInv

LEMMA PingDeliver ==
    ASSUME Alone, PingInv, NEW p, P!Deliver(p) \/ P!Lose(p) PROVE PingInv'
<1>1. /\ p \in net /\ net' = net \ {p}
      /\ sock' = sock \/ (sock' = Append(sock, p) /\ p.kind = "reply")
      /\ UNCHANGED <<times, foreign, failed, answered, shown>>
  BY DEF P!Deliver, P!Lose
<1>2. p \in Packets /\ p.own /\ sock \in Seq(Packets) /\ Len(sock) \in Nat
  BY <1>1 DEF PingInv, PingTypes
<1>3. /\ sock' \in Seq(Packets)
      /\ Len(sock') \in {Len(sock), Len(sock) + 1}
      /\ \A k \in 1 .. Len(sock') :
            \/ k \in 1 .. Len(sock) /\ sock'[k] = sock[k]
            \/ k = Len(sock) + 1 /\ sock'[k] = p /\ p.kind = "reply"
  BY <1>1, <1>2
<1>4. PingTypes'
  BY <1>1, <1>3, OwnIdSame DEF PingInv, PingTypes
<1>5. PingAnswered'
  BY <1>1, <1>3, OwnIdSame DEF PingInv, PingAnswered
<1>6. PingOnce'
  <2>1. PingOnce /\ p.seq <= times
    BY <1>1 DEF PingInv, PingOnce
  <2>2. /\ \A q \in net' : q \in net /\ q.seq # p.seq
        /\ \A k \in 1 .. Len(sock) : sock[k].own => sock[k].seq # p.seq
        /\ \A k \in 1 .. Len(shown) : shown[k].own => shown[k].seq # p.seq
    BY <1>1, <2>1 DEF PingOnce
  <2>3. \A j, k \in 1 .. Len(sock') :
            (sock'[j].own /\ sock'[k].own /\ sock'[j].seq = sock'[k].seq) => j = k
    BY <1>2, <1>3, <2>1, <2>2 DEF PingOnce
  <2>4. \A k \in 1 .. Len(sock') : sock'[k].own =>
            /\ sock'[k].seq <= times
            /\ \A q \in net' : sock'[k].seq # q.seq
            /\ \A j \in 1 .. Len(shown) : shown[j].own => sock'[k].seq # shown[j].seq
    BY <1>3, <2>1, <2>2 DEF PingOnce
  <2>. QED  BY <1>1, <2>1, <2>2, <2>3, <2>4, OwnIdSame DEF PingOnce
<1>7. PingCount'
  <2>1. /\ IsFiniteSet(net) /\ IsFiniteSet(net') /\ Cardinality(net) \in Nat
        /\ Cardinality(net') = Cardinality(net) - 1
    BY <1>1, FS_RemoveElement, FS_CardinalityType DEF PingInv, PingCount
  <2>. QED  BY <1>1, <1>2, <1>3, <2>1 DEF PingInv, PingTypes, PingCount
<1>. QED  BY <1>4, <1>5, <1>6, <1>7 DEF PingInv

LEMMA PingOthers ==
    ASSUME Alone, PingInv, NEW id \in 0 .. IdRange - 1, P!Others(id)
    PROVE  PingInv'
<1>0. PICK n \in 0 .. 1 :
          sock' = Append(sock, [kind |-> "reply", id |-> id, seq |-> n, own |-> FALSE])
  BY DEF P!Others
<1> DEFINE p == [kind |-> "reply", id |-> id, seq |-> n, own |-> FALSE]
<1>1. /\ p \in Packets /\ ~ p.own /\ sock' = Append(sock, p)
      /\ foreign < Foreign /\ foreign' = foreign + 1
      /\ UNCHANGED <<times, net, failed, answered, shown>>
  BY <1>0 DEF P!Others, Packets
<1>. HIDE DEF p
<1>2. /\ sock \in Seq(Packets) /\ Len(sock) \in Nat /\ foreign \in 0 .. Foreign
      /\ Foreign \in Nat /\ failed \in Nat
  BY DEF PingInv, PingTypes, Alone, P!PingAssumption
<1>3. /\ sock' \in Seq(Packets) /\ Len(sock') = Len(sock) + 1
      /\ \A k \in 1 .. Len(sock') :
            \/ k \in 1 .. Len(sock) /\ sock'[k] = sock[k]
            \/ sock'[k] = p
  BY <1>1, <1>2
<1>4. PingTypes'
  BY <1>1, <1>2, <1>3, OwnIdSame DEF PingInv, PingTypes
<1>5. PingAnswered'
  BY <1>1, <1>3, OwnIdSame DEF PingInv, PingAnswered
<1>6. PingOnce'
  BY <1>1, <1>3, OwnIdSame DEF PingInv, PingOnce
<1>7. PingCount'
  <2>1. Cardinality(net) \in Nat /\ IsFiniteSet(net)
    BY FS_CardinalityType DEF PingInv, PingCount
  <2>. QED  BY <1>1, <1>2, <1>3, <2>1 DEF PingInv, PingCount
<1>. QED  BY <1>4, <1>5, <1>6, <1>7 DEF PingInv

LEMMA PingAlways == ASSUME Alone PROVE P!Spec => []PingInv
<1>1. P!Init => PingInv
  BY PingInit
<1>2. PingInv /\ [P!Next]_(P!vars) => PingInv'
  BY PingQuiet, PingReceive, PingAnswer, PingDeliver, PingOthers
  DEF P!Next, P!Step, P!Network, P!Callback, P!SocketError, P!vars
<1>. QED  BY <1>1, <1>2, PTL DEF P!Spec

\* A number of the program's own is shown only when its request was answered,
\* and once, whatever other programs' packets the raw socket gets, those with
\* the same identifier included, which packets are lost and which receives
\* fail; of the packets of others only those with the program's own identifier
\* are shown (icmp.c:88-115).
THEOREM ShownAnswered == ASSUME Alone PROVE P!Spec => []P!ShownWasAnswered
<1>1. PingInv => P!ShownWasAnswered
  BY DEF PingInv, PingAnswered, PingOnce, P!ShownWasAnswered, OwnId
<1>. QED  BY <1>1, PingAlways, PTL

\* Each packet of another program and each failed receive starts one exchange
\* more at most: the callback sends the next request whatever ping_recv returned
\* (ping_test.c:26-48).
THEOREM ExchangesBounded == ASSUME Alone PROVE P!Spec => []P!ExchangesCounted
<1>1. P!Cardinality(net) = Cardinality(net)
  BY DEF P!Cardinality, Cardinality
<1>2. ASSUME PingInv PROVE P!ExchangesCounted
  <2>1. /\ Cardinality(net) + Len(sock) <= 1 + foreign + failed /\ failed \in Nat
        /\ foreign \in 0 .. Foreign
        /\ Cardinality(net) \in Nat /\ Len(sock) \in Nat /\ Foreign \in Nat
    BY <1>2, FS_CardinalityType
    DEF PingInv, PingTypes, PingCount, Alone, P!PingAssumption
  <2>. QED  BY <1>1, <2>1 DEF P!ExchangesCounted
<1>. QED  BY <1>2, PingAlways, PTL

===============================================================================
