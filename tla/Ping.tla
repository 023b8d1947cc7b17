--------------------------------- MODULE Ping ---------------------------------
(* icmp.c and test/ping_test.c: echo requests sent from the callback of the    *)
(* raw socket, whose recvfrom blocks the loop.                                 *)
EXTENDS Sequences, Integers, FiniteSets

CONSTANTS Times,     \* 100, the times the callback asks again
          IdRange,   \* 2^16, the numbers icmp_id holds
          Pid,       \* getpid()
          Local,     \* the host pings itself: its socket gets requests as well
          Lossy,     \* packets may be lost and the socket may fail
          Foreign    \* bound: packets of other programs

PingAssumption ==
    /\ Times \in Nat /\ IdRange \in Nat \ {0} /\ Pid \in Nat \ {0} /\ Foreign \in Nat
    /\ Local \in BOOLEAN /\ Lossy \in BOOLEAN

VARIABLES at,              \* "loop", "recvfrom" or "quit"
          times,           \* idata->times
          net, sock,       \* requests and replies under way, packets in the socket
          foreign, failed, \* packets of others and receives that failed so far
          answered, shown  \* auxiliary: requests the host answered and packets
                           \* whose number was printed with a time
vars == <<at, times, net, sock, foreign, failed, answered, shown>>

\* icmp_pack and sendto: the identifier is cut to 16 bits.  "own" is auxiliary:
\* the packet is of this program's exchanges.
Request(num) == [kind |-> "request", id |-> Pid % IdRange, seq |-> num, own |-> TRUE]

\* Mutant of Sent: the request before is repeated with each.
Sent_Again(num) == net' = net \cup {Request(num), Request(num - 1)}

Sent(num) == net' = net \cup {Request(num)}

\* Mutant of First: the loop is run before the first request is sent.
First_Late == {}

First == {Request(0)}

Init == /\ at = "loop" /\ times = 0
        /\ net = First /\ sock = (IF Local THEN <<Request(0)>> ELSE << >>)
        /\ foreign = 0 /\ failed = 0 /\ answered = {} /\ shown = << >>

\* The socket is ready for writing at once, so the callback is run at once.
Callback == /\ at = "loop" /\ at' = "recvfrom"
            /\ UNCHANGED <<times, net, sock, foreign, failed, answered, shown>>

\* EVENT_ERR.
SocketError == /\ at = "loop" /\ Lossy /\ at' = "quit"
               /\ UNCHANGED <<times, net, sock, foreign, failed, answered, shown>>

\* Mutant of Mine: the identifier is not looked at.
Mine_Any(p) == TRUE

Mine(p) == p.id = Pid

\* The callback after ping_recv: n packets were taken, and whatever it returned
\* the next request is sent, until there were enough.
Continue(n) ==
    /\ times' = times + 1
    /\ IF times > Times
       THEN at' = "quit" /\ sock' = SubSeq(sock, n + 1, Len(sock)) /\ UNCHANGED net
       ELSE /\ at' = "loop" /\ Sent(times + 1)
            /\ sock' = SubSeq(sock, n + 1, Len(sock))
                        \o (IF Local THEN <<Request(times + 1)>> ELSE << >>)

\* ping_recv takes a packet, which may be another program's.
Receive ==
    /\ at = "recvfrom" /\ sock # << >>
    /\ shown' = (IF Mine(sock[1]) THEN Append(shown, sock[1]) ELSE shown)
    /\ Continue(1)
    /\ UNCHANGED <<foreign, failed, answered>>

\* recvfrom fails, with a packet in the socket or without.
ReceiveFails ==
    /\ at = "recvfrom" /\ Lossy
    /\ failed' = failed + 1
    /\ Continue(0)
    /\ UNCHANGED <<foreign, answered, shown>>

------------------------------------------------------------------------------
(* The network and the other host.                                            *)

Answer(p) == /\ p \in net /\ p.kind = "request"
             /\ net' = (net \ {p}) \cup {[p EXCEPT !.kind = "reply"]}
             /\ answered' = answered \cup {p.seq}
             /\ UNCHANGED <<at, times, sock, foreign, failed, shown>>

Deliver(p) == /\ p \in net /\ p.kind = "reply" /\ net' = net \ {p} /\ sock' = Append(sock, p)
              /\ UNCHANGED <<at, times, foreign, failed, answered, shown>>

Lose(p) == /\ Lossy /\ p \in net /\ net' = net \ {p}
           /\ UNCHANGED <<at, times, sock, foreign, failed, answered, shown>>

\* A reply to another program's request, with whatever identifier that has:
\* this program's among them, whose number is only one in another system.
Others(id) == /\ foreign < Foreign /\ foreign' = foreign + 1
              /\ \E n \in 0 .. 1 :
                    sock' = Append(sock, [kind |-> "reply", id |-> id, seq |-> n, own |-> FALSE])
              /\ UNCHANGED <<at, times, net, failed, answered, shown>>

Step == Callback \/ SocketError \/ Receive \/ ReceiveFails
Network == (\E p \in net : Answer(p)) \/ (\E p \in net : Deliver(p))
Next == \/ Step \/ Network
        \/ \E p \in net : Lose(p)
        \/ \E id \in 0 .. IdRange - 1 : Others(id)

\* The program runs and packets that are not lost arrive.
Spec == /\ Init /\ [][Next]_vars /\ WF_vars(Step)
        /\ WF_vars(Network)

------------------------------------------------------------------------------

\* A number is printed with a time only once the host has answered it, and only
\* once, whoever else's packets the raw socket gets; those of another program
\* are printed only if they carry the very identifier of this one, which
\* nothing else tells apart.
ShownWasAnswered ==
    /\ \A k \in 1 .. Len(shown) : IF shown[k].own THEN shown[k].seq \in answered
                                  ELSE shown[k].id = Pid % IdRange
    /\ \A j, k \in 1 .. Len(shown) :
          (shown[j].own /\ shown[k].own /\ shown[j].seq = shown[k].seq) => j = k

\* No more exchanges are open than one, and one for each packet of another
\* program and each receive that failed: every other send is caused by a packet
\* of its own taken from the socket.
ExchangesCounted ==
    Cardinality(net) + Len(sock) <= 1 + foreign + failed

\* Without loss the program sends all its requests and quits.
PingEnds == <>(at = "quit")

\* The time of every reply is printed (test/ping_test.c:37).
ReplyShown == [][Receive /\ sock[1].kind = "reply" /\ sock[1].id = Pid % IdRange => shown' # shown]_vars
==============================================================================
