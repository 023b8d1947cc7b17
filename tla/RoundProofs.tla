----------------------------- MODULE RoundProofs -----------------------------
(* Theorems about the two rounds over a table that others change meanwhile:   *)
(* the sender of FrameShare, whose clients another thread adds and removes,   *)
(* for every number of clients, slots, numbers and frames; and select_run of  *)
(* SelectLoop, whose list the callbacks change, for every set of descriptors. *)
EXTENDS FrameShare, FiniteSetTheorems, SequenceTheorems, WellFoundedInduction, TLAPS

CONSTANTS Descriptor, Timers, Record, OwnToo
VARIABLES list, free, fdOf, rfds, wfds, maxfd, where, quit, data, orfds, owfds,
          expired, asked, reported, due, called

SL == INSTANCE SelectLoop WITH Fd <- Descriptor, ready <- reported

-------------------------------------------------------------------------------
(* The sender of frames.                                                      *)

\* The types of what the two threads and the table are made of.
TypeOK ==
    /\ clients \in [Slot -> Fd \cup {0}]
    /\ open \in [Fd -> Client \cup {Nobody, FrameFd}]
    /\ main \in {"select", "accept", "scan", "clear", "dead"}
    /\ at \in 0 .. MaxClient + 1
    /\ main \in {"scan", "clear"} => at # 0
    /\ main = "clear" => at \in Slot
    /\ sender \in {"sleep", "test", "send", "dead"}
    /\ i \in 0 .. MaxClient + 1 /\ fd \in Fd \cup {0}
    /\ sender = "test" => i # 0
    /\ sender = "send" => i \in Slot
    /\ frame \in Nat /\ number \in Fd \cup {0}
    /\ state \in [Client -> {"out", "waiting", "left", "in", "gone", "closed", "cut"}]
    /\ got \in [Client -> Seq(Nat)] /\ whole \subseteq Client
    /\ main = "dead" <=> sender = "dead"

\* A client has one connection, from its accept on; a number the main thread
\* closes is no client's any more, and the others in the table are open, each
\* in one slot.
TableShape ==
    /\ \A n \in Connected : state[open[n]] \in {"in", "gone"}
    /\ \A m, n \in Connected : open[m] = open[n] => m = n
    /\ main # "dead" =>
          \A s \in Slot : clients[s] # 0 =>
              /\ clients[s] \in Connected <=> ~(main = "clear" /\ at = s)
              /\ \A t \in Slot \ {s} : clients[t] # clients[s]

\* The sender's own number is open for the frame as long as it has one.
NumberShape ==
    sender \in {"test", "send"} => number \in Fd /\ open[number] = FrameFd

\* c has slot s, with an open connection.
Holds(c, s) == s \in Slot /\ clients[s] # 0 /\ open[clients[s]] = c

\* A frame that c was sent is the round's, or of an earlier round.
SentBefore(c) == \A k \in 1 .. Len(got[c]) : got[c][k] < frame
SentLast(c) ==
    /\ got[c] # << >> /\ got[c][Len(got[c])] = frame
    /\ \A k \in 1 .. Len(got[c]) : got[c][k] = frame => k = Len(got[c])

\* During a round: whoever has kept its slot since the round began has its
\* frame once if the sender has passed the slot, and not yet otherwise; and the
\* number in the sender's hands is that of the slot's client, if it is one of
\* these, and of none of the others.
RoundShape ==
    /\ \A c \in Client : \A k \in 1 .. Len(got[c]) : got[c][k] <= frame
    /\ sender = "sleep" => whole = {}
    /\ \A c \in whole : \E s \in Slot : Holds(c, s)
    /\ \A c \in whole, s \in Slot :
          Holds(c, s) => IF s < i THEN SentLast(c) ELSE SentBefore(c)
    /\ sender = "send" =>
          /\ fd # 0
          /\ \A c \in whole : open[fd] = c \/ Holds(c, i) => clients[i] = fd

FrameInv == TypeOK /\ TableShape /\ NumberShape /\ RoundShape


\* A set of numbers has a first one.
LEMMA HasFirst ==
    ASSUME NEW S \in SUBSET Nat, S # {}
    PROVE  \E m \in S : \A n \in S : m <= n
<1> DEFINE R == {ss \in Nat \X Nat : ss[1] < ss[2]}
<1>1. IsWellFoundedOn(R, Nat)
  BY NatLessThanWellFounded DEF OpToRel
<1>2. PICK m \in S : \A n \in S : ~(<<n, m>> \in R)
  BY <1>1, WFMin
<1>3. \A n \in S : n < m => <<n, m>> \in R
  OBVIOUS
<1>. HIDE DEF R
<1>4. \A n \in S : ~(n < m)
  BY <1>2, <1>3
<1>. QED  BY <1>4

\* The free slot that accept takes.
LEMMA FirstFreeSlot ==
    ASSUME FrameAssumption, TypeOK, FreeSlots # {}
    PROVE  FirstFree \in Slot /\ clients[FirstFree] = 0
<1>1. FreeSlots \in SUBSET Nat
  BY DEF FrameAssumption, FreeSlots, Slot
<1>2. \E s \in FreeSlots : \A t \in FreeSlots : s <= t
  BY <1>1, HasFirst
<1>3. FirstFree \in FreeSlots
  BY <1>2 DEF FirstFree
<1>. QED  BY <1>3 DEF FreeSlots

LEMMA FrameInit == ASSUME FrameAssumption, Init PROVE FrameInv
<1>1. TypeOK
  BY DEF FrameAssumption, Init, Fresh, TypeOK, Slot, Nobody
<1>2. TableShape
  BY DEF FrameAssumption, Init, Fresh, TableShape, Connected, Nobody
<1>3. NumberShape
  BY DEF Init, Fresh, NumberShape
<1>4. RoundShape
  BY DEF Init, Fresh, RoundShape
<1>. QED  BY <1>1, <1>2, <1>3, <1>4 DEF FrameInv

\* Steps that leave the table, the frames and the sender alone.
LEMMA FrameQuiet ==
    ASSUME FrameAssumption, FrameInv,
           UNCHANGED <<clients, open, sender, i, fd, frame, number, got, whole>>,
           TypeOK',
           main = "clear" \/ main' = "clear" => UNCHANGED <<main, at>>,
           \A n \in Connected : state'[open[n]] \in {"in", "gone"}
    PROVE  FrameInv'
<1>1. TableShape'
  BY DEF FrameInv, TypeOK, TableShape, Connected
<1>2. NumberShape'
  BY DEF FrameInv, NumberShape
<1>3. RoundShape'
  BY DEF FrameInv, RoundShape, Holds, SentLast, SentBefore
<1>. QED  BY <1>1, <1>2, <1>3 DEF FrameInv

LEMMA FrameMainMoves ==
    ASSUME FrameAssumption, FrameInv,
           Select \/ AcceptFails \/ NothingToAccept \/ Scanned
    PROVE  FrameInv'
<1>1. /\ UNCHANGED <<clients, open, sender, i, fd, frame, number, got, whole, state>>
      /\ main \in {"select", "accept", "scan"}
      /\ \/ main' \in {"accept", "scan"} /\ at' = 1
         \/ main' = "select" /\ at' = at
  BY DEF Select, AcceptFails, NothingToAccept, Scanned, table, senders, ghosts, theirs
<1>2. TypeOK'
  BY <1>1 DEF FrameAssumption, FrameInv, TypeOK, Slot
<1>3. \A n \in Connected : state'[open[n]] \in {"in", "gone"}
  BY <1>1 DEF FrameInv, TableShape
<1>. QED  BY <1>1, <1>2, <1>3, FrameQuiet

LEMMA FrameClients ==
    ASSUME FrameAssumption, FrameInv, NEW c \in Client,
           Connect(c) \/ Exit(c) \/ Receive(c) \/ Printed(c)
    PROVE  FrameInv'
<1>1. /\ UNCHANGED <<clients, open, main, at, sender, i, fd, frame, number, got,
                     whole>>
      /\ \/ state' = state
         \/ state' = [state EXCEPT ![c] = "gone"]
         \/ state[c] = "waiting" /\ state' = [state EXCEPT ![c] = "left"]
         \/ state[c] = "out" /\ state' = [state EXCEPT ![c] = "waiting"]
  BY DEF Connect, Exit, Receive, Printed, table, mains, senders, ghosts
<1>2. TypeOK'
  BY <1>1 DEF FrameInv, TypeOK
<1>3. \A n \in Connected : state'[open[n]] \in {"in", "gone"}
  <2>1. \A b \in Client : state[b] \in {"in", "gone"} => state'[b] \in {"in", "gone"}
    BY <1>1 DEF FrameInv, TypeOK
  <2>. QED  BY <2>1 DEF FrameInv, TableShape, Connected
<1>. QED  BY <1>1, <1>2, <1>3, FrameQuiet

\* The main thread closes a number, or goes on to the next slot.
LEMMA FrameScan ==
    ASSUME FrameAssumption, FrameInv, Scan
    PROVE  FrameInv'
<1>1. /\ at \in Slot /\ main = "scan" /\ sender # "dead"
      /\ whole' = whole \cap InSlots(clients, open')
      /\ UNCHANGED <<clients, sender, i, fd, frame, number, state, got>>
  BY DEF Scan, FrameInv, TypeOK, Slot, FrameAssumption, senders, theirs
<1>2. \A c \in whole' : c \in whole /\ \E s \in Slot : Holds(c, s)'
  BY <1>1 DEF InSlots, Holds
<1>3. CASE ~(clients[at] # 0 /\ clients[at] \in ready)
  <2>1. UNCHANGED <<open, main>> /\ at' = at + 1
    BY <1>3 DEF Scan
  <2>2. TypeOK'
    BY <1>1, <2>1 DEF FrameInv, TypeOK, FrameAssumption, Slot
  <2>3. TableShape' /\ NumberShape'
    BY <1>1, <2>1 DEF FrameInv, TableShape, NumberShape, Connected
  <2>4. RoundShape'
    BY <1>1, <1>2, <2>1 DEF FrameInv, RoundShape, Holds, SentLast, SentBefore
  <2>. QED  BY <2>2, <2>3, <2>4 DEF FrameInv
<1>4. CASE clients[at] # 0 /\ clients[at] \in ready
  <2> DEFINE n == clients[at]
  <2>1. /\ main' = "clear" /\ at' = at /\ open' = [open EXCEPT ![n] = Nobody]
        /\ n \in Connected /\ Nobody \notin Client /\ n # 0 /\ n \in Fd
    BY <1>1, <1>4 DEF Scan, FrameInv, TableShape, FrameAssumption, Nobody, Connected
  <2>. HIDE DEF n
  <2>2. TypeOK'
    BY <1>1, <2>1 DEF FrameInv, TypeOK
  <2>3. Connected' = Connected \ {n} /\ \A m \in Fd \ {n} : open'[m] = open[m]
    BY <2>1 DEF Connected, FrameInv, TypeOK
  <2>4. TableShape'
    BY <1>1, <2>1, <2>3 DEF FrameInv, TypeOK, TableShape, Connected, n
  <2>5. NumberShape'
    BY <1>1, <2>1, <2>3 DEF FrameInv, NumberShape, Connected, FrameAssumption, FrameFd
  <2>6. \A c \in Client, m \in Fd \cup {0} : open'[m] = c /\ m # 0 => open[m] = c
    BY <2>1 DEF FrameInv, TypeOK
  <2>7. \A c \in whole', s \in Slot : Holds(c, s)' => c \in Client /\ Holds(c, s)
    BY <1>1, <1>2, <2>6 DEF FrameInv, TypeOK, Holds
  <2>8. sender = "send" => fd \in Fd /\ i \in Slot
    BY DEF FrameInv, TypeOK, RoundShape
  <2>9. RoundShape'
    BY <1>1, <1>2, <2>6, <2>7, <2>8
    DEF FrameInv, TypeOK, RoundShape, SentLast, SentBefore
  <2>. QED  BY <2>2, <2>4, <2>5, <2>9 DEF FrameInv
<1>. QED  BY <1>3, <1>4

LEMMA FrameClear ==
    ASSUME FrameAssumption, FrameInv, Clear
    PROVE  FrameInv'
<1>1. /\ main = "clear" /\ main' = "scan" /\ at \in Slot /\ at' = at + 1
      /\ clients' = [clients EXCEPT ![at] = 0]
      /\ UNCHANGED <<open, sender, i, fd, frame, number, state, got, whole>>
  BY DEF Clear, FrameInv, TypeOK, senders, theirs, ghosts
<1>2. TypeOK'
  BY <1>1 DEF FrameInv, TypeOK, Slot, FrameAssumption
<1>3. clients[at] = 0 \/ clients[at] \notin Connected
  BY <1>1 DEF FrameInv, TableShape
<1>4. /\ \A s \in Slot \ {at} : clients'[s] = clients[s]
      /\ clients'[at] = 0
  BY <1>1 DEF FrameInv, TypeOK
<1>5. TableShape' /\ NumberShape'
  BY <1>1, <1>4 DEF FrameInv, TableShape, NumberShape, Connected
<1>6. \A c \in Client, s \in Slot : Holds(c, s)' <=> Holds(c, s)
  BY <1>1, <1>3, <1>4 DEF FrameInv, TypeOK, Holds, Connected
<1>7. sender = "send" =>
        \A c \in whole : open[fd] = c \/ Holds(c, i) => clients'[i] = fd
  BY <1>1, <1>3, <1>4, <1>6 DEF FrameInv, TypeOK, RoundShape, Holds, Connected
<1>8. RoundShape'
  BY <1>1, <1>6, <1>7 DEF FrameInv, TypeOK, RoundShape, SentLast, SentBefore
<1>. QED  BY <1>2, <1>5, <1>8 DEF FrameInv

LEMMA FrameAccept ==
    ASSUME FrameAssumption, FrameInv, NEW c \in Client, NEW n \in Fd, Accept(c, n)
    PROVE  FrameInv'
<1>1. /\ main = "accept" /\ main' = "scan" /\ at' = 1 /\ state[c] \in {"waiting", "left"}
      /\ open[n] = Nobody /\ c # Nobody /\ n # 0
      /\ UNCHANGED <<sender, i, fd, frame, number, got, whole>>
  BY DEF Accept, FreeFds, senders, ghosts, FrameAssumption, Nobody
<1>2. \A m \in Connected : open[m] # c /\ m # n
  BY <1>1 DEF FrameInv, TableShape, Connected, FrameAssumption, Nobody
<1>3. c \notin whole
  BY <1>2 DEF FrameInv, TypeOK, RoundShape, Holds, Connected
<1>4. CASE FreeSlots # {}
  <2>1. PICK f \in Slot : /\ clients[f] = 0 /\ clients' = [clients EXCEPT ![f] = n]
                          /\ open' = [open EXCEPT ![n] = c]
                          /\ \E new \in {"in", "gone"} : state' = [state EXCEPT ![c] = new]
    BY <1>4, FirstFreeSlot DEF Accept, FrameInv, TypeOK
  <2>2. TypeOK'
    BY <1>1, <2>1 DEF FrameInv, TypeOK, Slot, FrameAssumption
  <2>3. /\ Connected' = Connected \cup {n}
        /\ \A m \in Connected : open'[m] = open[m] /\ state'[open[m]] = state[open[m]]
        /\ open'[n] = c /\ state'[c] \in {"in", "gone"}
    BY <1>1, <1>2, <2>1 DEF FrameInv, TypeOK, Connected
  <2>4. /\ \A s \in Slot \ {f} : clients'[s] = clients[s]
        /\ clients'[f] = n
        /\ \A s \in Slot : clients[s] # n
    BY <1>1, <1>2, <2>1 DEF FrameInv, TypeOK, TableShape
  <2>5. TableShape'
    BY <1>1, <1>2, <2>3, <2>4 DEF FrameInv, TableShape
  <2>6. NumberShape'
    BY <1>1, <2>1 DEF FrameInv, NumberShape, Nobody, FrameFd
  <2>7. \A b \in whole, s \in Slot : Holds(b, s)' <=> Holds(b, s)
    BY <1>1, <1>3, <2>1, <2>4 DEF FrameInv, TypeOK, Holds
  <2>8. ASSUME sender = "send", NEW b \in whole, open'[fd] = b \/ Holds(b, i)'
        PROVE  clients'[i] = fd
    <3>1. i \in Slot /\ fd \in Fd /\ fd # 0
      BY <2>8 DEF FrameInv, TypeOK, RoundShape, FrameAssumption
    <3>2. open[fd] = b \/ Holds(b, i)
      <4>1. CASE Holds(b, i)'
        <5>1. Holds(b, i)' => Holds(b, i)
          BY <1>1, <2>7, <3>1 DEF Holds
        <5>. QED  BY <4>1, <5>1
      <4>2. CASE open'[fd] = b
        BY <1>3, <2>1, <3>1, <4>2, <2>8 DEF FrameInv, TypeOK
      <4>. QED  BY <2>8, <4>1, <4>2
    <3>3. clients[i] = fd
      BY <2>8, <3>2 DEF FrameInv, RoundShape
    <3>. QED  BY <2>1, <2>4, <3>1, <3>3
  <2>9. RoundShape'
    BY <1>1, <2>7, <2>8 DEF FrameInv, TypeOK, RoundShape, SentLast, SentBefore
  <2>. QED  BY <2>2, <2>5, <2>6, <2>9 DEF FrameInv
<1>5. CASE FreeSlots = {}
  <2>1. /\ \E new \in {"closed", "gone"} : state' = [state EXCEPT ![c] = new]
        /\ UNCHANGED <<clients, open>>
    BY <1>5 DEF Accept, table, FrameInv, TypeOK
  <2>2. TypeOK'
    BY <1>1, <2>1 DEF FrameInv, TypeOK, Slot, FrameAssumption
  <2>3. \A m \in Connected : state'[open[m]] \in {"in", "gone"}
    BY <1>2, <2>1 DEF FrameInv, TypeOK, TableShape
  <2>. QED  BY <1>1, <2>1, <2>2, <2>3, FrameQuiet
<1>. QED  BY <1>4, <1>5

LEMMA FrameRestart ==
    ASSUME FrameAssumption, FrameInv, Restart
    PROVE  FrameInv'
<1>1. TypeOK'
  BY DEF Restart, FrameInv, TypeOK, FrameAssumption, Slot, Nobody
<1>2. TableShape'
  BY DEF Restart, TableShape, Connected, FrameAssumption, Nobody
<1>3. NumberShape'
  BY DEF Restart, NumberShape
<1>4. RoundShape'
  BY DEF Restart, FrameInv, RoundShape
<1>. QED  BY <1>1, <1>2, <1>3, <1>4 DEF FrameInv

\* A round begins: no frame of this number was sent before.
LEMMA FrameCreate ==
    ASSUME FrameAssumption, FrameInv, NEW n \in Fd, Create(n)
    PROVE  FrameInv'
<1>1. /\ sender = "sleep" /\ sender' = "test" /\ i' = 1 /\ frame' = frame + 1
      /\ number' = n /\ open[n] = Nobody /\ open' = [open EXCEPT ![n] = FrameFd]
      /\ whole' = InSlots(clients, open) /\ frame \in Nat
      /\ UNCHANGED <<clients, main, at, fd, state, got>>
  BY DEF Create, FreeFds, mains, theirs, FrameInv, TypeOK
<1>2. TypeOK'
  BY <1>1 DEF FrameInv, TypeOK, FrameAssumption, InSlots
<1>3. Connected' = Connected /\ \A m \in Connected : open'[m] = open[m] /\ m # n
  BY <1>1 DEF FrameInv, TypeOK, Connected, FrameAssumption, Nobody, FrameFd
<1>4. TableShape'
  BY <1>1, <1>3 DEF FrameInv, TableShape
<1>5. NumberShape'
  BY <1>1 DEF NumberShape, FrameInv, TypeOK
<1>6. \A c \in whole' : \E s \in Slot : Holds(c, s)'
  <2>1. \A c \in whole' :
           c \in Client /\ \E s \in Slot : clients[s] # 0 /\ open[clients[s]] = c
    BY <1>1 DEF InSlots
  <2>2. \A s \in Slot : clients[s] # 0 => clients[s] \in Fd
    BY DEF FrameInv, TypeOK
  <2>. QED  BY <1>1, <1>3, <2>1, <2>2 DEF Holds, Connected
<1>7. \A c \in Client : SentBefore(c)'
  BY <1>1 DEF FrameInv, TypeOK, RoundShape, SentBefore
<1>8. RoundShape'
  BY <1>1, <1>2, <1>6, <1>7 DEF FrameInv, TypeOK, RoundShape, Slot
<1>. QED  BY <1>2, <1>4, <1>5, <1>8 DEF FrameInv

LEMMA FrameTest ==
    ASSUME FrameAssumption, FrameInv, Test
    PROVE  FrameInv'
<1>1. /\ sender = "test" /\ i \in Slot
      /\ \/ clients[i] = 0 /\ i' = i + 1 /\ sender' = "test" /\ fd' = fd
         \/ clients[i] # 0 /\ i' = i /\ sender' = "send" /\ fd' = clients[i]
      /\ UNCHANGED <<clients, open, main, at, frame, number, state, got, whole>>
  BY DEF Test, FrameInv, TypeOK, Slot, FrameAssumption, table, mains, theirs, ghosts
<1>2. TypeOK'
  BY <1>1 DEF FrameInv, TypeOK, Slot, FrameAssumption
<1>3. TableShape' /\ NumberShape'
  BY <1>1 DEF FrameInv, TableShape, NumberShape, Connected
<1>4. ASSUME NEW c \in whole, NEW s \in Slot, Holds(c, s)'
      PROVE  IF s < i' THEN SentLast(c)' ELSE SentBefore(c)'
  <2>1. Holds(c, s) /\ (s < i' <=> s < i) /\ c \in Client
    BY <1>1, <1>4 DEF Holds, Slot, FrameInv, TypeOK, FrameAssumption
  <2>. QED  BY <1>1, <2>1 DEF FrameInv, RoundShape, SentLast, SentBefore
<1>5. ASSUME sender' = "send", NEW c \in whole, open[fd'] = c \/ Holds(c, i)'
      PROVE  clients'[i'] = fd'
  BY <1>1, <1>5
<1>6. RoundShape'
  BY <1>1, <1>4, <1>5 DEF FrameInv, TypeOK, RoundShape, Holds
<1>. QED  BY <1>2, <1>3, <1>6 DEF FrameInv

\* Whom the sender's call reaches: a client that kept its slot is the one of
\* the sender's slot.
LEMMA Reached ==
    ASSUME FrameAssumption, FrameInv, sender = "send",
           NEW n \in Target, NEW c \in whole, NEW s \in Slot, Holds(c, s)
    PROVE  (n \in Connected /\ open[n] = c) <=> s = i
<1>1. /\ n = fd \/ n = clients[i]
      /\ i \in Slot /\ fd \in Fd /\ fd # 0 /\ clients[s] # 0 /\ open[clients[s]] = c
      /\ c \in Client /\ main # "dead" /\ clients[s] \in Fd
  BY DEF Target, Holds, FrameInv, TypeOK, RoundShape, FrameAssumption
<1>2. ASSUME s = i PROVE n = clients[s]
  BY <1>1, <1>2 DEF FrameInv, RoundShape
<1>3. ASSUME n \in Connected, open[n] = c PROVE s = i
  <2>1. clients[s] \in Connected
    BY <1>1 DEF Connected
  <2>2. n = clients[s]
    BY <1>1, <1>3, <2>1 DEF FrameInv, TableShape
  <2>3. clients[i] = clients[s]
    BY <1>1, <1>3, <2>2 DEF FrameInv, RoundShape
  <2>. QED  BY <1>1, <2>3 DEF FrameInv, TableShape
<1>. QED  BY <1>1, <1>2, <1>3 DEF Connected

LEMMA FrameSend ==
    ASSUME FrameAssumption, FrameInv, NEW n, Send(n)
    PROVE  FrameInv'
<1>1. PICK b \in Client :
      /\ sender = "send" /\ sender' = "test" /\ i \in Slot /\ i' = i + 1
      /\ n \in Target /\ n \in Connected /\ b = open[n] /\ frame \in Nat
      /\ got' = [got EXCEPT ![b] = Append(@, frame)]
      /\ UNCHANGED <<clients, open, main, at, fd, frame, number, state, whole>>
  BY DEF Send, NextSlot, FrameInv, TypeOK, Connected, table, mains
<1>2. TypeOK'
  BY <1>1, SMTT(30) DEF FrameInv, TypeOK, Slot, FrameAssumption
<1>3. TableShape' /\ NumberShape'
  BY <1>1 DEF FrameInv, TableShape, NumberShape, Connected
<1>4. /\ \A c \in Client \ {b} : got'[c] = got[c]
      /\ got[b] \in Seq(Nat) /\ got'[b] = Append(got[b], frame)
  BY <1>1 DEF FrameInv, TypeOK
<1>5. /\ Len(got'[b]) = Len(got[b]) + 1 /\ got'[b][Len(got[b]) + 1] = frame
      /\ \A k \in 1 .. Len(got[b]) : got'[b][k] = got[b][k]
      /\ Len(got[b]) \in Nat
  BY <1>1, <1>4
<1>6. \A c \in Client : \A k \in 1 .. Len(got'[c]) : got'[c][k] <= frame
  <2>1. \A c \in Client : \A k \in 1 .. Len(got[c]) : got[c][k] <= frame
    BY DEF FrameInv, RoundShape
  <2>. QED  BY <1>1, <1>4, <1>5, <2>1
<1>7. ASSUME NEW c \in whole, NEW s \in Slot, Holds(c, s)'
      PROVE  IF s < i' THEN SentLast(c)' ELSE SentBefore(c)'
  <2>1. Holds(c, s) /\ c \in Client
    BY <1>1, <1>7 DEF Holds, FrameInv, TypeOK
  <2>2. IF s < i THEN SentLast(c) ELSE SentBefore(c)
    BY <2>1 DEF FrameInv, RoundShape
  <2>3. c = b <=> s = i
    BY <1>1, <2>1, Reached
  <2>4. CASE c = b
    <3>1. SentBefore(b) /\ s < i'
      BY <1>1, <2>2, <2>3, <2>4 DEF Slot, FrameAssumption
    <3>2. \A k \in 1 .. Len(got[b]) : got[b][k] < frame /\ got[b][k] \in Nat
      BY <1>4, <3>1 DEF SentBefore
    <3>3. got'[b] # << >> /\ Len(got'[b]) = Len(got[b]) + 1
      BY <1>5
    <3>4. ASSUME NEW k \in 1 .. Len(got'[b]), got'[b][k] = frame
          PROVE  k = Len(got'[b])
      BY <1>1, <1>5, <3>2, <3>4
    <3>5. SentLast(b)'
      BY <1>1, <1>5, <3>3, <3>4 DEF SentLast
    <3>. QED  BY <2>4, <3>1, <3>5
  <2>5. CASE c # b
    <3>1. s < i' <=> s < i
      BY <1>1, <2>3, <2>5 DEF Slot, FrameAssumption
    <3>. QED  BY <1>1, <1>4, <2>1, <2>2, <2>5, <3>1 DEF SentLast, SentBefore
  <2>. QED  BY <2>4, <2>5
<1>8. RoundShape'
  BY <1>1, <1>6, <1>7 DEF FrameInv, TypeOK, RoundShape, Holds
<1>. QED  BY <1>2, <1>3, <1>8 DEF FrameInv

\* A failed call was not for a client that kept its slot.
LEMMA FrameSendFails ==
    ASSUME FrameAssumption, FrameInv, NEW n, SendFails(n)
    PROVE  FrameInv'
<1>1. /\ sender = "send" /\ sender' = "test" /\ i \in Slot /\ i' = i + 1
      /\ n \in Target /\ n \notin Connected
      /\ UNCHANGED <<clients, open, main, at, fd, frame, number, state, got, whole>>
  BY DEF SendFails, AfterError, FrameInv, TypeOK, table, mains, theirs, ghosts
<1>2. TypeOK'
  BY <1>1 DEF FrameInv, TypeOK, Slot, FrameAssumption
<1>3. TableShape' /\ NumberShape'
  BY <1>1 DEF FrameInv, TableShape, NumberShape, Connected
<1>4. ASSUME NEW c \in whole, NEW s \in Slot, Holds(c, s)'
      PROVE  IF s < i' THEN SentLast(c)' ELSE SentBefore(c)'
  <2>1. Holds(c, s)
    BY <1>1, <1>4 DEF Holds
  <2>2. s # i
    BY <1>1, <2>1, Reached
  <2>3. s < i' <=> s < i
    BY <1>1, <2>2 DEF Slot, FrameAssumption
  <2>. QED  BY <1>1, <2>1, <2>3 DEF FrameInv, RoundShape, SentLast, SentBefore
<1>5. RoundShape'
  BY <1>1, <1>4 DEF FrameInv, TypeOK, RoundShape, Holds
<1>. QED  BY <1>2, <1>3, <1>5 DEF FrameInv

LEMMA FrameSendPipe ==
    ASSUME FrameAssumption, FrameInv, NEW n, SendPipe(n)
    PROVE  FrameInv'
<1>1. /\ main # "dead" /\ main' = "dead" /\ sender' = "dead"
      /\ UNCHANGED <<clients, open, at, i, fd, frame, number, state, got, whole>>
  BY DEF SendPipe, Alive, table, theirs, ghosts
<1>2. TypeOK'
  BY <1>1 DEF FrameInv, TypeOK
<1>3. TableShape' /\ NumberShape'
  BY <1>1 DEF FrameInv, TableShape, NumberShape, Connected
<1>4. RoundShape'
  BY <1>1 DEF FrameInv, TypeOK, RoundShape, Holds, SentLast, SentBefore
<1>. QED  BY <1>2, <1>3, <1>4 DEF FrameInv

LEMMA FrameDestroy ==
    ASSUME FrameAssumption, FrameInv, Destroy
    PROVE  FrameInv'
<1>1. /\ sender = "test" /\ sender' = "sleep" /\ i' = 0 /\ fd' = 0 /\ whole' = {}
      /\ number \in Fd /\ open[number] = FrameFd
      /\ open' = [open EXCEPT ![number] = Nobody] /\ number' = 0
      /\ UNCHANGED <<clients, main, at, frame, state, got>>
  BY DEF Destroy, FrameInv, NumberShape, mains, theirs
<1>2. TypeOK'
  BY <1>1 DEF FrameInv, TypeOK, FrameAssumption
<1>3. Connected' = Connected /\ \A m \in Connected : open'[m] = open[m]
  BY <1>1 DEF FrameInv, TypeOK, Connected, FrameAssumption, Nobody, FrameFd
<1>4. TableShape'
  BY <1>1, <1>3 DEF FrameInv, TableShape
<1>5. NumberShape' /\ RoundShape'
  BY <1>1 DEF FrameInv, NumberShape, RoundShape
<1>. QED  BY <1>2, <1>4, <1>5 DEF FrameInv

LEMMA FrameNext ==
    ASSUME FrameAssumption, FrameInv, [Next]_vars
    PROVE  FrameInv'
<1>1. CASE UNCHANGED vars
  <2>1. UNCHANGED <<clients, open, main, at, sender, i, fd, frame, number, state,
                    got, whole>>
    BY <1>1 DEF vars, table, mains, senders, theirs, ghosts
  <2>2. TypeOK' /\ \A n \in Connected : state'[open[n]] \in {"in", "gone"}
    BY <2>1 DEF FrameInv, TypeOK, TableShape
  <2>. QED  BY <2>1, <2>2, FrameQuiet
<1>. QED
  BY <1>1, FrameMainMoves, FrameScan, FrameClear, FrameAccept, FrameTest,
     FrameDestroy, FrameSend, FrameSendFails, FrameSendPipe, FrameCreate, FrameClients, FrameRestart
  DEF Next, MainThread, Sender, Clients

LEMMA FrameAlways == ASSUME FrameAssumption PROVE Spec => []FrameInv
<1>1. Init => FrameInv
  BY FrameInit
<1>2. FrameInv /\ [Next]_vars => FrameInv'
  BY FrameNext
<1>. QED  BY <1>1, <1>2, PTL DEF Spec

\* However accept, close and the assignments fall between the steps of the
\* sender: but for the moment between a close and the assignment, every slot
\* holds an open connection of its own (mgframe_share.c:287-317).
THEOREM SlotsStayOpen == ASSUME FrameAssumption PROVE Spec => []SlotsOpen
<1>1. FrameInv => SlotsOpen
  BY DEF FrameInv, TableShape, SlotsOpen
<1>. QED  BY <1>1, FrameAlways, PTL

\* A client that stays in its slot is never sent the frame of a round twice,
\* though the sender may read its slot twice (mgframe_share.c:242-246).
THEOREM FramesSentOnce == ASSUME FrameAssumption PROVE Spec => []SentOnce
<1>1. ASSUME FrameInv, NEW c \in whole
      PROVE  Cardinality({k \in 1 .. Len(got[c]) : got[c][k] = frame}) <= 1
  <2> DEFINE K == {k \in 1 .. Len(got[c]) : got[c][k] = frame}
  <2>1. \A j, k \in K : j = k
    <3>1. c \in Client /\ (SentLast(c) \/ SentBefore(c))
      BY <1>1 DEF FrameInv, TypeOK, RoundShape
    <3>2. frame \in Nat /\ got[c] \in Seq(Nat)
      BY <1>1 DEF FrameInv, TypeOK
    <3>. QED  BY <3>1, <3>2 DEF SentLast, SentBefore
  <2>2. K = {} \/ \E k \in K : K = {k}
    BY <2>1
  <2>. HIDE DEF K
  <2>3. Cardinality(K) \in {0, 1}
    BY <2>2, FS_EmptySet, FS_Singleton
  <2>. QED  BY <2>3 DEF K
<1>2. FrameInv => SentOnce
  BY <1>1 DEF SentOnce
<1>. QED  BY <1>2, FrameAlways, PTL

\* A client that stays in its slot through a round gets the frame of the
\* round, whatever becomes of the other slots (mgframe_share.c:242-246).
THEOREM RoundsReachAll == ASSUME FrameAssumption PROVE Spec => []RoundReachesAll
<1>1. ASSUME FrameInv, i > MaxClient, NEW c \in whole
      PROVE  got[c] # << >> /\ got[c][Len(got[c])] = frame
  <2>1. PICK s \in Slot : Holds(c, s)
    BY <1>1 DEF FrameInv, RoundShape
  <2>2. s < i
    BY <1>1 DEF FrameInv, TypeOK, Slot, FrameAssumption
  <2>. QED  BY <1>1, <2>1, <2>2 DEF FrameInv, RoundShape, SentLast
<1>2. FrameInv => RoundReachesAll
  BY <1>1 DEF RoundReachesAll
<1>. QED  BY <1>2, FrameAlways, PTL


-------------------------------------------------------------------------------
(* The walk of select_run: lists that change while they are walked.           *)

Elems(s) == {s[k] : k \in 1 .. Len(s)}

Distinct(s) == \A j, k \in 1 .. Len(s) : s[j] = s[k] => j = k

\* x is behind d.
Later(s, d, x) == \E j, k \in 1 .. Len(s) : j < k /\ s[j] = d /\ s[k] = x

Pushes(s, r, t, S) ==
    /\ t \in Seq(S) /\ Distinct(t) /\ Elems(t) = Elems(s) \union {r}
    /\ \A d, x : d # r => (Later(t, d, x) <=> Later(s, d, x))

\* A new record goes to the front.
LEMMA Pushed ==
    ASSUME NEW S, NEW s \in Seq(S), Distinct(s), NEW r \in S, r \notin Elems(s)
    PROVE  Pushes(s, r, <<r>> \o s, S)
<1> DEFINE t == <<r>> \o s
<1>1. /\ t \in Seq(S) /\ Len(t) = Len(s) + 1 /\ Len(s) \in Nat
      /\ t[1] = r /\ \A k \in 1 .. Len(s) : t[k + 1] = s[k]
  OBVIOUS
<1>. HIDE DEF t
<1>2. \A k \in 1 .. Len(t) : k = 1 \/ (k - 1 \in 1 .. Len(s) /\ t[k] = s[k - 1])
  <2>1. ASSUME NEW k \in 1 .. Len(t), k # 1 PROVE k - 1 \in 1 .. Len(s) /\ (k - 1) + 1 = k
    BY <1>1, <2>1
  <2>. QED  BY <1>1, <2>1
<1>3. Elems(t) = Elems(s) \union {r}
  <2>1. \A k \in 1 .. Len(s) : k + 1 \in 1 .. Len(t)
    BY <1>1
  <2>2. 1 \in 1 .. Len(t)
    BY <1>1
  <2>3. ASSUME NEW x \in Elems(t) PROVE x \in Elems(s) \union {r}
    <3>1. PICK k \in 1 .. Len(t) : t[k] = x
      BY <2>3 DEF Elems
    <3>2. CASE k = 1
      BY <1>1, <3>1, <3>2
    <3>3. CASE k - 1 \in 1 .. Len(s) /\ t[k] = s[k - 1]
      BY <3>1, <3>3 DEF Elems
    <3>. QED  BY <1>2, <3>2, <3>3
  <2>4. ASSUME NEW x \in Elems(s) PROVE x \in Elems(t)
    <3>1. PICK k \in 1 .. Len(s) : s[k] = x
      BY <2>4 DEF Elems
    <3>2. k + 1 \in 1 .. Len(t) /\ t[k + 1] = x
      BY <1>1, <2>1, <3>1
    <3>. QED  BY <3>2 DEF Elems
  <2>5. r \in Elems(t)
    BY <1>1, <2>2 DEF Elems
  <2>. QED  BY <2>3, <2>4, <2>5
<1>4. Distinct(t)
  <2>. SUFFICES ASSUME NEW j \in 1 .. Len(t), NEW k \in 1 .. Len(t), t[j] = t[k] PROVE j = k
    BY DEF Distinct
  <2>1. CASE j = 1
    BY <1>1, <1>2, <2>1 DEF Elems
  <2>2. CASE k = 1
    BY <1>1, <1>2, <2>2 DEF Elems
  <2>3. CASE j # 1 /\ k # 1
    <3>1. j - 1 = k - 1
      BY <1>2, <2>3 DEF Distinct
    <3>. QED  BY <1>1, <3>1
  <2>. QED  BY <2>1, <2>2, <2>3
<1>5. ASSUME NEW d, NEW x, d # r PROVE Later(t, d, x) <=> Later(s, d, x)
  <2>1. ASSUME Later(s, d, x) PROVE Later(t, d, x)
    <3>1. PICK j \in 1 .. Len(s), k \in 1 .. Len(s) : j < k /\ s[j] = d /\ s[k] = x
      BY <2>1 DEF Later
    <3>2. j + 1 \in 1 .. Len(t) /\ k + 1 \in 1 .. Len(t) /\ j + 1 < k + 1
      BY <1>1, <3>1
    <3>. QED  BY <1>1, <3>1, <3>2 DEF Later
  <2>2. ASSUME Later(t, d, x) PROVE Later(s, d, x)
    <3>1. PICK j \in 1 .. Len(t), k \in 1 .. Len(t) : j < k /\ t[j] = d /\ t[k] = x
      BY <2>2 DEF Later
    <3>2. j # 1 /\ k # 1
      BY <1>1, <1>5, <3>1
    <3>3. j - 1 < k - 1
      BY <1>1, <3>1
    <3>. QED  BY <1>2, <3>1, <3>2, <3>3 DEF Later
  <2>. QED  BY <2>1, <2>2
<1>. QED  BY <1>1, <1>3, <1>4, <1>5 DEF Pushes, t

Takes(s, r, t, S) ==
    /\ t \in Seq(S) /\ Distinct(t) /\ Elems(t) = Elems(s) \ {r}
    /\ \A d, x : d # r => (Later(t, d, x) <=> Later(s, d, x) /\ x # r)

\* A record is taken out.
LEMMA TakenAt ==
    ASSUME NEW S, NEW s \in Seq(S), NEW p \in 1 .. Len(s)
    PROVE  /\ SL!RemoveAt(s, p) \in Seq(S) /\ Len(SL!RemoveAt(s, p)) = Len(s) - 1
           /\ \A k \in 1 .. Len(s) - 1 : SL!RemoveAt(s, p)[k] = IF k < p THEN s[k] ELSE s[k + 1]
<1> DEFINE u == SubSeq(s, 1, p - 1)
           v == SubSeq(s, p + 1, Len(s))
<1>1. Len(s) \in Nat /\ \A k \in 1 .. Len(s) : s[k] \in S
  OBVIOUS
<1>2. u \in Seq(S) /\ Len(u) = p - 1 /\ \A k \in 1 .. p - 1 : u[k] = s[k]
  <2>1. /\ 1 \in Int /\ p - 1 \in Int /\ Len(s) \in Int /\ p - 1 < Len(s)
        /\ \A k \in 1 .. p - 1 : s[k] \in S
    BY <1>1
  <2>. QED  BY <2>1, SubSeqProperties
<1>3. v \in Seq(S) /\ Len(v) = Len(s) - p /\ \A k \in 1 .. Len(s) - p : v[k] = s[k + p]
  <2>1. /\ p + 1 \in Int /\ Len(s) \in Int /\ p <= Len(s)
        /\ \A k \in p + 1 .. Len(s) : s[k] \in S
    BY <1>1
  <2>2. \A k \in 1 .. Len(s) - p : (p + 1) + k - 1 = k + p
    BY <2>1
  <2>. QED  BY <2>1, <2>2, SubSeqProperties
<1>4. SL!RemoveAt(s, p) = u \o v
  BY DEF SL!RemoveAt
<1>. HIDE DEF u, v
<1>5. /\ u \o v \in Seq(S) /\ Len(u \o v) = (p - 1) + (Len(s) - p)
      /\ \A k \in 1 .. (p - 1) + (Len(s) - p) :
            (u \o v)[k] = IF k <= p - 1 THEN u[k] ELSE v[k - (p - 1)]
  <2>1. /\ u \o v \in Seq(S) /\ Len(u \o v) = Len(u) + Len(v)
        /\ \A k \in 1 .. Len(u) + Len(v) :
              (u \o v)[k] = IF k <= Len(u) THEN u[k] ELSE v[k - Len(u)]
    BY <1>2, <1>3, ConcatProperties
  <2>. QED  BY <1>2, <1>3, <2>1
<1>6. ASSUME NEW k \in 1 .. Len(s) - 1
      PROVE  (u \o v)[k] = IF k < p THEN s[k] ELSE s[k + 1]
  <2>1. k \in 1 .. (p - 1) + (Len(s) - p)
    BY <1>1
  <2>2. CASE k < p
    <3>1. k \in 1 .. p - 1 /\ k <= p - 1
      BY <2>2
    <3>. QED  BY <1>2, <1>5, <2>1, <2>2, <3>1
  <2>3. CASE ~(k < p)
    <3>1. ~(k <= p - 1) /\ k - (p - 1) \in 1 .. Len(s) - p /\ (k - (p - 1)) + p = k + 1
      BY <1>1, <2>3
    <3>2. (u \o v)[k] = v[k - (p - 1)]
      BY <1>5, <2>1, <3>1
    <3>. QED  BY <1>3, <2>3, <3>1, <3>2
  <2>. QED  BY <2>2, <2>3
<1>. QED  BY <1>1, <1>4, <1>5, <1>6

LEMMA Taken ==
    ASSUME NEW S, NEW s \in Seq(S), Distinct(s), NEW p \in 1 .. Len(s)
    PROVE  Takes(s, s[p], SL!RemoveAt(s, p), S)
<1> DEFINE t == SL!RemoveAt(s, p)
           Old(k) == IF k < p THEN k ELSE k + 1
<1>1. Len(s) \in Nat
  OBVIOUS
<1>2. t \in Seq(S) /\ Len(t) = Len(s) - 1
      /\ \A k \in 1 .. Len(s) - 1 : t[k] = IF k < p THEN s[k] ELSE s[k + 1]
  BY TakenAt
<1>. HIDE DEF t
<1>3. \A k \in 1 .. Len(t) : Old(k) \in 1 .. Len(s) /\ Old(k) # p /\ t[k] = s[Old(k)]
  BY <1>1, <1>2
<1>4. \A j, k \in 1 .. Len(t) : j < k <=> Old(j) < Old(k)
  BY <1>1, <1>2
<1>5. \A m \in 1 .. Len(s) : m # p => \E k \in 1 .. Len(t) : Old(k) = m
  <2>. SUFFICES ASSUME NEW m \in 1 .. Len(s), m # p PROVE \E k \in 1 .. Len(t) : Old(k) = m
    OBVIOUS
  <2>1. CASE m < p
    <3>1. m \in 1 .. Len(t) /\ Old(m) = m
      BY <1>1, <1>2, <2>1
    <3>. QED  BY <3>1
  <2>2. CASE m > p
    <3>1. m - 1 \in 1 .. Len(t) /\ Old(m - 1) = m
      BY <1>1, <1>2, <2>2
    <3>. QED  BY <3>1
  <2>. QED  BY <2>1, <2>2
<1>. HIDE DEF Old
<1>6. Distinct(t)
  <2>. SUFFICES ASSUME NEW j \in 1 .. Len(t), NEW k \in 1 .. Len(t), t[j] = t[k] PROVE j = k
    BY DEF Distinct
  <2>1. Old(j) = Old(k) /\ Old(j) \in Int
    BY <1>3 DEF Distinct
  <2>2. ~(Old(j) < Old(k)) /\ ~(Old(k) < Old(j))
    BY <2>1
  <2>3. ~(j < k) /\ ~(k < j)
    BY <1>4, <2>2
  <2>. QED  BY <2>3
<1>7. Elems(t) = Elems(s) \ {s[p]}
  <2>1. ASSUME NEW x \in Elems(t) PROVE x \in Elems(s) /\ x # s[p]
    BY <1>3, <2>1 DEF Elems, Distinct
  <2>2. ASSUME NEW x \in Elems(s), x # s[p] PROVE x \in Elems(t)
    <3>1. PICK m \in 1 .. Len(s) : s[m] = x
      BY DEF Elems
    <3>2. PICK k \in 1 .. Len(t) : Old(k) = m
      BY <1>5, <2>2, <3>1
    <3>. QED  BY <1>3, <3>1, <3>2 DEF Elems
  <2>. QED  BY <2>1, <2>2
<1>8. ASSUME NEW d, NEW x, d # s[p] PROVE Later(t, d, x) <=> Later(s, d, x) /\ x # s[p]
  <2>1. ASSUME Later(t, d, x) PROVE Later(s, d, x) /\ x # s[p]
    <3>1. PICK j \in 1 .. Len(t), k \in 1 .. Len(t) : j < k /\ t[j] = d /\ t[k] = x
      BY <2>1 DEF Later
    <3>2. Old(j) < Old(k)
      BY <1>4, <3>1
    <3>. QED  BY <1>3, <3>1, <3>2 DEF Later, Distinct
  <2>2. ASSUME Later(s, d, x), x # s[p] PROVE Later(t, d, x)
    <3>1. PICK j \in 1 .. Len(s), k \in 1 .. Len(s) : j < k /\ s[j] = d /\ s[k] = x
      BY <2>2 DEF Later
    <3>2. PICK m \in 1 .. Len(t) : Old(m) = j
      BY <1>5, <1>8, <3>1
    <3>3. PICK n \in 1 .. Len(t) : Old(n) = k
      BY <1>5, <2>2, <3>1
    <3>4. m < n
      BY <1>4, <3>1, <3>2, <3>3
    <3>. QED  BY <1>3, <3>1, <3>2, <3>3, <3>4 DEF Later
  <2>. QED  BY <2>1, <2>2
<1>. QED  BY <1>2, <1>6, <1>7, <1>8 DEF Takes, t

Advances(s, d, n) ==
    /\ n = 0 => \A x : ~Later(s, d, x)
    /\ n # 0 => n \in Elems(s) /\ \A x : Later(s, d, x) <=> x = n \/ Later(s, n, x)

\* data->next.
LEMMA Advanced ==
    ASSUME NEW s \in Seq(Nat \ {0}), Distinct(s), NEW d \in Elems(s)
    PROVE  Advances(s, d, SL!After(s, d)) /\ ~Later(s, d, d)
<1>1. Len(s) \in Nat
  OBVIOUS
<1>2. PICK m \in 1 .. Len(s) : s[m] = d
  BY DEF Elems
<1>3. \A k \in 1 .. Len(s) : s[k] = d => k = m
  BY <1>2 DEF Distinct
<1> DEFINE c == CHOOSE k \in 1 .. Len(s) : s[k] = d
<1>4. SL!After(s, d) = IF c = Len(s) THEN 0 ELSE s[c + 1]
  BY DEF SL!After, SL!NULL
<1>5. c = m
  <2>1. c \in 1 .. Len(s) /\ s[c] = d
    BY <1>2
  <2>. QED  BY <1>3, <2>1
<1>. HIDE DEF c
<1>6. SL!After(s, d) = IF m = Len(s) THEN 0 ELSE s[m + 1]
  BY <1>4, <1>5
<1>7. \A x : Later(s, d, x) <=> \E k \in m + 1 .. Len(s) : s[k] = x
  <2>1. ASSUME NEW x, Later(s, d, x) PROVE \E k \in m + 1 .. Len(s) : s[k] = x
    <3>1. PICK j \in 1 .. Len(s), k \in 1 .. Len(s) : j < k /\ s[j] = d /\ s[k] = x
      BY <2>1 DEF Later
    <3>2. k \in m + 1 .. Len(s)
      BY <1>1, <1>3, <3>1
    <3>. QED  BY <3>1, <3>2
  <2>2. ASSUME NEW x, NEW k \in m + 1 .. Len(s), s[k] = x PROVE Later(s, d, x)
    <3>1. k \in 1 .. Len(s) /\ m < k
      BY <1>1
    <3>. QED  BY <1>2, <2>2, <3>1 DEF Later
  <2>. QED  BY <2>1, <2>2
<1>8. ~Later(s, d, d)
  <2>1. \A k \in m + 1 .. Len(s) : k \in 1 .. Len(s) /\ k # m
    BY <1>1
  <2>. QED  BY <1>3, <1>7, <2>1
<1>9. CASE m = Len(s)
  <2>1. \A k \in m + 1 .. Len(s) : FALSE
    BY <1>1, <1>9
  <2>. QED  BY <1>6, <1>7, <1>8, <1>9, <2>1 DEF Advances
<1>10. CASE m # Len(s)
  <2> DEFINE n == s[m + 1]
  <2>1. m + 1 \in 1 .. Len(s) /\ n \in Nat \ {0}
    BY <1>1, <1>10
  <2>2. \A k \in 1 .. Len(s) : s[k] = n => k = m + 1
    BY <2>1 DEF Distinct
  <2>3. ASSUME NEW x PROVE Later(s, d, x) <=> x = n \/ Later(s, n, x)
    <3>1. ASSUME Later(s, d, x), x # n PROVE Later(s, n, x)
      <4>1. PICK k \in m + 1 .. Len(s) : s[k] = x
        BY <1>7, <3>1
      <4>2. k \in 1 .. Len(s) /\ m + 1 < k
        BY <1>1, <3>1, <4>1
      <4>. QED  BY <2>1, <4>1, <4>2 DEF Later
    <3>2. ASSUME x = n PROVE Later(s, d, x)
      <4>1. m + 1 \in m + 1 .. Len(s)
        BY <1>1, <2>1
      <4>. QED  BY <1>7, <3>2, <4>1
    <3>3. ASSUME Later(s, n, x) PROVE Later(s, d, x)
      <4>1. PICK j \in 1 .. Len(s), k \in 1 .. Len(s) : j < k /\ s[j] = n /\ s[k] = x
        BY <3>3 DEF Later
      <4>2. k \in m + 1 .. Len(s)
        BY <1>1, <2>2, <4>1
      <4>. QED  BY <1>7, <4>1, <4>2
    <3>. QED  BY <3>1, <3>2, <3>3
  <2>4. n # 0 /\ n \in Elems(s)
    BY <2>1 DEF Elems
  <2>. QED  BY <1>6, <1>8, <1>10, <2>3, <2>4 DEF Advances
<1>. QED  BY <1>9, <1>10

\* The head of the list has everything behind it.
LEMMA HeadFirst ==
    ASSUME NEW s \in Seq(Nat \ {0}), s # << >>
    PROVE  s[1] \in Elems(s) /\ \A x \in Elems(s) : x = s[1] \/ Later(s, s[1], x)
<1>1. Len(s) \in Nat /\ 1 \in 1 .. Len(s)
  OBVIOUS
<1>2. \A k \in 1 .. Len(s) : k = 1 \/ 1 < k
  BY <1>1
<1>. QED  BY <1>1, <1>2 DEF Elems, Later

-------------------------------------------------------------------------------

SelectTypes ==
    /\ list \in Seq(Record) /\ free \in Seq(Record) /\ Record \subseteq Nat \ {0}
    /\ fdOf \in [Record -> Int] /\ asked \in [Descriptor -> SUBSET SL!Events]
    /\ maxfd \in Int
    /\ where \in {"setup", "wait", "walk", "callback", "returns"}

\* A record is once on one of the two lists, no descriptor is registered twice,
\* and a new record is one that malloc has not returned yet.
RecordShape ==
    /\ Distinct(list) /\ Distinct(free) /\ Elems(list) \intersect Elems(free) = {}
    /\ \E n \in Nat : Elems(list) \union Elems(free) = 1 .. n
    /\ \A r \in Elems(list) : fdOf[r] \in Descriptor
    /\ \A q, r \in Elems(list) : fdOf[q] = fdOf[r] => q = r

SelectInv == SelectTypes /\ RecordShape /\ SL!SetsFollowList

LEMMA LiveIs == ASSUME NEW s \in Seq(Record) PROVE SL!ToSet(s) = Elems(s)
  BY DEF SL!ToSet, Elems

LEMMA AddKeeps ==
    ASSUME SL!SelectAssumption, SelectInv, NEW f \in Descriptor,
           NEW es \in SUBSET SL!Events, SL!AddFd(f, es)
    PROVE  SelectInv' /\ \E r \in Record : /\ r \notin Elems(list)
                                           /\ Pushes(list, r, list', Record)
                                           /\ fdOf' = [fdOf EXCEPT ![r] = f]
<1>1. SelectTypes /\ RecordShape /\ SL!SetsFollowList /\ Descriptor \subseteq Nat
  BY DEF SelectInv, SL!SelectAssumption
<1>2. SL!Live = Elems(list) /\ SL!LiveFds = {fdOf[r] : r \in Elems(list)}
  BY <1>1, LiveIs DEF SL!Live, SL!LiveFds, SelectTypes
<1>3. PICK r \in Record :
        /\ IF free = << >> THEN r = SL!Cardinality(SL!Live) + 1 /\ free' = free
           ELSE r = free[1] /\ free' = Tail(free)
        /\ list' = <<r>> \o list /\ fdOf' = [fdOf EXCEPT ![r] = f]
  BY DEF SL!AddFd
<1>4. /\ f \notin SL!LiveFds
      /\ rfds' = SL!Set(rfds, f, "in", es) /\ wfds' = SL!Set(wfds, f, "out", es)
      /\ maxfd' = (IF maxfd <= f THEN f + 1 ELSE maxfd)
      /\ asked' = [asked EXCEPT ![f] = es] /\ where' \in {"setup", "returns"}
  BY DEF SL!AddFd, SL!Called
<1>5. /\ r \notin Elems(list) /\ free' \in Seq(Record) /\ Distinct(free')
      /\ r \notin Elems(free') /\ Elems(free') \subseteq Elems(free)
      /\ \E n \in Nat : (Elems(list) \union {r}) \union Elems(free') = 1 .. n
  <2>1. CASE free = << >>
    <3>1. Elems(free) = {} /\ free' = free
      BY <1>3, <2>1 DEF Elems
    <3>2. PICK n \in Nat : Elems(list) = 1 .. n
      BY <1>1, <3>1 DEF RecordShape
    <3>3. r = n + 1
      <4>1. Cardinality(1 .. n) = n
        BY FS_Interval
      <4>2. SL!Cardinality(SL!Live) = Cardinality(1 .. n)
        BY <1>2, <3>2 DEF SL!Cardinality, Cardinality
      <4>. QED  BY <1>3, <2>1, <4>1, <4>2
    <3>4. (1 .. n) \union {r} = 1 .. n + 1 /\ n + 1 \in Nat /\ r \notin 1 .. n
      BY <3>3
    <3>. QED  BY <1>1, <3>1, <3>2, <3>4 DEF SelectTypes, RecordShape
  <2>2. CASE free # << >>
    <3>1. /\ r = free[1] /\ free' = Tail(free) /\ free \in Seq(Record) /\ Distinct(free)
      BY <1>1, <1>3, <2>2 DEF SelectTypes, RecordShape
    <3>2. /\ Len(free) \in Nat /\ 1 \in 1 .. Len(free) /\ free' \in Seq(Record)
          /\ Len(free') = Len(free) - 1
          /\ \A k \in 1 .. Len(free) - 1 : free'[k] = free[k + 1]
      BY <2>2, <3>1
    <3>3. \A k \in 1 .. Len(free') : k + 1 \in 1 .. Len(free) /\ free'[k] = free[k + 1]
      BY <3>2
    <3>4. \A k \in 1 .. Len(free) : k # 1 => k - 1 \in 1 .. Len(free') /\ free'[k - 1] = free[k]
      <4>1. \A k \in 1 .. Len(free) : k # 1 => k - 1 \in 1 .. Len(free) - 1 /\ (k - 1) + 1 = k
        BY <3>2
      <4>. QED  BY <3>2, <4>1
    <3>5. Elems(free) = Elems(free') \union {r}
      BY <3>1, <3>2, <3>3, <3>4 DEF Elems
    <3>6. Distinct(free')
      <4>1. \A j, k \in 1 .. Len(free') : free'[j] = free'[k] => j + 1 = k + 1
        BY <3>1, <3>3 DEF Distinct
      <4>. QED  BY <3>2, <4>1 DEF Distinct
    <3>7. r \notin Elems(free')
      <4>1. \A k \in 1 .. Len(free') : k + 1 # 1
        BY <3>2
      <4>. QED  BY <3>1, <3>2, <3>3, <4>1 DEF Elems, Distinct
    <3>8. r \in Elems(free)
      BY <3>5
    <3>9. (Elems(list) \union {r}) \union Elems(free') = Elems(list) \union Elems(free)
      BY <3>5
    <3>. QED  BY <1>1, <3>2, <3>5, <3>6, <3>7, <3>8, <3>9 DEF RecordShape
  <2>. QED  BY <2>1, <2>2
<1>6. Pushes(list, r, list', Record)
  BY <1>1, <1>3, <1>5, Pushed DEF SelectTypes, RecordShape
<1>7. /\ fdOf' \in [Record -> Int] /\ fdOf'[r] = f
      /\ \A q \in Elems(list) : q # r /\ fdOf'[q] = fdOf[q]
  <2>1. Elems(list) \subseteq Record
    BY <1>1 DEF SelectTypes, Elems
  <2>. QED  BY <1>1, <1>3, <1>5, <2>1 DEF SelectTypes
<1>8. SelectTypes'
  BY <1>1, <1>4, <1>5, <1>6, <1>7 DEF SelectTypes, Pushes
<1>9. RecordShape'
  <2>1. Elems(list') = Elems(list) \union {r} /\ Distinct(list')
    BY <1>6 DEF Pushes
  <2>2. \A q \in Elems(list) : fdOf[q] # f /\ fdOf[q] \in Descriptor
    BY <1>1, <1>2, <1>4 DEF RecordShape
  <2>3. \A p, q \in Elems(list') : fdOf'[p] = fdOf'[q] => p = q
    BY <1>1, <1>7, <2>1, <2>2 DEF RecordShape
  <2>4. \A q \in Elems(list') : fdOf'[q] \in Descriptor
    BY <1>7, <2>1, <2>2
  <2>5. Elems(list') \intersect Elems(free') = {}
    BY <1>1, <1>5, <2>1 DEF RecordShape
  <2>. QED  BY <1>5, <2>1, <2>3, <2>4, <2>5 DEF RecordShape
<1>10. SL!SetsFollowList'
  <2>1. SL!LiveFds' = SL!LiveFds \union {f}
    <3>1. SL!LiveFds' = {fdOf'[q] : q \in Elems(list')}
      BY <1>8, LiveIs DEF SL!Live, SL!LiveFds, SelectTypes
    <3>2. Elems(list') = Elems(list) \union {r}
      BY <1>6 DEF Pushes
    <3>. QED  BY <1>2, <1>7, <3>1, <3>2
  <2>2. /\ asked'[f] = es /\ \A g \in SL!LiveFds : g # f /\ asked'[g] = asked[g]
    <3>1. SL!LiveFds \subseteq Descriptor
      BY <1>1, <1>2 DEF RecordShape
    <3>. QED  BY <1>1, <1>4, <3>1 DEF SelectTypes
  <2>3. /\ rfds = {g \in SL!LiveFds : "in" \in asked[g]}
        /\ wfds = {g \in SL!LiveFds : "out" \in asked[g]}
        /\ \A g \in SL!LiveFds : g < maxfd
    BY <1>1 DEF SL!SetsFollowList
  <2>4. \A g \in SL!LiveFds' : g < maxfd'
    <3>1. SL!LiveFds \subseteq Int /\ f \in Int /\ maxfd \in Int
      <4>1. SL!LiveFds \subseteq Descriptor
        BY <1>1, <1>2 DEF RecordShape
      <4>. QED  BY <1>1, <4>1 DEF SelectTypes
    <3>. QED  BY <1>4, <2>1, <2>3, <3>1
  <2>5. rfds' = {g \in SL!LiveFds' : "in" \in asked'[g]}
    BY <1>4, <2>1, <2>2, <2>3 DEF SL!Set
  <2>6. wfds' = {g \in SL!LiveFds' : "out" \in asked'[g]}
    BY <1>4, <2>1, <2>2, <2>3 DEF SL!Set
  <2>. QED  BY <2>4, <2>5, <2>6 DEF SL!SetsFollowList
<1>. QED  BY <1>3, <1>5, <1>6, <1>8, <1>9, <1>10 DEF SelectInv

LEMMA ModifyKeeps ==
    ASSUME SL!SelectAssumption, SelectInv, NEW f \in Descriptor,
           NEW es \in SUBSET SL!Events, SL!ModifyFd(f, es)
    PROVE  SelectInv'
<1>1. SelectTypes /\ RecordShape /\ SL!SetsFollowList
  BY DEF SelectInv
<1>2. /\ UNCHANGED <<list, free, fdOf, maxfd>>
      /\ rfds' = SL!Set(rfds \ {f}, f, "in", es) /\ wfds' = SL!Set(wfds \ {f}, f, "out", es)
      /\ asked' = [asked EXCEPT ![f] = es] /\ where' \in {"setup", "returns"}
      /\ f \in SL!LiveFds
  BY DEF SL!ModifyFd, SL!Called, SL!lists
<1>3. SelectTypes' /\ RecordShape'
  BY <1>1, <1>2 DEF SelectTypes, RecordShape
<1>4. SL!LiveFds' = SL!LiveFds
  BY <1>2 DEF SL!LiveFds, SL!Live
<1>5. asked'[f] = es /\ \A g \in SL!LiveFds : g # f => asked'[g] = asked[g]
  <2>1. SL!LiveFds \subseteq Descriptor
    BY <1>1, LiveIs DEF SL!LiveFds, SL!Live, RecordShape, SelectTypes
  <2>. QED  BY <1>1, <1>2, <2>1 DEF SelectTypes
<1>6. SL!SetsFollowList'
  BY <1>1, <1>2, <1>4, <1>5 DEF SL!SetsFollowList, SL!Set
<1>. QED  BY <1>3, <1>6 DEF SelectInv

LEMMA RemoveKeeps ==
    ASSUME SL!SelectAssumption, SelectInv, NEW f \in Descriptor, SL!RemoveFd(f)
    PROVE  SelectInv' /\ \E r \in Elems(list) :
                            /\ Takes(list, r, list', Record) /\ due' = due \ {r}
                            /\ fdOf[r] = f /\ \A q \in Record \ {r} : fdOf'[q] = fdOf[q]
                            /\ where = "callback" /\ ~OwnToo => r # data
<1>1. SelectTypes /\ RecordShape /\ SL!SetsFollowList
  BY DEF SelectInv
<1>2. PICK k \in 1 .. Len(list) :
        /\ fdOf[list[k]] = f
        /\ where = "callback" /\ ~OwnToo => list[k] # data
        /\ list' = SL!RemoveAt(list, k) /\ free' = <<list[k]>> \o free
        /\ fdOf' = (IF f \in Timers THEN [fdOf EXCEPT ![list[k]] = -1] ELSE fdOf)
        /\ due' = due \ {list[k]}
  BY DEF SL!RemoveFd
<1>3. /\ maxfd' = maxfd /\ rfds' = rfds \ {f} /\ wfds' = wfds \ {f}
      /\ asked' = [asked EXCEPT ![f] = {}] /\ where' \in {"setup", "returns"}
  BY DEF SL!RemoveFd, SL!Called, SL!Unset
<1> DEFINE r == list[k]
<1>4. r \in Elems(list) /\ r \in Record /\ fdOf[r] = f
  BY <1>1, <1>2 DEF SelectTypes, Elems
<1>5. Takes(list, r, list', Record)
  BY <1>1, <1>2, Taken DEF SelectTypes, RecordShape
<1>6. Pushes(free, r, free', Record)
  BY <1>1, <1>2, <1>4, Pushed DEF SelectTypes, RecordShape
<1>0. fdOf' \in [Record -> Int] /\ \A q \in Record \ {r} : fdOf'[q] = fdOf[q]
  BY <1>1, <1>2, <1>4 DEF SelectTypes
<1>. HIDE DEF r
<1>7. SelectTypes'
  BY <1>0, <1>1, <1>3, <1>5, <1>6 DEF SelectTypes, Takes, Pushes
<1>8. /\ Elems(list') = Elems(list) \ {r} /\ Elems(free') = Elems(free) \union {r}
      /\ Distinct(list') /\ Distinct(free')
  BY <1>5, <1>6 DEF Takes, Pushes
<1>11. Elems(list') \subseteq Record \ {r} /\ \A q \in Elems(list') : fdOf'[q] = fdOf[q]
  <2>1. Elems(list) \subseteq Record
    BY <1>1 DEF SelectTypes, Elems
  <2>. QED  BY <1>0, <1>8, <2>1
<1>9. RecordShape'
  <2>1. Elems(list') \union Elems(free') = Elems(list) \union Elems(free)
    BY <1>4, <1>8
  <2>2. Elems(list') \intersect Elems(free') = {}
    BY <1>1, <1>8 DEF RecordShape
  <2>. QED  BY <1>1, <1>8, <1>11, <2>1, <2>2 DEF RecordShape
<1>10. SL!SetsFollowList'
  <2>1. SL!LiveFds = {fdOf[q] : q \in Elems(list)} /\ SL!LiveFds' = {fdOf[q] : q \in Elems(list')}
    <3>1. SL!LiveFds' = {fdOf'[q] : q \in Elems(list')}
      BY <1>7, LiveIs DEF SL!Live, SL!LiveFds, SelectTypes
    <3>. QED  BY <1>1, <1>11, <3>1, LiveIs DEF SL!Live, SL!LiveFds, SelectTypes
  <2>2. SL!LiveFds' = SL!LiveFds \ {f}
    BY <1>1, <1>4, <1>8, <2>1 DEF RecordShape
  <2>3. \A g \in SL!LiveFds : g # f => asked'[g] = asked[g]
    <3>1. SL!LiveFds \subseteq Descriptor
      BY <1>1, <2>1 DEF RecordShape
    <3>. QED  BY <1>1, <1>3, <3>1 DEF SelectTypes
  <2>. QED  BY <1>1, <1>3, <2>2, <2>3 DEF SL!SetsFollowList
<1>. QED  BY <1>0, <1>2, <1>4, <1>5, <1>7, <1>9, <1>10 DEF SelectInv, r

LEMMA RunKeeps ==
    ASSUME SelectInv,
           \/ \E rs \in SUBSET Descriptor, ws \in {{}, Descriptor} : SL!Run(rs, ws)
           \/ SL!Quit \/ SL!NoCall \/ SL!Visit \/ SL!CallbackReturns \/ SL!Walked
           \/ UNCHANGED SL!vars
    PROVE  SelectInv'
<1>1. UNCHANGED <<list, free, fdOf, rfds, wfds, maxfd, asked>>
  BY DEF SL!Run, SL!Quit, SL!NoCall, SL!Visit, SL!CallbackReturns, SL!Walked,
     SL!lists, SL!sets, SL!vars
<1>2. where' \in {"setup", "wait", "walk", "callback", "returns"}
  BY DEF SL!Run, SL!Quit, SL!NoCall, SL!Visit, SL!CallbackReturns, SL!Walked,
     SL!Called, SL!vars, SelectInv, SelectTypes
<1>. QED
  BY <1>1, <1>2
  DEF SelectInv, SelectTypes, RecordShape, SL!SetsFollowList, SL!LiveFds, SL!Live

LEMMA SelectStep ==
    ASSUME SL!SelectAssumption, SelectInv, [SL!Next]_(SL!vars) PROVE SelectInv'
<1>1. ASSUME NEW f \in Descriptor, NEW es \in SUBSET SL!Events \ {{}},
             SL!AddFd(f, es) \/ SL!ModifyFd(f, es)
      PROVE  SelectInv'
  BY <1>1, AddKeeps, ModifyKeeps
<1>2. ASSUME NEW f \in Descriptor, SL!RemoveFd(f) PROVE SelectInv'
  BY <1>2, RemoveKeeps
<1>. QED  BY <1>1, <1>2, RunKeeps DEF SL!Next

LEMMA SelectStarts == ASSUME SL!SelectAssumption, SL!Init PROVE SelectInv
<1>1. Record \subseteq Nat \ {0}
  BY DEF SL!SelectAssumption
<1>2. Elems(<< >>) = {} /\ Distinct(<< >>)
  BY DEF Elems, Distinct
<1>3. Elems(list) \union Elems(free) = 1 .. 0
  BY <1>2 DEF SL!Init
<1>4. SelectTypes
  BY <1>1 DEF SL!Init, SelectTypes, SL!Events
<1>5. RecordShape
  BY <1>2, <1>3 DEF SL!Init, RecordShape
<1>6. SL!SetsFollowList
  <2>1. SL!LiveFds = {}
    <3>1. SL!ToSet(list) = Elems(list) /\ list = << >>
      BY <1>4, LiveIs DEF SL!Init, SelectTypes
    <3>. QED  BY <1>2, <3>1 DEF SL!LiveFds, SL!Live
  <2>. QED  BY <2>1 DEF SL!Init, SL!SetsFollowList
<1>. QED  BY <1>4, <1>5, <1>6 DEF SelectInv

\* Whatever is registered, changed and removed, before the loop and from
\* callbacks, select watches what the live registrations ask for
\* (mainloop.c:163-197).
THEOREM SelectWatches ==
    ASSUME SL!SelectAssumption PROVE SL!Spec => []SL!SetsFollowList
<1>1. SelectInv => SL!SetsFollowList
  BY DEF SelectInv
<1>. QED  BY <1>1, SelectStarts, SelectStep, PTL DEF SL!Spec

Calls(r) == {k \in 1 .. Len(called) : called[k].record = r}

Entry == [record : Record, events : SUBSET SL!Events, live : BOOLEAN, next : Record \union {0}]

\* The record is still to be looked at in this round.
ToCome(r) == Later(list, data, r) \/ (where = "walk" /\ r = data)

\* The walk is at a live record.  Of those that are to be called, the ones
\* behind it have not been and their timers have something to read, the others
\* have been once.
WalkShape ==
    /\ data # 0 => data \in Elems(list)
    /\ where # "walk" => data # 0
    /\ \A r \in due : /\ fdOf[r] \in orfds
                      /\ ToCome(r) /\ fdOf[r] \in Timers => fdOf[r] \in expired
                      /\ IF ToCome(r) THEN Calls(r) = {} ELSE \E k : Calls(r) = {k}

WalkInv ==
    /\ due \subseteq Elems(list)
    /\ called \in Seq(Entry) /\ SL!CalledIsLive
    /\ where \in {"walk", "callback", "returns"} => WalkShape

LEMMA RemovalOrder ==
    ASSUME NEW s, NEW t, NEW r, NEW d, NEW S, Takes(s, r, t, S), r # d
    PROVE  \A x : x # r => (Later(t, d, x) <=> Later(s, d, x))
  BY DEF Takes

LEMMA AddWalks ==
    ASSUME SL!SelectAssumption, SelectInv, WalkInv, NEW f \in Descriptor,
           NEW es \in SUBSET SL!Events, SL!AddFd(f, es)
    PROVE  WalkInv'
<1>1. PICK r \in Record : /\ r \notin Elems(list) /\ Pushes(list, r, list', Record)
                          /\ fdOf' = [fdOf EXCEPT ![r] = f]
  BY AddKeeps
<1>2. /\ UNCHANGED <<due, data, orfds, expired, called>>
      /\ \/ where = "setup" /\ where' = "setup"
         \/ where = "callback" /\ where' = "returns"
  BY DEF SL!AddFd, SL!Called, SL!MayAsk, SL!MayCall, SL!round
<1>3. Elems(list') = Elems(list) \union {r} /\ fdOf \in [Record -> Int]
      /\ Elems(list) \subseteq Record
  <2>1. list \in Seq(Record) /\ fdOf \in [Record -> Int]
    BY DEF SelectInv, SelectTypes
  <2>2. Elems(list) \subseteq Record
    BY <2>1 DEF Elems
  <2>. QED  BY <1>1, <2>1, <2>2 DEF Pushes
<1>4. /\ due' \subseteq Elems(list') /\ called' \in Seq(Entry) /\ SL!CalledIsLive'
  BY <1>2, <1>3 DEF WalkInv, SL!CalledIsLive
<1>5. ASSUME where = "callback", where' = "returns" PROVE WalkShape'
  <2>1. WalkShape
    BY <1>5 DEF WalkInv
  <2>2. data \in Elems(list) /\ data # r /\ data # 0
    BY <1>1, <1>5, <2>1 DEF WalkShape
  <2>3. \A x : Later(list', data, x) <=> Later(list, data, x)
    BY <1>1, <2>2 DEF Pushes
  <2>4. \A x : Calls(x)' = Calls(x) /\ (ToCome(x)' <=> ToCome(x))
    BY <1>2, <1>5, <2>3 DEF Calls, ToCome
  <2>5. \A x \in due : fdOf'[x] = fdOf[x]
    BY <1>1, <1>3 DEF WalkInv
  <2>. QED  BY <1>2, <1>3, <2>1, <2>2, <2>4, <2>5 DEF WalkShape
<1>. QED  BY <1>2, <1>4, <1>5 DEF WalkInv

LEMMA RemoveWalks ==
    ASSUME SL!SelectAssumption, ~OwnToo, SelectInv, WalkInv, NEW f \in Descriptor,
           SL!RemoveFd(f)
    PROVE  WalkInv'
<1>1. PICK r \in Elems(list) : /\ Takes(list, r, list', Record) /\ due' = due \ {r}
                               /\ fdOf[r] = f /\ \A q \in Record \ {r} : fdOf'[q] = fdOf[q]
                               /\ where = "callback" => r # data
  BY RemoveKeeps
<1>2. /\ UNCHANGED <<data, orfds, called>> /\ expired' = expired \ {f}
      /\ \/ where = "setup" /\ where' = "setup"
         \/ where = "callback" /\ where' = "returns"
  BY DEF SL!RemoveFd, SL!Called, SL!MayCall, SL!round
<1>3. Elems(list') = Elems(list) \ {r}
  BY <1>1 DEF Takes
<1>4. /\ due' \subseteq Elems(list') /\ called' \in Seq(Entry) /\ SL!CalledIsLive'
  BY <1>1, <1>2, <1>3 DEF WalkInv, SL!CalledIsLive
<1>5. ASSUME where = "callback", where' = "returns" PROVE WalkShape'
  <2>1. WalkShape
    BY <1>5 DEF WalkInv
  <2>2. data \in Elems(list') /\ data # r /\ data # 0
    BY <1>1, <1>3, <1>5, <2>1 DEF WalkShape
  <2>3. \A x : x # r => (Later(list', data, x) <=> Later(list, data, x))
    BY <1>1, <2>2, RemovalOrder
  <2>4. \A x : Calls(x)' = Calls(x) /\ (x # r => (ToCome(x)' <=> ToCome(x)))
    BY <1>2, <1>5, <2>3 DEF Calls, ToCome
  <2>5. \A x \in due' : x \in due /\ x # r /\ fdOf'[x] = fdOf[x] /\ fdOf[x] # f
    <3>1. Elems(list) \subseteq Record
      BY DEF SelectInv, SelectTypes, Elems
    <3>. QED  BY <1>1, <3>1 DEF WalkInv, SelectInv, RecordShape
  <2>. QED  BY <1>1, <1>2, <2>1, <2>2, <2>4, <2>5 DEF WalkShape
<1>. QED  BY <1>2, <1>4, <1>5 DEF WalkInv

LEMMA ListNumbers == ASSUME SelectTypes PROVE list \in Seq(Nat \ {0})
  BY SeqMonotonic DEF SelectTypes

LEMMA RunWalks ==
    ASSUME SL!SelectAssumption, SelectInv, WalkInv,
           NEW rs \in SUBSET Descriptor, NEW ws, SL!Run(rs, ws)
    PROVE  WalkInv'
<1>1. /\ orfds' = {f \in rfds \cap rs : f < maxfd}
      /\ where' = "wait" \/ (where' = "walk" /\ data' = IF list = << >> THEN 0 ELSE list[1])
      /\ due' = {r \in SL!Live : fdOf[r] \in rs /\ "in" \in asked[fdOf[r]]}
      /\ expired' = rs \cap Timers
      /\ called' = << >> /\ UNCHANGED <<list, fdOf>>
  BY DEF SL!Run, SL!lists, SL!NULL
<1>2. SL!Live = Elems(list) /\ list \in Seq(Nat \ {0}) /\ SL!SetsFollowList
  BY LiveIs, ListNumbers DEF SL!Live, SelectInv, SelectTypes
<1>3. due' \subseteq Elems(list') /\ called' \in Seq(Entry) /\ SL!CalledIsLive'
  BY <1>1, <1>2 DEF SL!CalledIsLive
<1>4. \A r : Calls(r)' = {}
  BY <1>1 DEF Calls
<1>5. \A r \in due' :
          /\ fdOf'[r] \in orfds'
          /\ fdOf'[r] \in Timers => fdOf'[r] \in expired'
  <2>1. \A r \in Elems(list) : fdOf[r] \in SL!LiveFds
    BY <1>2 DEF SL!LiveFds
  <2>. QED  BY <1>1, <1>2, <2>1 DEF SL!SetsFollowList
<1>6. ASSUME where' = "walk" PROVE WalkShape'
  <2>1. CASE list = << >>
    <3>1. due' = {} /\ data' = 0
      BY <1>1, <1>2, <1>6, <2>1 DEF Elems
    <3>. QED  BY <1>6, <3>1 DEF WalkShape
  <2>2. CASE list # << >>
    <3>1. data' = list[1] /\ data' \in Elems(list')
      BY <1>1, <1>2, <1>6, <2>2, HeadFirst
    <3>2. \A r \in due' : r = data' \/ Later(list', data', r)
      BY <1>1, <1>2, <2>2, <3>1, HeadFirst
    <3>3. \A r \in due' : ToCome(r)'
      BY <1>6, <3>2 DEF ToCome
    <3>4. ASSUME NEW r \in due'
          PROVE  /\ fdOf'[r] \in orfds'
                 /\ ToCome(r)' /\ fdOf'[r] \in Timers => fdOf'[r] \in expired'
                 /\ IF ToCome(r)' THEN Calls(r)' = {} ELSE \E k : Calls(r)' = {k}
      <4>1. /\ fdOf'[r] \in orfds'
            /\ fdOf'[r] \in Timers => fdOf'[r] \in expired'
        BY <1>5, <3>4
      <4>2. ToCome(r)' /\ Calls(r)' = {}
        BY <1>4, <3>3, <3>4
      <4>. QED  BY <4>1, <4>2
    <3>. QED  BY <1>6, <3>1, <3>4 DEF WalkShape
  <2>. QED  BY <2>1, <2>2
<1>. QED  BY <1>1, <1>3, <1>6 DEF WalkInv

\* Going on to data->next.
LEMMA NextWalks ==
    ASSUME SelectInv, WalkShape, data # 0
    PROVE  LET n == SL!Following
           IN  /\ n \in Record \union {0}
               /\ n # 0 => n \in Elems(list)
               /\ ~Later(list, data, data)
               /\ \A x \in Elems(list) : Later(list, data, x) <=> Later(list, n, x) \/ x = n
<1>1. list \in Seq(Record) /\ list \in Seq(Nat \ {0}) /\ Distinct(list)
  BY ListNumbers DEF SelectInv, SelectTypes, RecordShape
<1>2. data \in Elems(list) /\ data \in SL!Live
  BY <1>1, LiveIs DEF WalkShape, SL!Live
<1>3. SL!Following = SL!After(list, data)
  BY <1>2 DEF SL!Following
<1>4. Advances(list, data, SL!After(list, data)) /\ ~Later(list, data, data)
  BY <1>1, <1>2, Advanced
<1>5. Elems(list) \subseteq Record /\ 0 \notin Elems(list)
  BY <1>1 DEF Elems
<1>6. \A x : ~Later(list, 0, x)
  BY <1>5 DEF Later, Elems
<1>. QED  BY <1>3, <1>4, <1>5, <1>6 DEF Advances

LEMMA VisitWalks ==
    ASSUME SelectInv, WalkInv, SL!Visit PROVE WalkInv'
<1>1. /\ where = "walk" /\ data # 0 /\ UNCHANGED <<list, fdOf, orfds, due>>
  BY DEF SL!Visit, SL!NULL, SL!lists
<1>2. WalkShape /\ due \subseteq Elems(list) /\ called \in Seq(Entry) /\ SL!CalledIsLive
  BY <1>1 DEF WalkInv
<1> DEFINE n == SL!Following
<1>3. /\ n \in Record \union {0}
      /\ n # 0 => n \in Elems(list)
      /\ ~Later(list, data, data)
      /\ \A x \in Elems(list) : Later(list, data, x) <=> Later(list, n, x) \/ x = n
  BY <1>1, <1>2, NextWalks
<1>4. data \in Elems(list) /\ data \in SL!Live /\ data \in Record
  BY <1>1, <1>2, LiveIs DEF WalkShape, SL!Live, SelectInv, SelectTypes, Elems
<1> DEFINE e == [record |-> data, events |-> SL!Found(fdOf[data]), live |-> data \in SL!Live,
                 next |-> n]
<1>7. \A r \in due : r # data => fdOf[r] # fdOf[data]
  BY <1>2, <1>4 DEF SelectInv, RecordShape
<1>5. CASE /\ where' = "callback" /\ data' = data /\ expired' = expired \ {fdOf[data]}
           /\ called' = Append(called, e)
  <2>1. e \in Entry /\ e.live /\ e.record = data
    <3>1. SL!Found(fdOf[data]) \in SUBSET SL!Events /\ (data \in SL!Live) \in BOOLEAN
      BY DEF SL!Found
    <3>. HIDE DEF n
    <3>. QED  BY <1>3, <1>4, <3>1 DEF Entry
  <2>. HIDE DEF e
  <2>2. /\ called' \in Seq(Entry) /\ Len(called') = Len(called) + 1 /\ Len(called) \in Nat
        /\ called'[Len(called) + 1] = e
        /\ \A k \in 1 .. Len(called) : called'[k] = called[k]
    BY <1>2, <1>5, <2>1, AppendProperties
  <2>3. \A k \in 1 .. Len(called') : k \in 1 .. Len(called) \/ k = Len(called) + 1
    BY <2>2
  <2>4. \A k \in 1 .. Len(called) : k \in 1 .. Len(called') /\ k # Len(called) + 1
    BY <2>2
  <2>5. Len(called) + 1 \in 1 .. Len(called')
    BY <2>2
  <2>6. SL!CalledIsLive'
    BY <1>2, <2>1, <2>2, <2>3 DEF SL!CalledIsLive
  <2>7. \A r : r # data => Calls(r)' = Calls(r)
    BY <2>1, <2>2, <2>3, <2>4 DEF Calls
  <2>8. \A r : r = data /\ Calls(r) = {} => Calls(r)' = {Len(called) + 1}
    BY <1>5, <2>1, <2>2, <2>3, <2>4, <2>5 DEF Calls
  <2>9. \A r \in due : ToCome(r)' <=> ToCome(r) /\ r # data
    BY <1>1, <1>3, <1>5 DEF ToCome
  <2>10. WalkShape'
    <3>1. ASSUME NEW r \in due PROVE IF ToCome(r)' THEN Calls(r)' = {} ELSE \E k : Calls(r)' = {k}
      <4>1. CASE r = data
        <5>1. ToCome(r) /\ ~ToCome(r)'
          BY <1>1, <2>9, <4>1 DEF ToCome
        <5>. QED  BY <1>2, <2>8, <4>1, <5>1 DEF WalkShape
      <4>2. CASE r # data
        BY <1>2, <2>7, <2>9, <4>2 DEF WalkShape
      <4>. QED  BY <4>1, <4>2
    <3>2. ASSUME NEW r \in due, ToCome(r)', fdOf[r] \in Timers PROVE fdOf[r] \in expired'
      <4>1. ToCome(r) /\ r # data
        BY <2>9, <3>2
      <4>. QED  BY <1>2, <1>5, <1>7, <3>2, <4>1 DEF WalkShape
    <3>. QED  BY <1>1, <1>2, <1>4, <1>5, <3>1, <3>2 DEF WalkShape
  <2>. QED  BY <1>1, <1>2, <2>2, <2>6, <2>10 DEF WalkInv
<1>6. CASE /\ ~(SL!Found(fdOf[data]) # {} /\ (fdOf[data] \in Timers => fdOf[data] \in expired))
           /\ data' = n /\ where' = where /\ called' = called /\ expired' = expired
  <2>1. data \notin due
    <3>1. fdOf[data] \in orfds => SL!Found(fdOf[data]) # {}
      BY DEF SL!Found, SL!Events
    <3>2. ToCome(data)
      BY <1>1 DEF ToCome
    <3>. QED  BY <1>2, <1>6, <3>1, <3>2 DEF WalkShape
  <2>. HIDE DEF n
  <2>2. \A r \in due : Calls(r)' = Calls(r) /\ (ToCome(r)' <=> ToCome(r))
    BY <1>1, <1>2, <1>3, <1>6, <2>1 DEF Calls, ToCome
  <2>3. WalkShape'
    BY <1>1, <1>2, <1>3, <1>6, <2>2 DEF WalkShape
  <2>. QED  BY <1>1, <1>2, <1>6, <2>3 DEF WalkInv, SL!CalledIsLive
<1>. QED  BY <1>1, <1>5, <1>6 DEF SL!Visit

LEMMA ReturnWalks ==
    ASSUME SelectInv, WalkInv, SL!CallbackReturns PROVE WalkInv'
<1>1. /\ where = "returns" /\ where' = "walk" /\ data' = SL!Following
      /\ UNCHANGED <<list, fdOf, orfds, expired, due, called>>
  BY DEF SL!CallbackReturns, SL!AfterCall, SL!lists
<1>2. WalkShape /\ due \subseteq Elems(list) /\ data # 0
  BY <1>1 DEF WalkInv, WalkShape
<1>3. /\ data' # 0 => data' \in Elems(list)
      /\ \A x \in Elems(list) : Later(list, data, x) <=> Later(list, data', x) \/ x = data'
  BY <1>1, <1>2, NextWalks
<1>4. \A r \in due : Calls(r)' = Calls(r) /\ (ToCome(r)' <=> ToCome(r))
  BY <1>1, <1>2, <1>3 DEF Calls, ToCome
<1>5. WalkShape'
  BY <1>1, <1>2, <1>3, <1>4 DEF WalkShape
<1>. QED  BY <1>1, <1>5 DEF WalkInv, SL!CalledIsLive

LEMMA OthersWalk ==
    ASSUME SelectInv, WalkInv,
           \/ \E f \in Descriptor, es \in SUBSET SL!Events : SL!ModifyFd(f, es)
           \/ SL!Quit \/ SL!NoCall \/ SL!Walked \/ UNCHANGED SL!vars
    PROVE  WalkInv'
<1>1. /\ UNCHANGED <<list, fdOf, data, orfds, called>> /\ due' \subseteq due
      /\ \/ where' = where \/ where' \in {"setup", "wait"}
         \/ where = "callback" /\ where' = "returns"
  BY DEF SL!ModifyFd, SL!Quit, SL!NoCall, SL!Walked, SL!MayAsk, SL!MayCall, SL!Called,
     SL!lists, SL!round, SL!vars
<1>2. \A r : Calls(r)' = Calls(r)
  BY <1>1 DEF Calls
<1>3. where' \in {"walk", "callback", "returns"} =>
         where \in {"walk", "callback", "returns"} /\ \A r : ToCome(r)' <=> ToCome(r)
  BY <1>1 DEF ToCome
<1>4. \A r \in due' : fdOf[r] \in Timers /\ fdOf[r] \in expired => fdOf[r] \in expired'
  BY DEF SL!ModifyFd, SL!Quit, SL!NoCall, SL!Walked, SL!vars
<1>5. where' \in {"walk", "callback", "returns"} => WalkShape'
  BY <1>1, <1>2, <1>3, <1>4 DEF WalkInv, WalkShape
<1>. QED  BY <1>1, <1>5 DEF WalkInv, SL!CalledIsLive

\* As long as a callback leaves its own descriptor registered, no callback is
\* called for a registration that is gone, and a round calls each readable one
\* once that no callback removed or set again, whatever callbacks add, change
\* and remove (mainloop.c:195-233).
THEOREM SelectServes ==
    ASSUME SL!SelectAssumption, ~OwnToo
    PROVE  SL!Spec => [](SL!CalledIsLive /\ SL!RoundServesAll)
<1>1. SL!Init => WalkInv
  BY DEF SL!Init, WalkInv, SL!CalledIsLive
<1>2. SelectInv /\ WalkInv /\ [SL!Next]_(SL!vars) => WalkInv'
  <2>. SUFFICES ASSUME SelectInv, WalkInv, [SL!Next]_(SL!vars) PROVE WalkInv'
    OBVIOUS
  <2>1. ASSUME NEW f \in Descriptor, NEW es \in SUBSET SL!Events \ {{}},
               SL!AddFd(f, es) \/ SL!ModifyFd(f, es)
        PROVE  WalkInv'
    BY <2>1, AddWalks, OthersWalk
  <2>2. ASSUME NEW f \in Descriptor, SL!RemoveFd(f) PROVE WalkInv'
    BY <2>2, RemoveWalks
  <2>3. ASSUME NEW rs \in SUBSET Descriptor, NEW ws \in {{}, Descriptor}, SL!Run(rs, ws)
        PROVE  WalkInv'
    BY <2>3, RunWalks
  <2>. QED  BY <2>1, <2>2, <2>3, VisitWalks, ReturnWalks, OthersWalk DEF SL!Next
<1>3. WalkInv => SL!CalledIsLive
  BY DEF WalkInv
<1>4. SelectInv /\ WalkInv => SL!RoundServesAll
  <2>. SUFFICES ASSUME SelectInv, WalkInv, where = "walk", data = 0, NEW r \in due
                PROVE  SL!Cardinality({k \in 1 .. Len(called) : called[k].record = r}) = 1
    BY DEF SL!RoundServesAll, SL!NULL
  <2>1. ~ToCome(r)
    <3>1. 0 \notin Elems(list)
      BY DEF SelectInv, SelectTypes, Elems
    <3>2. r \in Elems(list)
      BY DEF WalkInv
    <3>. QED  BY <3>1, <3>2 DEF ToCome, Later, Elems
  <2>2. PICK k : Calls(r) = {k}
    BY <2>1 DEF WalkInv, WalkShape
  <2>3. Cardinality({k}) = 1
    BY FS_Singleton
  <2>4. SL!Cardinality(Calls(r)) = Cardinality({k})
    BY <2>2 DEF SL!Cardinality, Cardinality
  <2>. QED  BY <2>3, <2>4 DEF Calls
<1>. QED  BY <1>1, <1>2, <1>3, <1>4, SelectStarts, SelectStep, PTL DEF SL!Spec

===============================================================================
