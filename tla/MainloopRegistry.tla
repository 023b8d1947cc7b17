-------------------------- MODULE MainloopRegistry --------------------------
(* What Mainloop promises its clients, for every set of records and        *)
(* descriptors and every bound: accepted registrations stay watched, a run *)
(* without failures leaves nothing behind, and CallbackRegistry is         *)
(* implemented for clients whose callbacks remove only their own.          *)
EXTENDS MainloopSafety

\* The list runs from the newest registration to the oldest and misses none:
\* whatever is older than an entry is behind its next pointer.  With this,
\* the walks of the lookup and of the final sweep need no reachability.
OrderShape ==
    /\ \A r \in Listed : rec[r].user \in 1 .. nreg
    /\ \A r, s \in Listed : rec[r].user = rec[s].user => r = s
    /\ \A s \in Listed : ListHead # Null /\ rec[s].user <= rec[ListHead].user
    /\ \A r, s \in Listed :
          rec[s].user < rec[r].user =>
              next[r] # Null /\ rec[s].user <= rec[next[r]].user
    /\ \A r \in Listed : next[r] # Null => rec[next[r]].user < rec[r].user

\* The registration whose record waits for its destroy callback to return.
Ending(r) ==
    (Removing /\ r = Removed.data) \/ (Sweeping /\ r = sweep.data)

\* Every registration is ended at most once, and is on the list while it is
\* active, with its descriptor; only the one whose destroy callback runs is
\* on it longer.
EndedShape ==
    /\ \A u \in User : ended[u] <= 1 /\ (u > nreg => ended[u] = 0)
    /\ \A r \in Listed : IF Ending(r) THEN ended[rec[r].user] = 1
                        ELSE ended[rec[r].user] = 0 /\ rec[r].fd \in Fd
    /\ \A u \in 1 .. nreg : ended[u] = 0 => \E r \in Listed : rec[r].user = u
    /\ pc \in {"boot", "stopped"} => Listed = {}

\* A lookup has passed no record of the descriptor it looks for.
PassedShape ==
    pc = "find" =>
    \A s \in Listed :
        (find.data = Null \/ rec[find.data].user < rec[s].user) => rec[s].fd # find.fd

\* The record the kernel points to is the newest one of its descriptor.
WatchShape ==
    /\ accepted \subseteq 1 .. nreg
    /\ phase # "sweep" =>
          \A fd \in Fd, s \in Listed :
              (ep[fd].rec # Null /\ rec[s].fd = fd)
              => rec[s].user <= rec[ep[fd].rec].user

\* A descriptor added twice hides its older registration from the kernel.
Watching == AddsOnce => WatchShape /\ AcceptedIsWatched

RegistryInv == OrderShape /\ EndedShape /\ PassedShape /\ Watching

LEMMA RegistryInit == Init => RegistryInv
<1> SUFFICES ASSUME Init PROVE RegistryInv
  OBVIOUS
<1>1. Listed = {} /\ \A fd \in Fd : ep[fd].rec = Null
  BY DEF Init, Listed, Placed, Unwatched
<1>2. OrderShape /\ PassedShape /\ WatchShape /\ AcceptedIsWatched
  BY <1>1 DEF Init, OrderShape, PassedShape, WatchShape, AcceptedIsWatched, Fd
<1>3. EndedShape
  BY <1>1, ConstantsAssumption DEF ConstantsAssumption, Init, EndedShape, User
<1>. QED  BY <1>2, <1>3 DEF RegistryInv, Watching

(* What carries over when a step leaves the things a part is about alone.  *)

LEMMA OrderSame ==
    ASSUME RegistryInv, UNCHANGED <<next, rec, place, nreg>>,
           ListHead' = ListHead
    PROVE  OrderShape'
  BY DEF RegistryInv, OrderShape, Listed, Placed

LEMMA EndedSame ==
    ASSUME RegistryInv, UNCHANGED <<rec, place, nreg, ended>>,
           \A r \in Listed : Ending(r)' <=> Ending(r),
           pc' \in {"boot", "stopped"} => Listed = {}
    PROVE  EndedShape'
<1>1. Listed' = Listed
  BY DEF Listed, Placed
<1>2. \A r \in Listed : IF Ending(r)' THEN ended'[rec'[r].user] = 1
                        ELSE ended'[rec'[r].user] = 0 /\ rec'[r].fd \in Fd
  BY DEF RegistryInv, EndedShape
<1>. QED  BY <1>1, <1>2 DEF RegistryInv, EndedShape

LEMMA WatchSame ==
    ASSUME RegistryInv, UNCHANGED <<rec, place, nreg, accepted, ended>>,
           phase' # "sweep" =>
              /\ phase # "sweep"
              /\ AddsOnce => \A fd \in Fd : ep'[fd].rec = ep[fd].rec
    PROVE  Watching'
<1>. SUFFICES ASSUME AddsOnce PROVE WatchShape' /\ AcceptedIsWatched'
  BY DEF Watching, AddsOnce
<1>1. Listed' = Listed
  BY DEF Listed, Placed
<1>2. \A r \in Listed : ended[rec[r].user] = 0 => rec[r].fd \in Fd
  BY DEF RegistryInv, EndedShape
<1>3. WatchShape /\ AcceptedIsWatched
  BY DEF RegistryInv, Watching
<1>. QED  BY <1>1, <1>2, <1>3 DEF WatchShape, AcceptedIsWatched

-----------------------------------------------------------------------------
(* Registration.                                                           *)

LEMMA RegistryRegister ==
    ASSUME Gentle, TypeInv, SafeInv, RegistryInv,
           NEW o \in {"add", "add_again"}, May(o), NEW r \in Record, NEW type, NEW fd \in Fd, NEW d,
           Register(r, type, fd, d), AddsOnce => ep[fd].rec = Null,
           \A f \in Fd \ {fd} : ep'[f].rec = ep[f].rec,
           \/ ep'[fd].rec = ep[fd].rec /\ accepted' = accepted
           \/ ep'[fd].rec = r /\ accepted' = accepted \cup {nreg + 1}
    PROVE  RegistryInv'
<1>1. /\ pc = "client" /\ pc' = "client" /\ suspended = <<>> /\ phase # "sweep"
      /\ Take(r) /\ ~terminate
      /\ head' = r /\ next' = [next EXCEPT ![r] = head]
      /\ rec' = [rec EXCEPT ![r] = [type |-> type, fd |-> fd,
                                    user |-> nreg + 1, destroy |-> d]]
      /\ place' = [place EXCEPT ![r] = "listed"]
      /\ nreg < MaxReg /\ nreg' = nreg + 1
      /\ UNCHANGED <<cb, phase, suspended, sweep, ended>>
  BY AddAllowed DEF Register, Link, dispatch, frames
<1>2. /\ next \in [Record -> Record \cup {Null}] /\ rec \in [Record -> Data]
      /\ place \in [Record -> {"unallocated", "listed", "pooled", "leaked", "lost"}]
      /\ ended \in [User -> 0 .. 2] /\ ep \in [Fd -> Interest]
      /\ nreg \in Nat /\ MaxReg \in Nat /\ Null \notin Record
  BY ConstantsAssumption DEF ConstantsAssumption, TypeInv, TypeOK
<1>3. Listed' = Listed \cup {r} /\ r \notin Listed /\ Listed \subseteq Record
      /\ head \in Listed \cup {Null}
  <2>1. r \notin Listed
    BY <1>1, TakenRecord
  <2>. QED
    BY <1>1, <1>2, <2>1 DEF Listed, Placed, SafeInv, ListShape, ListHead, Chain
<1>4. /\ rec'[r].fd = fd /\ rec'[r].user = nreg + 1 /\ next'[r] = head
      /\ \A s \in Listed :
            rec'[s] = rec[s] /\ rec'[s].user = rec[s].user /\ next'[s] = next[s]
  BY <1>1, <1>2, <1>3
<1>5. /\ \A s \in Listed : rec[s].user \in 1 .. nreg
      /\ OrderShape /\ EndedShape
  BY DEF RegistryInv, OrderShape
<1>6. ListHead = head /\ ListHead' = r
  BY <1>1 DEF ListHead
<1>7. OrderShape'
  <2>1. \A s \in Listed' : rec'[s].user \in 1 .. nreg' /\ rec'[s].user <= rec'[r].user
    BY <1>1, <1>2, <1>3, <1>4, <1>5
  <2>2. \A s, t \in Listed' : rec'[s].user = rec'[t].user => s = t
    BY <1>2, <1>3, <1>4, <1>5 DEF OrderShape
  <2>3. ASSUME NEW s \in Listed', NEW t \in Listed', rec'[t].user < rec'[s].user
        PROVE  next'[s] # Null /\ rec'[t].user <= rec'[next'[s]].user
    <3>1. CASE s = r
      <4>1. t \in Listed
        BY <1>2, <1>3, <2>3, <3>1, <1>4
      <4>2. head # Null /\ rec[t].user <= rec[head].user
        BY <1>5, <1>6, <4>1 DEF OrderShape
      <4>. QED  BY <1>3, <1>4, <3>1, <4>1, <4>2
    <3>2. CASE s # r
      <4>1. s \in Listed /\ t \in Listed
        BY <1>2, <1>3, <1>4, <1>5, <2>3, <3>2
      <4>2. next[s] # Null /\ rec[t].user <= rec[next[s]].user
        BY <1>4, <1>5, <2>3, <4>1 DEF OrderShape
      <4>3. next[s] \in Listed
        BY <1>1, <4>1, <4>2 DEF SafeInv, ListShape, Chain, Listed
      <4>. QED  BY <1>4, <4>1, <4>2, <4>3
    <3>. QED  BY <3>1, <3>2
  <2>4. ASSUME NEW s \in Listed', next'[s] # Null
        PROVE  rec'[next'[s]].user < rec'[s].user
    <3>1. CASE s = r
      BY <1>2, <1>3, <1>4, <1>5, <2>4, <3>1
    <3>2. CASE s # r
      <4>1. s \in Listed /\ next[s] # Null /\ next[s] \in Listed
        BY <1>3, <1>4, <2>4, <3>2 DEF SafeInv, ListShape, Chain, Listed
      <4>. QED  BY <1>4, <1>5, <4>1 DEF OrderShape
    <3>. QED  BY <3>1, <3>2
  <2>. QED  BY <1>2, <1>3, <1>6, <2>1, <2>2, <2>3, <2>4 DEF OrderShape
<1>8. EndedShape'
  <2>1. nreg + 1 \in User /\ ended[nreg + 1] = 0
    BY <1>1, <1>2, <1>5 DEF EndedShape, User
  <2>2. \A s : ~Ending(s) /\ ~Ending(s)'
    BY <1>1 DEF Ending, Removing, Sweeping
  <2>3. \A u \in 1 .. nreg' : ended'[u] = 0 => \E s \in Listed' : rec'[s].user = u
    BY <1>1, <1>2, <1>3, <1>4, <1>5 DEF EndedShape
  <2>4. \A s \in Listed' : ended'[rec'[s].user] = 0 /\ rec'[s].fd \in Fd
    BY <1>1, <1>3, <1>4, <1>5, <2>1, <2>2 DEF EndedShape
  <2>5. \A u \in User : ended'[u] <= 1 /\ (u > nreg' => ended'[u] = 0)
    BY <1>1, <1>2, <1>5 DEF EndedShape, User
  <2>. QED  BY <1>1, <2>2, <2>3, <2>4, <2>5 DEF EndedShape
<1>9. PassedShape'
  BY <1>1 DEF RegistryInv, PassedShape
\* The kernel's pointers.
<1>10. ASSUME AddsOnce
       PROVE  WatchShape /\ AcceptedIsWatched /\ ep[fd].rec = Null
  BY <1>10 DEF RegistryInv, Watching
<1>11. ASSUME AddsOnce PROVE WatchShape'
  <2>1. accepted' \subseteq 1 .. nreg'
    BY <1>1, <1>2, <1>10, <1>11 DEF WatchShape
  <2>2. ASSUME NEW f \in Fd, NEW s \in Listed', ep'[f].rec # Null, rec'[s].fd = f
        PROVE  rec'[s].user <= rec'[ep'[f].rec].user
    <3>1. CASE f = fd
      BY <1>1, <1>2, <1>3, <1>4, <1>5, <1>10, <1>11, <2>2, <3>1
    <3>2. CASE f # fd
      <4>1. ep'[f].rec = ep[f].rec /\ s \in Listed /\ ep[f].rec \in Listed
        BY <1>1, <1>3, <1>4, <2>2, <3>2 DEF SafeInv, InterestShape
      <4>. QED  BY <1>1, <1>4, <1>10, <1>11, <2>2, <4>1 DEF WatchShape
    <3>. QED  BY <3>1, <3>2
  <2>. QED  BY <2>1, <2>2 DEF WatchShape
<1>12. ASSUME AddsOnce PROVE AcceptedIsWatched'
  <2>1. ASSUME NEW s \in Listed', rec'[s].user \in accepted', ended'[rec'[s].user] = 0
        PROVE  ep'[rec'[s].fd].rec = s
    <3>1. CASE s = r
      BY <1>2, <1>4, <1>10, <1>12, <2>1, <3>1 DEF WatchShape
    <3>2. CASE s # r
      <4>1. s \in Listed /\ rec[s].user \in accepted /\ ended[rec[s].user] = 0
        BY <1>1, <1>2, <1>3, <1>4, <1>5, <2>1, <3>2
      <4>2. ep[rec[s].fd].rec = s /\ rec[s].fd \in Fd
        BY <1>1, <1>5, <1>10, <1>12, <4>1 DEF AcceptedIsWatched, EndedShape
      <4>3. rec[s].fd # fd
        BY <1>2, <1>3, <1>10, <1>12, <4>1, <4>2
      <4>. QED  BY <1>4, <4>1, <4>2, <4>3
    <3>. QED  BY <3>1, <3>2
  <2>. QED  BY <2>1 DEF AcceptedIsWatched
<1>. QED  BY <1>7, <1>8, <1>9, <1>11, <1>12 DEF RegistryInv, Watching, AddsOnce

LEMMA RegistryAdd ==
    ASSUME Gentle, TypeInv, SafeInv, RegistryInv, NEW fd, NEW r \in Record,
           NEW d, NEW set,
           \/ fd \in UserFd /\ (AddFd(fd, r, d) \/ AddFdRefused(fd, r, d))
           \/ fd \in TimerFd /\ AddTimeout(fd, r, d, set)
    PROVE  RegistryInv'
<1>1. /\ fd \in Fd /\ ep \in [Fd -> Interest]
      /\ r # Null
  BY ConstantsAssumption DEF ConstantsAssumption, Fd, TypeInv, TypeOK
<1>2. CASE fd \in UserFd /\ AddFd(fd, r, d)
  <2>1. /\ May("add") /\ Register(r, "GENERAL", fd, d) /\ ep[fd].rec = Null
        /\ ep' = [ep EXCEPT ![fd] = [rec |-> r, armed |-> TRUE, oneshot |-> FALSE]]
        /\ accepted' = accepted \cup {nreg + 1}
    BY <1>2 DEF AddFd
  <2>2. ep'[fd].rec = r /\ \A f \in Fd \ {fd} : ep'[f].rec = ep[f].rec
    BY <1>1, <2>1
  <2>. QED  BY <1>1, <1>2, <2>1, <2>2, RegistryRegister
<1>3. CASE fd \in UserFd /\ AddFdRefused(fd, r, d)
  <2>1. /\ May(AddOp(fd)) /\ Register(r, "GENERAL", fd, d)
        /\ AddOp(fd) \in {"add", "add_again"} /\ UNCHANGED <<ep, accepted>>
    BY <1>3 DEF AddFdRefused, AddOp, kernel
  <2>2. AddsOnce => ep[fd].rec = Null
    BY <2>1, AddAllowed DEF AddsOnce, AddOp, Removing
  <2>. QED  BY <1>1, <1>3, <2>1, <2>2, RegistryRegister
<1>4. CASE fd \in TimerFd /\ AddTimeout(fd, r, d, set)
  <2>1. /\ May("add") /\ Register(r, "TIMER", fd, d) /\ timer[fd] = "closed"
        /\ ep' = [ep EXCEPT ![fd] = [rec |-> r, armed |-> TRUE, oneshot |-> TRUE]]
        /\ accepted' = accepted \cup {nreg + 1}
    BY <1>4 DEF AddTimeout
  <2>2. ep'[fd].rec = r /\ \A f \in Fd \ {fd} : ep'[f].rec = ep[f].rec
    BY <1>1, <2>1
  <2>3. ep[fd].rec = Null
    BY <1>4, <2>1, AddAllowed DEF SafeInv, TimerShape
  <2>. QED  BY <1>1, <2>1, <2>2, <2>3, RegistryRegister
<1>. QED  BY <1>2, <1>3, <1>4

LEMMA RegistryAddTimeoutRefused ==
    ASSUME Gentle, TypeInv, SafeInv, RegistryInv, NEW fd \in TimerFd,
           NEW r \in Record, NEW d, AddTimeoutRefused(fd, r, d)
    PROVE  RegistryInv'
<1>1. /\ pc = "client" /\ pc' = "client" /\ ~terminate /\ suspended = <<>>
      /\ phase # "sweep" /\ Take(r) /\ nreg < MaxReg
      /\ rec' = [rec EXCEPT ![r] = [type |-> "TIMER", fd |-> fd,
                                    user |-> nreg + 1, destroy |-> d]]
      /\ next' = [next EXCEPT ![r] = Null]
      /\ place' = [place EXCEPT ![r] = "leaked"]
      /\ nreg' = nreg + 1 /\ ended' = [ended EXCEPT ![nreg + 1] = 1]
      /\ UNCHANGED <<head, ep, timer, cb, phase, suspended, sweep, accepted>>
  BY AddAllowed DEF AddTimeoutRefused, kernel, dispatch, frames
<1>2. r \notin Listed
  BY <1>1, TakenRecord
<1>3. /\ Listed' = Listed /\ ListHead' = ListHead
      /\ \A s \in Listed : rec'[s] = rec[s] /\ next'[s] = next[s]
  BY <1>1, <1>2 DEF Listed, Placed, ListHead, TypeInv, TypeOK
<1>4. \A s \in Listed : next[s] \in Listed \cup {Null}
  BY DEF SafeInv, ListShape, Chain, Listed
<1>5. ListHead \in Listed \cup {Null}
  BY DEF SafeInv, ListShape, Chain, Listed
\* The refused registration is the newest, on no list and over.
<1>6. /\ nreg \in Nat /\ nreg + 1 \in User /\ ended \in [User -> 0 .. 2]
      /\ ended'[nreg + 1] = 1
      /\ \A u \in User \ {nreg + 1} : ended'[u] = ended[u]
      /\ \A s \in Listed : /\ rec[s].user \in 1 .. nreg
                            /\ rec[s].user \in User \ {nreg + 1}
  <2>1. nreg \in Nat /\ MaxReg \in Nat /\ ended \in [User -> 0 .. 2]
    BY ConstantsAssumption DEF ConstantsAssumption, TypeInv, TypeOK
  <2>2. \A s \in Listed : rec[s].user \in 1 .. nreg
    BY DEF RegistryInv, OrderShape
  <2>. QED  BY <1>1, <2>1, <2>2 DEF User
<1>7. \A s \in Listed' : rec'[s].user \in 1 .. nreg'
  BY <1>1, <1>3, <1>6
<1>8. OrderShape'
  BY <1>3, <1>4, <1>5, <1>7 DEF RegistryInv, OrderShape
<1>9. EndedShape'
  <2>1. \A s : ~Ending(s) /\ ~Ending(s)'
    BY <1>1 DEF Ending, Removing, Sweeping
  <2>2. EndedShape
    BY DEF RegistryInv
  <2>3. \A s \in Listed : ended'[rec'[s].user] = 0 /\ rec'[s].fd \in Fd
    BY <1>3, <1>6, <2>1, <2>2 DEF EndedShape
  <2>4. \A u \in User : ended'[u] <= 1 /\ (u > nreg' => ended'[u] = 0)
    BY <1>1, <1>6, <2>2 DEF EndedShape, User
  <2>5. \A u \in 1 .. nreg' : ended'[u] = 0 => \E s \in Listed' : rec'[s].user = u
    <3>1. ASSUME NEW u \in 1 .. nreg', ended'[u] = 0
          PROVE  u \in 1 .. nreg /\ ended[u] = 0
      BY <1>1, <1>6, <3>1 DEF User
    <3>. QED  BY <1>3, <2>2, <3>1 DEF EndedShape
  <2>. QED  BY <1>1, <1>3, <2>1, <2>3, <2>4, <2>5 DEF EndedShape
<1>10. PassedShape'
  BY <1>1 DEF RegistryInv, PassedShape
<1>11. \A f \in Fd : ep[f].rec # Null => ep[f].rec \in Listed
  BY <1>1 DEF SafeInv, InterestShape
<1>12. Watching'
  <2>. SUFFICES ASSUME AddsOnce PROVE WatchShape' /\ AcceptedIsWatched'
    BY DEF Watching, AddsOnce
  <2>1. WatchShape /\ AcceptedIsWatched
    BY DEF RegistryInv, Watching
  <2>2. WatchShape'
    BY <1>1, <1>3, <1>6, <1>11, <2>1 DEF WatchShape
  <2>3. \A s \in Listed : ended'[rec'[s].user] = ended[rec[s].user]
    BY <1>3, <1>6
  <2>4. AcceptedIsWatched'
    BY <1>1, <1>3, <2>1, <2>3 DEF AcceptedIsWatched
  <2>. QED  BY <2>2, <2>4
<1>. QED  BY <1>8, <1>9, <1>10, <1>12 DEF RegistryInv

\* Steps that leave records, registrations and the kernel's pointers alone.
LEMMA RegistryQuiet ==
    ASSUME RegistryInv, PassedShape', ListHead' = ListHead,
           UNCHANGED <<next, rec, place, nreg, accepted, ended>>,
           \A r \in Listed : Ending(r)' <=> Ending(r),
           pc' \in {"boot", "stopped"} => Listed = {},
           phase' # "sweep" =>
              /\ phase # "sweep"
              /\ AddsOnce => \A fd \in Fd : ep'[fd].rec = ep[fd].rec
    PROVE  RegistryInv'
  BY OrderSame, EndedSame, WatchSame DEF RegistryInv

-----------------------------------------------------------------------------
(* The lookup loop.                                                        *)

LEMMA RegistryStartFind ==
    ASSUME Gentle, TypeInv, SafeInv, RegistryInv, NEW op,
           NEW fd \in Fd, NEW o, May(o), StartFind(op, fd)
    PROVE  RegistryInv'
<1>1. pc = "client" /\ phase # "sweep"
  BY CallAllowed
<1>2. /\ pc' = "find" /\ find' = [op |-> op, fd |-> fd, data |-> head, prev |-> Null]
      /\ UNCHANGED <<head, next, rec, place, ep, cb, phase, suspended, sweep,
                     nreg, accepted, ended>>
  BY DEF StartFind, memory, dispatch, ghosts
<1>3. PassedShape'
  <2>1. ListHead = head /\ Listed' = Listed
    BY <1>1, <1>2 DEF ListHead, Listed, Placed
  <2>2. ASSUME NEW s \in Listed PROVE head # Null /\ ~(rec[head].user < rec[s].user)
    <3>1. head # Null /\ rec[s].user <= rec[head].user /\ head \in Listed
      BY <2>1 DEF RegistryInv, OrderShape, SafeInv, ListShape, Chain, Listed
    <3>2. rec[s].user \in 1 .. nreg /\ rec[head].user \in 1 .. nreg
      BY <3>1 DEF RegistryInv, OrderShape
    <3>. QED  BY <3>1, <3>2
  <2>. QED  BY <1>2, <2>1, <2>2 DEF PassedShape
<1>4. ListHead' = ListHead
  BY <1>2 DEF RegistryInv, ListHead
<1>5. \A r \in Listed : Ending(r)' <=> Ending(r)
  BY <1>1, <1>2 DEF Ending, Removing, Removed, Sweeping
<1>. QED  BY <1>1, <1>2, <1>3, <1>4, <1>5, RegistryQuiet

LEMMA RegistryCalls ==
    ASSUME Gentle, TypeInv, SafeInv, RegistryInv, NEW fd,
           \/ fd \in Fd \cup {NoFd} /\ (CallRemoveFd(fd) \/ CallModifyFd(fd))
           \/ fd \in TimerFd /\ CallModifyTimeout(fd)
    PROVE  RegistryInv'
<1>1. fd \in Fd
  BY DEF CallRemoveFd, CallModifyFd, ValidFd, NoFd, Fd
<1>2. \E op, o : May(o) /\ StartFind(op, fd)
  BY DEF CallRemoveFd, CallModifyFd, CallModifyTimeout
<1>. QED  BY <1>1, <1>2, RegistryStartFind

LEMMA RegistryFindNext ==
    ASSUME TypeInv, SafeInv, RegistryInv, FindNext PROVE RegistryInv'
<1>1. /\ pc = "find" /\ pc' = "find" /\ phase # "sweep"
      /\ find.data \in Listed /\ find.data # Null /\ rec[find.data].fd # find.fd
      /\ find'.data = next[find.data] /\ find'.fd = find.fd
      /\ UNCHANGED <<head, next, rec, place, ep, timer, cb, phase, suspended,
                     sweep, nreg, accepted, ended>>
  BY DEF FindNext, SafeInv, ControlShape, LookupShape, Neighbours,
     memory, kernel, dispatch, ghosts
<1>2. ASSUME NEW s \in Listed,
             next[find.data] = Null \/ rec[next[find.data]].user < rec[s].user
      PROVE  rec[s].fd # find.fd
  <2>1. rec[s].user \in 1 .. nreg /\ rec[find.data].user \in 1 .. nreg
    BY <1>1 DEF RegistryInv, OrderShape
  <2>2. CASE rec[find.data].user < rec[s].user
    BY <1>1, <2>2 DEF RegistryInv, PassedShape
  <2>3. CASE rec[find.data].user = rec[s].user
    BY <1>1, <2>3 DEF RegistryInv, OrderShape
  <2>4. CASE rec[s].user < rec[find.data].user
    <3>1. /\ next[find.data] # Null /\ next[find.data] \in Listed
          /\ rec[s].user <= rec[next[find.data]].user
      BY <1>1, <2>4 DEF RegistryInv, OrderShape, SafeInv, ListShape, Chain, Listed
    <3>2. rec[next[find.data]].user \in 1 .. nreg
      BY <3>1 DEF RegistryInv, OrderShape
    <3>. QED  BY <1>2, <2>1, <3>1, <3>2
  <2>. QED  BY <2>1, <2>2, <2>3, <2>4
<1>3. PassedShape'
  BY <1>1, <1>2 DEF PassedShape, Listed, Placed
<1>4. ListHead' = ListHead
  BY <1>1 DEF RegistryInv, ListHead
<1>5. \A r \in Listed : Ending(r)' <=> Ending(r)
  BY <1>1 DEF Ending, Removing, Removed, Sweeping
<1>. QED  BY <1>1, <1>3, <1>4, <1>5, RegistryQuiet

\* A lookup that has found its record, if the kernel watches the descriptor,
\* has found the record the kernel points to.
LEMMA FoundIsWatched ==
    ASSUME TypeInv, SafeInv, RegistryInv, NEW op, Found(op)
    PROVE  /\ find.data \in Listed /\ find.fd \in Fd
           /\ phase # "sweep"
           /\ AddsOnce => ep[find.fd].rec \in {find.data, Null}
<1>1. /\ pc = "find" /\ phase # "sweep" /\ find.fd \in Fd
      /\ find.data \in Listed /\ find.data # Null /\ rec[find.data].fd = find.fd
  BY DEF Found, SafeInv, ControlShape, LookupShape, Neighbours, TypeInv,
     LocalsInUse
<1>2. ASSUME AddsOnce, ep[find.fd].rec # Null PROVE ep[find.fd].rec = find.data
  <2> DEFINE w == ep[find.fd].rec
  <2>1. w \in Listed /\ rec[w].fd = find.fd
    BY <1>1, <1>2 DEF SafeInv, InterestShape
  <2>2. rec[find.data].user <= rec[w].user /\ ~(rec[find.data].user < rec[w].user)
    BY <1>1, <1>2, <2>1 DEF RegistryInv, Watching, WatchShape, PassedShape
  <2>3. rec[find.data].user \in 1 .. nreg /\ rec[w].user \in 1 .. nreg
    BY <1>1, <2>1 DEF RegistryInv, OrderShape
  <2>4. rec[find.data].user = rec[w].user
    BY <2>2, <2>3
  <2>. QED  BY <1>1, <2>1, <2>4 DEF RegistryInv, OrderShape
<1>. QED  BY <1>1, <1>2

LEMMA RegistryLookupEnds ==
    ASSUME TypeInv, SafeInv, RegistryInv, NotFound \/ ModifyFound PROVE RegistryInv'
<1>1. /\ pc = "find" /\ pc' = "client" /\ phase # "sweep"
      /\ UNCHANGED <<head, next, rec, place, cb, phase, suspended,
                     sweep, nreg, accepted, ended>>
  BY DEF NotFound, ModifyFound, Found, SafeInv, ControlShape, memory,
     kernel, dispatch, ghosts
<1>2. ASSUME AddsOnce PROVE \A fd \in Fd : ep'[fd].rec = ep[fd].rec
  <2>1. CASE NotFound
    BY <2>1 DEF NotFound, kernel
  <2>2. CASE ModifyFound /\ ep[find.fd].rec = Null
    BY <2>2 DEF ModifyFound
  <2>3. CASE ModifyFound /\ ep[find.fd].rec # Null
    <3>1. ep[find.fd].rec = find.data /\ find.fd \in Fd
      BY <1>2, <2>3, FoundIsWatched DEF ModifyFound
    <3>2. ep' = Rearmed(find.fd, find.data)
      BY <2>3 DEF ModifyFound
    <3>. QED  BY <3>1, <3>2 DEF Rearmed, TypeInv, TypeOK
  <2>. QED  BY <2>1, <2>2, <2>3
<1>3. PassedShape' /\ ListHead' = ListHead
  BY <1>1 DEF RegistryInv, PassedShape, ListHead
<1>4. \A r \in Listed : Ending(r)' <=> Ending(r)
  BY <1>1 DEF Ending, Removing, Removed, Sweeping
<1>. QED  BY <1>1, <1>2, <1>3, <1>4, RegistryQuiet

-----------------------------------------------------------------------------
(* mainloop_remove_fd.                                                     *)

\* What EndedBy does for a registration that is active.
LEMMA EndedByOnce ==
    ASSUME TypeInv, RegistryInv, NEW r \in Listed, ended[rec[r].user] = 0
    PROVE  /\ rec[r].user \in User /\ EndedBy(r)[rec[r].user] = 1
           /\ \A u \in User : u # rec[r].user => EndedBy(r)[u] = ended[u]
           /\ EndedBy(r) = [ended EXCEPT ![rec[r].user] = 1]
<1>1. rec[r].user \in User
  BY ConstantsAssumption
  DEF ConstantsAssumption, RegistryInv, OrderShape, TypeInv, TypeOK, User
<1>2. ended = [u \in User |-> ended[u]]
  BY DEF TypeInv, TypeOK
<1>3. EndedBy(r) = [u \in User |-> IF u = rec[r].user THEN 1 ELSE ended[u]]
  BY DEF EndedBy
<1>4. EndedBy(r) = [ended EXCEPT ![rec[r].user] = 1]
  BY <1>2, <1>3
<1>. QED  BY <1>1, <1>3, <1>4

\* The registration of r is the one ended now: r stays on the list while its
\* destroy callback runs.
LEMMA EndedOne ==
    ASSUME TypeInv, RegistryInv, NEW r \in Listed, ended[rec[r].user] = 0,
           ended' = EndedBy(r), Listed' = Listed, nreg' = nreg,
           \A s \in Listed : rec'[s].user = rec[s].user,
           \A s \in Listed \ {r} : rec'[s].fd = rec[s].fd,
           \A s \in Listed : ~Ending(s) /\ (Ending(s)' <=> s = r),
           pc' \notin {"boot", "stopped"}
    PROVE  EndedShape'
<1>1. /\ rec[r].user \in User /\ ended'[rec[r].user] = 1
      /\ \A u \in User : u # rec[r].user => ended'[u] = ended[u]
  BY EndedByOnce
<1>2. /\ \A s \in Listed : rec[s].user \in 1 .. nreg
      /\ \A s, t \in Listed : rec[s].user = rec[t].user => s = t
      /\ EndedShape
  BY DEF RegistryInv, OrderShape
<1>3. nreg \in Nat /\ 1 .. nreg \subseteq User
  BY ConstantsAssumption DEF ConstantsAssumption, TypeInv, TypeOK, User
<1>4. \A u \in User : ended'[u] <= 1 /\ (u > nreg' => ended'[u] = 0)
  BY <1>1, <1>2, <1>3 DEF EndedShape
<1>5. ASSUME NEW s \in Listed
      PROVE  IF Ending(s)' THEN ended'[rec'[s].user] = 1
             ELSE ended'[rec'[s].user] = 0 /\ rec'[s].fd \in Fd
  <2>1. CASE s = r
    BY <1>1, <2>1
  <2>2. CASE s # r
    <3>1. rec[s].user # rec[r].user /\ rec[s].user \in User
      BY <1>2, <1>3, <2>2
    <3>2. ended[rec[s].user] = 0 /\ rec[s].fd \in Fd
      BY <1>2 DEF EndedShape
    <3>. QED  BY <1>1, <2>2, <3>1, <3>2
  <2>. QED  BY <2>1, <2>2
<1>6. ASSUME NEW u \in 1 .. nreg, ended'[u] = 0
      PROVE  \E s \in Listed : rec'[s].user = u
  BY <1>1, <1>2, <1>3, <1>6 DEF EndedShape
<1>. QED  BY <1>4, <1>5, <1>6 DEF EndedShape

LEMMA RegistryRemoveFound ==
    ASSUME TypeInv, SafeInv, RegistryInv, RemoveFound PROVE RegistryInv'
<1> DEFINE r == find.data
<1>1. /\ pc = "find" /\ pc' \in {"client", "unlink"} /\ find.fd \in Fd
      /\ r \in Listed /\ rec[r].fd = find.fd /\ suspended = <<>> /\ phase # "sweep"
      /\ ep' = Closed(find.fd) /\ ended' = EndedBy(r)
      /\ suspended' = <<[data |-> r, prev |-> find.prev, fd |-> find.fd]>> \o suspended
      /\ rec' = IF rec[r].type = "TIMER" THEN Detached(r) ELSE rec
      /\ UNCHANGED <<head, next, place, cb, phase, sweep, nreg, accepted>>
  BY FoundIsWatched, RemovesAlone DEF RemoveFound, Found, dispatch
<1>2. AddsOnce => ep[find.fd].rec \in {r, Null}
  BY FoundIsWatched DEF RemoveFound
<1>3. Removing' /\ Removed'.data = r
  <2>1. suspended' = <<[data |-> r, prev |-> find.prev, fd |-> find.fd]>>
    BY <1>1
  <2>. QED  BY <2>1 DEF Removing, Removed
<1>. HIDE DEF r
<1>4. /\ r \in Record /\ Listed' = Listed
      /\ \A s \in Record : rec'[s].user = rec[s].user
      /\ \A s \in Record \ {r} : rec'[s] = rec[s]
      /\ rec'[r].fd \in {rec[r].fd, NoFd} /\ NoFd \notin Fd
  BY <1>1, ConstantsAssumption
  DEF ConstantsAssumption, Listed, Placed, Detached, TypeInv, TypeOK, Data, Fd, NoFd
<1>5. \A s \in Listed : ~Ending(s) /\ (Ending(s)' <=> s = r)
  BY <1>1, <1>3 DEF Ending, Removing, Sweeping
<1>6. OrderShape'
  <2>1. ListHead' = ListHead /\ ListHead \in Listed \cup {Null}
    BY <1>1 DEF ListHead, SafeInv, ListShape, Chain, Listed
  <2>2. \A s \in Listed : s \in Record /\ next[s] \in Record \cup {Null}
    BY DEF Listed, Placed, TypeInv, TypeOK
  <2>. QED  BY <1>1, <1>4, <2>1, <2>2 DEF RegistryInv, OrderShape, Listed, Placed
<1>7. ended[rec[r].user] = 0
  BY <1>1, <1>5 DEF RegistryInv, EndedShape
<1>8. EndedShape'
  <2>1. \A s \in Listed : s \in Record
    BY DEF Listed, Placed
  <2>. QED  BY <1>1, <1>4, <1>5, <1>7, <2>1, EndedOne
<1>9. PassedShape'
  BY <1>1 DEF RegistryInv, PassedShape
<1>10. ep'[find.fd].rec = Null /\ \A fd \in Fd \ {find.fd} : ep'[fd] = ep[fd]
  BY <1>1 DEF Closed, Unwatched, TypeInv, TypeOK
<1>11. ASSUME AddsOnce PROVE WatchShape'
  <2>1. \A fd \in Fd : ep'[fd].rec # Null => ep'[fd].rec \in Record /\ ep'[fd] = ep[fd]
    BY <1>1, <1>10 DEF SafeInv, InterestShape, Listed, Placed
  <2>2. \A s \in Listed : s \in Record /\ (rec'[s].fd \in Fd => rec'[s].fd = rec[s].fd)
    BY <1>4 DEF Listed, Placed
  <2>. QED  BY <1>1, <1>4, <1>11, <2>1, <2>2 DEF RegistryInv, Watching, WatchShape
<1>12. ASSUME AddsOnce PROVE AcceptedIsWatched'
  <2>1. ASSUME NEW s \in Listed, rec'[s].user \in accepted', ended'[rec'[s].user] = 0
        PROVE  ep'[rec'[s].fd].rec = s
    <3>1. s # r
      BY <1>1, <1>4, <1>5, <1>8, <2>1 DEF EndedShape
    <3>2. s \in Record /\ rec'[s] = rec[s] /\ ended[rec[s].user] = 0 /\ rec[s].fd \in Fd
      BY <1>4, <1>5, <3>1 DEF RegistryInv, EndedShape, Listed, Placed
    <3>3. ep[rec[s].fd].rec = s
      BY <1>1, <1>12, <2>1, <3>2 DEF RegistryInv, Watching, AcceptedIsWatched
    <3>4. rec[s].fd # find.fd
      BY <1>2, <1>12, <3>1, <3>3, <3>2, ConstantsAssumption DEF ConstantsAssumption
    <3>. QED  BY <1>10, <3>2, <3>3, <3>4
  <2>. QED  BY <1>4, <2>1 DEF AcceptedIsWatched
<1>. QED  BY <1>6, <1>8, <1>9, <1>11, <1>12 DEF RegistryInv, Watching, AddsOnce

LEMMA RegistryUnlink ==
    ASSUME TypeInv, SafeInv, RegistryInv, Unlink PROVE RegistryInv'
<1> DEFINE data == Removed.data
           prev == Removed.prev
<1>1. /\ pc = "unlink" /\ pc' = "client" /\ Removing
      /\ phase # "sweep" /\ phase' = phase
      /\ data \in Listed /\ data # Null /\ Neighbours(data, prev)
      /\ suspended' = <<>>
      /\ place' = [place EXCEPT ![data] = "pooled"]
      /\ \/ /\ data = head
            /\ head' = next[data]
            /\ next' = [next EXCEPT ![data] = freeHead]
         \/ /\ data # head /\ prev # Null
            /\ head' = head
            /\ next' = Relinked(data, prev)
      /\ UNCHANGED <<rec, ep, cb, sweep, nreg, accepted, ended>>
  BY DEF Unlink, SafeInv, ControlShape, RemovalShape, Neighbours,
     Removing, Removed, TypeInv, LocalsInUse, kernel, dispatch, ghosts
<1>2. /\ next \in [Record -> Record \cup {Null}] /\ data \in Record
      /\ Null \notin Record /\ Listed \subseteq Record
      /\ place \in [Record -> {"unallocated", "listed", "pooled", "leaked", "lost"}]
  BY <1>1, ConstantsAssumption
  DEF ConstantsAssumption, TypeInv, TypeOK, Listed, Placed
<1>3. Listed' = Listed \ {data}
  BY <1>1, <1>2 DEF Listed, Placed
<1>4. Ending(data) /\ (\A s \in Listed \ {data} : ~Ending(s)) /\ \A s : ~Ending(s)'
  BY <1>1 DEF Ending, Removing, Sweeping
<1>. HIDE DEF data, prev
<1>5. /\ ListHead = head /\ ListHead' = head'
      /\ head \in Listed \cup {Null}
      /\ \A r \in Listed : next[r] \in Listed \cup {Null}
  BY <1>1 DEF ListHead, SafeInv, ListShape, Chain, Listed
<1>6. /\ \A r \in Listed : rec[r].user \in 1 .. nreg
      /\ OrderShape /\ EndedShape
  BY DEF RegistryInv, OrderShape
\* Whatever is older than data is behind data's successor.
<1>7. \A s \in Listed \ {data} : rec[s].user <= rec[data].user =>
          next[data] # Null /\ rec[s].user <= rec[next[data]].user
  BY <1>1, <1>6 DEF OrderShape
<1>8. \A r \in Listed' : \/ next'[r] = next[r] /\ next[r] # data
                         \/ next[r] = data /\ next'[r] = next[data]
  <2>1. \A r \in Listed : next[r] = data => r = prev /\ data # head
    BY <1>1, <1>2, <1>5 DEF Neighbours, SafeInv, ListShape, Chain, Listed
  <2>2. CASE data = head
    BY <1>1, <1>2, <1>3, <2>1, <2>2
  <2>3. CASE data # head
    BY <1>1, <1>2, <1>3, <2>1, <2>3 DEF Relinked, Neighbours
  <2>. QED  BY <2>2, <2>3
<1>9. OrderShape'
  <2>1. \A s \in Listed' : ListHead' # Null /\ rec[s].user <= rec[ListHead'].user
    <3>1. CASE data = head
      BY <1>1, <1>3, <1>5, <1>6, <1>7, <3>1 DEF OrderShape
    <3>2. CASE data # head
      BY <1>1, <1>3, <1>5, <1>6, <3>2 DEF OrderShape
    <3>. QED  BY <3>1, <3>2
  <2>2. ASSUME NEW r \in Listed', NEW s \in Listed', rec[s].user < rec[r].user
        PROVE  next'[r] # Null /\ rec[s].user <= rec[next'[r]].user
    <3>1. r \in Listed /\ s \in Listed \ {data}
      BY <1>3
    <3>2. next[r] # Null /\ rec[s].user <= rec[next[r]].user
      BY <1>6, <2>2, <3>1 DEF OrderShape
    <3>. QED  BY <1>7, <1>8, <3>1, <3>2
  <2>3. ASSUME NEW r \in Listed', next'[r] # Null
        PROVE  rec[next'[r]].user < rec[r].user
    <3>1. CASE next'[r] = next[r]
      BY <1>3, <1>6, <2>3, <3>1 DEF OrderShape
    <3>2. CASE next[r] = data /\ next'[r] = next[data]
      <4>1. rec[data].user < rec[r].user /\ rec[next[data]].user < rec[data].user
        BY <1>1, <1>3, <1>6, <2>3, <3>2 DEF OrderShape
      <4>2. /\ rec[data].user \in 1 .. nreg /\ rec[r].user \in 1 .. nreg
            /\ rec[next[data]].user \in 1 .. nreg
        BY <1>1, <1>3, <1>5, <1>6, <2>3, <3>2
      <4>. QED  BY <3>2, <4>1, <4>2
    <3>. QED  BY <1>8, <3>1, <3>2
  <2>. QED  BY <1>1, <1>3, <1>6, <2>1, <2>2, <2>3 DEF OrderShape
<1>10. EndedShape'
  <2>1. ended[rec[data].user] = 1
    BY <1>1, <1>4, <1>6 DEF EndedShape
  <2>2. \A u \in 1 .. nreg' : ended'[u] = 0 => \E r \in Listed' : rec'[r].user = u
    BY <1>1, <1>3, <1>6, <2>1 DEF EndedShape
  <2>. QED  BY <1>1, <1>3, <1>4, <1>6, <2>2 DEF EndedShape
<1>11. PassedShape'
  BY <1>1 DEF RegistryInv, PassedShape
<1>12. Watching'
  BY <1>1, <1>3
  DEF RegistryInv, Watching, AddsOnce, WatchShape, AcceptedIsWatched
<1>. QED  BY <1>9, <1>10, <1>11, <1>12 DEF RegistryInv

-----------------------------------------------------------------------------
(* mainloop_quit, the dispatch loop, and the returns of client code.       *)

LEMMA RegistryQuit ==
    ASSUME Gentle, TypeInv, SafeInv, RegistryInv,
           CallQuit \/ QuitFree \/ QuitDone
    PROVE  RegistryInv'
<1>1. /\ pc' \in {"quit", "client"} /\ phase # "sweep"
      /\ UNCHANGED <<head, next, rec, ep, cb, phase, suspended, sweep,
                     nreg, accepted, ended>>
  BY AddAllowed DEF CallQuit, QuitFree, QuitDone, SafeInv, ControlShape,
     memory, kernel, dispatch, ghosts
<1>2. Listed' = Listed
  <2>1. CASE CallQuit \/ QuitDone
    BY <2>1 DEF CallQuit, QuitDone, memory, Listed, Placed
  <2>2. CASE QuitFree
    <3>1. find.data \notin Listed
      BY <2>2 DEF QuitFree, SafeInv, ControlShape, PoolShape, PoolInUse, PoolHead,
         Chain, Listed, Placed
    <3>2. \A s \in Record : s # find.data => place'[s] = place[s]
      BY <2>2 DEF QuitFree, TypeInv, TypeOK
    <3>3. place'[find.data] # "listed" \/ find.data \notin Record
      BY <2>2 DEF QuitFree, TypeInv, TypeOK
    <3>. QED  BY <3>1, <3>2, <3>3 DEF Listed, Placed
  <2>. QED  BY <2>1, <2>2
<1>3. ListHead' = ListHead
  BY <1>1 DEF ListHead
<1>4. \A s : Ending(s)' <=> Ending(s)
  BY <1>1 DEF Ending, Removing, Removed, Sweeping
<1>5. OrderShape'
  BY <1>1, <1>2, <1>3 DEF RegistryInv, OrderShape
<1>6. EndedShape'
  BY <1>1, <1>2, <1>4 DEF RegistryInv, EndedShape
<1>7. PassedShape'
  BY <1>1 DEF RegistryInv, PassedShape
<1>8. Watching'
  BY <1>1, <1>2
  DEF RegistryInv, Watching, AddsOnce, WatchShape, AcceptedIsWatched
<1>. QED  BY <1>5, <1>6, <1>7, <1>8 DEF RegistryInv

LEMMA RegistryEpollWait ==
    ASSUME TypeInv, SafeInv, RegistryInv, NEW fds, EpollWait(fds)
    PROVE  RegistryInv'
<1>1. /\ pc' = "dispatch" /\ pc = "loop" /\ phase = "run" /\ suspended = <<>>
      /\ \A fd \in Fd : ep'[fd].rec = ep[fd].rec
      /\ UNCHANGED <<head, next, rec, place, cb, phase, suspended, sweep,
                     nreg, accepted, ended>>
  BY DEF EpollWait, SafeInv, ControlShape, Removing, TypeInv, LocalsInUse,
     memory, frames, ghosts
<1>2. PassedShape' /\ ListHead' = ListHead
  BY <1>1 DEF RegistryInv, PassedShape, ListHead
<1>3. \A r \in Listed : Ending(r)' <=> Ending(r)
  BY <1>1 DEF Ending, Removing, Sweeping
<1>. QED  BY <1>1, <1>2, <1>3, RegistryQuiet

LEMMA RegistryDispatch ==
    ASSUME TypeInv, SafeInv, RegistryInv, NEW r \in Record,
           DispatchEvent(r) \/ DispatchTimeout(r) \/ DispatchNothing(r)
    PROVE  RegistryInv'
<1>1. pc = "dispatch" /\ phase = "run" /\ suspended = <<>>
  BY DEF DispatchEvent, DispatchTimeout, DispatchNothing, Deliver, SafeInv,
     ControlShape, Removing, TypeInv, LocalsInUse
<1>2. /\ pc' \in {"client", "dispatch"}
      /\ UNCHANGED <<head, next, rec, place, ep, phase, suspended, sweep,
                     nreg, accepted, ended>>
  BY <1>1 DEF DispatchEvent, DispatchTimeout, DispatchNothing, Deliver, RunCallback,
     memory, kernel, frames, ghosts
<1>3. PassedShape' /\ ListHead' = ListHead
  BY <1>2 DEF PassedShape, ListHead
<1>4. \A s \in Listed : Ending(s)' <=> Ending(s)
  BY <1>1, <1>2 DEF Ending, Removing, Sweeping
<1>. QED  BY <1>1, <1>2, <1>3, <1>4, RegistryQuiet

LEMMA RegistryTurns ==
    ASSUME TypeInv, SafeInv, RegistryInv,
           BatchDone \/ LoopEnds \/ CallRun \/ ClientReturns
    PROVE  RegistryInv'
<1>1. /\ pc' \in {"loop", "sweep", "dispatch", "release", "unlink"}
      /\ UNCHANGED <<head, next, rec, place, ep, suspended, nreg, accepted, ended>>
      /\ \/ phase' = phase /\ sweep' = sweep
         \/ /\ phase # "sweep" /\ suspended = <<>>
            /\ \/ phase' = "run"
               \/ phase' = "sweep" /\ pc' = "sweep" /\ sweep'.data = head
  BY DEF BatchDone, LoopEnds, CallRun, ClientReturns, DestroyReturns,
     CallbackReturns, SweepDestroyReturns, SafeInv, ControlShape, Removing,
     TypeInv, LocalsInUse, memory, kernel, dispatch, frames, ghosts
<1>2. PassedShape' /\ ListHead' = ListHead
  BY <1>1 DEF RegistryInv, PassedShape, ListHead
<1>3. \A s \in Listed : Ending(s)' <=> Ending(s)
  BY <1>1 DEF BatchDone, LoopEnds, CallRun, ClientReturns, DestroyReturns,
     CallbackReturns, SweepDestroyReturns, Ending, Removing, Removed, Sweeping,
     frames, TypeInv, LocalsInUse, SafeInv, ControlShape
<1>4. phase' # "sweep" => phase # "sweep"
  BY <1>1
<1>. QED  BY <1>1, <1>2, <1>3, <1>4, RegistryQuiet

-----------------------------------------------------------------------------
(* The final sweep, a restart, and the steps of the kernel.                *)

\* Under the invariant the sweep ends when every record is freed.
LEMMA NothingListed ==
    ASSUME RegistryInv, ListHead = Null PROVE Listed = {}
  BY DEF RegistryInv, OrderShape

LEMMA RegistrySweepRecord ==
    ASSUME TypeInv, SafeInv, RegistryInv, SweepRecord PROVE RegistryInv'
<1> DEFINE r == sweep.data
<1>1. /\ pc = "sweep" /\ phase = "sweep" /\ phase' = "sweep"
      /\ pc' \in {"client", "release"} /\ suspended = <<>> /\ suspended' = <<>>
      /\ sweep'.data = r /\ ended' = EndedBy(r) /\ r # Null
      /\ UNCHANGED <<next, rec, place, cb, nreg, accepted>>
  BY DEF SweepRecord, SafeInv, ControlShape, Removing, TypeInv, LocalsInUse,
     memory, dispatch
<1>2. ListHead = r /\ ListHead' = r /\ Listed' = Listed
  BY <1>1 DEF ListHead, Listed, Placed
<1>3. r \in Listed
  BY <1>1, <1>2 DEF SafeInv, ListShape, Chain, Listed
<1>4. \A s : ~Ending(s) /\ (Ending(s)' <=> s = r)
  BY <1>1 DEF Ending, Removing, Sweeping
<1>. HIDE DEF r
<1>5. ended[rec[r].user] = 0
  BY <1>3, <1>4 DEF RegistryInv, EndedShape
<1>6. EndedShape'
  BY <1>1, <1>2, <1>3, <1>4, <1>5, EndedOne
<1>7. OrderShape'
  BY <1>1, <1>2, OrderSame
<1>8. PassedShape' /\ Watching'
  BY <1>1
  DEF RegistryInv, PassedShape, Watching, AddsOnce, WatchShape, AcceptedIsWatched
<1>. QED  BY <1>6, <1>7, <1>8 DEF RegistryInv

LEMMA RegistrySweepFree ==
    ASSUME TypeInv, SafeInv, RegistryInv, SweepFree PROVE RegistryInv'
<1> DEFINE r == sweep.data
<1>1. /\ pc = "release" /\ pc' = "sweep" /\ phase = "sweep" /\ phase' = "sweep"
      /\ suspended = <<>> /\ suspended' = <<>> /\ r \in Listed
      /\ place' = [place EXCEPT ![r] = "unallocated"]
      /\ sweep'.data = next[r]
      /\ UNCHANGED <<next, rec, cb, nreg, accepted, ended>>
  BY DEF SweepFree, SafeInv, ControlShape, SweepShape, Removing, Sweeping,
     TypeInv, LocalsInUse, kernel, dispatch, ghosts
<1>2. ListHead = r /\ ListHead' = next[r]
  BY <1>1 DEF ListHead
<1>3. Ending(r) /\ (\A s \in Listed \ {r} : ~Ending(s)) /\ \A s : ~Ending(s)'
  BY <1>1 DEF Ending, Removing, Sweeping
<1>. HIDE DEF r
<1>4. Listed' = Listed \ {r} /\ r # Null
  BY <1>1, ConstantsAssumption
  DEF ConstantsAssumption, TypeInv, TypeOK, Listed, Placed
<1>5. /\ \A s \in Listed : rec[s].user \in 1 .. nreg
      /\ OrderShape /\ EndedShape
  BY DEF RegistryInv, OrderShape
<1>6. OrderShape'
  BY <1>1, <1>2, <1>4, <1>5 DEF OrderShape
<1>7. EndedShape'
  <2>1. ended[rec[r].user] = 1
    BY <1>1, <1>3, <1>5 DEF EndedShape
  <2>2. \A u \in 1 .. nreg' : ended'[u] = 0 => \E s \in Listed' : rec'[s].user = u
    BY <1>1, <1>4, <1>5, <2>1 DEF EndedShape
  <2>. QED  BY <1>1, <1>3, <1>4, <1>5, <2>2 DEF EndedShape
<1>8. PassedShape' /\ Watching'
  BY <1>1
  DEF RegistryInv, PassedShape, Watching, AddsOnce, WatchShape, AcceptedIsWatched
<1>. QED  BY <1>6, <1>7, <1>8 DEF RegistryInv

LEMMA RegistrySweepDone ==
    ASSUME TypeInv, SafeInv, RegistryInv, SweepDone
    PROVE  RegistryInv' /\ Listed = {}
<1>1. /\ pc = "sweep" /\ pc' = "stopped" /\ phase = "sweep" /\ phase' = "sweep"
      /\ suspended = <<>> /\ sweep.data = Null
      /\ UNCHANGED <<head, next, rec, place, cb, suspended, sweep, nreg, accepted,
                     ended>>
  BY DEF SweepDone, SafeInv, ControlShape, Removing, TypeInv, LocalsInUse,
     memory, dispatch, frames, ghosts
<1>2. Listed = {}
  BY <1>1, NothingListed DEF ListHead
<1>3. PassedShape' /\ ListHead' = ListHead
  BY <1>1 DEF RegistryInv, PassedShape, ListHead
<1>. QED  BY <1>1, <1>2, <1>3, RegistryQuiet

LEMMA RegistryMainloopInit ==
    ASSUME TypeInv, SafeInv, RegistryInv, MainloopInit PROVE RegistryInv'
<1>1. /\ pc \in {"boot", "stopped"} /\ pc' = "client" /\ phase' = "setup"
      /\ \A fd \in Fd : ep'[fd].rec = Null
      /\ \A r \in Record : place'[r] # "listed"
      /\ UNCHANGED <<cb, nreg, accepted, ended>>
  BY DEF MainloopInit, Unwatched, frames, ghosts
<1>2. Listed = {} /\ Listed' = {}
  BY <1>1 DEF RegistryInv, EndedShape, Listed, Placed
<1>3. OrderShape' /\ PassedShape'
  BY <1>1, <1>2 DEF OrderShape, PassedShape
<1>4. EndedShape'
  BY <1>1, <1>2 DEF RegistryInv, EndedShape
<1>5. Watching'
  BY <1>1, <1>2
  DEF RegistryInv, Watching, AddsOnce, WatchShape, AcceptedIsWatched, Fd
<1>. QED  BY <1>3, <1>4, <1>5 DEF RegistryInv

LEMMA RegistryIdle ==
    ASSUME TypeInv, RegistryInv,
           \/ \E fd \in TimerFd : \/ TimerExpire(fd)
                                  \/ \E set \in BOOLEAN : AddTimeoutNoMemory(fd, set)
           \/ UNCHANGED vars
    PROVE  RegistryInv'
<1>1. UNCHANGED <<head, next, rec, place, ep, cb, pc, phase, find, suspended,
                  sweep, nreg, accepted, ended>>
  BY DEF TimerExpire, AddTimeoutNoMemory, vars, memory, kernel, dispatch, frames,
     ghosts
<1>2. PassedShape' /\ ListHead' = ListHead
  BY <1>1 DEF RegistryInv, PassedShape, ListHead, Listed, Placed
<1>3. \A r \in Listed : Ending(r)' <=> Ending(r)
  BY <1>1 DEF Ending, Removing, Removed, Sweeping
<1>4. pc' \in {"boot", "stopped"} => Listed = {}
  BY <1>1 DEF RegistryInv, EndedShape
<1>. QED  BY <1>1, <1>2, <1>3, <1>4, RegistryQuiet

LEMMA RegistryCrash ==
    ASSUME Gentle, TypeInv, SafeInv, RegistryInv,
           UseAfterFree \/ DoubleFree \/ NullDereference
    PROVE  RegistryInv'
<1>1. /\ pc = "dispatch" /\ pc' = "crashed"
      /\ UNCHANGED <<head, next, rec, place, ep, phase, suspended, sweep,
                     nreg, accepted, ended>>
  BY OnlyStaleEvents DEF memory, kernel, frames
<1>2. PassedShape' /\ ListHead' = ListHead
  BY <1>1 DEF PassedShape, ListHead
<1>3. \A r \in Listed : Ending(r)' <=> Ending(r)
  BY <1>1 DEF Ending, Removing, Removed, Sweeping, TypeInv, LocalsInUse
<1>. QED  BY <1>1, <1>2, <1>3, RegistryQuiet

LEMMA RegistryNext ==
    ASSUME Gentle, TypeInv, SafeInv, RegistryInv, [Next]_vars
    PROVE  RegistryInv'
<1>1. CASE ClientCall
  BY <1>1, RegistryAdd, RegistryAddTimeoutRefused, RegistryIdle, RegistryCalls,
     RegistryQuit DEF ClientCall
<1>2. CASE FinishCall
  BY <1>2, RegistryFindNext, RegistryLookupEnds, RegistryRemoveFound,
     RegistryUnlink, RegistryQuit DEF FinishCall
<1>3. CASE Loop
  BY <1>3, RegistryEpollWait, RegistryDispatch, RegistryTurns,
     RegistrySweepRecord, RegistrySweepFree, RegistrySweepDone DEF Loop
<1>. QED
  BY <1>1, <1>2, <1>3, RegistryMainloopInit, RegistryTurns, RegistryIdle,
     RegistryCrash DEF Next

LEMMA RegistryAlways ==
    ASSUME Gentle
    PROVE  Spec => [](TypeInv /\ SafeInv /\ RegistryInv)
<1>1. Init => TypeInv /\ SafeInv /\ RegistryInv
  BY TypeInit, SafeInit, RegistryInit
<1>2. TypeInv /\ SafeInv /\ RegistryInv /\ [Next]_vars
      => (TypeInv /\ SafeInv /\ RegistryInv)'
  BY TypeNext, SafeNext, RegistryNext
<1>. QED  BY <1>1, <1>2, PTL DEF Spec

\* A client that keeps the contract never loses events: what mainloop_add_fd
\* or mainloop_add_timeout accepted is watched by the kernel, under its own
\* record, until it is removed.
THEOREM AcceptedStaysWatched ==
    ASSUME Gentle, AddsOnce PROVE Spec => []AcceptedIsWatched
<1>1. TypeInv /\ SafeInv /\ RegistryInv => AcceptedIsWatched
  BY DEF RegistryInv, Watching
<1>. QED  BY <1>1, RegistryAlways, PTL

-----------------------------------------------------------------------------
(* The implementation of CallbackRegistry, step by step.                   *)

\* The registration whose callback runs is known by its descriptor too.
CallbackShape == cb.user = 0 <=> cb.fd = NoFd

\* What a dispatched event is about.
LEMMA Dispatched ==
    ASSUME TypeInv, SafeInv, BatchInv, RegistryInv, CallbackShape, NEW r \in Record,
           DispatchEvent(r) \/ DispatchTimeout(r) \/ DispatchNothing(r)
    PROVE  /\ pc = "dispatch" /\ cb.user = 0
           /\ rec[r].fd # NoFd /\ rec[r].user \in 1 .. nreg
           /\ ended[rec[r].user] = 0
<1>1. /\ pc = "dispatch" /\ phase = "run" /\ suspended = <<>> /\ cb.fd = NoFd
      /\ r \in Listed /\ rec[r].fd \in Fd
  BY DEF DispatchEvent, DispatchTimeout, DispatchNothing, Deliver, BatchInv,
     BatchShape, SafeInv, ControlShape, Removing, TypeInv, LocalsInUse
<1>2. rec[r].user \in 1 .. nreg /\ cb.user = 0
  BY <1>1 DEF RegistryInv, OrderShape, CallbackShape
<1>3. ~Ending(r)
  BY <1>1 DEF Ending, Removing, Sweeping
<1>4. ended[rec[r].user] = 0
  BY <1>1, <1>3 DEF RegistryInv, EndedShape
<1>. QED
  BY <1>1, <1>2, <1>4, ConstantsAssumption DEF ConstantsAssumption, Fd, NoFd

LEMMA CallbackNext ==
    ASSUME Gentle, TypeInv, SafeInv, BatchInv, RegistryInv, CallbackShape,
           [Next]_vars
    PROVE  CallbackShape'
<1>1. ASSUME NEW r \in Record,
             DispatchEvent(r) \/ DispatchTimeout(r) \/ DispatchNothing(r)
      PROVE  CallbackShape'
  <2>1. rec[r].fd # NoFd /\ rec[r].user # 0
    BY <1>1, Dispatched DEF TypeInv, TypeOK
  <2>2. cb' = cb \/ cb' = [fd |-> rec[r].fd, user |-> rec[r].user]
    BY <1>1 DEF DispatchEvent, DispatchTimeout, DispatchNothing, Deliver, RunCallback
  <2>. QED  BY <2>1, <2>2 DEF CallbackShape
<1>2. CASE CallbackReturns
  BY <1>2 DEF CallbackReturns, NoCallback, CallbackShape
<1>3. CASE ClientCall
  BY <1>3 DEF ClientCall, AddFd, AddFdRefused, AddTimeout, AddTimeoutRefused,
     AddTimeoutNoMemory, CallRemoveFd, CallModifyFd, CallModifyTimeout, CallQuit,
     Register, StartFind, dispatch, CallbackShape
<1>4. CASE FinishCall
  BY <1>4 DEF FinishCall, FindNext, NotFound, ModifyFound, RemoveFound, Unlink,
     QuitFree, QuitDone, dispatch, CallbackShape
<1>5. CASE \/ BatchDone \/ LoopEnds \/ SweepRecord \/ SweepFree \/ SweepDone
           \/ \E fds \in SUBSET CanFire : EpollWait(fds)
  BY <1>5 DEF BatchDone, LoopEnds, SweepRecord, SweepFree, SweepDone, EpollWait,
     dispatch, CallbackShape
<1>6. CASE \/ MainloopInit \/ CallRun \/ DestroyReturns \/ SweepDestroyReturns
           \/ (\E fd \in TimerFd : TimerExpire(fd)) \/ UNCHANGED vars
  BY <1>6 DEF MainloopInit, CallRun, DestroyReturns, SweepDestroyReturns,
     TimerExpire, vars, dispatch, CallbackShape
<1>. QED
  BY <1>1, <1>2, <1>3, <1>4, <1>5, <1>6, NoFaultStep DEF Next, Loop, ClientReturns

\* What Registry calls status (of one registration, and of all) and over.
Standing(u) == IF u > nreg THEN "fresh"
               ELSE IF ended[u] = 0 THEN "active"
               ELSE IF ended[u] = 1 THEN "ended"
               ELSE "ended twice"
Status == [u \in User |-> Standing(u)]
Over == pc \in {"boot", "stopped"}

LEMMA StatusChanges ==
    ASSUME NEW u \in User, NEW s, Standing(u)' = s,
           \A v \in User \ {u} : Standing(v)' = Standing(v)
    PROVE  Status' = [Status EXCEPT ![u] = s]
BY DEF Status

\* One step of one registration is a step of the registry.
LEMMA OneRegistration ==
    ASSUME NEW u \in User,
           \/ Registry!Register(u) \/ Registry!Refuse(u)
           \/ Registry!End(u) \/ Registry!Fire(u)
    PROVE  Registry!Step
<1>1. Registry!Next
  BY DEF Registry!Next
<1>. QED  BY <1>1 DEF Registry!Step

\* Steps the registry does not see.
LEMMA RegistryStutter ==
    ASSUME UNCHANGED <<nreg, ended, cb>>, Over' = Over
    PROVE  Registry!Step
<1>1. Status' = Status
  BY DEF Status, Standing
<1>2. cb.user' = cb.user
  OBVIOUS
<1>3. UNCHANGED Registry!vars
  BY <1>1, <1>2, Zenon DEF Status, Standing, Over, Registry!vars
<1>. QED  BY <1>3 DEF Registry!Step

LEMMA StutterInside ==
    ASSUME UNCHANGED <<nreg, ended, cb>>, ~Over, ~Over'
    PROVE  Registry!Step
<1>1. UNCHANGED <<pc \in {"boot", "stopped"}>>
  BY DEF Over
<1>. QED  BY <1>1, RegistryStutter DEF Over

LEMMA RegistryRegisters ==
    ASSUME TypeInv, RegistryInv, ~Over, UNCHANGED <<pc, cb, ended>>,
           nreg < MaxReg, nreg' = nreg + 1
    PROVE  Registry!Step
<1>1. PICK u \in User :
         /\ ended[u] = 0 /\ u > nreg /\ ~(u > nreg')
         /\ \A v \in User \ {u} : v > nreg <=> v > nreg'
  <2>1. nreg \in Nat /\ MaxReg \in Nat /\ nreg + 1 \in User
    BY ConstantsAssumption DEF ConstantsAssumption, TypeInv, TypeOK, User
  <2>2. ended[nreg + 1] = 0
    BY <2>1 DEF RegistryInv, EndedShape
  <2>. QED  BY <2>1, <2>2 DEF User
<1>2. Standing(u) = "fresh" /\ Standing(u)' = "active"
  BY <1>1 DEF Standing
<1>3. \A v \in User \ {u} : Standing(v)' = Standing(v)
  BY <1>1 DEF Standing
<1>4. Status' = [Status EXCEPT ![u] = "active"]
  BY <1>2, <1>3, StatusChanges
<1>5. Status[u] = "fresh"
  BY <1>2 DEF Status
<1>6. UNCHANGED <<cb.user, pc \in {"boot", "stopped"}>>
  OBVIOUS
<1>7. pc \notin {"boot", "stopped"}
  BY DEF Over
<1>8. Registry!Register(u)
  BY <1>4, <1>5, <1>6, <1>7, Zenon DEF Registry!Register, Status, Standing
<1>. QED  BY <1>8, OneRegistration

\* A refused timeout is a registration that is over at once.
LEMMA RegistryRefuses ==
    ASSUME TypeInv, RegistryInv, NEW fd, NEW r, NEW d, AddTimeoutRefused(fd, r, d)
    PROVE  Registry!Step
<1>1. /\ pc = "client" /\ UNCHANGED <<pc, cb>>
      /\ nreg < MaxReg /\ nreg' = nreg + 1
      /\ ended' = [ended EXCEPT ![nreg + 1] = 1]
  BY DEF AddTimeoutRefused, May, dispatch
<1>2. PICK u \in User :
         /\ ended'[u] = 1 /\ u > nreg /\ ~(u > nreg')
         /\ \A v \in User \ {u} : /\ v > nreg <=> v > nreg'
                                  /\ ended'[v] = ended[v]
  <2>1. /\ nreg \in Nat /\ MaxReg \in Nat /\ nreg + 1 \in User
        /\ ended \in [User -> 0 .. 2]
    BY <1>1, ConstantsAssumption DEF ConstantsAssumption, TypeInv, TypeOK, User
  <2>. QED  BY <1>1, <2>1 DEF User
<1>3. Standing(u) = "fresh" /\ Standing(u)' = "ended"
  BY <1>2 DEF Standing
<1>4. \A v \in User \ {u} : Standing(v)' = Standing(v)
  BY <1>2 DEF Standing
<1>5. Status' = [Status EXCEPT ![u] = "ended"]
  BY <1>3, <1>4, StatusChanges
<1>6. Status[u] = "fresh"
  BY <1>3 DEF Status
<1>7. /\ UNCHANGED <<cb.user, pc \in {"boot", "stopped"}>>
      /\ pc \notin {"boot", "stopped"}
  BY <1>1
<1>8. Registry!Refuse(u)
  BY <1>5, <1>6, <1>7, Zenon DEF Registry!Refuse, Status, Standing
<1>. QED  BY <1>8, OneRegistration

LEMMA RegistryEnds ==
    ASSUME TypeInv, RegistryInv, NEW r \in Listed, ended[rec[r].user] = 0,
           ended' = EndedBy(r), UNCHANGED <<nreg, cb>>, ~Over, ~Over'
    PROVE  Registry!Step
<1>1. PICK u \in User :
         /\ u \in 1 .. nreg /\ nreg \in Nat /\ ended[u] = 0 /\ ended'[u] = 1
         /\ \A v \in User \ {u} : ended'[v] = ended[v]
  BY EndedByOnce, ConstantsAssumption
  DEF ConstantsAssumption, RegistryInv, OrderShape, TypeInv, TypeOK
<1>2. Standing(u) = "active" /\ Standing(u)' = "ended"
  BY <1>1 DEF Standing
<1>3. \A v \in User \ {u} : Standing(v)' = Standing(v)
  BY <1>1 DEF Standing
<1>4. Status' = [Status EXCEPT ![u] = "ended"]
  BY <1>2, <1>3, StatusChanges
<1>5. Status[u] = "active"
  BY <1>2 DEF Status
<1>6. UNCHANGED <<cb.user, pc \in {"boot", "stopped"}>>
  BY DEF Over
<1>7. pc \notin {"boot", "stopped"}
  BY DEF Over
<1>8. Registry!End(u)
  BY <1>4, <1>5, <1>6, <1>7, Zenon DEF Registry!End, Status, Standing
<1>. QED  BY <1>8, OneRegistration

LEMMA RegistryFires ==
    ASSUME TypeInv, SafeInv, BatchInv, RegistryInv, CallbackShape, NEW r \in Record,
           DispatchEvent(r) \/ DispatchTimeout(r) \/ DispatchNothing(r)
    PROVE  Registry!Step
<1>1. PICK u \in 1 .. nreg :
         /\ pc = "dispatch" /\ cb.user = 0
         /\ u = rec[r].user /\ ended[u] = 0
  BY Dispatched
<1>2. /\ UNCHANGED <<nreg, ended>> /\ pc' \in {"client", "dispatch"}
      /\ cb' = cb \/ cb'.user = u
  BY <1>1 DEF DispatchEvent, DispatchTimeout, DispatchNothing, Deliver,
     RunCallback, ghosts
<1>3. u \in User /\ nreg \in Nat
  BY <1>1, ConstantsAssumption DEF ConstantsAssumption, User, TypeInv, TypeOK
<1>4. ~Over /\ ~Over'
  BY <1>1, <1>2 DEF Over
<1>5. Standing(u) = "active"
  BY <1>1, <1>3 DEF Standing
<1>6. Status' = Status /\ Status[u] = "active"
  BY <1>2, <1>3, <1>5 DEF Status, Standing
<1>7. CASE cb' = cb
  BY <1>2, <1>4, <1>7, StutterInside
<1>8. CASE cb'.user = u
  <2>1. UNCHANGED <<Status, pc \in {"boot", "stopped"}>>
    BY <1>4, <1>6 DEF Over
  <2>2. pc \notin {"boot", "stopped"}
    BY <1>4 DEF Over
  <2>3. Registry!Fire(u)
    BY <1>1, <1>6, <1>8, <2>1, <2>2, Zenon DEF Registry!Fire, Status, Standing
  <2>. QED  BY <1>3, <2>3, OneRegistration
<1>. QED  BY <1>2, <1>7, <1>8

\* A callback that returns was a registration's, or (in the setup) none ran.
LEMMA RegistryFired ==
    ASSUME CallbackReturns
    PROVE  Registry!Step
<1>1. /\ UNCHANGED <<nreg, ended>> /\ cb'.user = 0
      /\ pc = "client" /\ pc' = "dispatch"
  BY DEF CallbackReturns, ghosts, NoCallback
<1>2. UNCHANGED <<Status, pc \in {"boot", "stopped"}>>
  BY <1>1 DEF Status, Standing
<1>3. Registry!Fired \/ UNCHANGED Registry!vars
  BY <1>1, <1>2, Zenon DEF Registry!Fired, Registry!vars, Status, Standing
<1>. QED  BY <1>3 DEF Registry!Step, Registry!Next

\* mainloop_run returns with nothing on the list, so nothing is active.
LEMMA RegistryFinishes ==
    ASSUME TypeInv, SafeInv, RegistryInv, CallbackShape, SweepDone
    PROVE  Registry!Step
<1>1. /\ pc = "sweep" /\ pc' = "stopped" /\ UNCHANGED <<nreg, ended, cb>>
  BY DEF SweepDone, ghosts, dispatch
<1>2. Listed = {} /\ cb.user = 0
  <2>1. phase = "sweep" /\ cb.fd = NoFd
    BY <1>1 DEF TypeInv, LocalsInUse, SafeInv, ControlShape
  <2>. QED  BY <2>1, RegistrySweepDone DEF CallbackShape
<1>3. \A u \in User : Status[u] # "active"
  BY <1>2 DEF RegistryInv, EndedShape, Status, Standing, User, TypeInv, TypeOK
<1>4. UNCHANGED <<Status, cb.user>>
  BY <1>1 DEF Status, Standing
<1>5. Registry!Finish
  BY <1>1, <1>2, <1>3, <1>4, Zenon DEF Registry!Finish, Status, Standing
<1>. QED  BY <1>5 DEF Registry!Step, Registry!Next

LEMMA RegistryRestarts ==
    ASSUME MainloopInit
    PROVE  Registry!Step
<1>1. /\ pc \in {"boot", "stopped"} /\ pc' = "client"
      /\ UNCHANGED <<nreg, ended, cb>>
  BY DEF MainloopInit, ghosts
<1>2. /\ UNCHANGED <<Status, cb.user>>
      /\ (pc \in {"boot", "stopped"})' = FALSE
  BY <1>1 DEF Status, Standing
<1>3. Registry!Restart
  BY <1>1, <1>2, Zenon DEF Registry!Restart, Status, Standing
<1>. QED  BY <1>3 DEF Registry!Step, Registry!Next

LEMMA RegistryCallSteps ==
    ASSUME TypeInv, SafeInv, RegistryInv, ClientCall
    PROVE  Registry!Step
<1> DEFINE Refused == \E fd \in TimerFd, r \in Record, d \in BOOLEAN :
                         AddTimeoutRefused(fd, r, d)
<1>0. CASE Refused
  BY <1>0, RegistryRefuses
<1>. SUFFICES ASSUME ~Refused PROVE Registry!Step
  BY <1>0
<1>1. pc = "client" /\ pc' \in {"client", "find", "quit"} /\ UNCHANGED <<cb, ended>>
  BY DEF ClientCall, AddFd, AddFdRefused, AddTimeout,
     AddTimeoutNoMemory, CallRemoveFd, CallModifyFd, CallModifyTimeout, CallQuit,
     Register, StartFind, May, dispatch, ghosts
<1>2. \/ nreg' = nreg
      \/ nreg < MaxReg /\ nreg' = nreg + 1 /\ pc' = pc
  BY DEF ClientCall, AddFd, AddFdRefused, AddTimeout,
     AddTimeoutNoMemory, CallRemoveFd, CallModifyFd, CallModifyTimeout, CallQuit,
     Register, StartFind, ghosts
<1>. HIDE DEF Refused
<1>3. ~Over /\ ~Over'
  BY <1>1 DEF Over
<1>4. CASE nreg' = nreg
  BY <1>1, <1>3, <1>4, StutterInside
<1>. QED  BY <1>1, <1>2, <1>3, <1>4, RegistryRegisters

LEMMA RegistryFinishSteps ==
    ASSUME TypeInv, SafeInv, RegistryInv, FinishCall
    PROVE  Registry!Step
<1>1. /\ pc \in {"find", "unlink", "quit"}
      /\ pc' \in {"find", "client", "quit", "unlink"} /\ UNCHANGED <<cb, nreg>>
  BY DEF FinishCall, FindNext, NotFound, ModifyFound, RemoveFound, Unlink,
     QuitFree, QuitDone, Found, dispatch, ghosts
<1>2. ~Over /\ ~Over'
  BY <1>1 DEF Over
<1>3. CASE RemoveFound
  <2>1. /\ find.data \in Listed /\ ended[rec[find.data].user] = 0
        /\ ended' = EndedBy(find.data)
    <3>1. /\ find.data \in Listed /\ suspended = <<>> /\ phase # "sweep"
          /\ ended' = EndedBy(find.data)
      BY <1>3, FoundIsWatched, RemovesAlone DEF RemoveFound
    <3>2. ~Ending(find.data)
      BY <3>1 DEF Ending, Removing, Sweeping
    <3>. QED  BY <3>1, <3>2 DEF RegistryInv, EndedShape
  <2>. QED  BY <1>1, <1>2, <2>1, RegistryEnds
<1>4. CASE ended' = ended
  BY <1>1, <1>2, <1>4, StutterInside
<1>. QED
  BY <1>3, <1>4 DEF FinishCall, FindNext, NotFound, ModifyFound, Unlink,
     QuitFree, QuitDone, ghosts

LEMMA RegistryLoopSteps ==
    ASSUME TypeInv, SafeInv, BatchInv, RegistryInv, CallbackShape, Loop
    PROVE  Registry!Step
<1>1. CASE SweepRecord
  <2>1. /\ sweep.data \in Listed /\ ended[rec[sweep.data].user] = 0
        /\ ended' = EndedBy(sweep.data) /\ UNCHANGED <<cb, nreg>>
        /\ pc = "sweep" /\ pc' \in {"client", "release"}
    <3>1. /\ ended' = EndedBy(sweep.data) /\ UNCHANGED <<cb, nreg>>
          /\ pc = "sweep" /\ pc' \in {"client", "release"} /\ sweep.data # Null
          /\ phase = "sweep" /\ suspended = <<>>
      BY <1>1 DEF SweepRecord, dispatch, SafeInv, ControlShape, Removing, TypeInv,
         LocalsInUse
    <3>2. sweep.data \in Listed /\ ~Ending(sweep.data)
      BY <3>1 DEF ListHead, SafeInv, ListShape, Chain, Listed, Ending, Removing,
         Sweeping
    <3>. QED  BY <3>1, <3>2 DEF RegistryInv, EndedShape
  <2>. QED  BY <2>1, RegistryEnds DEF Over
<1>2. CASE \/ BatchDone \/ LoopEnds \/ SweepFree
           \/ \E fds \in SUBSET CanFire : EpollWait(fds)
  <2>1. /\ pc \in {"dispatch", "loop", "release"}
        /\ pc' \in {"loop", "sweep", "dispatch"}
        /\ UNCHANGED <<cb, nreg, ended>>
    BY <1>2 DEF BatchDone, LoopEnds, SweepFree, EpollWait, dispatch, ghosts
  <2>. QED  BY <2>1, StutterInside DEF Over
<1>. QED  BY <1>1, <1>2, RegistryFires, RegistryFinishes DEF Loop

\* Every step of the event loop is a step of the registry, or one it does
\* not see.
LEMMA RegistryStep ==
    ASSUME Gentle, TypeInv, SafeInv, BatchInv, RegistryInv, CallbackShape,
           [Next]_vars
    PROVE  Registry!Step
<1>1. CASE CallRun \/ DestroyReturns \/ SweepDestroyReturns
  <2>1. /\ pc = "client" /\ pc' \in {"loop", "unlink", "release"}
        /\ UNCHANGED <<cb, nreg, ended>>
    BY <1>1 DEF CallRun, DestroyReturns, SweepDestroyReturns, dispatch, ghosts
  <2>. QED  BY <2>1, StutterInside DEF Over
<1>2. CASE UNCHANGED vars \/ \E fd \in TimerFd : TimerExpire(fd)
  <2>1. UNCHANGED <<pc, cb, nreg, ended>>
    BY <1>2 DEF vars, TimerExpire, dispatch, ghosts
  <2>. QED  BY <2>1, RegistryStutter DEF Over
<1>. QED
  BY <1>1, <1>2, NoFaultStep, RegistryRestarts, RegistryCallSteps,
     RegistryFinishSteps, RegistryLoopSteps, RegistryFired
  DEF Next, ClientReturns

\* Each registration is accepted once, its callback runs only while it is
\* active, its destroy callback is due once, and mainloop_run returns with
\* none active: mainloop.c implements CallbackRegistry, also for clients that
\* add a descriptor again.
THEOREM RegistryImplemented ==
    ASSUME Gentle, OwnOnly PROVE Spec => ImplementsRegistry
<1>1. Init => Registry!Init
  <2>. SUFFICES ASSUME Init PROVE Registry!Init
    OBVIOUS
  <2>1. /\ nreg = 0 /\ pc = "boot" /\ cb.user = 0
        /\ \A u \in User : u > 0
    BY DEF Init, NoCallback, User
  <2>2. Status = [u \in User |-> "fresh"]
    BY <2>1 DEF Status, Standing
  <2>3. (pc \in {"boot", "stopped"}) = TRUE
    BY <2>1
  <2>. QED  BY <2>1, <2>2, <2>3, Zenon DEF Registry!Init, Status, Standing
<1> DEFINE Inv == TypeInv /\ SafeInv /\ BatchInv /\ RegistryInv /\ CallbackShape
<1>2. Init => Inv
  BY TypeInit, SafeInit, BatchInit, RegistryInit DEF Init, CallbackShape, NoCallback
<1>3. Inv /\ [Next]_vars => Inv'
  BY TypeNext, SafeNext, BatchNext, RegistryNext, CallbackNext
<1>4. Inv /\ [Next]_vars => [Registry!Next]_Registry!vars
  BY RegistryStep DEF Registry!Step
<1>. HIDE DEF Inv
<1>. QED
  BY <1>1, <1>2, <1>3, <1>4, PTL DEF Spec, ImplementsRegistry, Registry!Spec

-----------------------------------------------------------------------------
(* The end of a run in which no call failed: nothing is left.              *)

\* After mainloop_quit, which destroy callbacks do not call, nothing is
\* removed: a record put on the free list then would not be freed any more.
QuitLast == "quit" \notin DestroyOps /\ AfterQuitOps \subseteq {"modify"}

\* Every removal ends before mainloop_quit frees the free list.
RemovalsFirst == Removing \/ (pc = "find" /\ find.op = "remove") => ~terminate

LEMMA RemovalsFirstNext ==
    ASSUME Gentle, QuitLast, TypeInv, SafeInv, RemovalsFirst, [Next]_vars
    PROVE  RemovalsFirst'
<1>1. CASE CallQuit
  <2>1. pc' = "quit" /\ suspended = <<>> /\ suspended' = suspended
    BY <1>1, CallAllowed DEF CallQuit, QuitLast, Removing
  <2>. QED  BY <2>1 DEF RemovalsFirst, Removing
<1>2. CASE \E fd \in Fd \cup {NoFd} : CallRemoveFd(fd)
  <2>1. ~terminate /\ ~terminate'
    BY <1>2, CallAllowed
    DEF CallRemoveFd, StartFind, RemoveOp, QuitLast, dispatch
  <2>. QED  BY <2>1 DEF RemovalsFirst
<1>3. CASE \/ \E fd \in UserFd, r \in Record, d \in BOOLEAN :
                 AddFd(fd, r, d) \/ AddFdRefused(fd, r, d)
           \/ \E fd \in TimerFd, r \in Record, d, set \in BOOLEAN :
                 AddTimeout(fd, r, d, set)
           \/ \E fd \in TimerFd, r \in Record, d \in BOOLEAN :
                 AddTimeoutRefused(fd, r, d)
           \/ \E fd \in TimerFd, set \in BOOLEAN : AddTimeoutNoMemory(fd, set)
           \/ \E fd \in Fd \cup {NoFd} : CallModifyFd(fd)
           \/ \E fd \in TimerFd : CallModifyTimeout(fd)
  BY <1>3 DEF AddFd, AddFdRefused, AddTimeout, AddTimeoutRefused,
     AddTimeoutNoMemory, Register, CallModifyFd, CallModifyTimeout, StartFind,
     dispatch, frames, RemovalsFirst, Removing
<1>4. CASE FinishCall
  <2>1. CASE RemoveFound \/ FindNext \/ NotFound \/ ModifyFound \/ QuitFree \/ QuitDone
    BY <2>1 DEF RemoveFound, FindNext, NotFound, ModifyFound, QuitFree, QuitDone,
       Found, dispatch, RemovalsFirst, Removing
  <2>2. CASE Unlink
    <3>1. pc' = "client" /\ suspended' = <<>>
      BY <2>2 DEF Unlink, SafeInv, ControlShape, Removing, TypeInv, LocalsInUse
    <3>. QED  BY <3>1 DEF RemovalsFirst, Removing
  <2>. QED  BY <1>4, <2>1, <2>2 DEF FinishCall
<1>5. CASE MainloopInit \/ CallRun \/ ClientReturns \/ Loop
  BY <1>5 DEF MainloopInit, CallRun, ClientReturns, DestroyReturns, CallbackReturns,
     SweepDestroyReturns, Loop, EpollWait, DispatchEvent, DispatchTimeout,
     DispatchNothing, Deliver, RunCallback, BatchDone, LoopEnds, SweepRecord,
     SweepFree, SweepDone, dispatch, frames, RemovalsFirst, Removing
<1>6. CASE \/ UseAfterFree \/ DoubleFree \/ NullDereference
           \/ (\E fd \in TimerFd : TimerExpire(fd)) \/ UNCHANGED vars
  BY <1>6 DEF UseAfterFree, DoubleFree, NullDereference, Crash, TimerExpire, vars,
     dispatch, frames, RemovalsFirst, Removing
<1>. QED
  BY <1>1, <1>2, <1>3, <1>4, <1>5, <1>6 DEF Next, ClientCall

\* Every free record is reached from the head of the free list: it is in
\* every set of them that has the head and is closed under next.
PoolReached ==
    \A S \in SUBSET Pooled :
        (/\ PoolHead \in S \cup {Null}
         /\ \A r \in S : next[r] \in S \cup {Null})
        => S = Pooled

\* No record is on neither list, and every open timer has a registration
\* that will close it.
NoneLost ==
    /\ \A r \in Record : place[r] \in {"unallocated", "listed", "pooled"}
    /\ pc = "boot" => Pooled = {}
TimersOwned ==
    /\ \A r \in Listed : rec[r].fd \in TimerFd => rec[r].type = "TIMER"
    /\ \A fd \in TimerFd :
          timer[fd] # "closed" => \E r \in Listed : rec[r].fd = fd /\ ~Ending(r)

StopInv == PoolReached /\ NoneLost /\ TimersOwned

LEMMA StopInit == Init => StopInv
<1> SUFFICES ASSUME Init PROVE StopInv
  OBVIOUS
<1>1. Pooled = {} /\ Listed = {}
  BY DEF Init, Pooled, Listed, Placed
<1>. QED  BY <1>1 DEF Init, StopInv, PoolReached, NoneLost, TimersOwned

\* With an empty free list no record is free.
LEMMA NothingPooled == ASSUME StopInv, PoolHead = Null PROVE Pooled = {}
<1>1. {} \in SUBSET Pooled /\ PoolHead \in {} \cup {Null}
  OBVIOUS
<1>. QED  BY <1>1 DEF StopInv, PoolReached

\* The first free record is taken off the list.
LEMMA PoolPopped ==
    ASSUME StopInv, NEW r \in Pooled, PoolHead = r, Pooled' = Pooled \ {r},
           PoolHead' = next[r], \A s \in Pooled \ {r} : next'[s] = next[s]
    PROVE  PoolReached'
<1> SUFFICES ASSUME NEW S \in SUBSET (Pooled \ {r}),
                    next[r] \in S \cup {Null},
                    \A s \in S : next'[s] \in S \cup {Null}
             PROVE  S = Pooled \ {r}
  BY DEF PoolReached
<1> DEFINE T == S \cup {r}
<1>1. T \in SUBSET Pooled /\ PoolHead \in T \cup {Null}
  OBVIOUS
<1>2. \A s \in T : next[s] \in T \cup {Null}
  OBVIOUS
<1>3. T = Pooled
  BY <1>1, <1>2 DEF StopInv, PoolReached
<1>. QED  BY <1>3

LEMMA TimersSame ==
    ASSUME StopInv, UNCHANGED <<rec, place>>,
           \A r \in Listed : Ending(r)' => Ending(r),
           \A fd \in TimerFd : timer'[fd] # "closed" => timer[fd] # "closed"
    PROVE  TimersOwned'
<1>1. Listed' = Listed
  BY DEF Listed, Placed
<1>. QED  BY <1>1 DEF StopInv, TimersOwned

\* Steps that leave both lists alone and open no timer.
LEMMA StopQuiet ==
    ASSUME StopInv, UNCHANGED <<next, rec, place>>, PoolHead' = PoolHead,
           pc' = "boot" => pc = "boot",
           \A r \in Listed : Ending(r)' => Ending(r),
           \A fd \in TimerFd : timer'[fd] # "closed" => timer[fd] # "closed"
    PROVE  StopInv'
<1>1. Pooled' = Pooled
  BY DEF Pooled, Placed
<1>2. PoolReached' /\ NoneLost'
  BY <1>1 DEF StopInv, PoolReached, NoneLost
<1>. QED  BY <1>2, TimersSame DEF StopInv

LEMMA StopRegister ==
    ASSUME Gentle, TypeInv, SafeInv, StopInv, NEW o \in {"add", "add_again"},
           May(o), NEW r \in Record, NEW type, NEW fd \in Fd, NEW d,
           Register(r, type, fd, d),
           fd \in TimerFd => type = "TIMER",
           \A f \in TimerFd \ {fd} : timer'[f] = timer[f]
    PROVE  StopInv'
<1>1. /\ pc = "client" /\ pc' = "client" /\ suspended = <<>> /\ phase # "sweep"
      /\ ~terminate /\ ~terminate' /\ Take(r)
      /\ next' = [next EXCEPT ![r] = head]
      /\ rec' = [rec EXCEPT ![r] = [type |-> type, fd |-> fd,
                                    user |-> nreg + 1, destroy |-> d]]
      /\ place' = [place EXCEPT ![r] = "listed"]
      /\ UNCHANGED <<phase, suspended, sweep>>
  BY AddAllowed DEF Register, Link, dispatch, frames
<1>2. /\ next \in [Record -> Record \cup {Null}] /\ rec \in [Record -> Data]
      /\ place \in [Record -> {"unallocated", "listed", "pooled", "leaked", "lost"}]
      /\ Null \notin Record
  BY ConstantsAssumption DEF ConstantsAssumption, TypeInv, TypeOK
<1>3. Listed' = Listed \cup {r} /\ Pooled' = Pooled \ {r} /\ r \notin Listed
  <2>1. r \notin Listed
    BY <1>1, TakenRecord
  <2>. QED  BY <1>1, <1>2, <2>1 DEF Listed, Pooled, Placed
<1>4. PoolHead = freeHead /\ PoolHead' = freeHead'
  BY <1>1 DEF PoolHead
<1>5. PoolReached'
  <2>1. CASE freeHead # Null /\ r = freeHead /\ freeHead' = next[r]
    <3>1. r \in Pooled
      BY <1>1, <1>4, <2>1 DEF SafeInv, PoolShape, PoolInUse, Chain, Pooled
    <3>2. \A s \in Pooled \ {r} : next'[s] = next[s]
      BY <1>1, <1>2 DEF Pooled, Placed
    <3>. QED  BY <1>3, <1>4, <2>1, <3>1, <3>2, PoolPopped
  <2>2. CASE freeHead = Null
    <3>1. Pooled' = {}
      BY <1>3, <1>4, <2>2, NothingPooled
    <3>. QED  BY <3>1 DEF PoolReached
  <2>. QED  BY <1>1, <2>1, <2>2 DEF Take
<1>6. NoneLost'
  BY <1>1, <1>2 DEF StopInv, NoneLost
<1>7. TimersOwned'
  <2>1. /\ rec'[r].fd = fd /\ rec'[r].type = type
        /\ \A s \in Listed : rec'[s] = rec[s]
    BY <1>1, <1>2, <1>3 DEF Listed, Placed
  <2>2. \A s : ~Ending(s)'
    BY <1>1 DEF Ending, Removing, Sweeping
  <2>3. \A s \in Listed' : rec'[s].fd \in TimerFd => rec'[s].type = "TIMER"
    BY <1>3, <2>1 DEF StopInv, TimersOwned
  <2>4. ASSUME NEW f \in TimerFd, timer'[f] # "closed"
        PROVE  \E s \in Listed' : rec'[s].fd = f
    <3>1. CASE f = fd
      BY <1>3, <2>1, <3>1
    <3>2. CASE f # fd
      <4>1. \E s \in Listed : rec[s].fd = f
        BY <2>4, <3>2 DEF StopInv, TimersOwned
      <4>. QED  BY <1>3, <2>1, <4>1
    <3>. QED  BY <3>1, <3>2
  <2>. QED  BY <2>2, <2>3, <2>4 DEF TimersOwned
<1>. QED  BY <1>5, <1>6, <1>7 DEF StopInv

\* No call fails: every addition registers.
LEMMA StopAdd ==
    ASSUME Gentle, Failures = {}, TypeInv, SafeInv, StopInv, NEW fd,
           NEW r \in Record, NEW d, NEW set,
           \/ fd \in UserFd /\ (AddFd(fd, r, d) \/ AddFdRefused(fd, r, d))
           \/ fd \in TimerFd /\ AddTimeout(fd, r, d, set)
    PROVE  StopInv'
<1>1. UserFd \cap TimerFd = {} /\ fd \in Fd
  BY ConstantsAssumption DEF ConstantsAssumption, Fd
<1>2. CASE fd \in UserFd /\ AddFd(fd, r, d)
  <2>1. May("add") /\ Register(r, "GENERAL", fd, d) /\ timer' = timer
    BY <1>2 DEF AddFd
  <2>. QED  BY <1>1, <1>2, <2>1, StopRegister
<1>3. CASE fd \in UserFd /\ AddFdRefused(fd, r, d)
  <2>1. /\ May(AddOp(fd)) /\ Register(r, "GENERAL", fd, d) /\ timer' = timer
        /\ AddOp(fd) \in {"add", "add_again"}
    BY <1>3 DEF AddFdRefused, AddOp, kernel
  <2>. QED  BY <1>1, <1>3, <2>1, StopRegister
<1>4. CASE fd \in TimerFd /\ AddTimeout(fd, r, d, set)
  <2>1. /\ May("add") /\ Register(r, "TIMER", fd, d)
        /\ timer' = Created(fd, set)
    BY <1>4 DEF AddTimeout
  <2>2. \A f \in TimerFd \ {fd} : timer'[f] = timer[f]
    BY <2>1 DEF Created, TypeInv, TypeOK
  <2>. QED  BY <1>1, <2>1, <2>2, StopRegister
<1>. QED  BY <1>2, <1>3, <1>4

LEMMA StopRemoveFound ==
    ASSUME TypeInv, SafeInv, RegistryInv, RemovalsFirst, StopInv, RemoveFound
    PROVE  StopInv'
<1> DEFINE r == find.data
<1>1. /\ pc = "find" /\ pc' \in {"client", "unlink"} /\ find.fd \in Fd
      /\ r \in Listed /\ rec[r].fd = find.fd /\ suspended = <<>>
      /\ phase # "sweep" /\ ~terminate
      /\ suspended' = <<[data |-> r, prev |-> find.prev, fd |-> find.fd]>> \o suspended
      /\ \/ /\ rec[r].type = "TIMER" /\ rec' = Detached(r)
            /\ timer' = [timer EXCEPT ![find.fd] = "closed"]
         \/ rec[r].type # "TIMER" /\ UNCHANGED <<rec, timer>>
      /\ UNCHANGED <<freeHead, next, place, terminate, phase, sweep>>
  BY FoundIsWatched, RemovesAlone DEF RemoveFound, Found, dispatch, RemovalsFirst
<1>2. Removing' /\ Removed'.data = r
  <2>1. suspended' = <<[data |-> r, prev |-> find.prev, fd |-> find.fd]>>
    BY <1>1
  <2>. QED  BY <2>1 DEF Removing, Removed
<1>3. PoolHead' = PoolHead
  BY <1>1 DEF PoolHead
<1>. HIDE DEF r
<1>4. \A s : Ending(s)' <=> s = r
  BY <1>1, <1>2 DEF Ending, Removing, Sweeping
<1>5. /\ Listed' = Listed /\ Pooled' = Pooled /\ r \in Record
      /\ rec \in [Record -> Data] /\ NoFd \notin TimerFd
  BY <1>1, ConstantsAssumption
  DEF ConstantsAssumption, Listed, Pooled, Placed, TypeInv, TypeOK, NoFd
<1>6. /\ \A s \in Listed \ {r} : rec'[s] = rec[s]
      /\ rec'[r].fd \in TimerFd => rec'[r].type = rec[r].type /\ rec'[r].fd = rec[r].fd
  BY <1>1, <1>5 DEF Detached, Listed, Placed, Data
\* An open timer is not the removed record's.
<1>7. ASSUME NEW f \in TimerFd, timer'[f] # "closed"
      PROVE  timer[f] # "closed" /\ rec[r].fd # f
  <2>1. CASE rec[r].type = "TIMER"
    BY <1>1, <1>7, <2>1 DEF TypeInv, TypeOK
  <2>2. CASE rec[r].type # "TIMER"
    BY <1>1, <1>7, <2>2 DEF StopInv, TimersOwned
  <2>. QED  BY <2>1, <2>2
<1>8. TimersOwned'
  <2>1. \A s \in Listed' : rec'[s].fd \in TimerFd => rec'[s].type = "TIMER"
    BY <1>1, <1>5, <1>6 DEF StopInv, TimersOwned
  <2>2. ASSUME NEW f \in TimerFd, timer'[f] # "closed"
        PROVE  \E s \in Listed' : rec'[s].fd = f /\ ~Ending(s)'
    <3>1. PICK s \in Listed : rec[s].fd = f
      BY <1>7, <2>2 DEF StopInv, TimersOwned
    <3>2. s # r
      BY <1>7, <2>2, <3>1
    <3>. QED  BY <1>4, <1>5, <1>6, <3>1, <3>2
  <2>. QED  BY <2>1, <2>2 DEF TimersOwned
<1>9. PoolReached' /\ NoneLost'
  BY <1>1, <1>3, <1>5 DEF StopInv, PoolReached, NoneLost
<1>. QED  BY <1>8, <1>9 DEF StopInv

LEMMA StopUnlink ==
    ASSUME TypeInv, SafeInv, RemovalsFirst, StopInv, Unlink PROVE StopInv'
<1> DEFINE data == Removed.data
           prev == Removed.prev
<1>1. /\ pc = "unlink" /\ pc' = "client" /\ Removing
      /\ ~terminate /\ ~terminate' /\ phase # "sweep" /\ phase' = phase
      /\ data \in Listed /\ data # Null /\ Neighbours(data, prev)
      /\ suspended' = <<>> /\ freeHead' = data
      /\ place' = [place EXCEPT ![data] = "pooled"]
      /\ \/ next' = [next EXCEPT ![data] = freeHead]
         \/ data # head /\ prev # Null /\ next' = Relinked(data, prev)
      /\ UNCHANGED <<rec, timer, sweep>>
  BY DEF Unlink, SafeInv, ControlShape, RemovalShape, RemovalsFirst, Neighbours,
     Removing, Removed, TypeInv, LocalsInUse, kernel, dispatch, ghosts
<1>2. /\ next \in [Record -> Record \cup {Null}] /\ data \in Record
      /\ place \in [Record -> {"unallocated", "listed", "pooled", "leaked", "lost"}]
  BY <1>1 DEF TypeInv, TypeOK, Listed, Placed
<1>3. /\ Listed' = Listed \ {data} /\ Pooled' = Pooled \cup {data}
      /\ data \notin Pooled
  BY <1>1, <1>2 DEF Listed, Pooled, Placed
<1>4. Ending(data) /\ \A s : ~Ending(s)'
  BY <1>1 DEF Ending, Removing, Sweeping
<1>. HIDE DEF data, prev
<1>5. PoolHead = freeHead /\ PoolHead' = data /\ freeHead \in Pooled \cup {Null}
  BY <1>1 DEF PoolHead, SafeInv, PoolShape, PoolInUse, Chain, Pooled
<1>6. next'[data] = freeHead /\ \A s \in Pooled : next'[s] = next[s]
  BY <1>1, <1>2, <1>3 DEF Relinked, Neighbours, Listed, Pooled, Placed
<1>7. \A s \in Pooled : next[s] \in Pooled \cup {Null}
  BY <1>1 DEF SafeInv, PoolShape, PoolInUse, Chain, Pooled
<1>8. PoolReached'
  <2> SUFFICES ASSUME NEW S \in SUBSET (Pooled \cup {data}),
                      data \in S \cup {Null},
                      \A s \in S : next'[s] \in S \cup {Null}
               PROVE  S = Pooled \cup {data}
    BY <1>3, <1>5 DEF PoolReached
  <2> DEFINE T == S \ {data}
  <2>1. T \in SUBSET Pooled /\ data \in S
    BY <1>1
  <2>2. PoolHead \in T \cup {Null}
    BY <1>3, <1>5, <1>6, <2>1
  <2>3. \A s \in T : next[s] \in T \cup {Null}
    BY <1>3, <1>6, <1>7, <2>1
  <2>4. T = Pooled
    BY <2>1, <2>2, <2>3 DEF StopInv, PoolReached
  <2>. QED  BY <2>1, <2>4
<1>9. NoneLost'
  BY <1>1, <1>2 DEF StopInv, NoneLost
<1>10. TimersOwned'
  BY <1>1, <1>3, <1>4 DEF StopInv, TimersOwned
<1>. QED  BY <1>8, <1>9, <1>10 DEF StopInv

LEMMA StopQuit ==
    ASSUME Gentle, TypeInv, SafeInv, StopInv,
           CallQuit \/ QuitFree \/ QuitDone
    PROVE  StopInv'
<1>1. CASE CallQuit \/ QuitDone
  <2>1. /\ UNCHANGED <<next, rec, place, timer, phase, suspended, sweep>>
        /\ pc' \in {"quit", "client"} /\ phase # "sweep"
    BY <1>1, AddAllowed DEF CallQuit, QuitDone, SafeInv, ControlShape, memory,
       kernel, ghosts
  <2>2. PoolHead' = PoolHead
    BY <1>1, AddAllowed DEF CallQuit, QuitDone, QuitFrom, PoolHead, SafeInv,
       ControlShape, dispatch
  <2>3. \A r \in Listed : Ending(r)' => Ending(r)
    BY <2>1 DEF Ending, Removing, Removed, Sweeping
  <2>. QED  BY <2>1, <2>2, <2>3, StopQuiet
<1>2. CASE QuitFree
  <2> DEFINE r == find.data
  <2>1. /\ pc = "quit" /\ pc' = "quit" /\ terminate /\ terminate' /\ r # Null
        /\ phase # "sweep" /\ phase' = phase /\ find'.data = next[r]
        /\ place' = [place EXCEPT ![r] = "unallocated"]
        /\ UNCHANGED <<next, rec, timer, suspended, sweep>>
    BY <1>2 DEF QuitFree, SafeInv, ControlShape, kernel, dispatch, ghosts
  <2>2. PoolHead = r /\ PoolHead' = next[r]
    BY <2>1 DEF PoolHead
  <2>. HIDE DEF r
  <2>3. r \in Pooled
    BY <2>1, <2>2 DEF SafeInv, PoolShape, PoolInUse, Chain, Pooled
  <2>4. /\ r \in Record /\ Pooled' = Pooled \ {r} /\ Listed' = Listed
        /\ \A s \in Record : place'[s] \in {place[s], "unallocated"}
    BY <2>1, <2>3 DEF TypeInv, TypeOK, Listed, Pooled, Placed
  <2>5. PoolReached'
    BY <2>1, <2>2, <2>3, <2>4, PoolPopped
  <2>6. \A s : Ending(s)' => Ending(s)
    BY <2>1 DEF Ending, Removing, Removed, Sweeping
  <2>. QED  BY <2>1, <2>4, <2>5, <2>6 DEF StopInv, NoneLost, TimersOwned
<1>. QED  BY <1>1, <1>2

LEMMA StopSweep ==
    ASSUME TypeInv, SafeInv, RegistryInv, StopInv,
           SweepRecord \/ SweepFree
    PROVE  StopInv'
<1> DEFINE r == sweep.data
<1>1. /\ phase = "sweep" /\ phase' = "sweep" /\ terminate /\ terminate'
      /\ pc \in {"sweep", "release"}
      /\ pc' \in {"sweep", "client", "release"}
      /\ suspended = <<>> /\ suspended' = <<>> /\ r \in Listed
      /\ UNCHANGED <<next, rec>>
  <2>1. CASE SweepRecord
    BY <2>1 DEF SweepRecord, SafeInv, ControlShape, ListShape, Chain, ListHead,
       Listed, Removing, TypeInv, LocalsInUse, memory, dispatch
  <2>2. CASE SweepFree
    BY <2>2 DEF SweepFree, SafeInv, ControlShape, SweepShape, Removing, Sweeping,
       TypeInv, LocalsInUse, kernel, dispatch
  <2>. QED  BY <2>1, <2>2
<1>2. PoolHead = Null /\ PoolHead' = Null
  BY <1>1 DEF PoolHead
<1>3. /\ Pooled = {} /\ rec \in [Record -> Data]
      /\ place \in [Record -> {"unallocated", "listed", "pooled", "leaked", "lost"}]
  BY <1>2, NothingPooled DEF TypeInv, TypeOK
<1>4. CASE SweepRecord
  <2>1. /\ sweep'.data = r /\ place' = place /\ pc = "sweep"
        /\ \/ /\ rec[r].type = "TIMER" /\ rec[r].fd # NoFd
              /\ timer' = [timer EXCEPT ![rec[r].fd] = "closed"]
           \/ ~(rec[r].type = "TIMER" /\ rec[r].fd # NoFd) /\ timer' = timer
    BY <1>4 DEF SweepRecord, memory, kernel
  <2>2. \A s : Ending(s)' => s = r
    BY <1>1, <2>1 DEF Ending, Removing, Sweeping
  <2>. HIDE DEF r
  <2>3. ASSUME NEW f \in TimerFd, timer'[f] # "closed"
        PROVE  timer[f] # "closed" /\ rec[r].fd # f
    <3>1. NoFd # f
      BY ConstantsAssumption DEF ConstantsAssumption, NoFd
    <3>2. rec[r].fd = f => rec[r].type = "TIMER"
      BY <1>1 DEF StopInv, TimersOwned
    <3>. QED  BY <2>1, <2>3, <3>1, <3>2 DEF TypeInv, TypeOK
  <2>4. Listed' = Listed /\ Pooled' = Pooled
    BY <2>1 DEF Listed, Pooled, Placed
  <2>5. TimersOwned'
    BY <1>1, <2>2, <2>3, <2>4 DEF StopInv, TimersOwned
  <2>. QED  BY <1>3, <2>1, <2>4, <2>5 DEF StopInv, PoolReached, NoneLost
<1>5. CASE SweepFree
  <2>1. /\ place' = [place EXCEPT ![r] = "unallocated"] /\ timer' = timer
        /\ pc' = "sweep" /\ pc = "release"
    BY <1>5 DEF SweepFree, kernel
  <2>2. Ending(r) /\ \A s : ~Ending(s)'
    BY <1>1, <2>1 DEF Ending, Removing, Sweeping
  <2>. HIDE DEF r
  <2>3. /\ Listed' = Listed \ {r} /\ Pooled' = {}
        /\ \A s \in Record : place'[s] \in {place[s], "unallocated"}
    BY <1>1, <1>3, <2>1 DEF Listed, Pooled, Placed
  <2>4. TimersOwned'
    BY <1>1, <2>1, <2>2, <2>3 DEF StopInv, TimersOwned
  <2>. QED  BY <2>3, <2>4 DEF StopInv, PoolReached, NoneLost
<1>. QED  BY <1>4, <1>5

\* When the loop has stopped, or was never started, nothing is allocated.
LEMMA StoppedClean ==
    ASSUME TypeInv, SafeInv, RegistryInv, StopInv, pc \in {"boot", "stopped"}
    PROVE  /\ \A r \in Record : place[r] = "unallocated"
           /\ \A fd \in TimerFd : timer[fd] = "closed"
           /\ \A u \in 1 .. nreg : ended[u] = 1
<1>1. Listed = {}
  BY DEF RegistryInv, EndedShape
<1>2. Pooled = {}
  BY NothingPooled DEF PoolHead, SafeInv, ControlShape, StopInv, NoneLost
<1>3. \A r \in Record : place[r] = "unallocated"
  BY <1>1, <1>2 DEF StopInv, NoneLost, Listed, Pooled, Placed
<1>4. \A fd \in TimerFd : timer[fd] = "closed"
  BY <1>1 DEF StopInv, TimersOwned
<1>5. ASSUME NEW u \in 1 .. nreg PROVE ended[u] = 1
  <2>1. u \in User /\ ended[u] \in 0 .. 2
    BY ConstantsAssumption DEF ConstantsAssumption, TypeInv, TypeOK, User
  <2>. QED  BY <1>1, <2>1 DEF RegistryInv, EndedShape
<1>. QED  BY <1>3, <1>4, <1>5

LEMMA StopMainloopInit ==
    ASSUME TypeInv, SafeInv, RegistryInv, StopInv, MainloopInit PROVE StopInv'
<1>1. /\ pc' = "client" /\ timer' = timer
      /\ place' = [r \in Record |->
                     IF place[r] = "unallocated" THEN place[r] ELSE "lost"]
  BY DEF MainloopInit
<1>2. /\ \A r \in Record : place[r] = "unallocated"
      /\ \A fd \in TimerFd : timer[fd] = "closed"
  BY StoppedClean DEF MainloopInit
<1>3. Listed' = {} /\ Pooled' = {} /\ \A r \in Record : place'[r] = "unallocated"
  BY <1>1, <1>2 DEF Listed, Pooled, Placed
<1>. QED
  BY <1>1, <1>2, <1>3 DEF StopInv, PoolReached, NoneLost, TimersOwned

\* The lookups and returns, the dispatch loop and the kernel.
LEMMA StopRest ==
    ASSUME Gentle, TypeInv, SafeInv, RegistryInv, StopInv,
           \/ \E fd \in Fd \cup {NoFd} : CallRemoveFd(fd) \/ CallModifyFd(fd)
           \/ \E fd \in TimerFd : CallModifyTimeout(fd)
           \/ FindNext \/ NotFound \/ ModifyFound
           \/ \E fds \in SUBSET CanFire : EpollWait(fds)
           \/ \E r \in Record :
                 DispatchEvent(r) \/ DispatchTimeout(r) \/ DispatchNothing(r)
           \/ BatchDone \/ LoopEnds \/ CallRun \/ ClientReturns \/ SweepDone
           \/ \E fd \in TimerFd : TimerExpire(fd)
           \/ UNCHANGED vars
    PROVE  StopInv'
<1>1. CASE \/ \E fd \in Fd \cup {NoFd} : CallRemoveFd(fd) \/ CallModifyFd(fd)
           \/ \E fd \in TimerFd : CallModifyTimeout(fd)
  <2>1. PICK op, fd, o : May(o) /\ StartFind(op, fd)
    BY <1>1 DEF CallRemoveFd, CallModifyFd, CallModifyTimeout
  <2>2. /\ UNCHANGED <<freeHead, next, rec, place, terminate, phase, suspended, sweep>>
        /\ pc = "client" /\ pc' = "find" /\ phase # "sweep"
    BY <2>1, CallAllowed DEF StartFind, memory, dispatch
  <2>3. \A f \in TimerFd : timer'[f] # "closed" => timer[f] # "closed"
    BY <1>1 DEF CallRemoveFd, CallModifyFd, CallModifyTimeout, TypeInv, TypeOK
  <2>4. PoolHead' = PoolHead /\ \A r \in Listed : Ending(r)' => Ending(r)
    BY <2>2 DEF PoolHead, Ending, Removing, Removed, Sweeping
  <2>. QED  BY <2>2, <2>3, <2>4, StopQuiet
<1>2. CASE FindNext \/ NotFound \/ ModifyFound
  <2>1. /\ UNCHANGED <<freeHead, next, rec, place, timer, terminate, phase,
                       suspended, sweep>>
        /\ pc = "find" /\ pc' \in {"find", "client"} /\ phase # "sweep"
    BY <1>2 DEF FindNext, NotFound, ModifyFound, Found, SafeInv, ControlShape,
       memory, kernel, dispatch
  <2>2. PoolHead' = PoolHead /\ \A r \in Listed : Ending(r)' => Ending(r)
    BY <2>1 DEF PoolHead, Ending, Removing, Removed, Sweeping
  <2>. QED  BY <2>1, <2>2, StopQuiet
<1>3. CASE \E fds \in SUBSET CanFire : EpollWait(fds)
  <2>1. /\ UNCHANGED <<freeHead, next, rec, place, timer, terminate, phase,
                       suspended, sweep>>
        /\ pc = "loop" /\ pc' = "dispatch" /\ suspended = <<>> /\ phase = "run"
    BY <1>3 DEF EpollWait, SafeInv, ControlShape, Removing, TypeInv,
       LocalsInUse, memory, frames
  <2>2. PoolHead' = PoolHead /\ \A r \in Listed : ~Ending(r)'
    BY <2>1 DEF PoolHead, Ending, Removing, Sweeping
  <2>. QED  BY <2>1, <2>2, StopQuiet
<1>4. CASE \E r \in Record :
              DispatchEvent(r) \/ DispatchTimeout(r) \/ DispatchNothing(r)
  <2>1. /\ UNCHANGED <<freeHead, next, rec, place, terminate, phase,
                       suspended, sweep>>
        /\ pc = "dispatch" /\ pc' \in {"dispatch", "client"}
        /\ suspended = <<>> /\ phase = "run"
    BY <1>4 DEF DispatchEvent, DispatchTimeout, DispatchNothing, Deliver,
       RunCallback, SafeInv, ControlShape, Removing, TypeInv, LocalsInUse,
       memory, frames
  <2>2. \A f \in TimerFd : timer'[f] # "closed" => timer[f] # "closed"
    BY <1>4 DEF DispatchEvent, DispatchTimeout, DispatchNothing, TimerReadable,
       kernel, TypeInv, TypeOK
  <2>3. PoolHead' = PoolHead /\ \A r \in Listed : ~Ending(r)'
    BY <2>1 DEF PoolHead, Ending, Removing, Sweeping
  <2>. QED  BY <2>1, <2>2, <2>3, StopQuiet
<1>5. CASE BatchDone \/ LoopEnds \/ CallRun \/ ClientReturns \/ SweepDone
  <2>1. /\ UNCHANGED <<freeHead, next, rec, place, timer, terminate, suspended>>
        /\ pc # "quit" /\ pc' \notin {"quit", "boot"}
        /\ pc' \in {"client", "release"} => phase = "sweep" /\ sweep' = sweep
                                         /\ pc = "client"
    BY <1>5 DEF BatchDone, LoopEnds, CallRun, ClientReturns, DestroyReturns,
       CallbackReturns, SweepDestroyReturns, SweepDone, memory, kernel,
       dispatch, frames
  <2>2. PoolHead' = PoolHead
    BY <2>1 DEF PoolHead
  <2>3. \A r \in Listed : Ending(r)' => Ending(r)
    BY <2>1 DEF Ending, Removing, Removed, Sweeping
  <2>. QED  BY <2>1, <2>2, <2>3, StopQuiet
<1>6. CASE (\E fd \in TimerFd : TimerExpire(fd)) \/ UNCHANGED vars
  <2>1. UNCHANGED <<freeHead, next, rec, place, terminate, pc, phase, find,
                    suspended, sweep>>
    BY <1>6 DEF TimerExpire, vars, memory, kernel, dispatch, frames
  <2>2. \A f \in TimerFd : timer'[f] # "closed" => timer[f] # "closed"
    BY <1>6 DEF TimerExpire, vars, kernel, TypeInv, TypeOK
  <2>3. PoolHead' = PoolHead
    BY <2>1 DEF PoolHead
  <2>4. \A r \in Listed : Ending(r)' => Ending(r)
    BY <2>1 DEF Ending, Removing, Removed, Sweeping
  <2>. QED  BY <2>1, <2>2, <2>3, <2>4, StopQuiet
<1>. QED  BY <1>1, <1>2, <1>3, <1>4, <1>5, <1>6

LEMMA StopCrash ==
    ASSUME Gentle, TypeInv, SafeInv, StopInv,
           UseAfterFree \/ DoubleFree \/ NullDereference
    PROVE  StopInv'
<1>1. /\ pc = "dispatch" /\ pc' = "crashed"
      /\ UNCHANGED <<freeHead, next, rec, place, timer, terminate, phase, find,
                     suspended, sweep>>
  BY OnlyStaleEvents DEF memory, kernel, dispatch, frames
<1>2. PoolHead' = PoolHead /\ \A r \in Listed : Ending(r)' => Ending(r)
  BY <1>1 DEF PoolHead, Ending, Removing, Removed, Sweeping
<1>. QED  BY <1>1, <1>2, StopQuiet

LEMMA StopNext ==
    ASSUME Gentle, Failures = {}, TypeInv, SafeInv, RegistryInv, RemovalsFirst,
           StopInv, [Next]_vars
    PROVE  StopInv'
<1>1. CASE ClientCall
  <2>1. \A fd \in TimerFd, r \in Record, d \in BOOLEAN : ~AddTimeoutRefused(fd, r, d)
    BY DEF AddTimeoutRefused
  <2>2. \A fd \in TimerFd, set \in BOOLEAN : ~AddTimeoutNoMemory(fd, set)
    BY DEF AddTimeoutNoMemory, NoMemory
  <2>. QED  BY <1>1, <2>1, <2>2, StopAdd, StopRest, StopQuit DEF ClientCall
<1>2. CASE FinishCall
  BY <1>2, StopRest, StopRemoveFound, StopUnlink, StopQuit DEF FinishCall
<1>3. CASE Loop
  BY <1>3, StopRest, StopSweep DEF Loop
<1>. QED
  BY <1>1, <1>2, <1>3, StopMainloopInit, StopRest, StopCrash DEF Next

\* A run in which no call failed and nothing is removed after mainloop_quit
\* leaves nothing behind: mainloop_quit frees the whole free list, the final
\* sweep frees the others and closes their timers, and no registration is
\* ended twice or forgotten.
THEOREM StopsClean ==
    ASSUME Gentle, QuitLast, Failures = {} PROVE Spec => []CleanStop
<1> DEFINE Inv == TypeInv /\ SafeInv /\ RegistryInv /\ RemovalsFirst /\ StopInv
<1>1. Init => Inv
  BY TypeInit, SafeInit, RegistryInit, StopInit DEF Init, RemovalsFirst, Removing
<1>2. Inv /\ [Next]_vars => Inv'
  BY TypeNext, SafeNext, RegistryNext, RemovalsFirstNext, StopNext
<1>3. Inv => CleanStop
  BY StoppedClean DEF CleanStop
<1>. HIDE DEF Inv
<1>. QED  BY <1>1, <1>2, <1>3, PTL DEF Spec

=============================================================================
