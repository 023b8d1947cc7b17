--------------------------- MODULE MainloopSafety ---------------------------
(* Safety of Mainloop for clients whose destroy callbacks are gentle, for   *)
(* every set of records and descriptors and every bound: the lists and the *)
(* kernel's pointers, whatever event callbacks do; then the batch of       *)
(* events and memory, for those that remove only their own or never quit.  *)
EXTENDS MainloopProofs

-----------------------------------------------------------------------------
(* The contract and the inductive invariant, in named parts.               *)

\* Destroy callbacks add nothing.  They may modify and quit, and where only
\* timers are registered also remove the one they were called for: its
\* record has given up its descriptor, and the lookup finds nothing.
GentleDestroy ==
    /\ DestroyOps \subseteq {"modify", "quit", "remove_own"}
    /\ "remove_own" \in DestroyOps => UserFd = {}

\* After mainloop_quit nothing is added and nobody quits again, and destroy
\* callbacks call nothing: those of the final sweep do not disturb it.
GentleAfterQuit ==
    /\ AfterQuitOps \subseteq {"modify", "remove_own", "remove_other"}
    /\ AfterQuitOps \cap DestroyOps = {}

\* Before mainloop_quit event callbacks may make any call.
Gentle == GentleDestroy /\ GentleAfterQuit

\* Event callbacks remove only the descriptor they were called for.
OwnOnly == "remove_other" \notin CallbackOps

\* Nobody adds a descriptor that the kernel watches already.
AddsOnce == "add_again" \notin CallbackOps

Removing == suspended # <<>>
Removed == Head(suspended)
Sweeping == phase = "sweep" /\ pc \in {"client", "release"}

\* What may be interrupted by what.
ControlShape ==
    /\ Removing => /\ Tail(suspended) = <<>>
                   /\ pc \in {"client", "find", "quit", "unlink"}
                   /\ phase # "sweep"
    /\ pc \in {"find", "quit"} => phase # "sweep"
    /\ pc = "find" => find.op \in {"modify", "remove"}
    /\ pc = "quit" => terminate
    /\ pc = "stopped" => phase = "sweep"
    /\ phase = "sweep" => terminate
    /\ (phase # "run" \/ pc = "loop") => batch = {}
    /\ (phase # "run" \/ pc \in {"loop", "dispatch"}) => cb.fd = NoFd

\* A chain of records of one place, entered at first: it never leaves the
\* place, and nothing in it leads back to the entry or to one record twice.
Chain(where, first) ==
    LET S == Placed(where) IN
    /\ first \in S \cup {Null}
    /\ \A r \in S : next[r] \in S \cup {Null}
    /\ \A r \in S : next[r] = first => first = Null
    /\ \A r, s \in S : (next[r] = next[s] /\ next[r] # Null) => r = s

\* Where the list of registrations begins: in the final sweep the records
\* before sweep.data are freed already.
ListHead == IF phase = "sweep" THEN sweep.data ELSE head

\* The free list is in use until mainloop_quit has freed it: a removal that
\* ends later leaves its record in front of freed ones.
PoolInUse == ~terminate \/ pc = "quit"

\* Where the free list begins: mainloop_quit frees it from the front.
PoolHead == IF ~terminate THEN freeHead
            ELSE IF pc = "quit" THEN find.data ELSE Null

ListShape == Chain("listed", ListHead)
PoolShape == PoolInUse => Chain("pooled", PoolHead)

\* A removal holds a registered record and its true predecessor.
Neighbours(data, prev) ==
    /\ data \in Listed \cup {Null}
    /\ prev \in Listed \cup {Null}
    /\ prev = Null => data = head
    /\ prev # Null => next[prev] = data

LookupShape == pc = "find" => Neighbours(find.data, find.prev)
RemovalShape ==
    Removing => Removed.data # Null /\ Neighbours(Removed.data, Removed.prev)

\* While a removal is suspended the kernel has forgotten its descriptor, and
\* its destroy callback looks for no other one to remove.
NestedShape ==
    Removing =>
    /\ ep[Removed.fd].rec = Null
    /\ rec[Removed.data].fd \in {Removed.fd, NoFd}
    /\ (pc = "find" /\ find.op = "remove") => UserFd = {} /\ find.fd = Removed.fd

SweepShape ==
    Sweeping => sweep.data \in Listed /\ sweep.tmp = next[sweep.data]

\* The kernel points to registered records, never to one being removed.
InterestShape ==
    phase # "sweep" =>
    \A fd \in Fd : ep[fd].rec # Null =>
        /\ ep[fd].rec \in Listed
        /\ rec[ep[fd].rec].fd = fd
        /\ Removing => ep[fd].rec # Removed.data

\* A timer has one record at most, which the kernel points to.
TimerShape ==
    phase # "sweep" =>
    /\ \A fd \in TimerFd : timer[fd] = "closed" => ep[fd].rec = Null
    /\ \A r \in Listed :
          rec[r].fd \in TimerFd => rec[r].type = "TIMER" /\ ep[rec[r].fd].rec = r

SafeInv ==
    /\ ControlShape
    /\ ListShape /\ PoolShape
    /\ LookupShape /\ RemovalShape /\ NestedShape /\ SweepShape
    /\ InterestShape /\ TimerShape

-----------------------------------------------------------------------------
(* The initial states, and what a call implies.                            *)

\* What a call of the client implies under the contract.
LEMMA CallAllowed ==
    ASSUME Gentle, SafeInv, NEW op, May(op)
    PROVE  /\ pc = "client" /\ phase # "sweep"
           /\ terminate => op \in AfterQuitOps
           /\ IF Removing THEN ~terminate /\ op \in DestroyOps
              ELSE op \in CallbackOps \/ (phase = "setup" /\ op = "remove_other")
  BY DEF Gentle, GentleAfterQuit, SafeInv, ControlShape, May, InDestroy, Removing

\* Nothing is added by a destroy callback or after mainloop_quit, and nobody
\* quits twice.
LEMMA AddAllowed ==
    ASSUME Gentle, SafeInv, NEW op \in {"add", "add_again", "quit"}, May(op)
    PROVE  /\ pc = "client" /\ ~terminate /\ phase # "sweep"
           /\ op # "quit" => suspended = <<>>
           /\ ~Removing => op \in CallbackOps
  BY CallAllowed DEF Gentle, GentleDestroy, GentleAfterQuit, Removing

\* The removal that is suspended.
LEMMA RemovedType == ASSUME TypeInv, Removing PROVE Removed \in Suspended
  BY DEF TypeInv, TypeOK, Removing, Removed

LEMMA SafeInit == Init => SafeInv
<1> SUFFICES ASSUME Init PROVE SafeInv
  OBVIOUS
<1> USE DEF Init
<1>1. ControlShape
  BY DEF ControlShape, Removing, NoCallback, NoFind
<1>2. Listed = {} /\ ListShape /\ PoolShape
  BY DEF ListShape, PoolShape, Chain, ListHead, PoolHead, Listed, Placed
<1>3. LookupShape /\ RemovalShape /\ NestedShape /\ SweepShape
  BY DEF LookupShape, RemovalShape, NestedShape, SweepShape, Removing, Sweeping
<1>4. InterestShape /\ TimerShape
  BY <1>2 DEF InterestShape, TimerShape, Unwatched, Removing, Fd
<1>. QED  BY <1>1, <1>2, <1>3, <1>4 DEF SafeInv

(* Steps that leave the lists alone.                                       *)

\* The two chains are functions of place, next and their entries.
LEMMA ChainsSame ==
    ASSUME SafeInv, UNCHANGED <<next, place>>, ListHead' = ListHead,
           PoolInUse' => PoolInUse /\ PoolHead' = PoolHead
    PROVE  ListShape' /\ PoolShape'
  BY DEF SafeInv, ListShape, PoolShape, Chain, Placed

\* The descriptor of a suspended removal stays forgotten, and is the only one
\* looked for to remove.
LEMMA NestedSame ==
    ASSUME TypeInv, SafeInv, UNCHANGED <<rec, suspended>>,
           \A fd \in Fd : ep[fd].rec = Null => ep'[fd].rec = Null,
           (pc' = "find" /\ find'.op = "remove") =>
               pc = "find" /\ find.op = "remove" /\ find'.fd = find.fd
    PROVE  NestedShape'
  BY RemovedType DEF SafeInv, NestedShape, Removing, Removed, Suspended

\* Timers and the kernel's pointers, when no record changes and no timer is
\* closed.
LEMMA TimersKept ==
    ASSUME SafeInv, UNCHANGED <<rec, place>>, phase' # "sweep" => phase # "sweep",
           \A fd \in Fd : ep'[fd].rec = ep[fd].rec,
           \A fd \in TimerFd : timer'[fd] = "closed" => timer[fd] = "closed"
    PROVE  TimerShape'
  BY DEF SafeInv, TimerShape, Listed, Placed, Fd

LEMMA SafeStartFind ==
    ASSUME Gentle, TypeInv, SafeInv, NEW op \in {"modify", "remove"},
           NEW fd \in Fd, NEW o, May(o), StartFind(op, fd),
           op = "remove" => o = RemoveOp(fd),
           \A f \in TimerFd : timer'[f] = "closed" => timer[f] = "closed"
    PROVE  SafeInv'
<1>1. pc = "client" /\ phase # "sweep"
  BY CallAllowed
<1>2. /\ pc' = "find" /\ find' = [op |-> op, fd |-> fd, data |-> head, prev |-> Null]
      /\ UNCHANGED <<memory, ep, dispatch, phase, suspended, sweep, ghosts>>
  BY DEF StartFind
<1>. USE DEF memory, dispatch, ghosts
<1>3. ControlShape'
  BY <1>1, <1>2 DEF SafeInv, ControlShape, Removing
<1>4. ListShape' /\ PoolShape'
  BY <1>1, <1>2, ChainsSame DEF ListHead, PoolHead, PoolInUse
<1>5. LookupShape' /\ SweepShape'
  BY <1>1, <1>2 DEF SafeInv, LookupShape, SweepShape, Neighbours,
     ListShape, Chain, ListHead, Listed, Placed, Sweeping
<1>6. RemovalShape'
  BY <1>2 DEF SafeInv, RemovalShape, Neighbours, Listed, Placed, Removing, Removed
<1>7. ASSUME Removing, op = "remove" PROVE UserFd = {} /\ fd = Removed.fd
  <2>1. o \in DestroyOps /\ NoFd \notin Fd
    BY <1>7, CallAllowed, ConstantsAssumption DEF ConstantsAssumption, Fd, NoFd
  <2>. QED
    BY <1>7, <2>1 DEF Gentle, GentleDestroy, RemoveOp, OwnFd, Removing, Removed
<1>8. NestedShape'
  BY <1>2, <1>7 DEF SafeInv, NestedShape, Removing, Removed
<1>9. InterestShape'
  BY <1>1, <1>2 DEF SafeInv, InterestShape, Listed, Placed, Removing, Removed
<1>10. TimerShape'
  BY <1>2, TimersKept
<1>. QED
  BY <1>3, <1>4, <1>5, <1>6, <1>8, <1>9, <1>10 DEF SafeInv

LEMMA SafeCalls ==
    ASSUME Gentle, TypeInv, SafeInv, NEW fd,
           \/ fd \in Fd \cup {NoFd} /\ (CallRemoveFd(fd) \/ CallModifyFd(fd))
           \/ fd \in TimerFd /\ CallModifyTimeout(fd)
    PROVE  SafeInv'
<1>1. fd \in Fd
  BY DEF CallRemoveFd, CallModifyFd, ValidFd, NoFd, Fd
<1>2. PICK op \in {"modify", "remove"}, o \in Ops :
        May(o) /\ StartFind(op, fd) /\ (op = "remove" => o = RemoveOp(fd))
  BY DEF CallRemoveFd, CallModifyFd, CallModifyTimeout, RemoveOp, Ops
<1>3. \A f \in TimerFd : timer'[f] = "closed" => timer[f] = "closed"
  BY DEF CallRemoveFd, CallModifyFd, CallModifyTimeout, TypeInv, TypeOK
<1>. QED
  BY <1>1, <1>2, <1>3, SafeStartFind

-----------------------------------------------------------------------------
(* The lookup loop, and the calls and returns that leave the lists alone.  *)

LEMMA SafeFindNext == ASSUME TypeInv, SafeInv, FindNext PROVE SafeInv'
<1>1. /\ pc = "find" /\ pc' = "find" /\ phase # "sweep" /\ find.data # Null
      /\ find.data \in Listed
      /\ find'.data = next[find.data] /\ find'.prev = find.data
      /\ find'.fd = find.fd /\ find'.op = find.op
      /\ UNCHANGED <<head, freeHead, next, rec, place, ep, timer, terminate, batch,
                     cb, phase, suspended, sweep>>
  BY DEF FindNext, SafeInv, ControlShape, LookupShape, Neighbours,
     memory, kernel, dispatch, ghosts
<1>2. ControlShape'
  BY <1>1 DEF SafeInv, ControlShape, Removing
<1>3. ListShape' /\ PoolShape'
  BY <1>1, ChainsSame DEF ListHead, PoolHead, PoolInUse
<1>4. next[find.data] \in Listed \cup {Null}
  BY <1>1 DEF SafeInv, ListShape, Chain, Listed
<1>5. LookupShape' /\ SweepShape'
  BY <1>1, <1>4, ConstantsAssumption
  DEF ConstantsAssumption, LookupShape, SweepShape, Neighbours, Listed, Placed,
      Sweeping
<1>6. RemovalShape' /\ NestedShape'
  BY <1>1, NestedSame
  DEF SafeInv, RemovalShape, Neighbours, Listed, Placed, Removing, Removed
<1>7. InterestShape' /\ TimerShape'
  BY <1>1, TimersKept DEF SafeInv, InterestShape, Listed, Placed, Removing, Removed
<1>. QED
  BY <1>1, <1>2, <1>3, <1>5, <1>6, <1>7 DEF SafeInv

LEMMA SafeNotFound == ASSUME TypeInv, SafeInv, NotFound PROVE SafeInv'
<1>1. /\ pc = "find" /\ pc' = "client" /\ phase # "sweep"
      /\ UNCHANGED <<head, freeHead, next, rec, place, ep, timer, terminate, batch,
                     cb, phase, suspended, sweep>>
  BY DEF NotFound, SafeInv, ControlShape, memory, kernel, dispatch, ghosts
<1>2. ControlShape'
  BY <1>1 DEF SafeInv, ControlShape, Removing
<1>3. ListShape' /\ PoolShape'
  BY <1>1, ChainsSame DEF ListHead, PoolHead, PoolInUse
<1>4. LookupShape' /\ SweepShape'
  BY <1>1 DEF LookupShape, SweepShape, Sweeping
<1>5. RemovalShape' /\ NestedShape'
  BY <1>1, NestedSame
  DEF SafeInv, RemovalShape, Neighbours, Listed, Placed, Removing, Removed
<1>6. InterestShape' /\ TimerShape'
  BY <1>1, TimersKept DEF SafeInv, InterestShape, Listed, Placed, Removing, Removed
<1>. QED
  BY <1>1, <1>2, <1>3, <1>4, <1>5, <1>6 DEF SafeInv

LEMMA SafeModifyFound == ASSUME TypeInv, SafeInv, ModifyFound PROVE SafeInv'
<1>1. /\ pc = "find" /\ pc' = "client" /\ phase # "sweep"
      /\ find.data \in Listed /\ rec[find.data].fd = find.fd /\ find.fd \in Fd
      /\ UNCHANGED <<head, freeHead, next, rec, place, timer, terminate, batch, cb,
                     phase, suspended, sweep>>
      /\ ep' = IF ep[find.fd].rec = Null THEN ep ELSE Rearmed(find.fd, find.data)
  BY DEF ModifyFound, Found, SafeInv, ControlShape, LookupShape, Neighbours,
     TypeInv, LocalsInUse, memory, dispatch, ghosts
<1>2. ControlShape'
  BY <1>1 DEF SafeInv, ControlShape, Removing
<1>3. ListShape' /\ PoolShape'
  BY <1>1, ChainsSame DEF ListHead, PoolHead, PoolInUse
<1>4. LookupShape' /\ SweepShape'
  BY <1>1 DEF LookupShape, SweepShape, Sweeping
<1>5. ASSUME NEW fd \in Fd
      PROVE  ep'[fd].rec = ep[fd].rec \/
             (fd = find.fd /\ ep'[fd].rec = find.data /\ ep[fd].rec # Null)
  BY <1>1 DEF Rearmed, TypeInv, TypeOK
<1>6. \A fd \in Fd : ep[fd].rec = Null => ep'[fd].rec = Null
  BY <1>5
<1>7. RemovalShape' /\ NestedShape'
  BY <1>1, <1>6, NestedSame
  DEF SafeInv, RemovalShape, Neighbours, Listed, Placed, Removing, Removed
\* The record being removed is not armed again: the kernel has forgotten it.
<1>8. ASSUME Removing, ep[find.fd].rec # Null PROVE find.data # Removed.data
  BY <1>1, <1>8, ConstantsAssumption
  DEF ConstantsAssumption, SafeInv, NestedShape, Fd, NoFd
<1>9. InterestShape'
  BY <1>1, <1>5, <1>8
  DEF SafeInv, InterestShape, Listed, Placed, Removing, Removed
<1>10. TimerShape'
  <2>1. find.fd \in TimerFd => ep[find.fd].rec = find.data
    BY <1>1 DEF SafeInv, TimerShape
  <2>2. \A fd \in TimerFd : ep'[fd].rec = ep[fd].rec /\ fd \in Fd
    BY <1>5, <2>1 DEF Fd
  <2>. QED  BY <1>1, <2>2 DEF SafeInv, TimerShape, Listed, Placed
<1>. QED
  BY <1>1, <1>2, <1>3, <1>4, <1>7, <1>9, <1>10 DEF SafeInv

LEMMA SafeReturns == ASSUME TypeInv, SafeInv, ClientReturns PROVE SafeInv'
<1>1. /\ pc = "client"
      /\ \/ pc' = "unlink" /\ Removing /\ cb' = cb
         \/ pc' = "dispatch" /\ ~Removing /\ phase = "run" /\ cb'.fd = NoFd
         \/ pc' = "release" /\ ~Removing /\ phase = "sweep" /\ cb' = cb
      /\ UNCHANGED <<head, freeHead, next, rec, place, ep, timer, terminate, batch,
                     phase, suspended, sweep>>
  BY DEF ClientReturns, DestroyReturns, CallbackReturns, SweepDestroyReturns,
     NoCallback, Removing, memory, kernel, dispatch, frames, ghosts
<1>2. ControlShape'
  BY <1>1 DEF SafeInv, ControlShape, Removing
<1>3. ListShape' /\ PoolShape'
  BY <1>1, ChainsSame DEF ListHead, PoolHead, PoolInUse
<1>4. LookupShape' /\ RemovalShape' /\ SweepShape'
  BY <1>1 DEF SafeInv, LookupShape, RemovalShape, SweepShape, Removing,
     Removed, Sweeping, Neighbours, Listed, Placed
<1>5. NestedShape'
  BY <1>1, NestedSame
<1>6. InterestShape' /\ TimerShape'
  BY <1>1, TimersKept DEF SafeInv, InterestShape, Listed, Placed, Removing, Removed
<1>. QED
  BY <1>1, <1>2, <1>3, <1>4, <1>5, <1>6 DEF SafeInv

-----------------------------------------------------------------------------
(* mainloop_remove_fd.                                                     *)

\* No removal starts while another is suspended: what the destroy callback
\* looks for is not on the list any more.
LEMMA RemovesAlone ==
    ASSUME TypeInv, SafeInv, Found("remove")
    PROVE  suspended = <<>>
<1>1. /\ pc = "find" /\ find.op = "remove" /\ phase # "sweep" /\ find.fd \in Fd
      /\ find.data \in Listed /\ find.data # Null /\ rec[find.data].fd = find.fd
  BY DEF Found, SafeInv, ControlShape, LookupShape, Neighbours, TypeInv, LocalsInUse
<1>2. ASSUME Removing PROVE FALSE
  <2>1. UserFd = {} /\ find.fd = Removed.fd /\ ep[Removed.fd].rec = Null
    BY <1>1, <1>2 DEF SafeInv, NestedShape
  <2>2. find.fd \in TimerFd
    BY <1>1, <2>1 DEF Fd
  <2>. QED  BY <1>1, <2>1, <2>2 DEF SafeInv, TimerShape
<1>. QED  BY <1>2 DEF Removing

LEMMA SafeRemoveFound == ASSUME TypeInv, SafeInv, RemoveFound PROVE SafeInv'
<1>1. /\ pc = "find" /\ find.op = "remove" /\ pc' \in {"client", "unlink"}
      /\ suspended = <<>> /\ phase # "sweep"
      /\ find.data \in Listed /\ find.data # Null
      /\ Neighbours(find.data, find.prev)
      /\ rec[find.data].fd = find.fd /\ find.fd \in Fd
      /\ UNCHANGED <<head, freeHead, next, place, terminate, batch, cb,
                     phase, sweep>>
      /\ ep' = Closed(find.fd)
      /\ IF rec[find.data].type = "TIMER"
         THEN /\ timer' = [timer EXCEPT ![find.fd] = "closed"]
              /\ rec' = Detached(find.data)
         ELSE UNCHANGED <<timer, rec>>
      /\ suspended' = <<[data |-> find.data, prev |-> find.prev,
                         fd |-> find.fd]>> \o suspended
  BY RemovesAlone
  DEF RemoveFound, Found, SafeInv, ControlShape, LookupShape, Neighbours,
      TypeInv, LocalsInUse, memory, dispatch, ghosts
<1>2. /\ Removing' /\ Tail(suspended') = <<>>
      /\ Removed' = [data |-> find.data, prev |-> find.prev, fd |-> find.fd]
  <2>1. suspended' = <<[data |-> find.data, prev |-> find.prev,
                       fd |-> find.fd]>>
    BY <1>1
  <2>. QED  BY <2>1 DEF Removing, Removed
<1>3. ControlShape'
  BY <1>1, <1>2 DEF SafeInv, ControlShape
<1>4. ListShape' /\ PoolShape'
  BY <1>1, ChainsSame DEF ListHead, PoolHead, PoolInUse
<1>5. LookupShape' /\ RemovalShape' /\ SweepShape'
  BY <1>1, <1>2 DEF LookupShape, RemovalShape, SweepShape, Neighbours, Listed,
     Placed, Sweeping
<1>6. /\ \A r \in Record : r # find.data => rec'[r] = rec[r]
      /\ rec'[find.data].fd =
             IF rec[find.data].type = "TIMER" THEN NoFd ELSE find.fd
      /\ find.data \in Record /\ NoFd \notin TimerFd
  <2>1. rec \in [Record -> Data] /\ find.data \in Record
    BY <1>1 DEF TypeInv, TypeOK, Listed, Placed
  <2>2. NoFd \notin TimerFd
    BY ConstantsAssumption DEF ConstantsAssumption, NoFd
  <2>. QED
    BY <1>1, <2>1, <2>2 DEF Detached, Data
<1>7. /\ ep'[find.fd].rec = Null
      /\ \A fd \in Fd : fd # find.fd => ep'[fd] = ep[fd]
  BY <1>1 DEF Closed, Unwatched, TypeInv, TypeOK
<1>8. NestedShape'
  BY <1>1, <1>2, <1>6, <1>7 DEF NestedShape
<1>9. InterestShape'
  <2>1. ASSUME NEW fd \in Fd, ep'[fd].rec # Null
        PROVE  /\ ep'[fd].rec \in Listed /\ rec[ep'[fd].rec].fd = fd
               /\ ep'[fd].rec # find.data
    BY <1>1, <1>7, <2>1 DEF SafeInv, InterestShape
  <2>. QED
    BY <1>1, <1>2, <1>6, <2>1 DEF InterestShape, Listed, Placed
<1>10. TimerShape'
  <2>1. \A r \in Listed :
            rec[r].fd \in TimerFd => rec[r].type = "TIMER" /\ ep[rec[r].fd].rec = r
    BY <1>1 DEF SafeInv, TimerShape
  <2>2. ASSUME NEW r \in Listed, rec'[r].fd \in TimerFd
        PROVE  rec'[r].type = "TIMER" /\ ep'[rec'[r].fd].rec = r
    <3>1. r # find.data
      BY <1>1, <1>6, <2>1, <2>2
    <3>2. rec'[r] = rec[r] /\ rec[r].fd # find.fd
      BY <1>1, <1>6, <2>1, <2>2, <3>1 DEF Listed, Placed
    <3>. QED  BY <1>7, <2>1, <2>2, <3>2 DEF Fd
  <2>3. \A fd \in TimerFd : timer'[fd] = "closed" => ep'[fd].rec = Null
    BY <1>1, <1>7 DEF SafeInv, TimerShape, Fd, TypeInv, TypeOK
  <2>. QED  BY <1>1, <2>2, <2>3 DEF TimerShape, Listed, Placed
<1>. QED
  BY <1>1, <1>3, <1>4, <1>5, <1>8, <1>9, <1>10 DEF SafeInv

LEMMA SafeUnlink == ASSUME TypeInv, SafeInv, Unlink PROVE SafeInv'
<1> DEFINE data == Removed.data
           prev == Removed.prev
<1>1. /\ pc = "unlink" /\ pc' = "client" /\ Removing /\ phase # "sweep"
      /\ data \in Listed /\ data # Null /\ Neighbours(data, prev)
      /\ UNCHANGED <<rec, ep, timer, terminate, batch, cb, phase, sweep>>
      /\ suspended' = <<>> /\ freeHead' = data
      /\ place' = [place EXCEPT ![data] = "pooled"]
      /\ \/ /\ data = head
            /\ head' = next[data]
            /\ next' = [next EXCEPT ![data] = freeHead]
         \/ /\ data # head /\ prev # Null
            /\ head' = head
            /\ next' = Relinked(data, prev)
  BY DEF Unlink, SafeInv, ControlShape, RemovalShape, Neighbours,
     Removing, Removed, TypeInv, LocalsInUse, kernel, dispatch, ghosts
<1>2. /\ next \in [Record -> Record \cup {Null}] /\ data \in Record
      /\ Null \notin Record /\ Listed \subseteq Record
      /\ place \in [Record -> {"unallocated", "listed", "pooled", "leaked", "lost"}]
  BY <1>1, ConstantsAssumption
  DEF ConstantsAssumption, TypeInv, TypeOK, Listed, Placed
<1>3. Listed' = Listed \ {data} /\ Pooled' = Pooled \cup {data}
  BY <1>1, <1>2 DEF Listed, Pooled, Placed
<1>. HIDE DEF data, prev
<1>4. /\ Chain("listed", head)
      /\ ~terminate => Chain("pooled", freeHead)
  BY <1>1 DEF SafeInv, ListShape, PoolShape, ListHead, PoolHead, PoolInUse
<1>5. data \notin Pooled
  BY <1>1 DEF Listed, Pooled, Placed
<1>6. Chain("listed", head)'
  <2>1. CASE data = head
    <3>1. head' = next[data] /\ \A r \in Listed' : next'[r] = next[r]
      BY <1>1, <1>2, <1>3, <2>1
    <3>. QED
      BY <1>1, <1>2, <1>3, <1>4, <2>1, <3>1 DEF Chain, Listed
  <2>2. CASE data # head
    <3>1. /\ prev \in Listed /\ next[prev] = data /\ head' = head
          /\ \A r \in Listed' :
                next'[r] = IF r = prev THEN next[data] ELSE next[r]
      BY <1>1, <1>2, <1>3, <2>2 DEF Relinked, Neighbours
    <3>. QED
      BY <1>1, <1>2, <1>3, <1>4, <2>2, <3>1 DEF Chain, Listed
  <2>. QED  BY <2>1, <2>2
<1>7. ASSUME ~terminate PROVE Chain("pooled", freeHead)'
  <2>1. next'[data] = freeHead /\ \A r \in Pooled : next'[r] = next[r]
    BY <1>1, <1>2, <1>5 DEF Relinked, Neighbours, Listed, Pooled, Placed
  <2>. QED
    BY <1>1, <1>2, <1>3, <1>4, <1>5, <1>7, <2>1 DEF Chain, Pooled
<1>8. ListShape' /\ PoolShape'
  BY <1>1, <1>6, <1>7 DEF ListShape, PoolShape, ListHead, PoolHead, PoolInUse
<1>9. ControlShape'
  BY <1>1 DEF SafeInv, ControlShape, Removing
<1>10. LookupShape' /\ RemovalShape' /\ NestedShape' /\ SweepShape'
  BY <1>1 DEF LookupShape, RemovalShape, NestedShape, SweepShape, Removing, Sweeping
<1>11. InterestShape' /\ TimerShape'
  BY <1>1, <1>3 DEF SafeInv, InterestShape, TimerShape, Removing, data
<1>. QED
  BY <1>1, <1>8, <1>9, <1>10, <1>11 DEF SafeInv

-----------------------------------------------------------------------------
(* Registration.                                                           *)

\* A record taken from the free list or from malloc is on neither list and
\* in no batch, and the free list is sound without it.
LEMMA TakenRecord ==
    ASSUME TypeInv, SafeInv, ~terminate, phase # "sweep", NEW r \in Record,
           Take(r)
    PROVE  /\ r \notin Listed
           /\ freeHead' \in (Pooled \ {r}) \cup {Null}
           /\ \A s \in Pooled \ {r} : /\ next[s] \in (Pooled \ {r}) \cup {Null}
                                      /\ next[s] = freeHead' => freeHead' = Null
<1>1. Chain("pooled", freeHead)
  BY DEF SafeInv, PoolShape, PoolHead, PoolInUse
<1>2. CASE freeHead # Null /\ r = freeHead /\ freeHead' = next[r]
  <2>1. r \in Pooled
    BY <1>1, <1>2 DEF Chain, Pooled
  <2>. QED
    BY <1>1, <1>2, <2>1 DEF Chain, Listed, Pooled, Placed
<1>3. CASE freeHead = Null /\ place[r] = "unallocated" /\ freeHead' = freeHead
  BY <1>1, <1>3 DEF Chain, Listed, Pooled, Placed
<1>. QED
  BY <1>2, <1>3 DEF Take

LEMMA SafeRegister ==
    ASSUME Gentle, TypeInv, SafeInv, NEW o \in {"add", "add_again"}, May(o),
           NEW r \in Record, NEW type, NEW fd \in Fd, NEW d,
           Register(r, type, fd, d), UNCHANGED ep \/
              (/\ \A f \in Fd \ {fd} : ep'[f].rec = ep[f].rec
               /\ ep'[fd].rec = r),
           \A f \in TimerFd \ {fd} : timer'[f] = timer[f],
           fd \in TimerFd => /\ type = "TIMER" /\ ep'[fd].rec = r
                             /\ timer[fd] = "closed" /\ timer'[fd] # "closed"
    PROVE  SafeInv'
<1>1. /\ pc = "client" /\ pc' = "client" /\ ~terminate /\ suspended = <<>>
      /\ phase # "sweep" /\ Take(r)
      /\ head' = r /\ next' = [next EXCEPT ![r] = head]
      /\ rec' = [rec EXCEPT ![r] = [type |-> type, fd |-> fd,
                                    user |-> nreg + 1, destroy |-> d]]
      /\ place' = [place EXCEPT ![r] = "listed"]
      /\ UNCHANGED <<terminate, batch, cb, phase, find, suspended, sweep>>
  BY AddAllowed DEF Register, Link, dispatch, frames
<1>2. /\ next \in [Record -> Record \cup {Null}] /\ rec \in [Record -> Data]
      /\ place \in [Record -> {"unallocated", "listed", "pooled", "leaked", "lost"}]
      /\ Null \notin Record
  BY ConstantsAssumption DEF ConstantsAssumption, TypeInv, TypeOK
<1>3. Listed' = Listed \cup {r} /\ Pooled' = Pooled \ {r}
  BY <1>1, <1>2 DEF Listed, Pooled, Placed
<1>4. r \notin Listed
  BY <1>1, TakenRecord
<1>5. /\ next'[r] = head /\ \A s \in Record \ {r} : next'[s] = next[s]
      /\ Listed \subseteq Record /\ Pooled \subseteq Record
  BY <1>1, <1>2 DEF Listed, Pooled, Placed
<1>6. Chain("listed", head) /\ Chain("pooled", freeHead)
  BY <1>1 DEF SafeInv, ListShape, PoolShape, ListHead, PoolHead, PoolInUse
<1>7. Chain("listed", head)'
  BY <1>1, <1>2, <1>3, <1>4, <1>5, <1>6 DEF Chain, Listed
<1>8. Chain("pooled", freeHead)'
  <2>1. /\ freeHead' \in (Pooled \ {r}) \cup {Null}
        /\ \A s \in Pooled \ {r} : /\ next[s] \in (Pooled \ {r}) \cup {Null}
                                   /\ next[s] = freeHead' => freeHead' = Null
    BY <1>1, TakenRecord
  <2>2. \A s \in Pooled' : s \in Pooled \ {r} /\ next'[s] = next[s]
    BY <1>3, <1>5
  <2>3. \A s, t \in Pooled' :
            (next'[s] = next'[t] /\ next'[s] # Null) => s = t
    BY <1>6, <2>2 DEF Chain, Pooled
  <2>4. /\ freeHead' \in Pooled' \cup {Null}
        /\ \A s \in Pooled' : next'[s] \in Pooled' \cup {Null}
        /\ \A s \in Pooled' : next'[s] = freeHead' => freeHead' = Null
    BY <1>3, <2>1, <2>2
  <2>. QED
    BY <2>3, <2>4 DEF Chain, Pooled
<1>9. ListShape' /\ PoolShape'
  BY <1>1, <1>7, <1>8 DEF ListShape, PoolShape, ListHead, PoolHead
<1>10. ControlShape'
  BY <1>1 DEF SafeInv, ControlShape, Removing
<1>11. LookupShape' /\ RemovalShape' /\ NestedShape' /\ SweepShape'
  BY <1>1 DEF LookupShape, RemovalShape, NestedShape, SweepShape, Removing, Sweeping
<1>12. rec'[r].fd = fd /\ \A s \in Listed : rec'[s] = rec[s]
  BY <1>1, <1>2, <1>4, <1>5
<1>13. InterestShape'
  BY <1>1, <1>3, <1>4, <1>12 DEF SafeInv, InterestShape, Removing
\* No other record has the number of a new timer: it was closed.
<1>14. TimerShape'
  <2>1. \A s \in Listed :
            rec[s].fd \in TimerFd => rec[s].type = "TIMER" /\ ep[rec[s].fd].rec = s
    BY <1>1 DEF SafeInv, TimerShape
  <2>2. ASSUME NEW s \in Listed, rec[s].fd \in TimerFd
        PROVE  rec[s].fd # fd
    BY <1>1, <1>2, <1>5, <2>1, <2>2 DEF SafeInv, TimerShape
  <2>3. ASSUME NEW s \in Listed, rec'[s].fd \in TimerFd
        PROVE  rec'[s].type = "TIMER" /\ ep'[rec'[s].fd].rec = s
    BY <1>12, <2>1, <2>2, <2>3 DEF Fd
  <2>4. rec'[r].fd \in TimerFd => rec'[r].type = "TIMER" /\ ep'[rec'[r].fd].rec = r
    BY <1>1, <1>2
  <2>5. \A f \in TimerFd : timer'[f] = "closed" => ep'[f].rec = Null
    BY <1>1 DEF SafeInv, TimerShape, Fd
  <2>. QED  BY <1>3, <2>3, <2>4, <2>5 DEF TimerShape
<1>. QED
  BY <1>1, <1>9, <1>10, <1>11, <1>13, <1>14 DEF SafeInv

LEMMA SafeAdd ==
    ASSUME Gentle, TypeInv, SafeInv, NEW fd, NEW r \in Record, NEW d, NEW set,
           \/ fd \in UserFd /\ (AddFd(fd, r, d) \/ AddFdRefused(fd, r, d))
           \/ fd \in TimerFd /\ AddTimeout(fd, r, d, set)
    PROVE  SafeInv'
<1>1. fd \in Fd /\ ep \in [Fd -> Interest]
  BY DEF Fd, TypeInv, TypeOK
<1>2. CASE fd \in UserFd /\ AddFd(fd, r, d)
  BY <1>1, <1>2, SafeRegister, ConstantsAssumption DEF AddFd, ConstantsAssumption
<1>3. CASE fd \in UserFd /\ AddFdRefused(fd, r, d)
  <2>1. AddOp(fd) \in {"add", "add_again"} /\ fd \notin TimerFd
    BY <1>3, ConstantsAssumption DEF AddOp, ConstantsAssumption
  <2>. QED
    BY <1>1, <1>3, <2>1, SafeRegister DEF AddFdRefused, kernel
<1>4. CASE fd \in TimerFd /\ AddTimeout(fd, r, d, set)
  <2>1. timer \in [TimerFd -> {"closed", "unset", "set", "expired"}]
    BY DEF TypeInv, TypeOK
  <2>. QED
    BY <1>1, <1>4, <2>1, SafeRegister DEF AddTimeout, Created
<1>. QED  BY <1>2, <1>3, <1>4

LEMMA SafeAddTimeoutRefused ==
    ASSUME Gentle, TypeInv, SafeInv, NEW fd \in TimerFd, NEW r \in Record,
           NEW d, AddTimeoutRefused(fd, r, d)
    PROVE  SafeInv'
<1>1. /\ pc = "client" /\ pc' = "client" /\ ~terminate /\ suspended = <<>>
      /\ phase # "sweep" /\ Take(r)
      /\ rec' = [rec EXCEPT ![r] = [type |-> "TIMER", fd |-> fd,
                                    user |-> nreg + 1, destroy |-> d]]
      /\ next' = [next EXCEPT ![r] = Null]
      /\ place' = [place EXCEPT ![r] = "leaked"]
      /\ UNCHANGED <<head, ep, timer, terminate, batch, cb, phase, find, suspended,
                     sweep>>
  BY AddAllowed DEF AddTimeoutRefused, kernel, dispatch, frames, ghosts
<1>2. /\ next \in [Record -> Record \cup {Null}] /\ rec \in [Record -> Data]
      /\ place \in [Record -> {"unallocated", "listed", "pooled", "leaked", "lost"}]
  BY DEF TypeInv, TypeOK
<1>3. r \notin Listed
  BY <1>1, TakenRecord
<1>4. Listed' = Listed /\ Pooled' = Pooled \ {r}
  BY <1>1, <1>2, <1>3 DEF Listed, Pooled, Placed
<1>5. /\ \A s \in Record \ {r} : next'[s] = next[s] /\ rec'[s] = rec[s]
      /\ Listed \subseteq Record \ {r} /\ Pooled \subseteq Record
  BY <1>1, <1>2, <1>3 DEF Listed, Pooled, Placed
<1>6. Chain("listed", head) /\ Chain("pooled", freeHead)
  BY <1>1 DEF SafeInv, ListShape, PoolShape, ListHead, PoolHead, PoolInUse
<1>7. Chain("listed", head)'
  BY <1>1, <1>4, <1>5, <1>6 DEF Chain, Listed
<1>8. Chain("pooled", freeHead)'
  <2>1. /\ freeHead' \in (Pooled \ {r}) \cup {Null}
        /\ \A s \in Pooled \ {r} : /\ next[s] \in (Pooled \ {r}) \cup {Null}
                                   /\ next[s] = freeHead' => freeHead' = Null
    BY <1>1, TakenRecord
  <2>2. \A s \in Pooled' : s \in Pooled \ {r} /\ next'[s] = next[s]
    BY <1>4, <1>5
  <2>3. \A s, t \in Pooled' :
            (next'[s] = next'[t] /\ next'[s] # Null) => s = t
    BY <1>6, <2>2 DEF Chain, Pooled
  <2>4. /\ freeHead' \in Pooled' \cup {Null}
        /\ \A s \in Pooled' : next'[s] \in Pooled' \cup {Null}
        /\ \A s \in Pooled' : next'[s] = freeHead' => freeHead' = Null
    BY <1>4, <2>1, <2>2
  <2>. QED
    BY <2>3, <2>4 DEF Chain, Pooled
<1>9. ListShape' /\ PoolShape'
  BY <1>1, <1>7, <1>8 DEF ListShape, PoolShape, ListHead, PoolHead
<1>10. ControlShape'
  BY <1>1 DEF SafeInv, ControlShape, Removing
<1>11. LookupShape' /\ RemovalShape' /\ NestedShape' /\ SweepShape'
  BY <1>1 DEF LookupShape, RemovalShape, NestedShape, SweepShape, Removing, Sweeping
<1>12. InterestShape' /\ TimerShape'
  BY <1>1, <1>4, <1>5 DEF SafeInv, InterestShape, TimerShape, Removing
<1>. QED
  BY <1>1, <1>9, <1>10, <1>11, <1>12 DEF SafeInv

LEMMA SafeAddTimeoutNoMemory ==
    ASSUME Gentle, TypeInv, SafeInv, NEW fd \in TimerFd, NEW set,
           AddTimeoutNoMemory(fd, set)
    PROVE  SafeInv'
<1>1. /\ pc' = pc
      /\ UNCHANGED <<head, freeHead, next, rec, place, ep, terminate, batch, cb,
                     phase, find, suspended, sweep>>
  BY DEF AddTimeoutNoMemory, memory, dispatch, frames, ghosts
<1>2. ListShape' /\ PoolShape'
  BY <1>1, ChainsSame DEF ListHead, PoolHead, PoolInUse
<1>3. ControlShape' /\ LookupShape' /\ RemovalShape' /\ SweepShape'
  BY <1>1 DEF SafeInv, ControlShape, LookupShape, RemovalShape, SweepShape,
     Removing, Removed, Sweeping, Neighbours, Listed, Placed
<1>4. InterestShape' /\ NestedShape'
  BY <1>1, NestedSame DEF SafeInv, InterestShape, Listed, Placed, Removing, Removed
<1>5. \A f \in TimerFd : timer'[f] = "closed" => timer[f] = "closed"
  BY DEF AddTimeoutNoMemory, Created, TypeInv, TypeOK
<1>6. TimerShape'
  BY <1>1, <1>5, TimersKept
<1>. QED
  BY <1>1, <1>2, <1>3, <1>4, <1>6 DEF SafeInv

-----------------------------------------------------------------------------
(* mainloop_quit.                                                          *)

\* What no step of mainloop_quit touches stays as it was.
LEMMA SafeQuitRest ==
    ASSUME SafeInv, phase # "sweep", Listed' = Listed, pc' # "find",
           UNCHANGED <<head, next, rec, ep, timer, phase, suspended, sweep>>
    PROVE  /\ LookupShape' /\ RemovalShape' /\ NestedShape' /\ SweepShape'
           /\ InterestShape' /\ TimerShape'
  BY DEF SafeInv, LookupShape, RemovalShape, NestedShape, SweepShape,
     InterestShape, TimerShape, Neighbours, Removing, Removed, Sweeping

LEMMA SafeCallQuit ==
    ASSUME Gentle, TypeInv, SafeInv, CallQuit PROVE SafeInv'
<1>1. /\ pc = "client" /\ pc' = "quit" /\ ~terminate /\ terminate'
      /\ phase # "sweep" /\ find'.data = freeHead
      /\ UNCHANGED <<head, next, rec, place, ep, timer, batch, cb, phase, suspended,
                     sweep>>
  BY AddAllowed DEF CallQuit, QuitFrom, memory, kernel, ghosts
<1>2. ControlShape'
  BY <1>1 DEF SafeInv, ControlShape, Removing
<1>3. ListShape' /\ PoolShape'
  BY <1>1, ChainsSame DEF ListHead, PoolHead, PoolInUse
<1>4. Listed' = Listed
  BY <1>1 DEF Listed, Placed
<1>. QED
  BY <1>1, <1>2, <1>3, <1>4, SafeQuitRest DEF SafeInv

LEMMA SafeQuitFree == ASSUME TypeInv, SafeInv, QuitFree PROVE SafeInv'
<1> DEFINE r == find.data
<1>1. /\ pc = "quit" /\ pc' = "quit" /\ terminate /\ terminate'
      /\ phase # "sweep" /\ r # Null /\ find'.data = next[r]
      /\ place' = [place EXCEPT ![r] = "unallocated"]
      /\ UNCHANGED <<head, next, rec, ep, timer, batch, cb, phase, suspended, sweep>>
  BY DEF QuitFree, SafeInv, ControlShape, Removing, kernel, dispatch, ghosts
<1>2. /\ Chain("listed", head) /\ Chain("pooled", r)
      /\ PoolHead' = next[r]
  BY <1>1 DEF SafeInv, ListShape, PoolShape, ListHead, PoolHead, PoolInUse
<1>. HIDE DEF r
<1>3. r \in Pooled /\ r \notin Listed
  BY <1>1, <1>2 DEF Chain, Pooled, Listed, Placed
<1>4. Listed' = Listed /\ Pooled' = Pooled \ {r}
  BY <1>1, <1>3 DEF TypeInv, TypeOK, Listed, Pooled, Placed
<1>5. ControlShape'
  BY <1>1 DEF SafeInv, ControlShape, Removing
<1>6. ListShape'
  BY <1>1, <1>2, <1>4 DEF ListShape, ListHead, Chain, Listed
<1>7. PoolShape'
  BY <1>1, <1>2, <1>3, <1>4 DEF PoolShape, Chain, Pooled
<1>. QED
  BY <1>1, <1>4, <1>5, <1>6, <1>7, SafeQuitRest DEF SafeInv

LEMMA SafeQuitDone == ASSUME TypeInv, SafeInv, QuitDone PROVE SafeInv'
<1>1. /\ pc = "quit" /\ pc' = "client" /\ terminate /\ find.data = Null
      /\ phase # "sweep"
      /\ UNCHANGED <<head, next, rec, place, ep, timer, terminate, batch, cb, phase,
                     suspended, sweep>>
  BY DEF QuitDone, SafeInv, ControlShape, Removing, memory, kernel, dispatch,
     ghosts
<1>2. ControlShape'
  BY <1>1 DEF SafeInv, ControlShape, Removing
<1>3. ListShape' /\ PoolShape'
  BY <1>1, ChainsSame DEF ListHead, PoolHead, PoolInUse
<1>4. Listed' = Listed
  BY <1>1 DEF Listed, Placed
<1>. QED
  BY <1>1, <1>2, <1>3, <1>4, SafeQuitRest DEF SafeInv

-----------------------------------------------------------------------------
(* mainloop_init, mainloop_run and the dispatch loop.                      *)

LEMMA SafeMainloopInit == ASSUME TypeInv, SafeInv, MainloopInit PROVE SafeInv'
<1>1. /\ pc \in {"boot", "stopped"} /\ pc' = "client" /\ ~terminate'
      /\ head' = Null /\ freeHead' = Null /\ phase' = "setup"
      /\ \A fd \in Fd : ep'[fd].rec = Null
      /\ UNCHANGED <<batch, cb, suspended, sweep>>
      /\ batch = {} /\ cb.fd = NoFd /\ suspended = <<>>
  BY DEF MainloopInit, EmptyLists, Unwatched, frames, ghosts, SafeInv,
     ControlShape, Removing, TypeInv, LocalsInUse
<1>2. Listed' = {} /\ Pooled' = {}
  BY DEF MainloopInit, Listed, Pooled, Placed
<1>3. ListShape' /\ PoolShape'
  BY <1>1, <1>2 DEF ListShape, PoolShape, Chain, ListHead, PoolHead, Listed,
     Pooled
<1>4. ControlShape'
  BY <1>1 DEF SafeInv, ControlShape, Removing
<1>5. LookupShape' /\ RemovalShape' /\ NestedShape' /\ SweepShape'
  BY <1>1 DEF LookupShape, RemovalShape, NestedShape, SweepShape, Removing, Sweeping
<1>6. InterestShape' /\ TimerShape'
  BY <1>1, <1>2 DEF InterestShape, TimerShape, Removing, Fd
<1>. QED
  BY <1>1, <1>3, <1>4, <1>5, <1>6 DEF SafeInv

LEMMA SafeCallRun == ASSUME TypeInv, SafeInv, CallRun PROVE SafeInv'
<1>1. /\ pc = "client" /\ pc' = "loop" /\ phase = "setup" /\ phase' = "run"
      /\ UNCHANGED <<head, freeHead, next, rec, place, ep, timer, terminate, batch,
                     cb, find, suspended, sweep>>
      /\ suspended = <<>>
  BY DEF CallRun, memory, kernel, dispatch, frames, ghosts
<1>2. ControlShape'
  BY <1>1 DEF SafeInv, ControlShape, Removing
<1>3. ListShape' /\ PoolShape'
  BY <1>1, ChainsSame DEF ListHead, PoolHead, PoolInUse
<1>4. LookupShape' /\ RemovalShape' /\ NestedShape' /\ SweepShape'
  BY <1>1 DEF LookupShape, RemovalShape, NestedShape, SweepShape, Removing, Sweeping
<1>5. InterestShape' /\ TimerShape'
  BY <1>1, TimersKept DEF SafeInv, InterestShape, Listed, Placed, Removing
<1>. QED
  BY <1>1, <1>2, <1>3, <1>4, <1>5 DEF SafeInv

\* epoll_wait hands out pointers of the interest list.
LEMMA SafeEpollWait ==
    ASSUME TypeInv, SafeInv, NEW fds \in SUBSET CanFire, EpollWait(fds)
    PROVE  SafeInv'
<1>1. /\ pc = "loop" /\ pc' = "dispatch" /\ phase = "run" /\ suspended = <<>>
      /\ cb.fd = NoFd
      /\ batch' = {ep[fd].rec : fd \in fds}
      /\ UNCHANGED <<head, freeHead, next, rec, place, timer, terminate, cb, phase,
                     find, suspended, sweep>>
  BY DEF EpollWait, SafeInv, ControlShape, Removing, TypeInv, LocalsInUse,
     memory, frames, ghosts
<1>2. \A fd \in Fd : ep'[fd].rec = ep[fd].rec
  BY DEF EpollWait
<1>3. ControlShape'
  BY <1>1 DEF SafeInv, ControlShape, Removing
<1>4. ListShape' /\ PoolShape'
  BY <1>1, ChainsSame DEF ListHead, PoolHead, PoolInUse
<1>5. LookupShape' /\ RemovalShape' /\ NestedShape' /\ SweepShape'
  BY <1>1 DEF LookupShape, RemovalShape, NestedShape, SweepShape, Removing, Sweeping
<1>6. InterestShape' /\ TimerShape'
  BY <1>1, <1>2, TimersKept DEF SafeInv, InterestShape, Listed, Placed, Removing
<1>. QED
  BY <1>1, <1>3, <1>4, <1>5, <1>6 DEF SafeInv

LEMMA SafeDispatch ==
    ASSUME TypeInv, SafeInv, NEW r \in Record,
           DispatchEvent(r) \/ DispatchTimeout(r) \/ DispatchNothing(r)
    PROVE  SafeInv'
<1>1. /\ pc = "dispatch" /\ phase = "run" /\ suspended = <<>>
      /\ r \in batch /\ batch' = batch \ {r}
      /\ \/ pc' = "client" /\ cb'.fd = rec[r].fd
         \/ pc' = "dispatch" /\ cb' = cb
      /\ UNCHANGED <<head, freeHead, next, rec, place, ep, terminate, phase,
                     find, suspended, sweep>>
  BY DEF DispatchEvent, DispatchTimeout, DispatchNothing, Deliver, RunCallback,
     SafeInv, ControlShape, Removing, TypeInv, LocalsInUse, memory, kernel,
     frames, ghosts
<1>2. ControlShape'
  BY <1>1 DEF SafeInv, ControlShape, Removing
<1>3. ListShape' /\ PoolShape'
  BY <1>1, ChainsSame DEF ListHead, PoolHead, PoolInUse
<1>4. LookupShape' /\ RemovalShape' /\ NestedShape' /\ SweepShape'
  BY <1>1 DEF LookupShape, RemovalShape, NestedShape, SweepShape, Removing, Sweeping
<1>5. \A f \in TimerFd : timer'[f] = "closed" => timer[f] = "closed"
  BY DEF DispatchEvent, DispatchTimeout, DispatchNothing, kernel, TypeInv, TypeOK
<1>6. InterestShape' /\ TimerShape'
  BY <1>1, <1>5, TimersKept DEF SafeInv, InterestShape, Listed, Placed, Removing
<1>. QED
  BY <1>1, <1>2, <1>3, <1>4, <1>6 DEF SafeInv

LEMMA SafeLoopTurns ==
    ASSUME TypeInv, SafeInv, BatchDone \/ LoopEnds PROVE SafeInv'
<1>1. /\ pc \in {"loop", "dispatch"} /\ phase = "run" /\ suspended = <<>>
      /\ batch = {} /\ cb.fd = NoFd
      /\ \/ pc' = "loop" /\ phase' = "run" /\ sweep' = sweep
         \/ pc' = "sweep" /\ phase' = "sweep" /\ sweep'.data = head /\ terminate
      /\ UNCHANGED <<head, freeHead, next, rec, place, ep, timer, terminate, batch,
                     cb, find, suspended>>
  BY DEF BatchDone, LoopEnds, LoopGoesOn, SafeInv, ControlShape, Removing,
     TypeInv, LocalsInUse, memory, kernel, dispatch, frames, ghosts
<1>2. ControlShape'
  BY <1>1 DEF SafeInv, ControlShape, Removing
<1>3. ListShape' /\ PoolShape'
  BY <1>1, ChainsSame DEF ListHead, PoolHead, PoolInUse
<1>4. LookupShape' /\ RemovalShape' /\ NestedShape' /\ SweepShape'
  BY <1>1 DEF LookupShape, RemovalShape, NestedShape, SweepShape, Removing, Sweeping
<1>5. InterestShape' /\ TimerShape'
  BY <1>1, TimersKept DEF SafeInv, InterestShape, Listed, Placed, Removing
<1>. QED
  BY <1>1, <1>2, <1>3, <1>4, <1>5 DEF SafeInv

-----------------------------------------------------------------------------
(* The final sweep.                                                        *)

LEMMA SafeSweepRecord ==
    ASSUME TypeInv, SafeInv, SweepRecord \/ SweepDone PROVE SafeInv'
<1>1. /\ pc = "sweep" /\ phase = "sweep" /\ suspended = <<>> /\ terminate
      /\ \/ pc' = "stopped" /\ sweep' = sweep
         \/ /\ pc' \in {"client", "release"} /\ sweep.data # Null
            /\ sweep' = [data |-> sweep.data, tmp |-> next[sweep.data]]
      /\ UNCHANGED <<head, freeHead, next, rec, place, terminate, batch, cb,
                     phase, find, suspended>>
  BY DEF SweepRecord, SweepDone, SafeInv, ControlShape, Removing, TypeInv,
     LocalsInUse, memory, dispatch, frames, ghosts
<1>2. sweep.data \in Listed \cup {Null}
  BY <1>1 DEF SafeInv, ListShape, Chain, ListHead, Listed
<1>3. ControlShape'
  BY <1>1 DEF SafeInv, ControlShape, Removing
<1>4. ListShape' /\ PoolShape'
  BY <1>1, ChainsSame DEF ListHead, PoolHead, PoolInUse
<1>5. LookupShape' /\ RemovalShape' /\ NestedShape' /\ SweepShape'
  BY <1>1, <1>2 DEF LookupShape, RemovalShape, NestedShape, SweepShape, Removing,
     Sweeping, Listed, Placed
<1>6. InterestShape' /\ TimerShape'
  BY <1>1 DEF InterestShape, TimerShape
<1>. QED
  BY <1>1, <1>3, <1>4, <1>5, <1>6 DEF SafeInv

LEMMA SafeSweepFree == ASSUME TypeInv, SafeInv, SweepFree PROVE SafeInv'
<1> DEFINE r == sweep.data
<1>1. /\ pc = "release" /\ pc' = "sweep" /\ phase = "sweep" /\ terminate
      /\ suspended = <<>> /\ batch = {} /\ r \in Listed
      /\ place' = [place EXCEPT ![r] = "unallocated"]
      /\ sweep'.data = next[r]
      /\ UNCHANGED <<head, freeHead, next, rec, terminate, batch, cb, phase,
                     find, suspended>>
  BY DEF SweepFree, SafeInv, ControlShape, SweepShape, Removing, Sweeping,
     TypeInv, LocalsInUse, kernel, dispatch, ghosts
<1>2. Chain("listed", r) /\ ListHead' = next[r]
  BY <1>1 DEF SafeInv, ListShape, ListHead
<1>. HIDE DEF r
<1>3. Listed' = Listed \ {r} /\ Pooled' = Pooled /\ r # Null
  BY <1>1, ConstantsAssumption
  DEF ConstantsAssumption, TypeInv, TypeOK, Listed, Pooled, Placed
<1>4. ControlShape'
  BY <1>1 DEF SafeInv, ControlShape, Removing
<1>5. ListShape'
  BY <1>1, <1>2, <1>3 DEF ListShape, Chain, Listed
<1>6. PoolShape'
  BY <1>1 DEF PoolShape, PoolInUse
<1>7. LookupShape' /\ RemovalShape' /\ NestedShape' /\ SweepShape'
  BY <1>1 DEF LookupShape, RemovalShape, NestedShape, SweepShape, Removing, Sweeping
<1>8. InterestShape' /\ TimerShape'
  BY <1>1 DEF InterestShape, TimerShape
<1>. QED
  BY <1>1, <1>4, <1>5, <1>6, <1>7, <1>8 DEF SafeInv

-----------------------------------------------------------------------------
(* The memory errors, and what holds whatever event callbacks call.        *)

\* Lookups, removals, quits and sweeps follow only pointers to records on a
\* list: what may be dangling is an event of the batch, whose record another
\* callback removed and mainloop_quit freed.
LEMMA OnlyStaleEvents ==
    ASSUME Gentle, TypeInv, SafeInv,
           UseAfterFree \/ DoubleFree \/ NullDereference
    PROVE  /\ pc = "dispatch" /\ pc' = "crashed"
           /\ \E r \in batch : Dangling(r)
           /\ UNCHANGED <<memory, kernel, dispatch, phase, frames, nreg, accepted,
                          ended>>
<1>1. ASSUME NEW r \in Listed \cup Pooled \cup {Null} PROVE ~Dangling(r)
  BY DEF Dangling, Listed, Pooled, Placed
<1>2. /\ ListHead \in Listed \cup {Null}
      /\ PoolInUse => PoolHead \in Pooled \cup {Null}
  BY DEF SafeInv, ListShape, PoolShape, Chain, Listed, Pooled
<1>3. May("add") => ~Dangling(freeHead)
  BY <1>1, <1>2, AddAllowed DEF PoolHead, PoolInUse
<1>4. pc = "find" => ~Dangling(find.data)
  BY <1>1 DEF SafeInv, LookupShape, Neighbours
<1>5. pc = "unlink" =>
        /\ ~UnlinkTouchesFreed
        /\ Head(suspended).prev = Null => Head(suspended).data = head
  <2>1. ASSUME pc = "unlink"
        PROVE  /\ Removed.data \in Listed /\ Removed.prev \in Listed \cup {Null}
               /\ Removed.prev = Null => Removed.data = head
    BY <2>1 DEF SafeInv, RemovalShape, Neighbours, Removing, TypeInv,
       LocalsInUse
  <2>. QED
    BY <1>1, <2>1 DEF UnlinkTouchesFreed, Removed
<1>6. pc \in {"sweep", "release"} => ~Dangling(sweep.data)
  BY <1>1, <1>2 DEF ListHead, TypeInv, LocalsInUse
<1>7. pc = "quit" => ~Dangling(find.data)
  BY <1>1, <1>2 DEF PoolHead, PoolInUse, SafeInv, ControlShape
<1>8. ~DoubleFree /\ ~NullDereference
  BY <1>5, <1>6, <1>7 DEF DoubleFree, NullDereference
<1>9. /\ pc = "dispatch" /\ \E r \in batch : Dangling(r)
      /\ Crash("use_after_free")
  BY <1>3, <1>4, <1>5, <1>6, <1>8 DEF UseAfterFree
<1>. QED  BY <1>9 DEF Crash

\* Steps that change nothing the invariant is about, the end by a memory
\* error included.
LEMMA SafeIdle ==
    ASSUME TypeInv, SafeInv,
           UNCHANGED <<memory, ep, dispatch, phase, frames>>,
           \A f \in TimerFd : timer'[f] = "closed" => timer[f] = "closed",
           pc' = pc \/ (pc = "dispatch" /\ pc' = "crashed")
    PROVE  SafeInv'
<1>1. UNCHANGED <<head, freeHead, next, rec, place, ep, terminate, batch, cb,
                  phase, find, suspended, sweep>>
  BY DEF memory, dispatch, frames
<1>2. ListShape' /\ PoolShape'
  BY <1>1, ChainsSame DEF ListHead, PoolHead, PoolInUse
<1>3. ControlShape' /\ LookupShape' /\ RemovalShape' /\ SweepShape'
  BY <1>1 DEF SafeInv, ControlShape, LookupShape, RemovalShape, SweepShape,
     Removing, Removed, Sweeping, Neighbours, Listed, Placed, TypeInv, LocalsInUse
<1>4. NestedShape' /\ InterestShape' /\ TimerShape'
  BY <1>1, NestedSame, TimersKept
  DEF SafeInv, InterestShape, Listed, Placed, Removing, Removed
<1>. QED
  BY <1>2, <1>3, <1>4 DEF SafeInv

LEMMA SafeNext == ASSUME Gentle, TypeInv, SafeInv, [Next]_vars PROVE SafeInv'
<1>1. CASE ClientCall
  BY <1>1, SafeAdd, SafeAddTimeoutRefused, SafeAddTimeoutNoMemory, SafeCalls,
     SafeCallQuit DEF ClientCall
<1>2. CASE FinishCall
  BY <1>2, SafeFindNext, SafeNotFound, SafeModifyFound, SafeRemoveFound,
     SafeUnlink, SafeQuitFree, SafeQuitDone DEF FinishCall
<1>3. CASE Loop
  BY <1>3, SafeEpollWait, SafeDispatch, SafeLoopTurns, SafeSweepRecord,
     SafeSweepFree DEF Loop
<1>4. CASE UseAfterFree \/ DoubleFree \/ NullDereference
  BY <1>4, OnlyStaleEvents, SafeIdle DEF kernel
<1>5. CASE (\E fd \in TimerFd : TimerExpire(fd)) \/ UNCHANGED vars
  <2>1. \A f \in TimerFd : timer'[f] = "closed" => timer[f] = "closed"
    BY <1>5 DEF TimerExpire, vars, kernel, TypeInv, TypeOK
  <2>. QED
    BY <1>5, <2>1, SafeIdle DEF TimerExpire, vars, kernel
<1>. QED
  BY <1>1, <1>2, <1>3, <1>4, <1>5, SafeMainloopInit, SafeCallRun, SafeReturns
  DEF Next

LEMMA SafeImplies == SafeInv => ListsApart /\ InterestLive
<1> SUFFICES ASSUME SafeInv PROVE ListsApart /\ InterestLive
  OBVIOUS
<1>1. InterestLive
  BY DEF SafeInv, InterestShape, InterestLive
<1>2. ListsApart
  BY DEF SafeInv, ListShape, PoolShape, Chain, ListHead, PoolHead, PoolInUse,
     ListsApart, Listed, Pooled
<1>. QED  BY <1>1, <1>2

\* The inductive invariant holds in every state of a run whose callbacks
\* keep the contract.
LEMMA SafeAlways == ASSUME Gentle PROVE Spec => [](TypeInv /\ SafeInv)
<1>1. Init => TypeInv /\ SafeInv
  BY TypeInit, SafeInit
<1>2. TypeInv /\ SafeInv /\ [Next]_vars => (TypeInv /\ SafeInv)'
  BY TypeNext, SafeNext
<1>. QED  BY <1>1, <1>2, PTL DEF Spec

\* The registration list and the free list stay apart, whatever event
\* callbacks add, modify and remove, and whichever calls fail.
THEOREM ListsDisjoint == ASSUME Gentle PROVE Spec => []ListsApart
<1>1. TypeInv /\ SafeInv => ListsApart
  BY SafeImplies
<1>. QED  BY <1>1, SafeAlways, PTL

\* Every pointer in the kernel's interest list is to a registered record with
\* that descriptor, whatever event callbacks do.
THEOREM InterestStaysLive == ASSUME Gentle PROVE Spec => []InterestLive
<1>1. TypeInv /\ SafeInv => InterestLive
  BY SafeImplies
<1>. QED  BY <1>1, SafeAlways, PTL

-----------------------------------------------------------------------------
(* The batch, when event callbacks remove only their own descriptor.       *)

\* The events not dispatched yet are for registered records with different
\* descriptors, none of them the one whose callback runs.
BatchShape ==
    /\ batch \subseteq Listed
    /\ \A r \in batch : rec[r].fd \in Fd /\ rec[r].fd # cb.fd
    /\ \A r, s \in batch : rec[r].fd = rec[s].fd => r = s
    /\ Removing => Removed.data \notin batch

\* An event callback that removes looks for its own descriptor.
OwnLookup ==
    (pc = "find" /\ find.op = "remove" /\ phase = "run" /\ ~Removing)
    => find.fd = cb.fd

BatchInv == fault = "none" /\ pc # "crashed" /\ OwnLookup /\ BatchShape

LEMMA BatchInit == Init => BatchInv
  BY DEF Init, BatchInv, OwnLookup, BatchShape, Removing

\* Steps that take events out of the batch at most, and leave the records of
\* the others alone.
LEMMA BatchKept ==
    ASSUME BatchInv, fault' = fault, pc' # "crashed", OwnLookup',
           batch' \subseteq batch,
           \A r \in batch' : /\ r \in Listed' /\ rec'[r].fd = rec[r].fd
                             /\ rec[r].fd # cb'.fd,
           Removing' => Removed'.data \notin batch'
    PROVE  BatchInv'
  BY DEF BatchInv, BatchShape

\* Steps that leave the batch, and the registered records, as they are.
LEMMA BatchSame ==
    ASSUME BatchInv, UNCHANGED <<batch, cb, fault>>, pc' # "crashed", OwnLookup',
           \A r \in Listed : r \in Listed' /\ rec'[r] = rec[r],
           UNCHANGED suspended \/ ~Removing'
    PROVE  BatchInv'
<1>1. /\ batch \subseteq Listed
      /\ \A r \in batch : rec[r].fd # cb.fd
      /\ Removing => Removed.data \notin batch
  BY DEF BatchInv, BatchShape
<1>2. \A r \in batch : r \in Listed' /\ rec'[r].fd = rec[r].fd
  BY <1>1
<1>3. Removing' => Removed'.data \notin batch
  BY <1>1 DEF Removing, Removed
<1>. QED  BY <1>1, <1>2, <1>3, BatchKept

LEMMA BatchCalls ==
    ASSUME Gentle, OwnOnly, TypeInv, SafeInv, BatchInv, ClientCall
    PROVE  BatchInv'
<1>1. CASE \/ \E fd \in UserFd, r \in Record, d \in BOOLEAN :
                 AddFd(fd, r, d) \/ AddFdRefused(fd, r, d)
           \/ \E fd \in TimerFd, r \in Record, d, set \in BOOLEAN :
                 AddTimeout(fd, r, d, set)
           \/ \E fd \in TimerFd, r \in Record, d \in BOOLEAN :
                 AddTimeoutRefused(fd, r, d)
  <2>1. PICK r, x, p, o :
          /\ r \in Record /\ x \in Data /\ p \in {"listed", "leaked"}
          /\ o \in {"add", "add_again"} /\ May(o) /\ Take(r) /\ rec' = [rec EXCEPT ![r] = x]
          /\ place' = [place EXCEPT ![r] = p]
          /\ pc' = "client" /\ UNCHANGED <<batch, cb, suspended, fault>>
    <3>1. CASE \/ \E fd \in UserFd, r \in Record, d \in BOOLEAN :
                     AddFd(fd, r, d) \/ AddFdRefused(fd, r, d)
               \/ \E fd \in TimerFd, r \in Record, d, set \in BOOLEAN :
                     AddTimeout(fd, r, d, set)
      <4>1. PICK r, type, fd, d, o :
              /\ r \in Record /\ type \in {"GENERAL", "TIMER"} /\ fd \in Fd
              /\ d \in BOOLEAN /\ o \in {"add", "add_again"} /\ May(o)
              /\ Register(r, type, fd, d)
        BY <3>1 DEF AddFd, AddFdRefused, AddOp, AddTimeout, Fd
      <4>2. nreg + 1 \in User
        BY <4>1, ConstantsAssumption
        DEF ConstantsAssumption, Register, TypeInv, TypeOK, User
      <4>3. [type |-> type, fd |-> fd, user |-> nreg + 1, destroy |-> d] \in Data
        BY <4>1, <4>2 DEF Data
      <4>. QED  BY <4>1, <4>3 DEF Register, May, dispatch, frames
    <3>2. CASE \E fd \in TimerFd, r \in Record, d \in BOOLEAN :
                     AddTimeoutRefused(fd, r, d)
      <4>1. PICK fd \in TimerFd, r \in Record, d \in BOOLEAN :
              AddTimeoutRefused(fd, r, d)
        BY <3>2
      <4>2. [type |-> "TIMER", fd |-> fd, user |-> nreg + 1, destroy |-> d] \in Data
        BY <4>1, ConstantsAssumption
        DEF ConstantsAssumption, AddTimeoutRefused, TypeInv, TypeOK, User, Fd, Data
      <4>. QED  BY <4>1, <4>2 DEF AddTimeoutRefused, May, dispatch, frames
    <3>. QED  BY <1>1, <3>1, <3>2
  <2>2. r \notin Listed
    BY <2>1, AddAllowed, TakenRecord
  <2>3. \A s \in Listed : s \in Listed' /\ rec'[s] = rec[s]
    BY <2>1, <2>2 DEF Listed, Placed, TypeInv, TypeOK
  <2>. QED  BY <2>1, <2>3, BatchSame DEF OwnLookup
<1>2. CASE \E fd \in Fd \cup {NoFd} : CallRemoveFd(fd)
  <2>1. PICK fd \in Fd : May(RemoveOp(fd)) /\ StartFind("remove", fd)
    BY <1>2 DEF CallRemoveFd, ValidFd, NoFd
  <2>2. phase = "run" /\ ~Removing => fd = cb.fd
    <3>1. phase = "run" /\ ~Removing => RemoveOp(fd) # "remove_other"
      BY <2>1, CallAllowed DEF OwnOnly
    <3>2. fd # NoFd
      BY ConstantsAssumption DEF ConstantsAssumption, Fd, NoFd
    <3>. QED  BY <3>1, <3>2 DEF RemoveOp, OwnFd, Removing
  <2>3. OwnLookup' /\ pc' # "crashed"
    BY <2>1, <2>2 DEF StartFind, OwnLookup, dispatch, Removing
  <2>4. /\ UNCHANGED <<batch, cb, suspended, fault>>
        /\ \A r \in Listed : r \in Listed' /\ rec'[r] = rec[r]
    BY <2>1 DEF StartFind, dispatch, ghosts, memory, Listed, Placed
  <2>. QED  BY <2>3, <2>4, BatchSame
<1>3. CASE \/ \E fd \in TimerFd, set \in BOOLEAN : AddTimeoutNoMemory(fd, set)
           \/ \E fd \in Fd \cup {NoFd} : CallModifyFd(fd)
           \/ \E fd \in TimerFd : CallModifyTimeout(fd)
           \/ CallQuit
  <2>1. /\ UNCHANGED <<rec, place, batch, cb, suspended, fault>>
        /\ pc' = "client" \/ pc' = "quit" \/ (pc' = "find" /\ find'.op = "modify")
    BY <1>3 DEF AddTimeoutNoMemory, CallModifyFd, CallModifyTimeout, CallQuit,
       StartFind, May, memory, dispatch, frames, ghosts
  <2>2. \A r \in Listed : r \in Listed' /\ rec'[r] = rec[r]
    BY <2>1 DEF Listed, Placed
  <2>. QED  BY <2>1, <2>2, BatchSame DEF OwnLookup
<1>. QED  BY <1>1, <1>2, <1>3 DEF ClientCall

LEMMA BatchFinish ==
    ASSUME TypeInv, SafeInv, BatchInv, FinishCall PROVE BatchInv'
<1>1. CASE FindNext \/ NotFound \/ ModifyFound \/ QuitDone
  <2>1. /\ UNCHANGED <<rec, place, batch, cb, suspended, fault>>
        /\ \/ pc' = "client"
           \/ /\ pc' = "find" /\ pc = "find" /\ find'.op = find.op
              /\ find'.fd = find.fd /\ phase' = phase
    BY <1>1 DEF FindNext, NotFound, ModifyFound, QuitDone, Found, memory,
       dispatch, ghosts
  <2>2. OwnLookup'
    BY <2>1 DEF BatchInv, OwnLookup, Removing
  <2>3. \A r \in Listed : r \in Listed' /\ rec'[r] = rec[r]
    BY <2>1 DEF Listed, Placed
  <2>. QED  BY <2>1, <2>2, <2>3, BatchSame
<1>2. CASE RemoveFound
  <2> DEFINE r == find.data
  <2>1. /\ pc = "find" /\ find.op = "remove" /\ pc' \in {"client", "unlink"}
        /\ rec[r].fd = find.fd /\ rec' \in {rec, Detached(r)} /\ r \in Record
        /\ suspended' = <<[data |-> r, prev |-> find.prev, fd |-> find.fd]>> \o suspended
        /\ UNCHANGED <<place, batch, cb, fault>>
    BY <1>2 DEF RemoveFound, Found, SafeInv, LookupShape, Neighbours, Listed,
       Placed, dispatch
  <2>2. suspended = <<>>
    BY <1>2, RemovesAlone DEF RemoveFound
  <2>3. Removed'.data = r
    BY <2>1, <2>2 DEF Removed
  <2>. HIDE DEF r
  <2>4. r \notin batch
    BY <2>1, <2>2 DEF BatchInv, OwnLookup, BatchShape, SafeInv, ControlShape,
       Removing, TypeInv, TypeOK
  <2>5. \A s \in batch : s \in Listed' /\ rec'[s].fd = rec[s].fd /\ rec[s].fd # cb'.fd
    BY <2>1, <2>4 DEF BatchInv, BatchShape, Listed, Placed, Detached, TypeInv, TypeOK
  <2>. QED  BY <2>1, <2>3, <2>4, <2>5, BatchKept DEF OwnLookup
<1>3. CASE Unlink
  <2> DEFINE data == Removed.data
  <2>1. /\ pc' = "client" /\ Removing /\ suspended' = <<>>
        /\ place' = [place EXCEPT ![data] = "pooled"]
        /\ UNCHANGED <<rec, batch, cb, fault>>
    BY <1>3 DEF Unlink, SafeInv, ControlShape, Removing, Removed, TypeInv,
       LocalsInUse, dispatch, ghosts
  <2>. HIDE DEF data
  <2>2. /\ data \notin batch
        /\ \A r \in batch : r \in Listed /\ rec[r].fd # cb.fd
    BY <2>1 DEF BatchInv, BatchShape, data
  <2>3. \A r \in batch : r \in Listed'
    BY <2>1, <2>2 DEF Listed, Placed, TypeInv, TypeOK
  <2>4. ~Removing'
    BY <2>1 DEF Removing
  <2>. QED  BY <2>1, <2>2, <2>3, <2>4, BatchKept DEF OwnLookup
<1>4. CASE QuitFree
  <2>1. /\ pc' = "quit" /\ UNCHANGED <<rec, batch, cb, suspended, fault>>
        /\ place' = [place EXCEPT ![find.data] = "unallocated"]
    BY <1>4 DEF QuitFree, dispatch, ghosts
  <2>2. find.data \notin Listed
    BY <1>4 DEF QuitFree, SafeInv, ControlShape, PoolShape, PoolInUse, PoolHead,
       Chain, Listed, Placed
  <2>3. \A r \in Listed : r \in Listed' /\ rec'[r] = rec[r]
    BY <2>1, <2>2 DEF Listed, Placed, TypeInv, TypeOK
  <2>. QED  BY <2>1, <2>3, BatchSame DEF OwnLookup
<1>. QED  BY <1>1, <1>2, <1>3, <1>4 DEF FinishCall

\* What epoll_wait may report is a registered record's descriptor.
LEMMA ReadyIsRegistered ==
    ASSUME TypeInv, SafeInv, phase # "sweep", NEW fd \in CanFire
    PROVE  /\ fd \in Fd /\ fd # NoFd
           /\ ep[fd].rec \in Listed /\ rec[ep[fd].rec].fd = fd
<1>1. fd \in Fd /\ ep[fd].armed
  BY DEF CanFire, Expired, Fd
<1>2. ep[fd].rec # Null
  BY <1>1, ConstantsAssumption DEF ConstantsAssumption, TypeInv, LocalsInUse
<1>3. fd # NoFd
  BY <1>1, ConstantsAssumption DEF ConstantsAssumption, Fd, NoFd
<1>. QED  BY <1>1, <1>2, <1>3 DEF SafeInv, InterestShape

\* epoll_wait hands out pointers of the interest list, each once.
LEMMA BatchEpollWait ==
    ASSUME TypeInv, SafeInv, BatchInv, NEW fds \in SUBSET CanFire, EpollWait(fds)
    PROVE  BatchInv'
<1>1. /\ pc' = "dispatch" /\ phase = "run" /\ suspended = <<>> /\ cb.fd = NoFd
      /\ batch' = {ep[fd].rec : fd \in fds}
      /\ UNCHANGED <<rec, place, cb, suspended, fault>>
  BY DEF EpollWait, SafeInv, ControlShape, Removing, TypeInv, LocalsInUse,
     memory, frames, ghosts
<1>2. \A fd \in fds : /\ fd \in Fd /\ fd # NoFd
                      /\ ep[fd].rec \in Listed /\ rec[ep[fd].rec].fd = fd
  BY <1>1, ReadyIsRegistered
<1>3. \A r \in batch' : /\ r \in Listed /\ rec[r].fd \in Fd
                        /\ rec[r].fd # NoFd /\ r = ep[rec[r].fd].rec
  BY <1>1, <1>2
<1>4. BatchShape'
  <2>1. Listed' = Listed
    BY <1>1 DEF Listed, Placed
  <2>. QED  BY <1>1, <1>3, <2>1 DEF BatchShape, Removing
<1>. QED  BY <1>1, <1>4 DEF BatchInv, OwnLookup

LEMMA BatchDispatch ==
    ASSUME TypeInv, SafeInv, BatchInv, NEW r \in Record,
           DispatchEvent(r) \/ DispatchTimeout(r) \/ DispatchNothing(r)
    PROVE  BatchInv'
<1>1. /\ r \in batch /\ batch' = batch \ {r} /\ suspended = <<>>
      /\ pc' \in {"client", "dispatch"}
      /\ cb'.fd \in {rec[r].fd, cb.fd}
      /\ UNCHANGED <<rec, place, suspended, fault>>
  BY DEF DispatchEvent, DispatchTimeout, DispatchNothing, Deliver, RunCallback,
     SafeInv, ControlShape, Removing, memory, frames, ghosts
<1>2. \A s \in batch' : /\ s \in Listed' /\ rec'[s].fd = rec[s].fd
                        /\ rec[s].fd # cb'.fd
  BY <1>1 DEF BatchInv, BatchShape, Listed, Placed
<1>. QED  BY <1>1, <1>2, BatchKept DEF OwnLookup, Removing

\* Outside a round, and in the steps between, there is no batch or it stays.
LEMMA BatchRest ==
    ASSUME TypeInv, SafeInv, BatchInv,
           \/ MainloopInit \/ CallRun \/ ClientReturns
           \/ BatchDone \/ LoopEnds \/ SweepRecord \/ SweepFree \/ SweepDone
           \/ \E fd \in TimerFd : TimerExpire(fd)
           \/ UNCHANGED vars
    PROVE  BatchInv'
<1>1. CASE MainloopInit \/ SweepFree
  <2>1. batch = {} /\ UNCHANGED <<batch, fault, suspended>> /\ pc' \in {"client", "sweep"}
    BY <1>1 DEF MainloopInit, SweepFree, SafeInv, ControlShape, TypeInv,
       LocalsInUse, dispatch, frames, ghosts
  <2>. QED  BY <2>1 DEF BatchInv, BatchShape, OwnLookup
<1>2. CASE ClientReturns
  <2>1. /\ UNCHANGED <<rec, place, batch, suspended, fault>>
        /\ pc' \notin {"find", "crashed"} /\ cb'.fd \in {cb.fd, NoFd}
    BY <1>2 DEF ClientReturns, DestroyReturns, CallbackReturns,
       SweepDestroyReturns, NoCallback, memory, dispatch, frames, ghosts
  <2>2. NoFd \notin Fd
    BY ConstantsAssumption DEF ConstantsAssumption, NoFd, Fd
  <2>3. /\ \A r \in batch : /\ r \in Listed' /\ rec'[r].fd = rec[r].fd
                            /\ rec[r].fd # cb'.fd
        /\ Removing' => Removed'.data \notin batch
    BY <2>1, <2>2 DEF BatchInv, BatchShape, Listed, Placed, Removing, Removed
  <2>. QED  BY <2>1, <2>3, BatchKept DEF OwnLookup
<1>3. CASE CallRun \/ BatchDone \/ LoopEnds \/ SweepRecord \/ SweepDone
  <2>1. /\ UNCHANGED <<rec, place, batch, cb, suspended, fault>>
        /\ pc' \notin {"find", "crashed"}
    BY <1>3 DEF CallRun, BatchDone, LoopEnds, SweepRecord, SweepDone, memory,
       dispatch, frames, ghosts
  <2>2. \A r \in Listed : r \in Listed' /\ rec'[r] = rec[r]
    BY <2>1 DEF Listed, Placed
  <2>. QED  BY <2>1, <2>2, BatchSame DEF OwnLookup
<1>4. CASE (\E fd \in TimerFd : TimerExpire(fd)) \/ UNCHANGED vars
  <2>1. UNCHANGED <<rec, place, batch, cb, pc, phase, find, suspended, fault>>
    BY <1>4 DEF TimerExpire, vars, memory, dispatch, frames, ghosts
  <2>2. OwnLookup' /\ pc' # "crashed"
    BY <2>1 DEF BatchInv, OwnLookup, Removing
  <2>3. \A r \in Listed : r \in Listed' /\ rec'[r] = rec[r]
    BY <2>1 DEF Listed, Placed
  <2>. QED  BY <2>1, <2>2, <2>3, BatchSame
<1>. QED  BY <1>1, <1>2, <1>3, <1>4

\* With a batch of registered records no pointer the code follows dangles.
LEMMA NoFaultStep ==
    ASSUME Gentle, TypeInv, SafeInv, BatchInv
    PROVE  ~(UseAfterFree \/ DoubleFree \/ NullDereference)
<1>1. \A r \in batch : ~Dangling(r)
  BY DEF BatchInv, BatchShape, Dangling, Listed, Placed
<1>. QED  BY <1>1, OnlyStaleEvents

LEMMA BatchNext ==
    ASSUME Gentle, OwnOnly, TypeInv, SafeInv, BatchInv, [Next]_vars
    PROVE  BatchInv'
  BY BatchCalls, BatchFinish, BatchEpollWait, BatchDispatch, BatchRest,
     NoFaultStep DEF Next, Loop

LEMMA BatchAlways ==
    ASSUME Gentle, OwnOnly PROVE Spec => [](TypeInv /\ SafeInv /\ BatchInv)
<1>1. Init => TypeInv /\ SafeInv /\ BatchInv
  BY TypeInit, SafeInit, BatchInit
<1>2. TypeInv /\ SafeInv /\ BatchInv /\ [Next]_vars => (TypeInv /\ SafeInv /\ BatchInv)'
  BY TypeNext, SafeNext, BatchNext
<1>. QED  BY <1>1, <1>2, PTL DEF Spec

\* When event callbacks remove only their own descriptor, every event not
\* dispatched yet is for a registered record.
THEOREM BatchStaysLive == ASSUME Gentle, OwnOnly PROVE Spec => []BatchLive
<1>1. BatchInv => BatchLive
  BY DEF BatchInv, BatchShape, BatchLive
<1>. QED  BY <1>1, BatchAlways, PTL

\* Then no timeout callback runs for a timer that was set again, closed or
\* ended since epoll_wait returned its event, also where epoll_ctl refuses
\* new timers: the record left behind is in no batch.
THEOREM TimeoutsOfRegistered ==
    ASSUME Gentle, OwnOnly PROVE Spec => TimeoutGenuine
<1> DEFINE Inv == TypeInv /\ TimerInv /\ SafeInv /\ BatchInv
<1>1. Init => Inv
  BY TypeInit, TimerInit, SafeInit, BatchInit
<1>2. Inv /\ [Next]_vars => Inv'
  BY TypeNext, TimerNext, SafeNext, BatchNext
<1>3. Inv /\ [Next]_vars => [OnTime]_vars
  <2> SUFFICES ASSUME Inv, Next, NEW r \in Record,
                      r \in batch \ batch', rec[r].type = "TIMER", pc' = "client"
               PROVE  rec[r].fd \in TimerFd /\ timer[rec[r].fd] = "expired"
                      /\ ended[rec[r].user] = 0
    BY DEF OnTime
  <2>1. TimerReadable(r) /\ r \in Live /\ phase # "sweep"
    BY TimeoutStep
  <2>2. place[r] = "listed"
    BY DEF BatchInv, BatchShape, Listed, Placed
  <2>. QED
    BY <2>1, <2>2, ConstantsAssumption
    DEF TimerReadable, TimerInv, TimersFresh, NoFd, ConstantsAssumption
<1>. HIDE DEF Inv
<1>. QED  BY <1>1, <1>2, <1>3, PTL DEF Spec, TimeoutGenuine

-----------------------------------------------------------------------------
(* Memory.                                                                 *)

\* No callback calls mainloop_quit.
NeverQuits == "quit" \notin CallbackOps \cup DestroyOps

\* Until mainloop_quit is called no memory is freed, however stale the batch.
HeldInv ==
    /\ fault = "none" /\ pc # "crashed" /\ ~terminate
    /\ \A r \in batch : place[r] # "unallocated"

LEMMA HeldNext ==
    ASSUME Gentle, NeverQuits, TypeInv, SafeInv, HeldInv,
           [Next]_vars
    PROVE  HeldInv'
<1>1. ~CallQuit
  BY CallAllowed DEF CallQuit, NeverQuits
<1>2. pc \notin {"quit", "sweep", "release"} /\ phase # "sweep"
  BY DEF HeldInv, SafeInv, ControlShape, TypeInv, LocalsInUse
<1>3. ~(UseAfterFree \/ DoubleFree \/ NullDereference)
  BY OnlyStaleEvents DEF HeldInv, Dangling
<1>4. ~QuitFree /\ ~QuitDone /\ ~LoopEnds /\ ~SweepRecord /\ ~SweepFree /\ ~SweepDone
  BY <1>2 DEF QuitFree, QuitDone, LoopEnds, LoopGoesOn, SweepRecord, SweepFree,
     SweepDone, HeldInv
<1>5. /\ fault' = fault /\ pc' # "crashed" /\ ~terminate'
      /\ \A r \in Record : place[r] # "unallocated" => place'[r] # "unallocated"
  <2>1. /\ place \in [Record -> {"unallocated", "listed", "pooled", "leaked", "lost"}]
        /\ ~terminate /\ pc # "crashed"
    BY DEF HeldInv, TypeInv, TypeOK
  <2>2. fault' = fault /\ pc' # "crashed" /\ ~terminate'
    BY <1>1, <1>3, <1>4, <2>1
    DEF Next, ClientCall, AddFd, AddFdRefused, AddTimeout, AddTimeoutRefused,
        AddTimeoutNoMemory, Register, CallRemoveFd, CallModifyFd, CallModifyTimeout,
        StartFind, FinishCall, FindNext, NotFound, ModifyFound, RemoveFound, Unlink,
        ClientReturns, DestroyReturns, CallbackReturns, SweepDestroyReturns, Loop,
        EpollWait, DispatchEvent, DispatchTimeout, DispatchNothing, Deliver,
        RunCallback, BatchDone, MainloopInit, CallRun, TimerExpire, May, vars, memory,
        dispatch, frames, ghosts
  <2>3. \A r \in Record : place[r] # "unallocated" => place'[r] # "unallocated"
    BY <1>1, <1>3, <1>4, <2>1
    DEF Next, ClientCall, AddFd, AddFdRefused, AddTimeout, AddTimeoutRefused,
        AddTimeoutNoMemory, Register, CallRemoveFd, CallModifyFd, CallModifyTimeout,
        StartFind, FinishCall, FindNext, NotFound, ModifyFound, RemoveFound, Unlink,
        ClientReturns, DestroyReturns, CallbackReturns, SweepDestroyReturns, Loop,
        EpollWait, DispatchEvent, DispatchTimeout, DispatchNothing, Deliver,
        RunCallback, BatchDone, MainloopInit, CallRun, TimerExpire, May, vars, memory,
        dispatch, frames, ghosts
  <2>. QED  BY <2>2, <2>3
<1>6. ASSUME NEW r \in batch' PROVE r \in Record /\ place[r] # "unallocated"
  <2>1. CASE r \in batch
    BY <2>1 DEF HeldInv, TypeInv, TypeOK
  <2>2. CASE \E fds \in SUBSET CanFire : EpollWait(fds)
    <3>1. PICK fd \in CanFire : r = ep[fd].rec
      BY <2>2 DEF EpollWait
    <3>. QED  BY <1>2, <3>1, ReadyIsRegistered DEF Listed, Placed
  <2>3. CASE batch' \subseteq batch
    BY <2>1, <2>3
  <2>4. (\E fds \in SUBSET CanFire : EpollWait(fds)) \/ batch' \subseteq batch
    BY <1>1, <1>3, <1>4
    DEF Next, ClientCall, AddFd, AddFdRefused, AddTimeout, AddTimeoutRefused,
        AddTimeoutNoMemory, Register, CallRemoveFd, CallModifyFd,
        CallModifyTimeout, StartFind, FinishCall, FindNext, NotFound,
        ModifyFound, RemoveFound, Unlink, ClientReturns, DestroyReturns,
        CallbackReturns, SweepDestroyReturns, Loop, DispatchEvent,
        DispatchTimeout, DispatchNothing, Deliver, BatchDone, MainloopInit,
        CallRun, TimerExpire, vars, dispatch
  <2>. QED  BY <2>2, <2>3, <2>4
<1>. QED  BY <1>5, <1>6 DEF HeldInv

LEMMA HeldAlways ==
    ASSUME Gentle, NeverQuits
    PROVE  Spec => [](TypeInv /\ SafeInv /\ HeldInv)
<1>1. Init => TypeInv /\ SafeInv /\ HeldInv
  BY TypeInit, SafeInit DEF Init, HeldInv
<1>2. TypeInv /\ SafeInv /\ HeldInv /\ [Next]_vars => (TypeInv /\ SafeInv /\ HeldInv)'
  BY TypeNext, SafeNext, HeldNext
<1>. QED  BY <1>1, <1>2, PTL DEF Spec

\* A client whose event callbacks remove only their own descriptor, or whose
\* callbacks do not call mainloop_quit, never makes mainloop.c touch freed memory, free twice
\* or follow a null prev: not by recycled records, not by a quit with
\* lookups, batches and sweeps still to come.
THEOREM MemorySafe ==
    ASSUME Gentle, OwnOnly \/ NeverQuits
    PROVE  Spec => []NoMemoryFault
<1>1. BatchInv \/ HeldInv => NoMemoryFault
  BY DEF BatchInv, HeldInv, NoMemoryFault
<1>2. CASE OwnOnly
  BY <1>1, <1>2, BatchAlways, PTL
<1>3. CASE NeverQuits
  BY <1>1, <1>3, HeldAlways, PTL
<1>. QED  BY <1>2, <1>3

=============================================================================
