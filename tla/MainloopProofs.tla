--------------------------- MODULE MainloopProofs ---------------------------
(* Theorems about Mainloop, for every set of records and descriptors and   *)
(* every bound.                                                            *)
EXTENDS Mainloop, TLAPS

-----------------------------------------------------------------------------
(* Type correctness, which holds whatever the client does.                 *)

\* TypeOK is inductive once it is known which of the locals are in use at
\* each point of the code.
LocalsInUse ==
    /\ pc = "find" => find.fd \in Fd
    /\ pc = "unlink" => suspended # <<>>
    /\ (phase = "sweep" /\ pc \notin {"sweep", "stopped", "crashed"})
          => sweep.data \in Record
    /\ pc = "release" => phase = "sweep"
    /\ pc \in {"loop", "dispatch"} => phase = "run"
    /\ pc = "boot" => phase = "setup"
    /\ pc = "sweep" => phase = "sweep"
    /\ \A fd \in Fd : ep[fd].armed => ep[fd].rec \in Record

TypeInv == TypeOK /\ LocalsInUse

(* What the helpers of the specification return.                           *)

LEMMA ClosedType ==
    ASSUME ep \in [Fd -> Interest], NEW fd,
           \A f \in Fd : ep[f].armed => ep[f].rec \in Record
    PROVE  /\ Closed(fd) \in [Fd -> Interest]
           /\ \A f \in Fd : Closed(fd)[f].armed => Closed(fd)[f].rec \in Record
  BY DEF Closed, Interest, Unwatched

LEMMA RearmedType ==
    ASSUME ep \in [Fd -> Interest], NEW fd, NEW r \in Record,
           \A f \in Fd : ep[f].armed => ep[f].rec \in Record
    PROVE  /\ Rearmed(fd, r) \in [Fd -> Interest]
           /\ \A f \in Fd :
                 Rearmed(fd, r)[f].armed => Rearmed(fd, r)[f].rec \in Record
  BY DEF Rearmed, Interest

LEMMA EndedByType ==
    ASSUME ended \in [User -> 0 .. 2], NEW r
    PROVE  EndedBy(r) \in [User -> 0 .. 2]
  BY DEF EndedBy

LEMMA DetachedType ==
    ASSUME rec \in [Record -> Data], NEW r \in Record
    PROVE  Detached(r) \in [Record -> Data]
  BY DEF Detached, Data

LEMMA RelinkedType ==
    ASSUME next \in [Record -> Record \cup {Null}],
           freeHead \in Record \cup {Null},
           NEW data \in Record, NEW prev \in Record
    PROVE  Relinked(data, prev) \in [Record -> Record \cup {Null}]
  BY DEF Relinked

LEMMA NothingType ==
    /\ NoFind \in Lookup
    /\ NoSweep \in [data : Record \cup {Null}, tmp : Record \cup {Null}]
    /\ NoCallback \in [fd : Fd \cup {NoFd}, user : User \cup {0}]
    /\ Blank \in Data
    /\ Unwatched \in Interest
    /\ ~Unwatched.armed
  BY DEF NoFind, Lookup, NoSweep, NoCallback, Blank, Data, Unwatched, Interest

LEMMA TypeInit == Init => TypeInv
<1> SUFFICES ASSUME Init PROVE TypeInv
  OBVIOUS
<1>1. TypeOK
  <2>1. suspended \in Seq(Suspended)
    BY DEF Init
  <2>2. calls \in 0 .. MaxCalls /\ nreg \in 0 .. MaxReg
    BY ConstantsAssumption DEF ConstantsAssumption, Init
  <2>3. rec \in [Record -> Data] /\ ep \in [Fd -> Interest]
    BY NothingType DEF Init
  <2>4. /\ cb \in [fd : Fd \cup {NoFd}, user : User \cup {0}]
        /\ find \in Lookup
        /\ sweep \in [data : Record \cup {Null}, tmp : Record \cup {Null}]
    BY NothingType DEF Init
  <2>5. /\ head \in Record \cup {Null} /\ freeHead \in Record \cup {Null}
        /\ next \in [Record -> Record \cup {Null}]
        /\ place \in [Record -> {"unallocated", "listed", "pooled", "leaked", "lost"}]
        /\ timer \in [TimerFd -> {"closed", "unset", "set", "expired"}]
        /\ ended \in [User -> 0 .. 2]
    BY DEF Init
  <2>6. terminate \in BOOLEAN /\ batch \in SUBSET Record
        /\ accepted \in SUBSET User
    BY DEF Init
  <2>7. /\ pc = "boot" /\ phase = "setup" /\ fault = "none"
    BY DEF Init
  <2>. QED
    BY <2>1, <2>2, <2>3, <2>4, <2>5, <2>6, <2>7 DEF TypeOK
<1>2. LocalsInUse
  BY DEF Init, LocalsInUse, Unwatched
<1>. QED  BY <1>1, <1>2 DEF TypeInv

LEMMA TypeCalls ==
    ASSUME TypeInv, ClientCall
    PROVE  TypeInv'
<1> USE ConstantsAssumption
    DEF ConstantsAssumption, TypeInv, TypeOK, LocalsInUse,
    memory, kernel, dispatch, frames, ghosts
<1>1. ASSUME NEW fd \in UserFd, NEW r \in Record, NEW d \in BOOLEAN,
             AddFd(fd, r, d)
      PROVE  TypeInv'
  BY <1>1 DEF AddFd, Register, Take, Link, Fd, User, May, Data, Interest
<1>2. ASSUME NEW fd \in UserFd, NEW r \in Record, NEW d \in BOOLEAN,
             AddFdRefused(fd, r, d)
      PROVE  TypeInv'
  BY <1>2 DEF AddFdRefused, Register, Take, Link, Fd, User, May, Data
<1>3. ASSUME NEW fd \in TimerFd, NEW r \in Record, NEW d \in BOOLEAN,
             NEW set \in BOOLEAN, AddTimeout(fd, r, d, set)
      PROVE  TypeInv'
  BY <1>3 DEF AddTimeout, Register, Take, Link, Created, Fd, User, May, Data,
              Interest
<1>4. ASSUME NEW fd \in TimerFd, NEW r \in Record, NEW d \in BOOLEAN,
             AddTimeoutRefused(fd, r, d)
      PROVE  TypeInv'
  BY <1>4 DEF AddTimeoutRefused, Take, Fd, User, May, Data
<1>5. ASSUME NEW fd \in TimerFd, NEW set \in BOOLEAN,
             AddTimeoutNoMemory(fd, set)
      PROVE  TypeInv'
  BY <1>5 DEF AddTimeoutNoMemory, Created, May
<1>6. ASSUME NEW fd \in Fd \cup {NoFd}, CallRemoveFd(fd) \/ CallModifyFd(fd)
      PROVE  TypeInv'
  BY <1>6 DEF CallRemoveFd, CallModifyFd, StartFind, ValidFd, NoFd, May, Lookup
<1>7. ASSUME NEW fd \in TimerFd, CallModifyTimeout(fd)
      PROVE  TypeInv'
  BY <1>7 DEF CallModifyTimeout, StartFind, Fd, May, Lookup
<1>8. CASE CallQuit
  BY <1>8 DEF CallQuit, QuitFrom, May, Lookup
<1>. HIDE DEF TypeInv, TypeOK, LocalsInUse
<1>. QED
  BY <1>1, <1>2, <1>3, <1>4, <1>5, <1>6, <1>7, <1>8 DEF ClientCall


LEMMA TypeFinish ==
    ASSUME TypeInv, FinishCall
    PROVE  TypeInv'
<1> USE ConstantsAssumption
    DEF ConstantsAssumption, TypeInv, TypeOK, LocalsInUse, memory, kernel,
        dispatch, frames, ghosts
<1>1. CASE FindNext
  BY <1>1 DEF FindNext, Lookup
<1>2. CASE NotFound
  BY <1>2, NothingType DEF NotFound
<1>3. CASE ModifyFound
  <2>1. find.data \in Record
    BY <1>3 DEF ModifyFound, Found, Lookup
  <2>2. /\ ep' \in [Fd -> Interest]
        /\ \A fd \in Fd : ep'[fd].armed => ep'[fd].rec \in Record
    BY <1>3, <2>1, RearmedType DEF ModifyFound
  <2>. QED
    BY <1>3, <2>2, NothingType DEF ModifyFound, Found
<1>4. CASE RemoveFound
  <2>1. find.data \in Record /\ find.fd \in Fd /\ find.prev \in Record \cup {Null}
    BY <1>4 DEF RemoveFound, Found, Lookup
  <2>2. /\ ep' \in [Fd -> Interest]
        /\ \A fd \in Fd : ep'[fd].armed => ep'[fd].rec \in Record
    BY <1>4, ClosedType DEF RemoveFound
  <2>3. timer' \in [TimerFd -> {"closed", "unset", "set", "expired"}]
    BY <1>4 DEF RemoveFound
  <2>4. rec' \in [Record -> Data]
    BY <1>4, <2>1, DetachedType DEF RemoveFound
  <2>5. ended' \in [User -> 0 .. 2]
    BY <1>4, EndedByType DEF RemoveFound
  <2>6. suspended' \in Seq(Suspended) /\ suspended' # <<>>
    BY <1>4, <2>1 DEF RemoveFound, Suspended
  <2>. QED
    BY <1>4, <2>2, <2>3, <2>4, <2>5, <2>6, NothingType DEF RemoveFound, Found
<1>5. CASE Unlink
  <2>1. Head(suspended) \in Suspended /\ Tail(suspended) \in Seq(Suspended)
    BY <1>5 DEF Unlink
  <2>2. next' \in [Record -> Record \cup {Null}]
    <3>1. CASE Head(suspended).data = head
      BY <1>5, <2>1, <3>1 DEF Unlink, Suspended
    <3>2. CASE /\ Head(suspended).data # head /\ Head(suspended).prev # Null
               /\ next' = Relinked(Head(suspended).data, Head(suspended).prev)
      BY <2>1, <3>2, RelinkedType DEF Suspended
    <3>. QED  BY <1>5, <3>1, <3>2 DEF Unlink
  <2>3. /\ head' \in Record \cup {Null} /\ freeHead' \in Record \cup {Null}
        /\ place' \in [Record -> {"unallocated", "listed", "pooled", "leaked", "lost"}]
    BY <1>5, <2>1 DEF Unlink, Suspended
  <2>. QED
    BY <1>5, <2>1, <2>2, <2>3 DEF Unlink
<1>6. CASE QuitFree
  BY <1>6 DEF QuitFree, Lookup
<1>7. CASE QuitDone
  BY <1>7, NothingType DEF QuitDone
<1>. HIDE DEF TypeInv, TypeOK, LocalsInUse
<1>. QED
  BY <1>1, <1>2, <1>3, <1>4, <1>5, <1>6, <1>7 DEF FinishCall

LEMMA TypeLoop ==
    ASSUME TypeInv, Loop
    PROVE  TypeInv'
<1> USE ConstantsAssumption
    DEF ConstantsAssumption, TypeInv, TypeOK, LocalsInUse, memory, kernel,
        dispatch, frames, ghosts
<1>1. ASSUME NEW fds \in SUBSET CanFire, EpollWait(fds)
      PROVE  TypeInv'
  <2>1. fds \subseteq Fd /\ \A fd \in fds : ep[fd].armed
    BY DEF CanFire, Expired, Fd
  <2>2. batch' \in SUBSET Record
    BY <1>1, <2>1 DEF EpollWait
  <2>3. /\ ep' \in [Fd -> Interest]
        /\ \A fd \in Fd : ep'[fd].armed => ep'[fd].rec \in Record
    <3>1. ASSUME NEW fd \in Fd
          PROVE  /\ ep'[fd] \in Interest
                 /\ ep'[fd].armed => ep'[fd].rec \in Record
      BY <1>1 DEF EpollWait, Interest
    <3>2. ep' = [fd \in Fd |-> ep'[fd]]
      BY <1>1 DEF EpollWait
    <3>. QED  BY <3>1, <3>2
  <2>. QED
    BY <1>1, <2>2, <2>3 DEF EpollWait
<1>2. ASSUME NEW r \in Record, DispatchEvent(r)
      PROVE  TypeInv'
  BY <1>2 DEF DispatchEvent, Deliver, RunCallback, Data
<1>3. ASSUME NEW r \in Record, DispatchTimeout(r)
      PROVE  TypeInv'
  <2>1. timer' \in [TimerFd -> {"closed", "unset", "set", "expired"}]
    BY <1>3 DEF DispatchTimeout
  <2>2. cb' \in [fd : Fd \cup {NoFd}, user : User \cup {0}]
    BY <1>3 DEF DispatchTimeout, RunCallback, Data
  <2>. QED
    BY <1>3, <2>1, <2>2 DEF DispatchTimeout, Deliver, RunCallback
<1>4. ASSUME NEW r \in Record, DispatchNothing(r)
      PROVE  TypeInv'
  BY <1>4 DEF DispatchNothing, Deliver
<1>5. CASE BatchDone
  BY <1>5 DEF BatchDone
<1>6. CASE LoopEnds
  BY <1>6 DEF LoopEnds
<1>7. CASE SweepRecord
  <2>1. /\ ep' \in [Fd -> Interest]
        /\ \A fd \in Fd : ep'[fd].armed => ep'[fd].rec \in Record
    <3>1. ep' = ep \/ \E fd : ep' = Closed(fd)
      BY <1>7 DEF SweepRecord
    <3>. QED  BY <3>1, ClosedType
  <2>2. timer' \in [TimerFd -> {"closed", "unset", "set", "expired"}]
    BY <1>7 DEF SweepRecord
  <2>3. ended' \in [User -> 0 .. 2]
    BY <1>7, EndedByType DEF SweepRecord
  <2>4. sweep' \in [data : Record \cup {Null}, tmp : Record \cup {Null}]
        /\ sweep'.data \in Record
    BY <1>7 DEF SweepRecord
  <2>. QED
    BY <1>7, <2>1, <2>2, <2>3, <2>4 DEF SweepRecord
<1>8. CASE SweepFree
  BY <1>8 DEF SweepFree
<1>9. CASE SweepDone
  BY <1>9, NothingType DEF SweepDone
<1>. HIDE DEF TypeInv, TypeOK, LocalsInUse
<1>. QED
  BY <1>1, <1>2, <1>3, <1>4, <1>5, <1>6, <1>7, <1>8, <1>9 DEF Loop

LEMMA TypeNext ==
    ASSUME TypeInv, [Next]_vars
    PROVE  TypeInv'
<1> USE ConstantsAssumption
    DEF ConstantsAssumption, TypeInv, TypeOK, LocalsInUse, memory, kernel,
        dispatch, frames, ghosts
<1>1. CASE MainloopInit
  <2>1. /\ ep' \in [Fd -> Interest]
        /\ \A fd \in Fd : ep'[fd].armed => ep'[fd].rec \in Record
    BY <1>1, NothingType DEF MainloopInit
  <2>2. place' \in [Record -> {"unallocated", "listed", "pooled", "leaked", "lost"}]
    BY <1>1 DEF MainloopInit
  <2>. QED
    <3>1. calls' \in 0 .. MaxCalls
      BY <1>1 DEF MainloopInit
    <3>2. TypeOK'
      BY <1>1, <2>1, <2>2, <3>1 DEF MainloopInit, EmptyLists
    <3>3. LocalsInUse'
      BY <1>1, <2>1 DEF MainloopInit
    <3>. QED  BY <3>2, <3>3
<1>2. CASE CallRun
  BY <1>2 DEF CallRun
<1>3. CASE ClientReturns
  BY <1>3, NothingType DEF ClientReturns, DestroyReturns, CallbackReturns,
              SweepDestroyReturns
<1>4. CASE UseAfterFree \/ DoubleFree \/ NullDereference
  BY <1>4 DEF UseAfterFree, DoubleFree, NullDereference, Crash
<1>5. ASSUME NEW fd \in TimerFd, TimerExpire(fd)
      PROVE  TypeInv'
  BY <1>5 DEF TimerExpire
<1>6. CASE UNCHANGED vars
  BY <1>6 DEF vars
<1>. HIDE DEF TypeInv, TypeOK, LocalsInUse
<1>. QED
  BY <1>1, <1>2, <1>3, <1>4, <1>5, <1>6, TypeCalls, TypeFinish, TypeLoop
  DEF Next

\* Whatever the client does, every variable keeps its type: in particular
\* the lookup loop and the unlinking never work on a descriptor or a record
\* that does not exist.
THEOREM TypeCorrect == Spec => []TypeOK
<1>1. TypeInv => TypeOK
  BY DEF TypeInv
<1>. QED
  BY <1>1, TypeInit, TypeNext, PTL DEF Spec

-----------------------------------------------------------------------------
(* Timeouts, whatever the client does.  Pointers may dangle by then, and   *)
(* the two lists be one; what survives is that no pointer of the running   *)
(* loop leads to memory of an earlier one, and that a timer record that    *)
(* can still be found was never ended.                                     *)

\* Which of the frames can be in use, and where the batch is empty.
FrameShape ==
    /\ pc \in {"boot", "loop", "dispatch", "sweep", "release", "stopped"}
          => suspended = <<>>
    /\ (phase # "run" \/ pc = "loop") => batch = {}
    /\ pc = "stopped" => phase = "sweep"

\* Two records never hold the same registration, listed or not; those not
\* made yet were not ended.
UserShape ==
    /\ \A r \in Record : rec[r].user \in 0 .. nreg
    /\ \A r \in Record : rec[r].type = "TIMER" => rec[r].user # 0
    /\ \A r, s \in Record : (rec[r].user = rec[s].user /\ rec[r].user # 0) => r = s
    /\ \A u \in User : u > nreg => ended[u] = 0

\* Memory of the running loop, not freed: on a list, or leaked by it.
Live == {r \in Record : place[r] \in {"listed", "pooled", "leaked"}}

\* A pointer the running loop may follow: not to memory of an earlier one.
Recent(r) == r # Null => r \in Record /\ place[r] # "lost"

PointersRecent ==
    /\ Recent(head) /\ Recent(freeHead)
    /\ pc = "find" => Recent(find.data) /\ Recent(find.prev)
    /\ \A i \in 1 .. Len(suspended) :
          Recent(suspended[i].data) /\ Recent(suspended[i].prev)
    /\ \A fd \in Fd : Recent(ep[fd].rec)
    /\ \A r \in batch : Recent(r)
    /\ \A r \in Live : Recent(next[r])

\* A timer record with a descriptor was not ended, and none was twice: on
\* the list always, elsewhere while no timeout was refused, whose record
\* keeps its descriptor.
TimersFresh ==
    \A r \in Live : rec[r].type = "TIMER" =>
        /\ place[r] = "listed" => ended[rec[r].user] <= 1
        /\ (rec[r].fd # NoFd /\ (place[r] = "listed" \/ "epoll" \notin Failures))
              => ended[rec[r].user] = 0

TimerInv ==
    /\ FrameShape /\ UserShape
    /\ phase # "sweep" => PointersRecent /\ TimersFresh

LEMMA TimerInit == Init => TimerInv
<1> SUFFICES ASSUME Init PROVE TimerInv
  OBVIOUS
<1>1. FrameShape
  BY DEF Init, FrameShape
<1>2. UserShape
  BY DEF Init, UserShape, Blank
<1>3. PointersRecent
  BY DEF Init, PointersRecent, Recent, Unwatched, Live
<1>4. TimersFresh
  BY DEF Init, TimersFresh, Live
<1>. QED  BY <1>1, <1>2, <1>3, <1>4 DEF TimerInv

(* The calls of the client.                                                *)

\* What the records a new registration can use have in common.
LEMMA TakenRecent ==
    ASSUME TypeInv, TimerInv, phase # "sweep", NEW r \in Record, Take(r)
    PROVE  place[r] # "lost" /\ Recent(freeHead')
<1>1. CASE freeHead # Null /\ r = freeHead /\ freeHead' = next[r]
           /\ place[r] # "unallocated"
  <2>1. Recent(r)
    BY <1>1 DEF TimerInv, PointersRecent
  <2>2. r \in Live /\ place[r] # "lost"
    BY <1>1, <2>1 DEF Recent, Live, TypeInv, TypeOK
  <2>. QED  BY <1>1, <2>2 DEF TimerInv, PointersRecent
<1>2. CASE freeHead = Null /\ place[r] = "unallocated" /\ freeHead' = freeHead
  BY <1>2 DEF Recent
<1>. QED  BY <1>1, <1>2 DEF Take

LEMMA TimerRegister ==
    ASSUME TypeInv, TimerInv, NEW r \in Record, NEW type \in {"GENERAL", "TIMER"},
           NEW fd \in Fd, NEW d \in BOOLEAN, Register(r, type, fd, d),
           pc = "client",
           UNCHANGED ep \/ (/\ \A f \in Fd \ {fd} : ep'[f].rec = ep[f].rec
                            /\ ep'[fd].rec = r)
    PROVE  TimerInv'
<1>1. /\ nreg < MaxReg /\ nreg' = nreg + 1 /\ nreg \in Nat /\ Take(r)
      /\ head' = r /\ next' = [next EXCEPT ![r] = head]
      /\ rec' = [rec EXCEPT ![r] = [type |-> type, fd |-> fd,
                                    user |-> nreg + 1, destroy |-> d]]
      /\ place' = [place EXCEPT ![r] = "listed"]
      /\ UNCHANGED <<batch, pc, phase, find, suspended, ended>>
  BY ConstantsAssumption
  DEF ConstantsAssumption, TypeInv, TypeOK, Register, Link, dispatch, frames
<1>2. /\ rec \in [Record -> Data] /\ next \in [Record -> Record \cup {Null}]
      /\ place \in [Record -> {"unallocated", "listed", "pooled", "leaked", "lost"}]
      /\ MaxReg \in Nat /\ ended \in [User -> 0 .. 2]
  BY ConstantsAssumption DEF ConstantsAssumption, TypeInv, TypeOK
<1>3. /\ rec'[r].type = type /\ rec'[r].fd = fd /\ rec'[r].user = nreg + 1
      /\ \A s \in Record \ {r} : rec'[s] = rec[s] /\ next'[s] = next[s]
                                 /\ place'[s] = place[s]
      /\ next'[r] = head /\ place'[r] = "listed"
  BY <1>1, <1>2
<1>4. nreg + 1 \in User /\ ended[nreg + 1] = 0
  BY <1>1, <1>2 DEF TimerInv, UserShape, User
<1>5. FrameShape'
  BY <1>1 DEF TimerInv, FrameShape
<1>6. UserShape'
  <2>1. \A s \in Record : rec[s].user \in 0 .. nreg
    BY DEF TimerInv, UserShape
  <2>2. \A s \in Record : rec'[s].user \in 0 .. nreg'
    BY <1>1, <1>3, <2>1
  <2>3. \A s \in Record : rec'[s].type = "TIMER" => rec'[s].user # 0
    BY <1>1, <1>3 DEF TimerInv, UserShape
  <2>4. \A s, t \in Record :
            (rec'[s].user = rec'[t].user /\ rec'[s].user # 0) => s = t
    BY <1>1, <1>3, <2>1 DEF TimerInv, UserShape
  <2>5. \A u \in User : u > nreg' => ended'[u] = 0
    BY <1>1 DEF TimerInv, UserShape, User
  <2>. QED  BY <2>2, <2>3, <2>4, <2>5 DEF UserShape
<1>7. ASSUME phase' # "sweep" PROVE PointersRecent' /\ TimersFresh'
  <2>1. place[r] # "lost" /\ Recent(freeHead')
    BY <1>1, <1>7, TakenRecent
  <2>2. PointersRecent /\ TimersFresh
    BY <1>1, <1>7 DEF TimerInv
  <2>3. ASSUME NEW s, Recent(s) PROVE Recent(s)'
    BY <1>3, <2>3 DEF Recent
  <2>4. Recent(freeHead)'
    BY <1>3, <2>1 DEF Recent
  <2>5. Recent(head)' /\ Recent(r)'
    BY <1>1, <1>3 DEF Recent
  <2>6. \A f \in Fd : Recent(ep[f].rec)'
    BY <2>2, <2>3, <2>5 DEF PointersRecent
  <2>7. \A s \in Live' : Recent(next[s])'
    BY <1>3, <2>2, <2>3 DEF PointersRecent, Live
  <2>8. PointersRecent'
    BY <1>1, <2>2, <2>3, <2>4, <2>5, <2>6, <2>7 DEF PointersRecent
  <2>9. TimersFresh'
    BY <1>1, <1>3, <1>4, <2>2 DEF TimersFresh, Live
  <2>. QED  BY <2>8, <2>9
<1>. QED  BY <1>5, <1>6, <1>7 DEF TimerInv

\* A call that starts a lookup, or mainloop_quit.
LEMMA TimerStartFind ==
    ASSUME TypeInv, TimerInv, pc = "client", pc' \in {"find", "quit"},
           find'.data \in {head, freeHead}, find'.prev = Null,
           UNCHANGED <<memory, ep, batch, phase, suspended, ghosts>>
    PROVE  TimerInv'
<1>1. FrameShape' /\ UserShape'
  BY DEF TimerInv, FrameShape, UserShape, memory, ghosts
<1>2. ASSUME phase' # "sweep" PROVE PointersRecent' /\ TimersFresh'
  BY <1>2 DEF TimerInv, PointersRecent, TimersFresh, Live, Recent, memory, ghosts
<1>. QED  BY <1>1, <1>2 DEF TimerInv

LEMMA TimerAddTimeoutRefused ==
    ASSUME TypeInv, TimerInv, NEW fd \in TimerFd, NEW r \in Record, NEW d,
           AddTimeoutRefused(fd, r, d)
    PROVE  TimerInv'
<1>1. /\ pc = "client" /\ Take(r) /\ nreg < MaxReg /\ "epoll" \in Failures
      /\ rec' = [rec EXCEPT ![r] = [type |-> "TIMER", fd |-> fd,
                                    user |-> nreg + 1, destroy |-> d]]
      /\ next' = [next EXCEPT ![r] = Null]
      /\ place' = [place EXCEPT ![r] = "leaked"]
      /\ nreg' = nreg + 1 /\ ended' = [ended EXCEPT ![nreg + 1] = 1]
      /\ UNCHANGED <<head, ep, batch, pc, phase, find, suspended>>
  BY DEF AddTimeoutRefused, May, kernel, dispatch, frames
<1>2. /\ rec'[r].user = nreg + 1
      /\ \A s \in Record \ {r} : rec'[s] = rec[s] /\ next'[s] = next[s]
                                 /\ place'[s] = place[s]
      /\ next'[r] = Null /\ place'[r] = "leaked" /\ nreg \in Nat
      /\ \A u \in User \ {nreg + 1} : ended'[u] = ended[u]
  BY <1>1, ConstantsAssumption DEF TypeInv, TypeOK, ConstantsAssumption
<1>3. FrameShape'
  BY <1>1 DEF TimerInv, FrameShape
<1>4. UserShape'
  <2>1. \A s \in Record : rec[s].user \in 0 .. nreg
    BY DEF TimerInv, UserShape
  <2>2. \A s \in Record : rec'[s].user \in 0 .. nreg'
    BY <1>1, <1>2, <2>1
  <2>3. \A s \in Record : rec'[s].type = "TIMER" => rec'[s].user # 0
    BY <1>2 DEF TimerInv, UserShape
  <2>4. \A s, t \in Record :
            (rec'[s].user = rec'[t].user /\ rec'[s].user # 0) => s = t
    BY <1>2, <2>1 DEF TimerInv, UserShape
  <2>5. \A u \in User : u > nreg' => ended'[u] = 0
    BY <1>1, <1>2 DEF TimerInv, UserShape, User
  <2>. QED  BY <2>2, <2>3, <2>4, <2>5 DEF UserShape
<1>5. ASSUME phase' # "sweep" PROVE PointersRecent' /\ TimersFresh'
  <2>1. place[r] # "lost" /\ Recent(freeHead')
    BY <1>1, <1>5, TakenRecent
  <2>2. PointersRecent /\ TimersFresh
    BY <1>1, <1>5 DEF TimerInv
  <2>3. ASSUME NEW s, Recent(s) PROVE Recent(s)'
    BY <1>2, <2>3 DEF Recent
  <2>4. Recent(freeHead)'
    BY <1>2, <2>1 DEF Recent
  <2>5. \A s \in Live' : Recent(next[s])'
    BY <1>2, <2>2, <2>3 DEF PointersRecent, Live, Recent
  <2>6. PointersRecent'
    BY <1>1, <2>2, <2>3, <2>4, <2>5 DEF PointersRecent
  <2>7. ASSUME NEW s \in Live', s # r, rec'[s].type = "TIMER"
        PROVE  s \in Live /\ ended'[rec'[s].user] = ended[rec[s].user]
    <3>1. s \in Record /\ s \in Live
      BY <1>2, <2>7 DEF Live
    <3>2. rec[s].user \in 0 .. nreg /\ rec[s].user # 0
      BY <1>2, <2>7, <3>1 DEF TimerInv, UserShape
    <3>3. rec[s].user \in User \ {nreg + 1}
      BY <1>1, <1>2, <3>2, ConstantsAssumption DEF ConstantsAssumption, User
    <3>. QED  BY <1>2, <2>7, <3>1, <3>3
  <2>8. TimersFresh'
    BY <1>1, <1>2, <2>2, <2>7 DEF TimersFresh
  <2>. QED  BY <2>6, <2>8
<1>. QED  BY <1>3, <1>4, <1>5 DEF TimerInv

\* Steps that change none of what TimerInv is about.
LEMMA TimerSame ==
    ASSUME TimerInv, FrameShape',
           pc' # "find" \/ UNCHANGED <<pc, find>>,
           phase' \in {phase, "sweep"} \/ phase # "sweep",
           UNCHANGED <<head, freeHead, next, rec, place, ep, batch, suspended,
                       nreg, ended>>
    PROVE  TimerInv'
<1>1. UserShape'
  BY DEF TimerInv, UserShape
<1>2. ASSUME phase' # "sweep" PROVE PointersRecent' /\ TimersFresh'
  BY <1>2 DEF TimerInv, PointersRecent, TimersFresh, Live, Recent
<1>. QED  BY <1>1, <1>2 DEF TimerInv

LEMMA TimerCalls ==
    ASSUME TypeInv, TimerInv, ClientCall
    PROVE  TimerInv'
<1>1. ASSUME NEW fd \in UserFd, NEW r \in Record, NEW d \in BOOLEAN,
             AddFd(fd, r, d) \/ AddFdRefused(fd, r, d)
      PROVE  TimerInv'
  <2>1. /\ pc = "client" /\ Register(r, "GENERAL", fd, d) /\ fd \in Fd
        /\ ep \in [Fd -> Interest]
    BY <1>1 DEF AddFd, AddFdRefused, May, Fd, TypeInv, TypeOK
  <2>2. UNCHANGED ep \/ (/\ \A f \in Fd \ {fd} : ep'[f].rec = ep[f].rec
                         /\ ep'[fd].rec = r)
    BY <1>1, <2>1 DEF AddFd, AddFdRefused, kernel
  <2>. QED  BY <2>1, <2>2, TimerRegister
<1>2. ASSUME NEW fd \in TimerFd, NEW r \in Record, NEW d \in BOOLEAN,
             NEW set \in BOOLEAN, AddTimeout(fd, r, d, set)
      PROVE  TimerInv'
  <2>1. /\ pc = "client" /\ Register(r, "TIMER", fd, d) /\ fd \in Fd
        /\ ep \in [Fd -> Interest]
    BY <1>2 DEF AddTimeout, May, Fd, TypeInv, TypeOK
  <2>2. /\ \A f \in Fd \ {fd} : ep'[f].rec = ep[f].rec
        /\ ep'[fd].rec = r
    BY <1>2, <2>1 DEF AddTimeout
  <2>. QED  BY <2>1, <2>2, TimerRegister
<1>3. ASSUME NEW fd \in TimerFd, NEW r \in Record, NEW d \in BOOLEAN,
             AddTimeoutRefused(fd, r, d)
      PROVE  TimerInv'
  BY <1>3, TimerAddTimeoutRefused
<1>4. ASSUME NEW fd \in TimerFd, NEW set \in BOOLEAN,
             AddTimeoutNoMemory(fd, set)
      PROVE  TimerInv'
  <2>1. UNCHANGED <<head, freeHead, next, rec, place, ep, batch, suspended, nreg,
                    ended, pc, find, phase>>
    BY <1>4 DEF AddTimeoutNoMemory, memory, dispatch, frames, ghosts
  <2>2. FrameShape'
    BY <2>1 DEF TimerInv, FrameShape
  <2>. QED  BY <2>1, <2>2, TimerSame
<1>5. ASSUME NEW fd \in Fd \cup {NoFd}, CallRemoveFd(fd) \/ CallModifyFd(fd)
      PROVE  TimerInv'
  <2>1. pc = "client" /\ \E op : StartFind(op, fd)
    BY <1>5 DEF CallRemoveFd, CallModifyFd, May
  <2>. QED  BY <2>1, TimerStartFind DEF StartFind, dispatch
<1>6. ASSUME NEW fd \in TimerFd, CallModifyTimeout(fd)
      PROVE  TimerInv'
  <2>1. pc = "client" /\ \E op : StartFind(op, fd)
    BY <1>6 DEF CallModifyTimeout, May
  <2>. QED  BY <2>1, TimerStartFind DEF StartFind, dispatch
<1>7. CASE CallQuit
  BY <1>7, TimerStartFind DEF CallQuit, QuitFrom, May, kernel
<1>. QED
  BY <1>1, <1>2, <1>3, <1>4, <1>5, <1>6, <1>7 DEF ClientCall

(* The lookups and mainloop_remove_fd.                                     *)

\* The record a lookup has arrived at.
LEMMA FoundLive ==
    ASSUME TypeInv, TimerInv, phase # "sweep", pc = "find", find.data # Null,
           place[find.data] # "unallocated"
    PROVE  find.data \in Live /\ Recent(find.prev) /\ Recent(next[find.data])
<1>1. Recent(find.data) /\ Recent(find.prev)
  BY DEF TimerInv, PointersRecent
<1>2. find.data \in Live
  BY <1>1 DEF Recent, Live, TypeInv, TypeOK
<1>. QED  BY <1>1, <1>2 DEF TimerInv, PointersRecent

LEMMA TimerLookup ==
    ASSUME TypeInv, TimerInv, FindNext \/ NotFound \/ ModifyFound
    PROVE  TimerInv'
<1>1. /\ pc = "find" /\ pc' \in {"find", "client"}
      /\ UNCHANGED <<head, freeHead, next, rec, place, batch, phase, suspended,
                     nreg, ended>>
  BY DEF FindNext, NotFound, ModifyFound, Found, memory, dispatch, ghosts
<1>2. FrameShape' /\ UserShape'
  BY <1>1 DEF TimerInv, FrameShape, UserShape
<1>3. ASSUME phase' # "sweep" PROVE PointersRecent' /\ TimersFresh'
  <2>1. PointersRecent /\ TimersFresh
    BY <1>1, <1>3 DEF TimerInv
  <2>2. pc' = "find" => Recent(find'.data) /\ Recent(find'.prev)
    BY <1>1, <1>3, FoundLive DEF FindNext, NotFound, ModifyFound, Live, Recent
  <2>3. \A fd \in Fd : Recent(ep'[fd].rec)
    <3>1. CASE ModifyFound
      <4>1. find.data \in Live
        BY <1>1, <1>3, <3>1, FoundLive DEF ModifyFound, Found
      <4>2. ep' = ep \/ ep' = Rearmed(find.fd, find.data)
        BY <3>1 DEF ModifyFound
      <4>. QED
        BY <2>1, <4>1, <4>2 DEF PointersRecent, Rearmed, Live, Recent, TypeInv, TypeOK
    <3>2. CASE ~ModifyFound
      BY <2>1, <3>2 DEF PointersRecent, FindNext, NotFound, kernel
    <3>. QED  BY <3>1, <3>2
  <2>. QED
    BY <1>1, <2>1, <2>2, <2>3 DEF PointersRecent, TimersFresh, Live, Recent
<1>. QED  BY <1>2, <1>3 DEF TimerInv

\* The suspended calls while one more is pushed, and while the last returns.
LEMMA PushedFrame ==
    ASSUME suspended \in Seq(Suspended), NEW f \in Suspended,
           suspended' = <<f>> \o suspended
    PROVE  \A i \in 1 .. Len(suspended') :
              \/ suspended'[i] = f
              \/ \E j \in 1 .. Len(suspended) : suspended'[i] = suspended[j]
OBVIOUS

LEMMA PoppedFrame ==
    ASSUME suspended \in Seq(Suspended), suspended # <<>>,
           suspended' = Tail(suspended)
    PROVE  \A i \in 1 .. Len(suspended') :
              \E j \in 1 .. Len(suspended) : suspended'[i] = suspended[j]
OBVIOUS

LEMMA TimerRemoveFound ==
    ASSUME TypeInv, TimerInv, RemoveFound
    PROVE  TimerInv'
<1> DEFINE r == find.data
           f == [data |-> find.data, prev |-> find.prev, fd |-> find.fd]
<1>1. /\ pc = "find" /\ r # Null /\ place[r] # "unallocated"
      /\ rec[r].fd = find.fd /\ find.fd \in Fd /\ pc' \in {"client", "unlink"}
      /\ suspended' = <<f>> \o suspended
      /\ ep' = Closed(find.fd)
      /\ ended' = EndedBy(r)
      /\ rec' = IF rec[r].type = "TIMER" THEN Detached(r) ELSE rec
      /\ UNCHANGED <<head, freeHead, next, place, batch, phase, nreg>>
  BY DEF RemoveFound, Found, dispatch, TypeInv, LocalsInUse
<1>2. /\ r \in Record /\ f \in Suspended /\ rec \in [Record -> Data]
      /\ ended \in [User -> 0 .. 2] /\ suspended \in Seq(Suspended)
      /\ ep \in [Fd -> Interest] /\ nreg \in 0 .. MaxReg
  BY <1>1 DEF TypeInv, TypeOK, Lookup, Suspended
<1>3. \A s \in Record : /\ rec'[s].user = rec[s].user /\ rec'[s].type = rec[s].type
                        /\ rec'[s].fd \in {rec[s].fd, NoFd}
                        /\ s # r => rec'[s] = rec[s]
                        /\ rec'[r].type = "TIMER" => rec'[r].fd = NoFd
  BY <1>1, <1>2 DEF Detached, Data
<1>4. \A u \in User : /\ u # rec[r].user => ended'[u] = ended[u]
                      /\ ended[u] = 0 => ended'[u] <= 1
  BY <1>1, <1>2 DEF EndedBy
<1>5. FrameShape'
  BY <1>1 DEF TimerInv, FrameShape
<1>6. UserShape'
  <2>1. ASSUME NEW u \in User, u > nreg' PROVE ended'[u] = 0
    <3>1. rec[r].user \in 0 .. nreg /\ ended[u] = 0 /\ u > nreg
      BY <1>1, <1>2, <2>1 DEF TimerInv, UserShape
    <3>2. u # rec[r].user
      BY <1>2, <3>1 DEF User
    <3>. QED  BY <1>4, <3>1, <3>2
  <2>. QED  BY <1>1, <1>3, <2>1 DEF TimerInv, UserShape
<1>7. ASSUME phase' # "sweep" PROVE PointersRecent' /\ TimersFresh'
  <2>1. PointersRecent /\ TimersFresh /\ UserShape
    BY <1>1, <1>7 DEF TimerInv
  <2>2. r \in Live /\ Recent(find.data) /\ Recent(find.prev)
    BY <1>1, <1>7, <2>1, FoundLive DEF PointersRecent
  <2>3. \A i \in 1 .. Len(suspended') :
            \/ suspended'[i] = f
            \/ \E j \in 1 .. Len(suspended) : suspended'[i] = suspended[j]
    BY <1>1, <1>2, PushedFrame
  <2>4. \A i \in 1 .. Len(suspended') :
            Recent(suspended'[i].data) /\ Recent(suspended'[i].prev)
    BY <2>1, <2>2, <2>3 DEF PointersRecent
  <2>5. \A fd \in Fd : Recent(ep'[fd].rec)
    BY <1>1, <1>2, <2>1 DEF PointersRecent, Closed, Unwatched, Recent
  <2>6. PointersRecent'
    BY <1>1, <2>1, <2>4, <2>5 DEF PointersRecent, Recent, Live
  <2>7. ASSUME NEW s \in Live', rec'[s].type = "TIMER"
        PROVE  /\ place'[s] = "listed" => ended'[rec'[s].user] <= 1
               /\ (rec'[s].fd # NoFd
                     /\ (place'[s] = "listed" \/ "epoll" \notin Failures))
                     => ended'[rec'[s].user] = 0
    <3>1. s \in Live /\ s \in Record /\ rec[s].type = "TIMER" /\ rec[s].user \in User
      <4>1. s \in Live /\ s \in Record /\ rec[s].type = "TIMER"
        BY <1>1, <1>3, <2>7 DEF Live
      <4>2. rec[s].user \in 0 .. nreg /\ rec[s].user # 0
        BY <2>1, <4>1 DEF UserShape
      <4>. QED
        BY <1>2, <4>1, <4>2, ConstantsAssumption DEF ConstantsAssumption, User
    <3>2. CASE s = r
      <4>1. place[r] = "listed" => ended[rec[r].user] = 0
        BY <1>1, <2>1, <3>1, <3>2, ConstantsAssumption
        DEF TimersFresh, ConstantsAssumption, Fd, NoFd
      <4>. QED  BY <1>1, <1>3, <1>4, <2>7, <3>1, <3>2, <4>1
    <3>3. CASE s # r
      <4>1. rec[s].user # rec[r].user
        BY <1>2, <2>1, <3>1, <3>3 DEF UserShape
      <4>. QED  BY <1>1, <1>3, <1>4, <2>1, <3>1, <3>3, <4>1 DEF TimersFresh
    <3>. QED  BY <3>2, <3>3
  <2>. QED  BY <2>6, <2>7 DEF TimersFresh
<1>. QED  BY <1>5, <1>6, <1>7 DEF TimerInv

LEMMA TimerUnlink ==
    ASSUME TypeInv, TimerInv, Unlink
    PROVE  TimerInv'
<1> DEFINE data == Head(suspended).data
           prev == Head(suspended).prev
<1>1. /\ pc = "unlink" /\ pc' = "client" /\ suspended # <<>>
      /\ suspended' = Tail(suspended) /\ freeHead' = data
      /\ place[data] # "unallocated"
      /\ place' = [place EXCEPT ![data] = "pooled"]
      /\ \/ head' = next[data] /\ next' = [next EXCEPT ![data] = freeHead]
         \/ /\ prev # Null /\ head' = head /\ next' = Relinked(data, prev)
            /\ place[prev] # "unallocated"
      /\ UNCHANGED <<rec, ep, batch, phase, nreg, ended>>
  BY DEF Unlink, TypeInv, LocalsInUse, kernel, dispatch, ghosts
<1>2. /\ suspended \in Seq(Suspended) /\ Head(suspended) \in Suspended
      /\ data \in Record /\ prev \in Record \cup {Null}
      /\ next \in [Record -> Record \cup {Null}]
      /\ place \in [Record -> {"unallocated", "listed", "pooled", "leaked", "lost"}]
  <2>1. suspended \in Seq(Suspended) /\ suspended # <<>>
    BY <1>1 DEF TypeInv, TypeOK
  <2>2. Head(suspended) \in Suspended
    BY <2>1
  <2>. QED  BY <2>1, <2>2 DEF Suspended, TypeInv, TypeOK
<1>3. FrameShape' /\ UserShape'
  BY <1>1 DEF TimerInv, FrameShape, UserShape
<1>4. ASSUME phase' # "sweep" PROVE PointersRecent' /\ TimersFresh'
  <2>1. PointersRecent /\ TimersFresh
    BY <1>1, <1>4 DEF TimerInv
  <2>2. Recent(data) /\ Recent(prev)
    <3>1. Head(suspended) = suspended[1] /\ 1 \in 1 .. Len(suspended)
      BY <1>1, <1>2
    <3>. QED  BY <2>1, <3>1 DEF PointersRecent
  <2>3. data \in Live /\ Live' = Live /\ Recent(next[data])
    BY <1>1, <1>2, <2>1, <2>2, ConstantsAssumption
    DEF ConstantsAssumption, Recent, Live, PointersRecent
  <2>4. ASSUME NEW s, Recent(s) PROVE Recent(s)'
    BY <1>1, <1>2, <2>4 DEF Recent
  <2>5. \A s \in Live : Recent(next'[s])
    BY <1>1, <1>2, <2>1, <2>3 DEF Relinked, PointersRecent, Live
  <2>6. Recent(head') /\ Recent(freeHead')
    BY <1>1, <2>1, <2>2, <2>3 DEF PointersRecent
  <2>7. \A i \in 1 .. Len(suspended') :
            Recent(suspended'[i].data) /\ Recent(suspended'[i].prev)
    <3>1. \A i \in 1 .. Len(suspended') :
              \E j \in 1 .. Len(suspended) : suspended'[i] = suspended[j]
      BY <1>1, <1>2, PoppedFrame
    <3>. QED  BY <2>1, <3>1 DEF PointersRecent
  <2>8. PointersRecent'
    BY <1>1, <2>1, <2>3, <2>4, <2>5, <2>6, <2>7 DEF PointersRecent
  <2>9. \A s \in Record : place'[s] = "listed" => place[s] = "listed"
    BY <1>1, <1>2
  <2>10. TimersFresh'
    <3>1. UNCHANGED <<rec, ended>> /\ Live' = Live
      BY <1>1, <2>3
    <3>2. \A s \in Live : s \in Record
      BY DEF Live
    <3>. QED  BY <2>1, <2>9, <3>1, <3>2 DEF TimersFresh
  <2>. QED  BY <2>8, <2>10
<1>. QED  BY <1>3, <1>4 DEF TimerInv

LEMMA TimerQuit ==
    ASSUME TypeInv, TimerInv, QuitFree \/ QuitDone
    PROVE  TimerInv'
<1>1. /\ pc = "quit" /\ pc' \in {"quit", "client"}
      /\ UNCHANGED <<head, freeHead, next, rec, ep, batch, phase, suspended, nreg,
                     ended>>
  BY DEF QuitFree, QuitDone, memory, kernel, dispatch, ghosts
<1>2. \A r \in Record : place'[r] = place[r] \/ place'[r] = "unallocated"
  BY DEF QuitFree, QuitDone, memory, TypeInv, TypeOK
<1>3. FrameShape' /\ UserShape'
  BY <1>1 DEF TimerInv, FrameShape, UserShape
<1>4. ASSUME phase' # "sweep" PROVE PointersRecent' /\ TimersFresh'
  <2>1. PointersRecent /\ TimersFresh
    BY <1>1, <1>4 DEF TimerInv
  <2>2. ASSUME NEW s, Recent(s) PROVE Recent(s)'
    BY <1>2, <2>2 DEF Recent
  <2>3. Live' \subseteq Live
    BY <1>2 DEF Live
  <2>4. PointersRecent'
    BY <1>1, <2>1, <2>2, <2>3 DEF PointersRecent
  <2>5. \A s \in Live' : s \in Live /\ (place'[s] = "listed" => place[s] = "listed")
    BY <1>2, <2>3 DEF Live
  <2>6. TimersFresh'
    BY <1>1, <2>1, <2>5 DEF TimersFresh
  <2>. QED  BY <2>4, <2>6
<1>. QED  BY <1>3, <1>4 DEF TimerInv

(* The dispatch loop, the final sweep, a restart, and the rest.            *)

LEMMA TimerEpollWait ==
    ASSUME TypeInv, TimerInv, NEW fds \in SUBSET CanFire, EpollWait(fds)
    PROVE  TimerInv'
<1>1. /\ pc = "loop" /\ pc' = "dispatch" /\ phase = "run" /\ phase' = phase
      /\ fds \subseteq Fd /\ batch' = {ep[fd].rec : fd \in fds}
      /\ \A fd \in Fd : ep'[fd].rec = ep[fd].rec
      /\ UNCHANGED <<head, freeHead, next, rec, place, suspended, nreg, ended>>
  BY DEF EpollWait, CanFire, Expired, Fd, TypeInv, LocalsInUse, memory, frames,
     ghosts
<1>2. FrameShape' /\ UserShape'
  BY <1>1 DEF TimerInv, FrameShape, UserShape
<1>3. PointersRecent' /\ TimersFresh'
  BY <1>1 DEF TimerInv, PointersRecent, TimersFresh, Live, Recent
<1>. QED  BY <1>2, <1>3 DEF TimerInv

LEMMA TimerDispatch ==
    ASSUME TypeInv, TimerInv, NEW r \in Record,
           DispatchEvent(r) \/ DispatchTimeout(r) \/ DispatchNothing(r)
    PROVE  TimerInv'
<1>1. /\ pc = "dispatch" /\ phase = "run" /\ phase' = phase
      /\ pc' \in {"dispatch", "client"} /\ batch' = batch \ {r}
      /\ UNCHANGED <<head, freeHead, next, rec, place, ep, suspended, nreg, ended>>
  BY DEF DispatchEvent, DispatchTimeout, DispatchNothing, Deliver, RunCallback,
     TypeInv, LocalsInUse, memory, kernel, frames, ghosts
<1>2. FrameShape' /\ UserShape'
  BY <1>1 DEF TimerInv, FrameShape, UserShape
<1>3. PointersRecent' /\ TimersFresh'
  BY <1>1 DEF TimerInv, PointersRecent, TimersFresh, Live, Recent
<1>. QED  BY <1>2, <1>3 DEF TimerInv

LEMMA TimerTurns ==
    ASSUME TypeInv, TimerInv, BatchDone \/ LoopEnds \/ CallRun \/ ClientReturns
    PROVE  TimerInv'
<1>1. /\ pc' \in {"loop", "sweep", "dispatch", "release", "unlink"}
      /\ phase' \in {phase, "run", "sweep"} /\ (phase' # phase => phase # "sweep")
      /\ pc' = "sweep" => phase' = "sweep"
      /\ UNCHANGED <<head, freeHead, next, rec, place, ep, batch, suspended,
                     nreg, ended>>
  BY DEF BatchDone, LoopEnds, CallRun, ClientReturns, DestroyReturns,
     CallbackReturns, SweepDestroyReturns, TypeInv, LocalsInUse, memory,
     kernel, dispatch, frames, ghosts
<1>2. FrameShape'
  BY DEF TimerInv, FrameShape, BatchDone, LoopEnds, CallRun, ClientReturns,
     DestroyReturns, CallbackReturns, SweepDestroyReturns, TypeInv,
     LocalsInUse, dispatch, frames
<1>. QED  BY <1>1, <1>2, TimerSame

LEMMA TimerSweep ==
    ASSUME TypeInv, TimerInv, SweepRecord \/ SweepFree \/ SweepDone
    PROVE  TimerInv'
<1>1. /\ phase = "sweep" /\ phase' = "sweep" /\ batch' = batch
      /\ pc \in {"sweep", "release"} /\ suspended' = suspended
      /\ UNCHANGED <<rec, nreg>>
  BY DEF SweepRecord, SweepFree, SweepDone, TypeInv, LocalsInUse, memory,
     dispatch, frames, ghosts
<1>2. FrameShape'
  BY <1>1 DEF TimerInv, FrameShape
<1>3. ASSUME NEW u \in User, u > nreg' PROVE ended'[u] = 0
  <2>1. CASE SweepRecord
    <3>1. sweep.data \in Record /\ ended' = EndedBy(sweep.data)
      BY <2>1 DEF SweepRecord, TypeInv, TypeOK
    <3>2. rec[sweep.data].user \in 0 .. nreg /\ ended[u] = 0 /\ u > nreg
      BY <1>1, <1>3, <3>1 DEF TimerInv, UserShape
    <3>3. nreg \in Int /\ u \in Int
      BY ConstantsAssumption DEF ConstantsAssumption, TypeInv, TypeOK, User
    <3>. QED  BY <3>1, <3>2, <3>3 DEF EndedBy
  <2>2. CASE SweepFree \/ SweepDone
    BY <1>1, <1>3, <2>2 DEF SweepFree, SweepDone, ghosts, TimerInv, UserShape
  <2>. QED  BY <2>1, <2>2
<1>4. UserShape'
  BY <1>1, <1>3 DEF TimerInv, UserShape
<1>. QED  BY <1>1, <1>2, <1>4 DEF TimerInv

LEMMA TimerMainloopInit ==
    ASSUME TypeInv, TimerInv, MainloopInit
    PROVE  TimerInv'
<1>1. /\ pc \in {"boot", "stopped"} /\ pc' = "client" /\ phase' = "setup"
      /\ head' = Null /\ freeHead' = Null
      /\ \A fd \in Fd : ep'[fd].rec = Null
      /\ \A r \in Record : place'[r] \in {"unallocated", "lost"}
      /\ UNCHANGED <<rec, batch, suspended, nreg, ended>>
  BY DEF MainloopInit, EmptyLists, Unwatched, frames, ghosts
<1>2. suspended' = <<>> /\ batch' = {}
  BY <1>1 DEF TimerInv, FrameShape, TypeInv, LocalsInUse
<1>3. FrameShape' /\ UserShape'
  BY <1>1, <1>2 DEF TimerInv, FrameShape, UserShape
<1>4. PointersRecent'
  BY <1>1, <1>2 DEF PointersRecent, Recent, Live
<1>5. TimersFresh'
  BY <1>1 DEF TimersFresh, Live
<1>. QED  BY <1>3, <1>4, <1>5 DEF TimerInv

LEMMA TimerIdle ==
    ASSUME TypeInv, TimerInv,
           \/ UseAfterFree \/ DoubleFree \/ NullDereference
           \/ \E fd \in TimerFd : TimerExpire(fd)
           \/ UNCHANGED vars
    PROVE  TimerInv'
<1>1. /\ pc' = "crashed" \/ UNCHANGED <<pc, find>>
      /\ UNCHANGED <<head, freeHead, next, rec, place, ep, batch, phase,
                     suspended, nreg, ended>>
  BY DEF UseAfterFree, DoubleFree, NullDereference, Crash, TimerExpire, vars,
     memory, kernel, dispatch, frames, ghosts
<1>2. FrameShape'
  BY <1>1 DEF TimerInv, FrameShape
<1>. QED  BY <1>1, <1>2, TimerSame

LEMMA TimerNext ==
    ASSUME TypeInv, TimerInv, [Next]_vars
    PROVE  TimerInv'
<1>1. CASE FinishCall
  BY <1>1, TimerLookup, TimerRemoveFound, TimerUnlink, TimerQuit DEF FinishCall
<1>2. CASE Loop
  BY <1>2, TimerEpollWait, TimerDispatch, TimerTurns, TimerSweep DEF Loop
<1>. QED
  BY <1>1, <1>2, TimerMainloopInit, TimerCalls, TimerTurns, TimerIdle DEF Next

LEMMA TimerAlways == Spec => [](TypeInv /\ TimerInv)
<1>1. TypeInv /\ TimerInv /\ [Next]_vars => (TypeInv /\ TimerInv)'
  BY TypeNext, TimerNext
<1>. QED  BY <1>1, TypeInit, TimerInit, PTL DEF Spec

\* mainloop_remove_fd ends a timer registration at most once, whatever else
\* the callbacks do: the descriptor the record gives up before its destroy
\* callback runs keeps a second lookup from finding it.
THEOREM TimerEndsOnce == Spec => []TimerEndedOnce
<1>1. TypeInv /\ TimerInv => TimerEndedOnce
  BY DEF TimerInv, TimersFresh, TimerEndedOnce, Listed, Placed, Live
<1>. QED  BY <1>1, TimerAlways, PTL

\* The step that runs a timeout callback.
LEMMA TimeoutStep ==
    ASSUME TypeInv, TimerInv, Next, NEW r \in Record,
           r \in batch \ batch', rec[r].type = "TIMER", pc' = "client"
    PROVE  /\ DispatchTimeout(r) /\ TimerReadable(r)
           /\ r \in Live /\ phase # "sweep"
<1>1. batch' # batch /\ r \in batch
  OBVIOUS
<1>2. ~(MainloopInit \/ ClientCall \/ CallRun \/ FinishCall \/ ClientReturns)
  <2>1. (MainloopInit \/ CallRun \/ FinishCall \/ ClientReturns) => batch' = batch
    BY DEF MainloopInit, CallRun, FinishCall, FindNext, NotFound, ModifyFound,
       RemoveFound, Unlink, QuitFree, QuitDone, ClientReturns, DestroyReturns,
       CallbackReturns, SweepDestroyReturns, dispatch
  <2>2. ClientCall => batch' = batch
    BY DEF ClientCall, AddFd, AddFdRefused, AddTimeout, AddTimeoutRefused,
       AddTimeoutNoMemory, Register, CallRemoveFd, CallModifyFd,
       CallModifyTimeout, StartFind, CallQuit, dispatch
  <2>. QED  BY <1>1, <2>1, <2>2
<1>3. ~(UseAfterFree \/ DoubleFree \/ NullDereference
        \/ \E fd \in TimerFd : TimerExpire(fd))
  BY DEF UseAfterFree, DoubleFree, NullDereference, Crash, TimerExpire, dispatch
<1>4. Loop
  BY <1>2, <1>3 DEF Next
<1>5. ~\E fds \in SUBSET CanFire : EpollWait(fds)
  BY <1>1 DEF EpollWait, TimerInv, FrameShape
<1>6. PICK s \in Record : DispatchEvent(s) \/ DispatchTimeout(s) \/ DispatchNothing(s)
  BY <1>1, <1>4, <1>5 DEF Loop, BatchDone, LoopEnds, SweepRecord, SweepFree,
     SweepDone, dispatch
<1>7. s = r
  BY <1>6 DEF DispatchEvent, DispatchTimeout, DispatchNothing, Deliver
<1>8. DispatchTimeout(r)
  BY <1>6, <1>7 DEF DispatchEvent, DispatchNothing, Deliver
<1>9. r \in Live /\ phase # "sweep"
  <2>1. phase # "sweep" /\ place[r] # "unallocated"
    BY <1>1, <1>8 DEF DispatchTimeout, Deliver, TypeInv, LocalsInUse
  <2>2. r # Null /\ Recent(r)
    BY <1>1, <2>1, ConstantsAssumption
    DEF ConstantsAssumption, TimerInv, PointersRecent
  <2>. QED  BY <2>1, <2>2 DEF Recent, Live, TypeInv, TypeOK
<1>. QED
  BY <1>8, <1>9 DEF DispatchTimeout

\* While epoll_ctl accepts every new timer, no timeout callback runs for a
\* timer that was set again, closed or ended since epoll_wait returned its
\* event, even if other callbacks of the batch removed and recycled its
\* record.  Where it refuses one, the record left behind would have to be
\* kept out of the batch: see TimeoutsOfRegistered.
THEOREM TimeoutsGenuine ==
    ASSUME "epoll" \notin Failures PROVE Spec => TimeoutGenuine
<1>1. TypeInv /\ TimerInv /\ [Next]_vars => [OnTime]_vars
  <2> SUFFICES ASSUME TypeInv, TimerInv, Next, NEW r \in Record,
                      r \in batch \ batch', rec[r].type = "TIMER", pc' = "client"
               PROVE  rec[r].fd \in TimerFd /\ timer[rec[r].fd] = "expired"
                      /\ ended[rec[r].user] = 0
    BY DEF OnTime
  <2>1. TimerReadable(r) /\ r \in Live /\ phase # "sweep"
    BY TimeoutStep
  <2>. QED
    BY <2>1, ConstantsAssumption
    DEF TimerReadable, TimerInv, TimersFresh, NoFd, ConstantsAssumption
<1>. QED  BY <1>1, TimerAlways, PTL DEF Spec, TimeoutGenuine

=============================================================================
