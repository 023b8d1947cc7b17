------------------------------ MODULE Mainloop ------------------------------
(***************************************************************************)
(* The event loop of mainloop.c, compiled with its epoll backend.  Records *)
(* live on a singly linked list (mainloop_data_head) while registered and  *)
(* on a second one (mainloop_free_head) when they wait to be recycled.     *)
(* The kernel keeps raw pointers to records and hands them back in         *)
(* batches.  Client code runs in three places: before mainloop_run, in an  *)
(* event or timeout callback, and in a destroy callback, where it          *)
(* interrupts mainloop_remove_fd or the final sweep half way.  The loops   *)
(* of the code that walk a list take one step per node.                    *)
(***************************************************************************)
EXTENDS Integers, Sequences, FiniteSets

CONSTANTS
    Record,        \* addresses malloc can return for a mainloop_data_t
    Null,          \* the null pointer
    UserFd,        \* descriptors the client owns and registers
    TimerFd,       \* numbers timerfd_create can return
    MaxReg,        \* bound: registrations over the whole run
    MaxCalls,      \* bound: API calls a callback (or the setup code) makes
    MaxEvents,     \* MAX_EPOLL_EVENTS
    CallbackOps,   \* operations an event callback may use
    DestroyOps,    \* operations a destroy callback may use
    AfterQuitOps,  \* operations still used once mainloop_quit was called
    Failures       \* what may fail: "nomem" (malloc), "epoll" (epoll_ctl ADD)

Fd == UserFd \cup TimerFd
NoFd == -1
User == 1 .. MaxReg
Ops == {"add", "add_again", "modify", "remove_own", "remove_other", "quit"}

ASSUME ConstantsAssumption ==
    /\ Null \notin Record
    /\ UserFd \subseteq Nat /\ TimerFd \subseteq Nat
    /\ UserFd \cap TimerFd = {}
    /\ MaxReg \in Nat /\ MaxCalls \in Nat /\ MaxEvents \in Nat \ {0}
    /\ CallbackOps \subseteq Ops
    /\ DestroyOps \subseteq Ops
    /\ AfterQuitOps \subseteq Ops
    /\ Failures \subseteq {"nomem", "epoll"}

VARIABLES
    head, freeHead,  \* mainloop_data_head, mainloop_free_head
    next,            \* the next field of every record
    rec,             \* its type, fd, user_data and whether it has a destructor
    place,           \* where its memory is; "unallocated" covers freed,
                     \* "leaked" is on no list, "lost" from before a restart
    ep,              \* the kernel's interest list, by descriptor
    timer,           \* state of every timerfd number
    terminate,       \* mainloop_terminate
    batch,           \* pointers epoll_wait returned and not dispatched yet
    cb,              \* the callback now run by the dispatch loop
    pc, phase,       \* what runs now; "setup", "run" or "sweep"
    calls,           \* API calls the running client code may still make
    find,            \* locals of the lookup loop of remove_fd and modify_fd
    suspended,       \* remove_fd calls waiting for their destroy callback
    sweep,           \* data and tmp of the final loop of mainloop_run
    nreg, accepted,  \* auxiliary: registrations made; those that returned >= 0
    ended,           \* auxiliary: how often a registration was ended
    fault            \* auxiliary: the memory error committed, if any

memory == <<head, freeHead, next, rec, place>>
kernel == <<ep, timer>>
dispatch == <<terminate, batch, cb>>
frames == <<find, suspended, sweep>>
ghosts == <<nreg, accepted, ended, fault>>
vars == <<memory, kernel, dispatch, pc, phase, calls, frames, ghosts>>

Unwatched == [rec |-> Null, armed |-> FALSE, oneshot |-> FALSE]
NoFind == [op |-> "none", fd |-> NoFd, data |-> Null, prev |-> Null]
NoSweep == [data |-> Null, tmp |-> Null]
NoCallback == [fd |-> NoFd, user |-> 0]
Blank == [type |-> "GENERAL", fd |-> NoFd, user |-> 0, destroy |-> FALSE]

Init ==
    /\ head = Null /\ freeHead = Null
    /\ next = [r \in Record |-> Null]
    /\ rec = [r \in Record |-> Blank]
    /\ place = [r \in Record |-> "unallocated"]
    /\ ep = [fd \in Fd |-> Unwatched]
    /\ timer = [fd \in TimerFd |-> "closed"]
    /\ terminate = FALSE /\ batch = {} /\ cb = NoCallback
    /\ pc = "boot" /\ phase = "setup" /\ calls = 0
    /\ find = NoFind /\ suspended = <<>> /\ sweep = NoSweep
    /\ nreg = 0 /\ accepted = {} /\ ended = [u \in User |-> 0]
    /\ fault = "none"

-----------------------------------------------------------------------------
(* Helpers.                                                                *)

InDestroy == suspended # <<>> \/ phase = "sweep"

\* The descriptor the running client code was called for.
OwnFd == IF suspended # <<>> THEN Head(suspended).fd
         ELSE IF phase = "sweep" THEN rec[sweep.data].fd ELSE cb.fd

\* What the client's contract lets its code do at this point.
May(op) ==
    /\ pc = "client" /\ calls > 0
    /\ InDestroy => op \in DestroyOps
    /\ ~InDestroy => op \in CallbackOps \/ (phase = "setup" /\ op = "remove_other")
    /\ terminate => op \in AfterQuitOps

RemoveOp(fd) == IF fd \in {OwnFd, NoFd} THEN "remove_own" ELSE "remove_other"
AddOp(fd) == IF ep[fd].rec = Null THEN "add" ELSE "add_again"

\* The record an add uses: the head of the free list, or a malloc.
Take(r) ==
    \/ /\ freeHead # Null /\ r = freeHead /\ place[r] # "unallocated"
       /\ freeHead' = next[r]
    \/ /\ freeHead = Null /\ place[r] = "unallocated"
       /\ UNCHANGED freeHead

NoMemory == freeHead = Null /\ "nomem" \in Failures

\* A negative descriptor is refused with -EINVAL; a client holds one when
\* an add failed, and a timer record carries one while it is removed.
ValidFd_NotChecked(fd) == TRUE
ValidFd(fd) == fd >= 0

\* EPOLL_CTL_DEL, or the close of the descriptor.
Closed_Forgotten(fd) == ep
Closed(fd) == [ep EXCEPT ![fd] = Unwatched]

\* EPOLL_CTL_MOD: armed again, without EPOLLONESHOT.
Rearmed_NotArmed(fd, r) == [ep EXCEPT ![fd] = [@ EXCEPT !.rec = r]]
Rearmed_NoPointer(fd, r) ==
    [ep EXCEPT ![fd] = [rec |-> Null, armed |-> TRUE, oneshot |-> FALSE]]
Rearmed(fd, r) ==
    [ep EXCEPT ![fd] = [rec |-> r, armed |-> TRUE, oneshot |-> FALSE]]

\* The registration list after a record is put on it.
Link_Second(r) ==
    IF head = Null THEN head' = r /\ next' = [next EXCEPT ![r] = Null]
    ELSE head' = head /\ next' = [next EXCEPT ![r] = next[head], ![head] = r]
Link(r) == head' = r /\ next' = [next EXCEPT ![r] = head]

\* The next fields once data left the place after prev for the free list.
Relinked_Swapped(data, prev) ==
    [next EXCEPT ![data] = freeHead, ![prev] = freeHead]
Relinked(data, prev) ==
    [next EXCEPT ![prev] = next[data], ![data] = freeHead]

\* A timer record is made unfindable before its destroy callback runs.
Detached_Forgotten(r) == rec
Detached(r) == [rec EXCEPT ![r].fd = NoFd]

\* Where mainloop_quit starts to free.
QuitFrom_Nothing == Null
QuitFrom == freeHead

\* What mainloop_init makes of the two lists.
EmptyLists_HeadOnly == head' = Null /\ UNCHANGED freeHead
EmptyLists == head' = Null /\ freeHead' = Null

EndedBy(r) ==
    [u \in User |-> IF u = rec[r].user /\ ended[u] < 2 THEN ended[u] + 1
                    ELSE ended[u]]

-----------------------------------------------------------------------------
(* mainloop_init: both lists forgotten, a new epoll instance.              *)

MainloopInit ==
    /\ pc \in {"boot", "stopped"}
    /\ EmptyLists /\ terminate' = FALSE
    /\ ep' = [fd \in Fd |-> Unwatched]
    /\ place' = [r \in Record |->
                    IF place[r] = "unallocated" THEN place[r] ELSE "lost"]
    /\ pc' = "client" /\ phase' = "setup" /\ calls' = MaxCalls
    /\ UNCHANGED <<next, rec, timer, batch, cb, frames, ghosts>>

Register(r, type, fd, d) ==
    /\ nreg < MaxReg /\ Take(r) /\ Link(r)
    /\ rec' = [rec EXCEPT ![r] = [type |-> type, fd |-> fd,
                                  user |-> nreg + 1, destroy |-> d]]
    /\ place' = [place EXCEPT ![r] = "listed"]
    /\ nreg' = nreg + 1 /\ calls' = calls - 1
    /\ UNCHANGED <<dispatch, pc, phase, frames, ended, fault>>

(* mainloop_add_fd: the record is linked before epoll_ctl is asked, and    *)
(* stays linked when epoll_ctl refuses.                                    *)
AddFd(fd, r, d) ==
    /\ May("add") /\ ep[fd].rec = Null
    /\ Register(r, "GENERAL", fd, d)
    /\ ep' = [ep EXCEPT ![fd] = [rec |-> r, armed |-> TRUE, oneshot |-> FALSE]]
    /\ accepted' = accepted \cup {nreg + 1}
    /\ UNCHANGED timer

AddFdRefused(fd, r, d) ==
    /\ May(AddOp(fd)) /\ (ep[fd].rec # Null \/ "epoll" \in Failures)
    /\ Register(r, "GENERAL", fd, d)
    /\ UNCHANGED <<kernel, accepted>>

(* mainloop_add_timeout: linked only after epoll_ctl accepted; on a        *)
(* failure the record is on neither list, but keeps its type, callback and *)
(* the number of the closed timerfd, and the registration is over at once; *)
(* without memory the timerfd stays open.                                  *)
Created(fd, set) == [timer EXCEPT ![fd] = IF set THEN "set" ELSE "unset"]

AddTimeout(fd, r, d, set) ==
    /\ May("add") /\ timer[fd] = "closed"
    /\ Register(r, "TIMER", fd, d)
    /\ ep' = [ep EXCEPT ![fd] = [rec |-> r, armed |-> TRUE, oneshot |-> TRUE]]
    /\ accepted' = accepted \cup {nreg + 1}
    /\ timer' = Created(fd, set)

AddTimeoutRefused(fd, r, d) ==
    /\ May("add") /\ "epoll" \in Failures
    /\ timer[fd] = "closed"
    /\ nreg < MaxReg /\ Take(r)
    /\ rec' = [rec EXCEPT ![r] = [type |-> "TIMER", fd |-> fd,
                                  user |-> nreg + 1, destroy |-> d]]
    /\ next' = [next EXCEPT ![r] = Null]
    /\ place' = [place EXCEPT ![r] = "leaked"]
    /\ nreg' = nreg + 1 /\ ended' = [ended EXCEPT ![nreg + 1] = 1]
    /\ calls' = calls - 1
    /\ UNCHANGED <<head, kernel, dispatch, pc, phase, frames, accepted, fault>>

AddTimeoutNoMemory(fd, set) ==
    /\ May("add") /\ NoMemory
    /\ timer[fd] = "closed"
    /\ timer' = Created(fd, set)
    /\ calls' = calls - 1
    /\ UNCHANGED <<memory, ep, dispatch, pc, phase, frames, ghosts>>

-----------------------------------------------------------------------------
(* The lookup loop shared by mainloop_modify_fd and mainloop_remove_fd.    *)

StartFind(op, fd) ==
    /\ find' = [op |-> op, fd |-> fd, data |-> head, prev |-> Null]
    /\ pc' = "find"
    /\ calls' = calls - 1
    /\ UNCHANGED <<memory, ep, dispatch, phase, suspended, sweep, ghosts>>

CallRemoveFd(fd) ==
    /\ ValidFd(fd) /\ May(RemoveOp(fd))
    /\ StartFind("remove", fd)
    /\ UNCHANGED timer

CallModifyFd(fd) ==
    /\ ValidFd(fd) /\ May("modify")
    /\ StartFind("modify", fd)
    /\ UNCHANGED timer

(* mainloop_modify_timeout: timerfd_settime first, which fails on a closed *)
(* descriptor, and drops an expiration nobody has read yet.                *)
CallModifyTimeout(fd) ==
    /\ May("modify")
    /\ timer[fd] # "closed"
    /\ timer' = [timer EXCEPT ![fd] = "set"]
    /\ StartFind("modify", fd)

FindNext ==
    /\ pc = "find" /\ find.data # Null
    /\ place[find.data] # "unallocated"
    /\ rec[find.data].fd # find.fd
    /\ find' = [op |-> find.op, fd |-> find.fd,
                data |-> next[find.data], prev |-> find.data]
    /\ UNCHANGED <<memory, kernel, dispatch, pc, phase, calls, suspended,
                   sweep, ghosts>>

Found(op) ==
    /\ pc = "find" /\ find.op = op /\ find.data # Null
    /\ place[find.data] # "unallocated"
    /\ rec[find.data].fd = find.fd

\* -ENXIO
NotFound ==
    /\ pc = "find" /\ find.data = Null
    /\ pc' = "client" /\ find' = NoFind
    /\ UNCHANGED <<memory, kernel, dispatch, phase, calls, suspended, sweep,
                   ghosts>>

(* epoll_modify_fd: re-arms, without EPOLLONESHOT, and stores the pointer. *)
ModifyFound ==
    /\ Found("modify")
    /\ ep' = IF ep[find.fd].rec = Null THEN ep
             ELSE Rearmed(find.fd, find.data)
    /\ pc' = "client" /\ find' = NoFind
    /\ UNCHANGED <<memory, timer, dispatch, phase, calls, suspended, sweep,
                   ghosts>>

(* mainloop_remove_fd up to the destroy callback, the record still linked. *)
RemoveFound ==
    /\ Found("remove")
    /\ ep' = Closed(find.fd)
    /\ IF rec[find.data].type = "TIMER"
       THEN /\ timer' = [timer EXCEPT ![find.fd] = "closed"]
            /\ rec' = Detached(find.data)
       ELSE UNCHANGED <<timer, rec>>
    /\ ended' = EndedBy(find.data)
    /\ suspended' = <<[data |-> find.data, prev |-> find.prev,
                       fd |-> find.fd]>> \o suspended
    /\ pc' = IF rec[find.data].destroy THEN "client" ELSE "unlink"
    /\ find' = NoFind
    /\ UNCHANGED <<head, freeHead, next, place, dispatch, phase, calls, sweep,
                   nreg, accepted, fault>>

DestroyReturns ==
    /\ pc = "client" /\ suspended # <<>>
    /\ pc' = "unlink"
    /\ UNCHANGED <<memory, kernel, dispatch, phase, calls, frames, ghosts>>

(* The rest of mainloop_remove_fd, with the data and prev of before the    *)
(* destroy callback.                                                       *)
Unlink ==
    /\ pc = "unlink"
    /\ LET data == Head(suspended).data
           prev == Head(suspended).prev
       IN
       /\ place[data] # "unallocated"
       /\ \/ /\ data = head
             /\ head' = next[data]
             /\ next' = [next EXCEPT ![data] = freeHead]
          \/ /\ data # head /\ prev # Null
             /\ place[prev] # "unallocated"
             /\ head' = head
             /\ next' = Relinked(data, prev)
       /\ freeHead' = data
       /\ place' = [place EXCEPT ![data] = "pooled"]
    /\ suspended' = Tail(suspended)
    /\ pc' = "client"
    /\ UNCHANGED <<rec, kernel, dispatch, phase, calls, find, sweep, ghosts>>

-----------------------------------------------------------------------------
(* mainloop_quit: the free list is freed node by node; its head is kept.   *)

CallQuit ==
    /\ May("quit")
    /\ terminate' = TRUE
    /\ find' = [op |-> "quit", fd |-> NoFd, data |-> QuitFrom, prev |-> Null]
    /\ pc' = "quit"
    /\ calls' = calls - 1
    /\ UNCHANGED <<memory, kernel, batch, cb, phase, suspended, sweep,
                   ghosts>>

QuitFree ==
    /\ pc = "quit" /\ find.data # Null
    /\ place[find.data] # "unallocated"
    /\ place' = [place EXCEPT ![find.data] = "unallocated"]
    /\ find' = [op |-> find.op, fd |-> find.fd,
                data |-> next[find.data], prev |-> find.prev]
    /\ UNCHANGED <<head, freeHead, next, rec, kernel, dispatch, pc, phase,
                   calls, suspended, sweep, ghosts>>

QuitDone ==
    /\ pc = "quit" /\ find.data = Null
    /\ pc' = "client" /\ find' = NoFind
    /\ UNCHANGED <<memory, kernel, dispatch, phase, calls, suspended, sweep,
                   ghosts>>

-----------------------------------------------------------------------------
(* mainloop_run and epoll_run.                                             *)

CallRun ==
    /\ pc = "client" /\ phase = "setup" /\ suspended = <<>>
    /\ pc' = "loop" /\ phase' = "run" /\ calls' = 0
    /\ UNCHANGED <<memory, kernel, dispatch, frames, ghosts>>

LoopGoesOn_Always == TRUE
LoopGoesOn == ~terminate

Expired == {fd \in TimerFd : ep[fd].armed /\ timer[fd] = "expired"}
CanFire == Expired \cup {fd \in UserFd : ep[fd].armed}

(* epoll_wait: every expired timer is reported unless the array is full; a *)
(* user descriptor is ready or not as the world pleases.                   *)
EpollWait(fds) ==
    /\ pc = "loop" /\ LoopGoesOn
    /\ Cardinality(fds) <= MaxEvents
    /\ Expired \subseteq fds \/ Cardinality(fds) = MaxEvents
    /\ batch' = {ep[fd].rec : fd \in fds}
    /\ ep' = [fd \in Fd |-> IF fd \in fds /\ ep[fd].oneshot
                            THEN [rec |-> ep[fd].rec, armed |-> FALSE,
                                  oneshot |-> TRUE]
                            ELSE ep[fd]]
    /\ pc' = "dispatch"
    /\ UNCHANGED <<memory, timer, terminate, cb, phase, calls, frames,
                   ghosts>>

RunCallback(r) ==
    /\ cb' = [fd |-> rec[r].fd, user |-> rec[r].user]
    /\ pc' = "client" /\ calls' = MaxCalls

Deliver(r) ==
    /\ pc = "dispatch" /\ r \in batch
    /\ batch' = batch \ {r}

DispatchEvent(r) ==
    /\ Deliver(r)
    /\ place[r] # "unallocated" /\ rec[r].type = "GENERAL"
    /\ RunCallback(r)
    /\ UNCHANGED <<memory, kernel, terminate, phase, frames, ghosts>>

(* mainloop_timeout_process: the read fails on a descriptor that is closed *)
(* or whose timer has been set again since epoll_wait.                     *)
TimerReadable_NotChecked(r) == rec[r].fd \in TimerFd
TimerReadable(r) == rec[r].fd \in TimerFd /\ timer[rec[r].fd] = "expired"

DispatchTimeout(r) ==
    /\ Deliver(r)
    /\ place[r] # "unallocated" /\ rec[r].type = "TIMER"
    /\ TimerReadable(r)
    /\ timer' = [timer EXCEPT ![rec[r].fd] = "unset"]
    /\ RunCallback(r)
    /\ UNCHANGED <<memory, ep, terminate, phase, frames, ghosts>>

DispatchNothing(r) ==
    /\ Deliver(r)
    /\ place[r] # "unallocated" /\ rec[r].type = "TIMER"
    /\ ~TimerReadable(r)
    /\ UNCHANGED <<memory, kernel, terminate, cb, pc, phase, calls, frames,
                   ghosts>>

CallbackReturns ==
    /\ pc = "client" /\ phase = "run" /\ suspended = <<>>
    /\ pc' = "dispatch" /\ cb' = NoCallback /\ calls' = 0
    /\ UNCHANGED <<memory, kernel, terminate, batch, phase, frames, ghosts>>

BatchDone ==
    /\ pc = "dispatch" /\ batch = {}
    /\ pc' = "loop"
    /\ UNCHANGED <<memory, kernel, dispatch, phase, calls, frames, ghosts>>

LoopEnds ==
    /\ pc = "loop" /\ ~LoopGoesOn
    /\ pc' = "sweep" /\ phase' = "sweep"
    /\ sweep' = [data |-> head, tmp |-> Null]
    /\ UNCHANGED <<memory, kernel, dispatch, calls, find, suspended, ghosts>>

-----------------------------------------------------------------------------
(* The final loop of mainloop_run: end and free every linked record.       *)

SweepRecord ==
    /\ pc = "sweep" /\ sweep.data # Null
    /\ place[sweep.data] # "unallocated"
    /\ LET r == sweep.data IN
       /\ IF rec[r].type = "TIMER" /\ rec[r].fd # NoFd
          THEN /\ timer' = [timer EXCEPT ![rec[r].fd] = "closed"]
               /\ ep' = Closed(rec[r].fd)
          ELSE UNCHANGED kernel
       /\ sweep' = [data |-> r, tmp |-> next[r]]
       /\ ended' = EndedBy(r)
       /\ pc' = IF rec[r].destroy THEN "client" ELSE "release"
    /\ calls' = MaxCalls
    /\ UNCHANGED <<memory, dispatch, phase, find, suspended, nreg, accepted,
                   fault>>

SweepDestroyReturns ==
    /\ pc = "client" /\ phase = "sweep" /\ suspended = <<>>
    /\ pc' = "release"
    /\ UNCHANGED <<memory, kernel, dispatch, phase, calls, frames, ghosts>>

SweepFree ==
    /\ pc = "release"
    /\ place[sweep.data] # "unallocated"
    /\ place' = [place EXCEPT ![sweep.data] = "unallocated"]
    /\ sweep' = [data |-> sweep.tmp, tmp |-> Null]
    /\ pc' = "sweep" /\ calls' = 0
    /\ UNCHANGED <<head, freeHead, next, rec, kernel, dispatch, phase, find,
                   suspended, ghosts>>

(* mainloop_platform_destroy: closing epoll_fd drops the interest list.    *)
SweepDone ==
    /\ pc = "sweep" /\ sweep.data = Null
    /\ ep' = [fd \in Fd |-> Unwatched]
    /\ pc' = "stopped"
    /\ UNCHANGED <<memory, timer, dispatch, phase, calls, frames, ghosts>>

-----------------------------------------------------------------------------
(* The kernel: a timer that was set expires, at any moment.                *)
TimerExpire(fd) ==
    /\ timer[fd] = "set" /\ pc # "crashed"
    /\ timer' = [timer EXCEPT ![fd] = "expired"]
    /\ UNCHANGED <<memory, ep, dispatch, pc, phase, calls, frames, ghosts>>
-----------------------------------------------------------------------------
(* Memory errors: nothing is claimed of the program from then on.          *)

Crash(what) ==
    /\ fault' = what
    /\ pc' = "crashed"
    /\ UNCHANGED <<memory, kernel, dispatch, phase, calls, frames, nreg,
                   accepted, ended>>

Dangling(r) == r # Null /\ place[r] = "unallocated"

UnlinkTouchesFreed ==
    LET f == Head(suspended) IN
    Dangling(f.data) \/ (f.data # head /\ Dangling(f.prev))

UseAfterFree ==
    /\ \/ May("add") /\ nreg < MaxReg /\ Dangling(freeHead)
       \/ pc = "find" /\ Dangling(find.data)
       \/ pc = "unlink" /\ UnlinkTouchesFreed
       \/ pc = "dispatch" /\ \E r \in batch : Dangling(r)
       \/ pc = "sweep" /\ Dangling(sweep.data)
    /\ Crash("use_after_free")

DoubleFree ==
    /\ \/ pc = "quit" /\ Dangling(find.data)
       \/ pc = "release" /\ Dangling(sweep.data)
    /\ Crash("double_free")

NullDereference ==
    /\ pc = "unlink" /\ ~UnlinkTouchesFreed
    /\ Head(suspended).data # head /\ Head(suspended).prev = Null
    /\ Crash("null_dereference")

-----------------------------------------------------------------------------
ClientCall ==
    \/ \E fd \in UserFd, r \in Record, d \in BOOLEAN :
          AddFd(fd, r, d) \/ AddFdRefused(fd, r, d)
    \/ \E fd \in TimerFd, r \in Record, d, set \in BOOLEAN :
          AddTimeout(fd, r, d, set)
    \/ \E fd \in TimerFd, r \in Record, d \in BOOLEAN :
          AddTimeoutRefused(fd, r, d)
    \/ \E fd \in TimerFd, set \in BOOLEAN : AddTimeoutNoMemory(fd, set)
    \/ \E fd \in Fd \cup {NoFd} : CallRemoveFd(fd) \/ CallModifyFd(fd)
    \/ \E fd \in TimerFd : CallModifyTimeout(fd)
    \/ CallQuit

FinishCall ==
    \/ FindNext \/ NotFound \/ ModifyFound \/ RemoveFound
    \/ Unlink \/ QuitFree \/ QuitDone

ClientReturns == DestroyReturns \/ CallbackReturns \/ SweepDestroyReturns

Loop ==
    \/ \E fds \in SUBSET CanFire : EpollWait(fds)
    \/ \E r \in Record :
          DispatchEvent(r) \/ DispatchTimeout(r) \/ DispatchNothing(r)
    \/ BatchDone \/ LoopEnds
    \/ SweepRecord \/ SweepFree \/ SweepDone

Next ==
    \/ MainloopInit
    \/ ClientCall
    \/ CallRun
    \/ FinishCall
    \/ ClientReturns
    \/ Loop
    \/ UseAfterFree \/ DoubleFree \/ NullDereference
    \/ \E fd \in TimerFd : TimerExpire(fd)

Spec == Init /\ [][Next]_vars

\* The thread keeps running and every callback returns; nothing forces the
\* client to call, a timer to be set or a descriptor to become ready.
Fairness == WF_vars(FinishCall \/ ClientReturns \/ Loop)

FairSpec == Spec /\ Fairness

-----------------------------------------------------------------------------
(* Properties.                                                             *)

Placed(where) == {r \in Record : place[r] = where}
Listed == Placed("listed")
Pooled == Placed("pooled")

Data == [type : {"GENERAL", "TIMER"}, fd : Fd \cup {NoFd},
         user : User \cup {0}, destroy : BOOLEAN]
Interest == [rec : Record \cup {Null}, armed : BOOLEAN, oneshot : BOOLEAN]
Lookup == [op : {"none", "modify", "remove", "quit"}, fd : Fd \cup {NoFd},
           data : Record \cup {Null}, prev : Record \cup {Null}]
Suspended == [data : Record, prev : Record \cup {Null}, fd : Fd]

\* Every variable has its type.
TypeOK ==
    /\ head \in Record \cup {Null} /\ freeHead \in Record \cup {Null}
    /\ next \in [Record -> Record \cup {Null}]
    /\ rec \in [Record -> Data]
    /\ place \in [Record ->
                    {"unallocated", "listed", "pooled", "leaked", "lost"}]
    /\ ep \in [Fd -> Interest]
    /\ timer \in [TimerFd -> {"closed", "unset", "set", "expired"}]
    /\ terminate \in BOOLEAN
    /\ batch \in SUBSET Record
    /\ cb \in [fd : Fd \cup {NoFd}, user : User \cup {0}]
    /\ pc \in {"boot", "client", "find", "unlink", "quit", "loop", "dispatch",
               "sweep", "release", "stopped", "crashed"}
    /\ phase \in {"setup", "run", "sweep"}
    /\ calls \in 0 .. MaxCalls
    /\ find \in Lookup
    /\ suspended \in Seq(Suspended)
    /\ sweep \in [data : Record \cup {Null}, tmp : Record \cup {Null}]
    /\ nreg \in 0 .. MaxReg
    /\ accepted \in SUBSET User
    /\ ended \in [User -> 0 .. 2]
    /\ fault \in {"none", "use_after_free", "double_free",
                  "null_dereference"}

\* mainloop_remove_fd, mainloop_quit and the dispatch loop touch no memory
\* that was freed, free none twice and follow no null prev.
NoMemoryFault == fault = "none"

\* Until the final sweep, the registration list and the free list hold
\* disjoint records: from mainloop_data_head only registered records are
\* reached, from mainloop_free_head (until mainloop_quit frees it) only
\* recyclable ones, and no two records share a successor.
ListsApart ==
    (phase # "sweep" /\ pc \notin {"boot", "stopped"}) =>
    /\ head \in Listed \cup {Null}
    /\ \A r \in Listed : next[r] \in Listed \cup {Null}
    /\ \A r, s \in Listed : (r # s /\ next[r] = next[s]) => next[r] = Null
    /\ ~terminate =>
          /\ freeHead \in Pooled \cup {Null}
          /\ \A r \in Pooled : next[r] \in Pooled \cup {Null}

\* The lookup of mainloop_modify_fd and mainloop_remove_fd meets newer
\* registrations first, so that of two for one descriptor it acts on the
\* later one.
NewestFirst ==
    (phase # "sweep" /\ pc \notin {"boot", "stopped"}) =>
    \A r, s \in Listed : next[r] = s => rec[s].user < rec[r].user

\* A registration the API accepted is watched by the kernel, under its own
\* record, until it is removed: no other call on another descriptor, no
\* recycling and no failed call makes it deaf.
AcceptedIsWatched ==
    phase # "sweep" =>
    \A r \in Listed :
        (rec[r].user \in accepted /\ ended[rec[r].user] = 0)
        => ep[rec[r].fd].rec = r

\* Every pointer in the kernel's interest list is to a registered record,
\* and the descriptor it is filed under is that record's own.
InterestLive ==
    (phase # "sweep" /\ pc \notin {"boot", "stopped"}) =>
    \A fd \in Fd : ep[fd].rec # Null =>
        ep[fd].rec \in Listed /\ rec[ep[fd].rec].fd = fd

\* Every event epoll_wait returned and epoll_run has not dispatched yet is
\* for a registered record: no callback runs with the user_data of a
\* registration that was ended.
BatchLive == batch \subseteq Listed

\* When mainloop_run returns and no call failed, nothing is left: all
\* records are freed, every timerfd is closed and every registration was
\* ended exactly once.
CleanStop ==
    (pc = "stopped" /\ Failures = {}) =>
    /\ \A r \in Record : place[r] = "unallocated"
    /\ \A fd \in TimerFd : timer[fd] = "closed"
    /\ \A u \in 1 .. nreg : ended[u] = 1

\* A timeout callback runs only when its timer has expired and nobody has
\* set it again since, and then the registration is not ended: whatever the
\* other callbacks of the batch have removed, recycled or modified.  It
\* needs an epoll_ctl that does not fail, or clients that leave no stale
\* pointer in the batch: the record of a refused timeout stays a timer's,
\* with a number that timerfd_create may return again.
OnTime ==
    \A r \in Record :
        (r \in batch \ batch' /\ rec[r].type = "TIMER" /\ pc' = "client")
        => rec[r].fd \in TimerFd /\ timer[rec[r].fd] = "expired"
           /\ ended[rec[r].user] = 0
TimeoutGenuine == [][OnTime]_vars

\* mainloop_remove_fd ends a timer registration at most once, even when its
\* own destroy callback removes it again.
TimerEndedOnce ==
    phase # "sweep" =>
    \A r \in Listed : rec[r].type = "TIMER" => ended[rec[r].user] <= 1

\* Each registration is accepted once, fires only while active, is ended
\* exactly once, and all are ended when mainloop_run returns.
Registry == INSTANCE CallbackRegistry WITH
    Registrations <- User,
    Nobody <- 0,
    status <- [u \in User |-> IF u > nreg THEN "fresh"
                              ELSE IF ended[u] = 0 THEN "active"
                              ELSE IF ended[u] = 1 THEN "ended"
                              ELSE "ended twice"],
    firing <- cb.user,
    over <- pc \in {"boot", "stopped"}

ImplementsRegistry == Registry!Spec

\* A quit during a run ends it: mainloop_run returns.
QuitStops == (terminate /\ phase = "run") ~> (pc = "stopped")

\* A registered timer that has expired gets its callback, unless it is set
\* again or removed first or the loop quits: no one-shot registration stays
\* disarmed.
TimeoutServed ==
    \A fd \in TimerFd :
        (phase = "run" /\ ep[fd].rec # Null /\ timer[fd] = "expired")
        ~> (timer[fd] # "expired" \/ terminate)

=============================================================================
