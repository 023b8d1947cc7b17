------------------------------ MODULE SelectLoop ------------------------------
(* The select backend of mainloop.c and the list it walks: mainloop_data_head, *)
(* mainloop_free_head, the two sets of descriptors and maxfd.  Destroy         *)
(* callbacks call nothing here, nobody adds a descriptor twice, and after      *)
(* mainloop_quit callbacks neither add nor quit: Mainloop has those that do,   *)
(* in the same functions, and mainloop_run's sweep.                            *)
EXTENDS SequencesExt, Integers, FiniteSets

CONSTANTS Fd,      \* descriptors
          Timers,  \* those that are timerfds
          Record,  \* the records malloc returns, in this order
          OwnToo   \* whether a callback removes its own descriptor

SelectAssumption == /\ Fd \subseteq Nat /\ Timers \subseteq Fd /\ OwnToo \in BOOLEAN
                    /\ Record = 1 .. Cardinality(Fd)

Events == {"in", "out"}

VARIABLES list, free,        \* records on the two lists, from the head
          fdOf,              \* data->fd
          rfds, wfds, maxfd,
          where,             \* "setup", "wait", "walk", "callback" or "returns"
          quit,              \* mainloop_terminate
          data,              \* the record select_run is at, 0 for NULL
          orfds, owfds,      \* what select left of the two sets
          expired,           \* timers whose timerfd has something to read
          asked,             \* auxiliary: the events last asked for, by descriptor
          ready, due, called \* auxiliary: what is ready, the records to call
                             \* in this round and the calls made

sets == <<rfds, wfds, maxfd>>
lists == <<list, free, fdOf>>
round == <<data, orfds, owfds, ready, called>>
vars == <<lists, sets, where, quit, asked, due, expired, round>>

NULL == 0
Live == ToSet(list)
LiveFds == {fdOf[r] : r \in Live}

Init == /\ list = << >> /\ free = << >> /\ fdOf = [r \in Record |-> -1]
        /\ rfds = {} /\ wfds = {} /\ maxfd = 0
        /\ where = "setup" /\ quit = FALSE /\ asked = [f \in Fd |-> {}]
        /\ data = NULL /\ orfds = {} /\ owfds = {} /\ expired = {}
        /\ ready = [e \in Events |-> {}] /\ due = {} /\ called = << >>

------------------------------------------------------------------------------
(* Calls, before the loop or from a callback, which then returns.             *)

MayCall == where \in {"setup", "callback"}
Called == where' = (IF where = "setup" THEN "setup" ELSE "returns")

Set(s, f, e, es) == IF e \in es THEN s \cup {f} ELSE s

\* Mutant of Unset: only one of the two sets is cleared.
Unset_Half(f) == rfds' = rfds \ {f} /\ wfds' = wfds

Unset(f) == rfds' = rfds \ {f} /\ wfds' = wfds \ {f}

\* mainloop_add_timeout and mainloop_modify_timeout ask for EVENT_IN.
MayAsk(f, es) == MayCall /\ (f \in Timers => es = {"in"})

AddFd(f, es) ==
    /\ MayAsk(f, es) /\ f \notin LiveFds /\ ~quit
    /\ \E r \in Record :
        /\ IF free = << >> THEN r = Cardinality(Live) + 1 /\ free' = free
           ELSE r = free[1] /\ free' = Tail(free)
        /\ list' = <<r>> \o list /\ fdOf' = [fdOf EXCEPT ![r] = f]
    /\ rfds' = Set(rfds, f, "in", es) /\ wfds' = Set(wfds, f, "out", es)
    /\ maxfd' = (IF maxfd <= f THEN f + 1 ELSE maxfd)
    /\ asked' = [asked EXCEPT ![f] = es]
    /\ Called /\ UNCHANGED <<quit, due, expired, round>>

\* A timer that is set again has nothing to read, unless it expires at once.
ModifyFd(f, es) ==
    /\ MayAsk(f, es) /\ f \in LiveFds
    /\ rfds' = Set(rfds \ {f}, f, "in", es) /\ wfds' = Set(wfds \ {f}, f, "out", es)
    /\ asked' = [asked EXCEPT ![f] = es]
    /\ due' = {r \in due : fdOf[r] # f \/ f \notin Timers}
    /\ \E s \in SUBSET ({f} \cap Timers) : expired' = (expired \ {f}) \cup s
    /\ Called /\ UNCHANGED <<lists, maxfd, quit, round>>

RemoveFd(f) ==
    /\ MayCall
    /\ \E k \in 1 .. Len(list) :
        /\ fdOf[list[k]] = f
        /\ where = "callback" /\ ~OwnToo => list[k] # data
        /\ list' = RemoveAt(list, k) /\ free' = <<list[k]>> \o free
        /\ fdOf' = (IF f \in Timers THEN [fdOf EXCEPT ![list[k]] = -1] ELSE fdOf)
        /\ due' = due \ {list[k]}
    /\ Unset(f) /\ asked' = [asked EXCEPT ![f] = {}] /\ expired' = expired \ {f}
    /\ Called /\ UNCHANGED <<maxfd, quit, round>>

\* Frees the records of the free list, which nobody reads after that.
Quit == /\ where = "callback" /\ ~quit /\ quit' = TRUE
        /\ Called /\ UNCHANGED <<lists, sets, asked, due, expired, round>>

NoCall == /\ where = "callback" /\ Called
          /\ UNCHANGED <<lists, sets, quit, asked, due, expired, round>>

------------------------------------------------------------------------------
(* select_run.                                                                *)

\* The kernel looks at the descriptors below maxfd only.
Run(rs, ws) ==
    /\ where \in {"setup", "wait"} /\ ~quit
    /\ ready' = [e \in Events |-> IF e = "in" THEN rs ELSE ws]
    /\ orfds' = {f \in rfds \cap rs : f < maxfd} /\ owfds' = {f \in wfds \cap ws : f < maxfd}
    /\ IF orfds' \cup owfds' = {} THEN where' = "wait" /\ data' = NULL
       ELSE where' = "walk" /\ data' = IF list = << >> THEN NULL ELSE list[1]
    /\ due' = {r \in Live : fdOf[r] \in rs /\ "in" \in asked[fdOf[r]]}
    /\ expired' = rs \cap Timers
    /\ called' = << >> /\ UNCHANGED <<lists, sets, quit, asked>>

\* The next record of the list the record is on now.
After(s, r) == LET i == CHOOSE i \in 1 .. Len(s) : s[i] = r
               IN  IF i = Len(s) THEN NULL ELSE s[i + 1]

Following == IF data \in Live THEN After(list, data) ELSE After(free, data)

\* Mutants of AfterCall: one callback for each select; the next record is read
\* before the callback.
AfterCall_One == NULL
AfterCall_Saved == called[Len(called)].next

AfterCall == Following

\* Both tests are of orfds.
Found(f) == {e \in Events : f \in orfds}

\* mainloop_timeout_process reads the timerfd first: one that was set again has
\* nothing to read and its callback is not run.
Visit ==
    /\ where = "walk" /\ data # NULL
    /\ IF Found(fdOf[data]) # {} /\ (fdOf[data] \in Timers => fdOf[data] \in expired)
       THEN /\ where' = "callback" /\ expired' = expired \ {fdOf[data]} /\ UNCHANGED data
            /\ called' = Append(called, [record |-> data, events |-> Found(fdOf[data]),
                                         live |-> data \in Live, next |-> Following])
       ELSE data' = Following /\ UNCHANGED <<where, called, expired>>
    /\ UNCHANGED <<lists, sets, quit, asked, orfds, owfds, ready, due>>

CallbackReturns ==
    /\ where = "returns" /\ where' = "walk" /\ data' = AfterCall
    /\ UNCHANGED <<lists, sets, quit, asked, orfds, owfds, ready, due, expired, called>>

Walked == /\ where = "walk" /\ data = NULL /\ where' = "wait"
          /\ UNCHANGED <<lists, sets, quit, asked, due, expired, round>>

Next == \/ \E f \in Fd, es \in SUBSET Events \ {{}} : AddFd(f, es) \/ ModifyFd(f, es)
        \/ \E f \in Fd : RemoveFd(f)
        \/ \E rs \in SUBSET Fd, ws \in {{}, Fd} : Run(rs, ws)
        \/ Quit \/ NoCall \/ Visit \/ CallbackReturns \/ Walked

Spec == Init /\ [][Next]_vars

------------------------------------------------------------------------------

\* The two sets are what the live registrations ask for, and select looks at
\* all of them, however registrations come, change and go.
SetsFollowList ==
    /\ rfds = {f \in LiveFds : "in" \in asked[f]}
    /\ wfds = {f \in LiveFds : "out" \in asked[f]}
    /\ \A f \in LiveFds : f < maxfd

\* A round calls each readable registration once, unless a callback removed it
\* or set its timer again first, also when callbacks add and remove others.
RoundServesAll ==
    where = "walk" /\ data = NULL =>
        \A r \in due \cap Live :
            Cardinality({k \in 1 .. Len(called) : called[k].record = r}) = 1

\* No callback of a registration that is gone.
CalledIsLive == \A k \in 1 .. Len(called) : called[k].live

\* Callbacks get the events of mainloop.h: EVENT_OUT when the descriptor is
\* ready for writing.
EventsAsReady ==
    where = "callback" => \A e \in called[Len(called)].events : fdOf[data] \in ready[e]
==============================================================================
