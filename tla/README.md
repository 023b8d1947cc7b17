# TLA+ models and proofs of mgStd

mgStd is a C library of small building blocks: an event loop, intrusive data
structures, a number allocator, digests, a compressor with its archive format,
and a few programs on top of the loop. This directory holds TLA+ modules
translated from `src/src/`, TLC configurations that model-check them, and TLAPS
proofs about them.

    tlc -config MainloopContract.cfg MCMainloop     # one run of section 4
    tlapm MainloopSafety.tla                        # one proof module

1 the system, 2 the modules, 3 how the checks are built, 4 the runs, 5 the
proofs, 6 findings, 7 disagreements seen without a run of their own, 8 not
modelled, 9 plan.

## 1. The system

| component | state | operations | status |
|---|---|---|---|
| event loop, `mainloop.c` | `mainloop_data_head`, `mainloop_free_head` (two lists of records), `mainloop_terminate`, the epoll interest list, timerfds | init, add / modify / remove of descriptors and timers, run, quit | modelled, proved |
| select backend, `mainloop.c:150-255` | two `fd_set`s, `maxfd` | the same, behind `USE_SELECT` | modelled, proved |
| number allocator, `mgbitmap.c` | min, max, last, map | init, alloc, free, finish | modelled, proved |
| red-black tree, `mgrbtree.c` | nodes' parent, children, colour | insert, search, remove, remove_node, traversals | partly: no traversals |
| splay tree, `mgsplaytree.c` | nodes' parent, children | insert, search, remove | partly: no top-down splay (it has no caller) |
| plain search tree, `mgbstree.c`; AVL tree, `mgavltree.c` | nodes; heights | insert, search, delete; insert | modelled |
| intrusive lists, `mglist.c`, `mglist.h` | ring of next/prev; hlist of next/pprev | add, del, replace, move, rotate, splice, cut, iterate | modelled; pointers proved |
| hash table, `mghashtable.c` | array of lines, a ring of nodes per line | init, add, put, get, remove, destroy | modelled; proved to be a map |
| pointer stack, `mgstack.c`, and sort, `mgfastsort.c` | array, counts, sorted flag | push, pop, sort | modelled, proved |
| transfer clients, `mglibcurl.c`, `ev_libcurl.c` | one timer, a watcher per socket | callbacks of libcurl and of the loop | partly: no handle options, no fifo names; safety proved |
| ping, `icmp.c`, `test/ping_test.c` | sequence number, raw socket | pack, unpack, send, receive | modelled; safety proved |
| frame sharing, `mgframe_share.c` | `clients[]`, shared memory objects | sender thread, select loop, create, destroy, the client | modelled; the table of clients proved |
| digests and CRC-32 | chaining values, a partial block, a count | init, update, final | partly: buffering and padding, not the compression functions; the streams proved |
| base64, RSA | none beyond a call | encode, decode; key search, cipher | modelled (component "Utilities": partly); base64's encoder proved |
| archive writer, `mglite_zip.c` | `TZIP`: destination, position, list of headers | create, add, get memory, reset, abort, close | partly: no gzip, raw mode, attributes |
| compressor, `mglite_zip.c` | `TSTATE`: window, hash chains, item buffers | deflate of one file after another | partly: no Huffman trees |
| archive reader, `mglite_unzip.c` | `TUNZIP`: current entry, read variables | open, get, find, unpack to buffer or handle, close | partly: inflate is a stand-in |
| murmurhash, time, progress bar, hmac | | | not modelled |

**Interactions.** Everything is single threaded except `mgframe_share.c`. The
event loop calls its client back in two kinds of places: event and timeout
callbacks, from the dispatch loop, and destroy callbacks, from the middle of
`mainloop_remove_fd` and of the final sweep of `mainloop_run`. Each of them may
call the API again. `mglibcurl.c` and `ping_test.c` are such clients;
`mglibcurl.c` is called by libcurl as well, in the middle of its own calls of
libcurl. The hash table stands on the intrusive lists, the stack on the quick
sort. The archive writer compresses through the compressor, and the reader
must make sense of the bytes that it left. The trees, lists and the
allocator are called by one thread and call back only comparison functions.

**What is hard, and what correct means**

* *Event loop.* The kernel keeps raw pointers to records and hands them back
  in batches of ten; between `epoll_wait` and the dispatch of an event, other
  callbacks have run. A record is recycled through the free list, so a stale
  pointer finds another registration. `mainloop_remove_fd` holds `data` and
  `prev` over a client callback. One-shot timers are re-armed by a call that
  drops the one-shot flag. `epoll_ctl`, `malloc` and `timerfd` calls fail half
  way through. Correct: no freed memory is touched; the lists stay lists; the
  kernel knows exactly the registered records; a registration fires only
  while it is active, ends exactly once and is not starved; quit ends the run
  and leaves nothing behind. The select backend walks the very list that the
  callbacks change.
* *Allocator.* The scan wraps at the range and at 16 bits, the map's memory is
  not cleared, the bit address is a shift that covers a quarter of the numbers.
  Correct: no number has two holders, a refusal means that all are taken, the
  map is not left, the scan ends.
* *Trees.* Long sequences of legal calls, rebalancing loops with mirrored
  halves, equal keys, a removal that swaps nodes instead of keys. Correct: the
  nodes are those inserted and not removed, the order and the balance hold,
  the loops end.
* *Lists and hash table.* Sequences of legal calls that reach an illegal shape:
  splice without re-initialisation, an iteration whose body removes the current
  entry, colliding keys, a `malloc` that fails half way, looked at or not. Correct: next and
  prev stay inverse, and the sequences are rearranged as the header says; the
  table is a map from keys to sequences of values.
* *Stack and sort.* The flag that skips a sort, doubling that fails.
* *Transfer clients.* libcurl deletes and later updates one timer, removes
  sockets in another socket's callback, and changes what a socket is watched
  for. Correct: after each call exactly the sockets asked for are watched, a
  deadline is served, a transfer that ended is reported.
* *Frame sharing.* Two threads on `clients[]` without a lock, descriptor
  numbers reused, restarts. Correct: a client that stays gets each frame once.
* *Ping.* Other programs' packets on the raw socket, losses, receives that fail, 16-bit identifiers.
* *Digests, codecs.* Pieces that end just before or behind a block, the place of
  the length, counters that carry, the room of a last group.
* *Compressor.* A window that slides under chains of positions, a match put off
  by one byte, a block that is sent as it was read while the window moves, one
  state for all files of an archive. Correct: what was sent expands to the file.
* *Archives.* A header written with sizes not known yet and rewritten later, a
  destination that cannot be rewound or is full, an entry that fails half way,
  a password that changes sizes; the reader finds the directory from the end,
  and unpacks through two buffers over several calls. Correct: entries lie
  where the directory says, everything added is listed, found and read back,
  and no turn of the reading loop repeats itself.

PROJECT.json lists these as hazards, each at its line, with the properties that
watch it.

## 2. Modules

| modules | role |
|---|---|
| `CallbackRegistry` | abstract: what an event loop promises its clients |
| `Mainloop`, `MCMainloop` | `mainloop.c` with the epoll backend; contracts a client may keep |
| `MainloopProofs` | type correctness; timers; for every client |
| `MainloopSafety` | the contracts; lists, the kernel's pointers, the batch, memory |
| `MainloopRegistry` | registrations are watched, a clean stop, `CallbackRegistry` is implemented |
| `SelectLoop` | the select backend and the list it walks |
| `IdPool` | abstract: a pool of numbers, granted round robin |
| `MgBitmap`, `MCMgBitmap`, `MgBitmapProofs` | `mgbitmap.c`, its instances, its proofs |
| `BinaryTree` | links, in-order sequences, searches, rotations shared by the trees |
| `MgRbtree`, `MgSplaytree`, `MgBstree`, `MgAvltree`, suite `MCTrees` | the four trees |
| `MgList`, `MgHlist`, `MgHashtable`, suite `MCContainers` | the ring, the hash chains, the table |
| `ContainerProofs` | pointers of `MgList` and `MgHlist`, `MgHashtable` as a map, `MgFastsort`, `MgStack` |
| `MultiMap` | abstract: a map from keys to sequences of values |
| `CurlMulti` | external: libcurl's multi interface as its clients use it |
| `MgLibcurl`, `EvLibcurl` | `mglibcurl.c` and `ev_libcurl.c` on `CurlMulti` |
| `FrameShare`, `Ping` | `mgframe_share.c`; `icmp.c` with `ping_test.c` |
| `ClientProofs` | safety of `MgLibcurl`, `EvLibcurl` and `Ping` |
| `RoundProofs` | rounds over a table that changes: `FrameShare`'s sender, `SelectLoop` |
| suites `MCInterference`, `MCProgress` | loop, allocator and programs under interference; liveness |
| `ShaStream`, `Md5Stream`, `MgCrc32`, `MgBase64`, `MgRSA` | digests and codecs |
| `ShaStreamProofs` | what the rounds of the SHA files and of MD5 get; base64's encoder |
| `MgFastsort`, `MgStack` | the sort and the stack |
| `Deflate` | the match finder and blocks of the compressor |
| `ZipFormat`, `ZipWriter`, `Unzip`, `ZipArchive` | bytes of an archive; writer; reader; a client of both |
| suite `MCCodecs` | digests, codecs, stack, sort, compressor, archives |

### Mainloop

One action per API call or per step between two points where client code can
run. `pc` says what runs (`client` is any client code), `phase` whether it is
the setup, the run or the final sweep. The lookup loop shared by
`mainloop_remove_fd` and `mainloop_modify_fd` and the freeing loop of
`mainloop_quit` take one step per node, with their locals in `find`; removals
waiting for their destroy callback are the stack `suspended`; the locals of
the final sweep are `sweep`.

| code | model |
|---|---|
| `mainloop_data_head`, `mainloop_free_head`, `->next` | `head`, `freeHead`, `next` |
| the other fields of `mainloop_data_t` | `rec` (event mask and user pointer left out; `user` numbers the registration) |
| malloc and free of a record | `place`: `listed`, `pooled`, `leaked` (on no list), `lost` (from before a restart of the loop) or `unallocated` |
| the epoll instance | `ep`: for each descriptor the stored pointer, armed, one-shot |
| a timerfd | `timer`: `closed`, `unset`, `set`, `expired` |
| `events[]` of `epoll_run` | `batch`, dispatched in any order (the kernel's order is not specified) |
| `mainloop_add_fd`, `..._add_timeout` | `AddFd`, `AddFdRefused`, `AddTimeout`, `AddTimeoutRefused`, `AddTimeoutNoMemory` |
| `mainloop_remove_fd` / `_timeout` | `CallRemoveFd`, `FindNext`, `NotFound`, `RemoveFound`, `DestroyReturns`, `Unlink` |
| `mainloop_modify_fd` / `_timeout` | `CallModifyFd`, `CallModifyTimeout`, `FindNext`, `NotFound`, `ModifyFound` |
| `mainloop_quit` | `CallQuit`, `QuitFree`, `QuitDone` |
| `mainloop_run`, `epoll_run` | `CallRun`, `EpollWait`, `DispatchEvent`, `DispatchTimeout`, `DispatchNothing`, `CallbackReturns`, `BatchDone`, `LoopEnds` |
| the final loop of `mainloop_run` | `SweepRecord`, `SweepDestroyReturns`, `SweepFree`, `SweepDone` |
| undefined behaviour | `UseAfterFree`, `DoubleFree`, `NullDereference`: the behaviour ends there |

`mainloop_run` returning leaves `pc = "stopped"`; the process may call
`mainloop_init` again. `nreg`, `accepted`, `ended` and `fault` are auxiliary.
What a client's code does is any sequence of at most `MaxCalls` calls from the
sets `CallbackOps`, `DestroyOps` and, once it has called `mainloop_quit`,
`AfterQuitOps`. Those three constants are the client's contract, and each run
states its own.

Left out: event masks and the error bit, the number of events the setup code
asks for, a client that closes a descriptor it has registered (the kernel then
forgets it silently), an `epoll_create1` that fails.

### SelectLoop

`list` and `free` are the two lists as sequences. `select` returns what is
ready into `orfds`, `owfds`; the walk takes one step per record, a callback makes at
most one call and returns. `Timers` are descriptors that are timerfds: the walk reads
them (`expired`) and runs no callback when there is nothing to read, as when another callback
has set the timer again. The contract of its client: destroy callbacks call nothing,
nobody adds a descriptor twice, after `mainloop_quit` callbacks neither add nor quit (`Mainloop` has the
others, in the same functions). `OwnToo` says whether a callback removes its own
descriptor (see section 7).

### MgBitmap

`map` is the set of bits set, as pairs of a word and a bit; `Cell` is the
code's address, `offset >> 0x03 - 1`, which C reads as `offset >> 2`.
`mgbitmap_alloc` is `AllocBegin`, then one `AllocTaken` per number that is
taken, then `AllocGranted` or `AllocFull`; `AllocZero` is the loop that is not
entered. `held` counts the holders of a number, where a client takes the answer
`max` for a refusal, as `main` in `mgbitmap.c` does. `Garbage` is what malloc's
memory holds. A bitmap is created and finished any number of times.

### Trees

`tree` is parents and children (colours too, for the red-black tree); mirror
images of the code are written once, over a side. A call is one step followed
by one step per turn of its loop, so that the invariants are also checked half
way through:

* `MgRbtree`: `Insert`, then `InsertRecolour`, `InsertRotate`; `Remove`, then
  `RemoveRedBrother`, `RemoveMoveUp`, `RemoveRotate`. `IdleTurn` is a turn that
  changes nothing: the loop of `mgrbtree_fixup_remove` without a brother.
  `Removable = "far"` restricts the client to removals that do not meet that.
* `MgSplaytree`: a search followed by `Turn`s up to the root, then the call's own
  end. `Inserts` and `Removes` are the client's contract: the code keeps its order
  only for the restricted one (section 7). Two paths of the recursive
  search lack `return`; the builds return the callee's result, and so does the model.
* `MgBstree`: `Deletes` is the contract of deletions.
* `MgAvltree`: insertion, one step per return to a caller's frame.

### Lists and table

`MgList` keeps the code's next and prev pointers and has an action for every
call of the header; `List(h)`, the entries met from `h`, is the abstraction, and
`Rearranges` states each call on it. `cursor` is a safe iteration whose body may
delete or move the current entry. `MgHlist` keeps `pprev` as the very place that
points to the node. `MgHashtable` takes each line's ring as the sequence that
`MgList` shows it to be, and implements `MultiMap`; the nodes of a key are at its
`Places`, line by line, and their values in that order are its sequence. Every allocation may fail
(`MayFail`). Of a node (`mghashtable.c:44`) and of a new value the code notices; of the copies of key and data
(65, 70) it does not, nor of the lines (118, 201), and then copies through NULL or compares with a line that is
not there: `memory` says so, and `Crash` is the end of the program, in the abstract map too.

### Transfer clients

`CurlMulti` says what libcurl may ask during a call of it (watch, remove, set the
timer, end a transfer); each client module joins such a request with what its
callback does. `MgLibcurl` models the loop by the effect of its calls on a number,
the timer's number included; `Deletes` and `Reuses` say whether libcurl deletes the
timer and the kernel reuses its number. `EvLibcurl` has libev's watchers. A stale
event of a batch is harmless to libcurl, which ignores sockets it does not know.

### FrameShare and Ping

`main` and `sender` are the two threads' places. The sender tests a slot, and
uses the number later; `main` accepts, closes and clears in steps of its own;
`SendPipe` is the signal that ends the server, `Restart` a new server on the shared memory
names that the old one left. A client may give up before it is accepted: `accept` succeeds all the same
(`"left"`), and the first `sendmsg` finds out.
`Ping` is the callback of the raw socket over a network that loses packets, with
`Foreign` packets of other programs, of any identifier, this program's included. A
`recvfrom` that fails takes nothing, and the callback sends its next request all the same (`ReceiveFails`).

### Digests, codecs, sort and stack

`ShaStream` serves the four SHA files, whose stream code differs in the block's
size only. A byte of a message is its number in it, so a block that repeats, skips or
mixes bytes is seen; the rounds are what they are given. `MgCrc32` computes on
sets of bit positions and is compared with polynomial division, `MgBase64` with the meaning
of six-bit groups; its decoder takes signed characters, and reads what lies in front of its table (`Before`) for
those of 0x80 and more. `MgFastsort` is one step per comparison or exchange. `MgStack` counts in
`held` how often each value was pushed and not popped.

### Deflate

`ds` and `ts` are the two parts of `TSTATE`, with the code's names: window, heads and
chains, `block_start`, `strstart`, `match_start`, the item buffers and flags.
`lz` is the locals of the loop in `deflate`. One turn of that loop is one action
(`SendPrevious`, `SendByte`, `Defer`), with `fill_window`, `longest_match`,
`ct_tally` and `flush_block` as operators (`Searched`, `TallyAndFlush`). `output` is what was
sent; a reader that copies at the given distances must get the file
(`BlocksExpand`). Whether a block pays is a choice where it hangs on Huffman
code lengths (`MayPay`); a source that fails to read ends the file.

### Archives

A byte is `<<v, k, w>>`, byte `k` of the `w` bytes of value `v`: what is read off its
place is told from what was written, and sizes and places are those of the file
format. Compressed data is a stand-in, `Deflated(s)`, shorter for some contents
and one that only the whole of it inflates; the cipher is a mask of the password.

`ZipWriter` has an action per API call; `tzip` is the `TZIP` with the
destination's bytes in it (file, pipe or memory, with a limit). Every write
fails where the limit is met and leaves what was written. `Unzip`'s calls that unpack go on turn by turn
of the loop in `readEntry` (`ReadTurn`), with its input buffer, ZR_MORE and
the caller's buffers. `ZipArchive` is the client: it writes, closes and reads back. It
stops after an addition that failed harmfully, and resets only a complete archive; `goeson`
and `resets` lift that (section 7). A 32-bit build is modelled (`LongSize = 4`);
these two files are not in the library's Makefile.

## 3. How the checks are built

**Suites.** Components that share nothing are checked side by side in one module:
`MCTrees`, `MCContainers`, `MCInterference`, `MCProgress`, `MCCodecs`. `used` names the
component of a behaviour and never changes; each instance takes the variables of its
names, those of the others are `Null`. A property of a suite is the conjunction over its
instances of the component properties it names; those carry the longer comments.

**Bounds, and why they are enough.**
*Event loop:* three records with one recycled are the smallest list in which a removed
record has both a predecessor and a successor; three registrations are enough to recycle
a record and have the stale pointer meet the new registration; two descriptors and a
timer make a batch in which one callback affects another event. `MaxReg` bounds the
registrations of a behaviour, and so the restarts that register anything.
*Allocator:* width, map and range are scaled together: the map has two words and the numbers end
just behind the part it can address.
*Trees:* six nodes meet every case of the red-black loops, nine give a removal that starts
from seven black nodes, where the missing black is passed up more than one level; ten
nodes make an AVL tree of height four. Each has two nodes with one key. A node
outside the red-black tree is kept as `mgrbtree_init` makes it: the code leaves
old pointers there and reads none before `mgrbtree_insert` sets them.
*Lists:* two heads and three entries, a chain of four: an entry with neighbours on both
sides, and a second list to move, cut and splice to. *Table:* three lines, three nodes, two
keys that collide and one that is refused.
*Clients:* two transfers and one number more than libcurl needs at a time.
*Frames:* two clients with two slots and a spare number, or one slot, three rounds
and a restart.
*Pings:* two more requests after the first (four where nothing is lost), two identifiers, one of them the program's, and one
foreign packet; any receive may fail. So an own packet and one of the same identifier are in the socket together.
*Digests:* pieces of one byte less and more than a block and than the length's place, two to three blocks
in all. MD5's count has words of 16 bits, and stays below the carry (section 7).
*Compressor:* a window of 32 bytes, matches up to 5, chains of 4: files of 40 and 28
bytes make it slide, empty ones and a second file find what the first left.
*Archives:* two additions out of files, pipes, buffers, folders, broken and missing sources;
an input buffer of 13 bytes and caller's rooms of 2 and 100.

**Fairness.** The one thread of a program runs on, and calls and callbacks return: weak
fairness of the steps inside a call. Nothing makes a client call, a timer be set, or a
descriptor become ready. `EpollWait` with an empty set is the 500 ms timeout of `epoll_wait`,
so the loop is always able to go on. In `MCProgress`: weak fairness of
both threads of the frame server and of each client's receiving; strong fairness of `Tick` and
`TimerCb` of the libcurl clients, since time passes and the loop serves an expired timer though
other descriptors keep being ready and take turns with it; a packet that is not lost arrives.

**Deadlock.** Checked in `mainloop_contract` and `bitmap_pool`. The others say
`CHECK_DEADLOCK FALSE`: a memory error ends the behaviour (`mainloop_free`, `interference`),
a table whose memory failed unnoticed ends the program (`containers`),
a splay or AVL tree, a digest, an archive or a ping comes to its end (`trees`, `codecs`,
`progress`).

**Mutants.** Operators named `X_Something` are wrong versions of `X`: a forgotten
assignment, a dropped check, an off-by-one. PROJECT.json pairs each property with one
that makes TLC refute it.

## 4. Runs

| run | instances | shows |
|---|---|---|
| `mainloop_contract` | 3 records, 2 descriptors, 1 timer, 3 registrations, 2 calls per callback, batches of 2, `epoll_ctl` may fail; callbacks remove only their own descriptor, destroy callbacks call nothing, nothing is called after quit | `NoMemoryFault`, `ListsApart`, `AcceptedIsWatched`, `BatchLive`, and `CallbackRegistry` is implemented |
| `mainloop_free` | 2 records, no contract, of the calls only malloc fails; the run stops at a memory error | `TimeoutGenuine`: a timeout callback is never early or for an ended registration; `TimerEndedOnce` |
| `interference` | *reentrant*: destroy callbacks remove their own timer again, modify, quit; *cross*: callbacks remove others, malloc fails; *edges*: 16 numbers, every range, a free outside the map; *select*: 3 descriptors; *slots*, *starts*: the frame server; *pings*: losses, receives that fail, foreign packets of any identifier | lists and kernel interest stay sound (`ListsSound`, `InterestSound`), a select round serves all (`RoundServed`), only 0 is shared (`OnlyZeroShared`), frames reach those who stay once (`FramesReachAll`), replies printed were answered and exchanges do not multiply (`AnswersShown`), `CallbackRegistry` also for reentrant callbacks (`PromisesKept`) |
| `bitmap_pool` | 9 numbers, 2 words, every proper range, garbage over three bits | `SoleHolder`, `InsideMap`, `IdPool` implemented, the scan ends |
| `trees` | red-black: 9 nodes, removals limited / every removal; splay: 5 nodes, ends / any; plain: 5 nodes, sound / any deletions; AVL: 10 nodes | nothing lost, in order and balanced through every turn, keys found, calls return |
| `containers` | ring: 2 heads, 3 entries; 4 hash nodes; table: 3 lines and nodes, default keys with failing memory, compared keys | links exact, calls rearrange as the header says, safe iterations visit all, `MultiMap` implemented |
| `progress` | loop with 2 records; `MgLibcurl` whose timer is kept, or deleted; `EvLibcurl`; frame rounds with a restart; ping without loss | watched as asked, a clean stop, quit and expired timers served, deadlines, reports, rounds and pings come to their end |
| `codecs` | SHA with both block sizes, MD5 with small blocks and with narrow counts, base64, CRC-32, RSA with five primes, lists of five to sort, the stack with and without a limit, the compressor, seven clients of archives | `DigestsOfMessage`, `CodesMeanMessage`, `SortedAndKept`, `BlocksExpand`, `AssertsHold`, `EntriesInPlace`, `AddedIsFound`, `ReadsWhatWasAdded`, `TurnsGoOn` |
| `bitmap_room` (violation) | a map with a bit per number, as documented | the map is left |
| `rbtree_brother` (violation) | every removal | a doubly black node without a brother |
| `libcurl_timer` (violation) | libcurl deletes its timer once | no later time is set |
| `zip_stored` (violation) | an archive added as a file | it is written over |

## 5. Proofs

| theorem | assumed of the client | statement |
|---|---|---|
| `MainloopProofs!TypeCorrect` | nothing | `Spec => []TypeOK`, memory errors included |
| `MainloopProofs!TimerEndsOnce` | nothing | `Spec => []TimerEndedOnce` |
| `MainloopProofs!TimeoutsGenuine` | `epoll_ctl` does not fail | `Spec => TimeoutGenuine` |
| `MainloopSafety!ListsDisjoint` | `Gentle` | `Spec => []ListsApart` |
| `MainloopSafety!InterestStaysLive` | `Gentle` | `Spec => []InterestLive` |
| `MainloopSafety!BatchStaysLive` | `Gentle`, `OwnOnly` | `Spec => []BatchLive` |
| `MainloopSafety!TimeoutsOfRegistered` | `Gentle`, `OwnOnly` | `Spec => TimeoutGenuine`, also where `epoll_ctl` fails |
| `MainloopSafety!MemorySafe` | `Gentle`; `OwnOnly` or `NeverQuits` | `Spec => []NoMemoryFault` |
| `MainloopRegistry!AcceptedStaysWatched` | `Gentle`, `AddsOnce` | `Spec => []AcceptedIsWatched` |
| `MainloopRegistry!StopsClean` | `Gentle`, `QuitLast`, no call fails | `Spec => []CleanStop` |
| `MainloopRegistry!RegistryImplemented` | `Gentle`, `OwnOnly` | `Spec => ImplementsRegistry` |
| `MgBitmapProofs!NoSharing` | nothing | `Spec => []OnlyZeroShared` |
| `MgBitmapProofs!NumbersUnique` | `ProperUse` | `Spec => []SoleHolder` |
| `MgBitmapProofs!StaysInside` | `ProperUse` | `Spec => []InsideMap` |
| `MgBitmapProofs!BitmapIsPool` | `ProperUse` | `Spec => ImplementsPool` |
| `ContainerProofs!RingHolds` | nothing beyond the header's rules | `MgList!Spec => []Ring` |
| `ContainerProofs!PprevHolds` | the same | `MgHlist!Spec => []PprevExact` |
| `ContainerProofs!TableHolds` | nothing | `MgHashtable!Spec => []OnItsLine` |
| `ContainerProofs!TableIsMap` | nothing | `MgHashtable!Spec => ImplementsMultiMap` |
| `ContainerProofs!StackHolds` | nothing | `MgStack!Spec => [](NothingLost /\ FlagMeansSorted)` |
| `ContainerProofs!SortPermutes` | nothing of `cmp` | `MgFastsort!Spec => [](Permutes /\ InRange)` |
| `ContainerProofs!SortSorts` | `cmp` reads what is stored (`~ByAddress`) | `MgFastsort!Spec => []SortedElsewhere`, and sorted when no range waits |
| `ClientProofs!SocketsWatched` | `NumbersApart` | `MgLibcurl!Spec => []WatchedAsAsked` |
| `ClientProofs!TimerKept` | `NumbersApart`, `~Deletes` | `MgLibcurl!Spec => []TimerAsAsked` |
| `ClientProofs!WatchersFollow` | nothing | `EvLibcurl!Spec => []WatchedAsAsked` |
| `ClientProofs!TimerFollows` | nothing | `EvLibcurl!Spec => [](TimerAsAsked /\ NoneForgotten)` |
| `ClientProofs!ShownAnswered` | `Alone` | `Ping!Spec => []ShownWasAnswered` |
| `ClientProofs!ExchangesBounded` | `Alone` | `Ping!Spec => []ExchangesCounted` |
| `RoundProofs!SlotsStayOpen` | nothing | `FrameShare!Spec => []SlotsOpen` |
| `RoundProofs!FramesSentOnce` | nothing | `FrameShare!Spec => []SentOnce` |
| `RoundProofs!RoundsReachAll` | nothing | `FrameShare!Spec => []RoundReachesAll` |
| `RoundProofs!SelectWatches` | nothing | `SelectLoop!Spec => []SetsFollowList` |
| `RoundProofs!SelectServes` | `~OwnToo` | `SelectLoop!Spec => [](CalledIsLive /\ RoundServesAll)` |
| `ShaStreamProofs!MessageDigested` | `Lines` | `ShaStream!Spec => []DigestOfMessage` |
| `ShaStreamProofs!PiecesDigested` | `Md5Words` | `Md5Stream!Spec => [](NothingSkipped /\ WholeBlocks)` |
| `ShaStreamProofs!BitsOfMessage` | `Md5Words`; the bits fit in the low word | `Md5Stream!Spec => []BitsCounted` |
| `ShaStreamProofs!EncodedFits` | nothing | `MgBase64!Spec => []`(`WithinRoom` while encoding, and `LinesShort`) |

Besides, each uses the assumption on constants that its module states
(`ConstantsAssumption`, `BitmapAssumption`, `ListAssumption`, `HlistAssumption`, `TableAssumption`, `SortAssumption`, `StackAssumption`,
`LibcurlAssumption`, `EvLibcurlAssumption`, `PingAssumption`, `FrameAssumption`, `SelectAssumption`,
`ShaAssumption`, `Md5Assumption`, `Base64Assumption`): numbers are numbers, kinds of nodes differ, no pointer to a field is NULL. They
hold for every number of records, descriptors, timers, registrations, calls, transfers,
clients, slots and frames, every batch size and every failure; for every width, map, range and
garbage of the allocator, every set of heads and entries, every table and comparison, every list to sort, every limit of a stack, every
block length, every way to cut a message and every length of a line.

### The contracts of the loop's clients

Before `mainloop_quit` event callbacks may make any call. `Gentle` limits the others:

* destroy callbacks add nothing and remove nobody else; they modify and quit, and where only timers
  are registered they may also remove the one they were called for;
* after `mainloop_quit` event callbacks modify and remove, and destroy callbacks call nothing.

The *reentrant* and *cross* instances of `interference` are such clients, and each clause is
needed. A destroy callback that adds puts a record in front of the one being removed, whose
`prev` is then wrong; one that removes its `prev` has the list lead to a freed record; one that removes its own
general descriptor unlinks it twice, since only timers give their descriptor up first
(`mainloop.c:333`). After `mainloop_quit` an add takes a record of the freed list, a second quit frees it twice, and the final sweep
goes on from `tmp` over records that a destroy callback has removed.

`OwnOnly`: event callbacks remove only the descriptor they were called for.
`NeverQuits`: the client never calls `mainloop_quit`; its loop runs for ever.
`AddsOnce`: nobody adds a descriptor that is watched already.
`QuitLast`: destroy callbacks do not quit and nothing is removed after `mainloop_quit`, since a record that
is then put on the free list is not freed any more.
Within `Gentle` they cannot be
dropped: with callbacks that remove other descriptors TLC refutes `BatchLive`,
`ImplementsRegistry` (a stale event of the batch finds its record free or recycled and calls
back a registration that had ended) and, if they quit as well, `NoMemoryFault`; with a descriptor
added twice it refutes `AcceptedIsWatched`, since the second registration is refused by the kernel
and still found first by every later lookup.

*Every client.* `TypeInv` adds to `TypeOK` which locals are in use at each point.
The two timer theorems are proved without any contract, where pointers may dangle and the two lists
may have become one. What survives is `TimerInv`: two records never hold the same
registration (`UserShape`); no pointer that the running loop may follow leads to memory of an
earlier loop (`PointersRecent`); a timer record that still has its descriptor was not
ended (`TimersFresh`), because `mainloop_remove_fd` clears the descriptor before the destroy callback.
A timeout's callback then needs no more than the successful read of its timerfd.
A timer that `epoll_ctl` refuses is the exception: `mainloop.c:464-476` closes the descriptor and leaves the
record, on no list, a timer with that descriptor and its callback. `TimeoutsGenuine` is therefore about kernels that
refuse nothing; `TimeoutsOfRegistered` has them refuse, and needs the batch to be live (`BatchInv`), so that
no event leads to such a record. Without either TLC finds the callback run (section 7).

*`Gentle`.* `NoMemoryFault` is far from inductive: that a removal's `prev`
is not freed follows only from the shape of the list. `SafeInv` says

* `ControlShape`: what can interrupt what (one suspended removal at most, during which its
  destroy callback may be looking something up or quitting; no batch outside the run);
* `ListShape`, `PoolShape`: each list is a `Chain`, no record has two
  predecessors and the first has none. This is stated with `next` alone,
  without reachability, so that every step is first order. The free list is one until `mainloop_quit`
  has freed it (`PoolInUse`): a removal that ends later puts its record in front of freed ones;
* `LookupShape`, `RemovalShape`, `SweepShape`: locals of a suspended loop are
  a registered record and its true predecessor or successor;
* `InterestShape`: the kernel's pointers are to registered records with that
  descriptor, none of them the one being removed;
* `TimerShape`, `NestedShape`: a timer has one record at most, and the descriptor of a suspended
  removal is forgotten by the kernel. So a destroy callback that removes its own timer once more meets
  no record of it, and no second removal starts within the first (lemma `RemovesAlone`).

It says nothing of the batch, and stays true though the batch has stale pointers: that is why
lists and interest are sound for every `Gentle` client. The lemma `OnlyStaleEvents` is the other side: under
`SafeInv` the only memory error that can come next is an event whose record was
freed. Two arguments exclude it. With `OwnOnly`, `BatchInv`: the events left are for
registered records with distinct descriptors, none of them the running one's. With
`NeverQuits`, `HeldInv`: records are freed only by `mainloop_quit` and the sweep after it, so nothing is freed.

*Registrations.* `RegistryInv` needs no reachability either. `OrderShape`: the list runs
from the newest registration to the oldest and leaves none out. So the lookup meets the
newest record of a descriptor (`PassedShape`), which with `AddsOnce` is the one the kernel has
(`Watching`); `EndedShape` ties the list to what is active. The refinement is proved step by step: the steps of the
lookup, the unlinking and the freeing stutter, a dispatch is `Fire`, what leads to the destroy
callback is `End`, the return of `mainloop_run` is `Finish`.
For the clean stop, "the whole free list is freed" is reachability:
`PoolReached` says that every set of free records that has the first and is closed under
`next` has them all, which quantifies over sets and is inductive; `RemovalsFirst` says that every removal
has ended by then. `NoneLost` and `TimersOwned` need that no call fails: a
failed `mainloop_add_timeout` leaks its timerfd or its record.

*Allocator.* `ProperUse`: ranges above 0, with a number between the bounds,
within what the map can address; clients free what they hold. `BitmapInv` says
that a held number has its bit set, and that a scan which has counted to
`count` has met only taken numbers among those less than `count` ahead of
`last`. The second part gives the refinement: at a grant, the number is the
first free one going round; at a refusal, all have been seen. `CellInjective`
(different numbers have different bits) is what `offset >> 2` still provides.
`NoSharing` drops `ProperUse`: `AnyRangeInv` has the held numbers but 0 alone and marked,
for ranges that wrap, bits that leave the map and frees of numbers that nobody holds, outside the map too. A free
of a number that is held counts as its holder's: a client that gives back another one's number, as one that frees twice
may, does share it afterwards, and the theorem says nothing of it.

*Lists.* `RingInv` says of the nodes in use that next and prev are inverse
and lead to nodes in use (`BackAndForth`). One lemma for each pointer operation of `mglist.c`
(alone, add between, del, replace, splice) says what keeps it; the calls of the header are built
from them, and splice's places are arbitrary nodes. On the chains `PprevExact` is inductive by itself, once it is said
what the pointer at each place is after a write through `pprev` (`Wrote`, `Reset`).

*Hash table.* `TableInv`: a line has only nodes of keys that match it and no line before it (`Fits`). It holds
whichever nodes are appended, replaced and taken out, because what a line's key reads as never changes.
So the nodes of a key stand on one line, and a call changes that line only. `MapInv` adds that the places of every
key can be listed in order (`Known`, `Enumerates`): with such a list the value at the n-th place, which the model
defines by counting the places before it, is what the list has at n. A node appended behind, given a new value or taken
out moves the list of each key along (`Carried`) and turns its sequence of values as `MultiMap` says (`Turned`);
one lemma for each. That memory which fails unnoticed ends the program is a step of `MultiMap` too, and is
possible only where memory may fail (`FaultFromFailure`). Of a key that is refused no place exists. That a set of places has a first one comes from the
well-foundedness of `<` (`HasLeast`), since there is no induction.

*Stack.* `StackInv`: as many filled cells have a value as it was pushed and not popped (`Holds`), and the array is in
order while the flag is set. A growth leaves the filled cells alone; a sort is a bijection of them, so the
cells of a value are counted the same before and after (`Reordered`).

*Sort.* The recursion's pending calls are a sequence of ranges. `SortInv` says that they lie one behind the other
(`WaitShape`), what the two indices of the range being parted have passed (`PartShape`), and that two places
no waiting range holds together are in order (`OrderedApart`), between any two steps. An exchange within the first
range keeps this, since both places have the same ranges around them (`ExchangeApart`). That values are only permuted needs a
bijection between the places of a value before and after (`ExchangedCounts`). That the sort ends stays with TLC.

*Transfer clients.* `MgInv` and `EvInv` hold inside a call of libcurl as well, between two of
its requests. `NumbersApart`: libcurl never deletes the timer, or its number is not given to a socket;
`TimerKept` needs the first of the two, and both are needed (sections 6 and 7).
`Transfer` is finite, since `still_running` counts it.

*Ping.* `Alone`: a host that does not ping itself. `PingInv` says that a sequence number is in one place, on
its way, in the socket or shown, and is not above the last one sent;
so an answered request cannot be shown twice. Packets of other programs may carry the same identifier, and only those
may be shown besides. For `ExchangesBounded` it counts: what is on its way or in the socket is one exchange, and
one more at most for each packet of others and each receive that failed, since on both the next request is sent.

*Frames.* `TableShape` says between any two steps of the two threads which connection
a slot's number stands for, `NumberShape` which one the sender's copy of it does after it has been closed
and reused, `RoundShape` how far a client that stays in its slot has got.

*Select.* `RecordShape`: a record is once on one of the two lists, and no descriptor is registered twice; with it the
sets follow the list. For the round, `WalkInv` says that the walk is at a live record, and that of the records to be called
those it has still to come to (`ToCome`) have not been called and the others have been once. "Behind the record"
(`Later`) is a relation on the sequence that a push in front leaves alone (`Pushed`), that a removal only restricts
(`Taken`), and that loses just the next record when the walk goes on (`Advanced`). `OwnToo = TRUE` breaks it: section 7.

*SHA and MD5.* `Lines`: no file with NUL bytes. `ShaInv` says that the rounds and the partial block are together the message
so far (`Streamed`); the lemma `PaddingIs` says that what `final` appends is the standard's padding.
MD5 keeps no length of its own: the fill of its buffer is read from the count of bits. `Md5Words`: a word of the count holds whole
blocks, so that it wraps at the end of one, and both words fit in a block. Then `Counts` (the
count's low word is eight times the length less whole blocks) gives the fill also after a wrap, and `Fed` that the blocks
transformed and the filled part of the buffer are the message; padding and count are two more updates of it.
`BitsCounted` itself needs the bits to fit in the low word: behind that the code loses carries (section 7).
These are written with functions for their pieces, so they need remainders but no induction.

*Base64.* `EncodeInv` counts the groups done: what is written is four characters for each, and one for each line end so far
(`Grouped`), and they have used three bytes each (`Spent`); `RoomFor` says that the room has as many and a NUL.
`Lined` says that no line is over `MAX_LINE` and the last one has `chunk` groups, which the line end before the next group needs.

### Only model-checked

* Liveness under fairness (`AllocReturns`, `CallsReturn`, `LoopServes`, `ServedInTheEnd`), and that loops end:
  out of the prover's reach.
* What is defined by recursion over sequences or trees, for which the provers have no
  induction: the order of lists, `SafeWalkVisitsAll` and `Rearranges`, the trees, base64's meaning
  and its decoder (which filters a sequence), CRC-32, RSA, what the compressor sends, the bytes of archives.

## 6. Findings

* `mgrbtree.c:394`: removing a node whose right child is a black leaf makes
  `mgrbtree_fixup_remove` loop for ever. `x_parent` was taken while the successor
  still hung below the removed node, so it *is* the removed node, which line 390 has just
  reset. Insert 1, 2, 3, 4, remove 4, remove 2. Run `rbtree_brother`; the
  comments at lines 236 and 240 state what does not hold. `mgrbtree_test.c`
  removes 1, 2, 5 of ten and does not meet it.
* `mgbitmap.c:37`: the comments at lines 8 and 15 size `map[4096]` for a bit
  per offset; `offset >> 0x03 - 1` parses as `offset >> 2` and leaves the map from
  offset 16384. Run `bitmap_room`.
* `mglibcurl.c:147`: the timer that libcurl deletes with -1 is removed from the loop and
  its number closed, but kept; later values are lost. Run `libcurl_timer`; the comment is
  at lines 142-143.
* `mglite_zip.c:3260`: `istore` counts what it stored from `cin` after its
  loop, when it is 0 for a file or a handle. The entry's compressed size is
  recorded as 0 and its bytes are written over. Run `zip_stored`; the comment is at
  line 3257. Every file whose suffix says that it is compressed already is concerned.

## 7. Disagreements seen, without a run of their own

Each was refuted by TLC with the constants given; the runs above keep clear of it.

| where | what | property and constants |
|---|---|---|
| `mainloop.c:216` | `select_run` tests `orfds` where `owfds` is meant: only-writable descriptors are never reported | `SelectLoop!EventsAsReady` |
| `mainloop.c:206-230` | a callback of the select backend that removes its own descriptor sends the walk onto the free list | `SelectLoop!CalledIsLive`, `OwnToo = TRUE` |
| `mainloop.c:464-476` | a timer that `epoll_ctl` refuses keeps its type, its closed descriptor and its callback in a record on no list; an event of the batch that still leads there runs the callback, and reads the timerfd that has the number now | `Mainloop!TimeoutGenuine`, `Failures = {"epoll"}`, 3 records, `MaxReg = 4`, `MaxCalls = 3`, callbacks that do anything |
| `mgsplaytree.c:248` | a new node takes the whole old tree as one child: keys on the wrong side are not found again | `MgSplaytree!FindBringsToRoot`, `Inserts = "any"` |
| `mgsplaytree.c:296` | the new root keeps its parent pointer to the removed node, into which the next splay climbs | `MgSplaytree!RemovedStayOut`, `Removes = "any"` |
| `mgbstree.c:17` | deleting under a stale parent pointer takes the wrong node out | `MgBstree!DeletedStayOut`, `Deletes = "inner"` |
| `mglibcurl.c:147` | the kept number of the timer is a socket's later, and is armed or removed as a timer | `MgLibcurl!WatchedAsAsked`, `Reuses = TRUE` |
| `ev_libcurl.c:62` | the timeout is divided as an integer: timer_cb runs up to a second early | `EvLibcurl!NeverEarly` |
| `mgframe_share.c:90` | the object is unlinked under another name than it was created with | `FrameShare!PrintsItsFrame` |
| `mgframe_share.c:126` | `sendmsg` without `MSG_NOSIGNAL`: a client that leaves ends the server | `FrameShare!ServerLives` |
| `icmp.c:101` | identifiers are 16 bits, process numbers may be more: no reply is taken | `Ping!ReplyShown`, `Pid = 9`, `IdRange = 4` |
| `icmp.c:101` | nothing but the identifier tells other programs' replies apart: a packet with the same one, of a process in another PID namespace say, is printed as this program's | `\A k \in 1 .. Len(shown) : shown[k].own` of `Ping`, `Foreign = 1` |
| `icmp.c:94-97` | a receive that fails leads to one more request than replies were taken | `Cardinality(net) + Len(sock) <= 1 + foreign` of `Ping`, `Lossy = TRUE` |
| `icmp.c:100` | a host that pings itself takes its own requests for replies | `Ping!ShownWasAnswered`, `Local = TRUE` |
| `mgsha1.c:189` | a file's lines are measured with `strlen`: what is behind a NUL is left out | `ShaStream!DigestOfMessage`, `Nuls = TRUE` |
| `mgmd5.c:128` | the sum is compared with the length and not with eight times it: most carries of the bit count are lost | `Md5Stream!BitsCounted`, `WordBits = 8`, `BlockLen = 16` |
| `mglite_unzip.c:118-132` | fields are read as `unsigned long`: with eight bytes every archive is refused | `ZipArchive!AddedIsFound`, `LongSize = 8` |
| `mglite_zip.c`, `ct_init` | after a failed read the next file starts with the last one's flags | `Deflate!BlocksExpand`, `GoesOn = TRUE` |
| `mglite_zip.c`, `addSrc` | bytes of a failed addition are not counted; a next one lies elsewhere than recorded | `ZipArchive!EntriesInPlace`, a client with `goeson` |
| `mglite_zip.c`, `ZipResetMemory` | keeps `TZIP_DONECENTRALDIR` and the list of entries | a client with `resets` |
| `mglite_zip.c`, `addSrc` | a handle that does not start at 0, as a destination or a source, is rewound to 0 | `at > 0` in a client or an item |
| `mglite_unzip.c`, `initEntry` | its last seek leaves out the bytes in front of the archive | `ZipArchive!ReadsWhatWasAdded`, `Stub > 0` |
| `mglite_unzip.c:3097` | entries with a password lose their last 12 bytes, or never end when they are stored | `ReadsWhatWasAdded` without its exception for `secret` |

The hash table does not look at the results of four allocations: of a new node's key and data
(`mghashtable.c:65`, `70`: `memcpy` through NULL) and of its lines (118 and 201: the first call compares with a line at
NULL); `memory = "fault"` is reachable with `MayFail = TRUE`. `mgbase64.c:132` indexes `index_64` with a `char`: where that is signed, a
character of 0x80 or more reads in front of the table, and what it decodes to hangs on what is there (`Before`);
`MgBase64!DecodesMeaning` is about characters below 0x80.

`mgbase64.c` reads one byte behind a rest of one byte, which changes nothing that is
written; `mgstack.c`'s default comparison compares the addresses of the slots, so the order
it leaves does not depend on the values; `default_key_cmp` of the hash table reads four bytes of shorter keys and refuses
negative ones; its `realloc` that fails loses the value (`Lost`).

Outside a contract, and therefore not findings: callbacks that remove another
descriptor of the same batch and quit, calls after `mainloop_quit` (its free
list is freed and still linked), a destroy callback that adds a descriptor, a
probe of `mgrbtree_remove` that is itself in the tree next to an equal key. A
failed `mainloop_add_timeout` leaks the timerfd (no memory) or the record
(`epoll_ctl`); `interference` and `mainloop_contract` take those paths. A client that
arrives during a round of the frame sender under a number just reused may get the frame twice.

## 8. Not modelled

* `mgmurmurhash.c` and the compression functions of the digests: published
  arithmetic without control, best tested by vectors. `mghmac_md5.c`: a fixed
  sequence of digest calls. `mgtime.c`, `mgprocess_rate.c`: reading a clock, printing.
* Huffman trees and bits of the compressor, inflate: their calling contract is
  modelled (`Deflated`, `Inflated`, `MayPay`), their arithmetic is not. `deflate_fast` has
  its call commented out, `mg_splaytree_splay_root_to_node` has no caller.
* Archives: gzip and raw mode, time stamps, attributes, safe names, walking directories,
  the CRC (no reading ever compares it), memory that
  fails in the writer outside the destination. A source that is the handle 0 (`mglite_zip.c:3682` takes it for none).
  A wrong password that passes: the code compares one byte of the decrypted header, the model's
  cipher never gives that byte by chance. The name that is returned is the one in the archive: the
  rewriting of `mglite_unzip.c:3433-3467` (`Rootdir`, names made safe) is left out.
* `mainloop.c`: event masks and the error bit, the number of events the setup code asks for, a
  client that closes a registered descriptor itself, `epoll_create1` failing.
* Trees: traversals, minimum and maximum, printing; removal of an absent key from the
  splay tree (it frees NULL); what `mgrbtree_remove` writes into a probe that
  is itself in the tree.
* RSA with numbers whose products overflow an `int`; the file loops of the digests
  beyond the length of a line.
* The SERVER half of `mgframe_share.c` does not compile at this commit
  (line 237 lacks an argument); it is modelled as written.

## 9. Plan

The components are modelled as far as sections 1 and 8 say, and section 5 proves what the provers reach of
the event loop, the allocator, the containers but the trees, the programs and the streams of the digests. What could follow:

1. That entries lie where the archive's directory says (`ZipWriter`): positions and sizes are
   sums over a sequence of entries, and would have to be kept as auxiliary variables first.
2. The lists' sequences, the trees' order, base64's decoder and what the compressor sends are
   recursive definitions; they stay with TLC.
