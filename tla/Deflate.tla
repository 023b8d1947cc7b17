-------------------------------- MODULE Deflate --------------------------------
(***************************************************************************)
(* The match finder of mglite_zip.c: readFromSource fills a window of two  *)
(* halves, strings of three bytes are chained by a rolling hash, deflate   *)
(* defers a match by one byte to see whether the next one is longer, and   *)
(* ct_tally keeps the items of a block, which flush_block sends with codes *)
(* or, while the window still holds it, as it was read.  The records ds    *)
(* and ts are the parts of TSTATE with those names; one TSTATE serves all  *)
(* files of an archive.  Codes and bits are left to other modules.         *)
(***************************************************************************)
EXTENDS Integers, SequencesExt, FiniteSetsExt

CONSTANTS
    WSize,         \* WSIZE, half of the window
    MaxMatch,      \* MAX_MATCH
    HashSize,      \* HASH_SIZE
    Shift,         \* 1 << H_SHIFT
    Good, Lazy, Nice, Chain, \* the row of ConfigurationTable
    TooFar,        \* TOO_FAR
    LitBufSize,    \* LIT_BUFSIZE
    Guess,         \* items after which ct_tally thinks of ending the block
    FlagBits,      \* items whose flags share an element of flag_buf
    Inputs,        \* sequences of the files of an archive
    Pieces,        \* what one read of a source may return at most
    GoesOn         \* whether more files are added after one that could not be read

MinMatch == 3
MinLookahead == MaxMatch + MinMatch + 1
MaxDist == WSize - MinLookahead
WindowSize == 2 * WSize

DeflateAssumption ==
    /\ MinMatch <= Good /\ Good <= MaxMatch /\ Lazy <= MaxMatch /\ Nice <= MaxMatch
    /\ MaxDist > 0 /\ LitBufSize <= WSize /\ Chain >= 4
    /\ (Shift * Shift * Shift) % HashSize = 0

VARIABLES
    pc,        \* where in ideflate: "begin", "first", "hash", "fill", "turn", "done", "failed"
    files,     \* the files that come after this one
    message,   \* auxiliary: what this file holds
    source,    \* what is left to read of it
    piece,     \* the most a read returns
    ds,        \* window, hash chains, positions
    ts,        \* the items of the block
    lz,        \* locals of deflate
    output     \* auxiliary: what a reader makes of the blocks sent

vars == <<pc, files, message, source, piece, ds, ts, lz, output>>

NoMatch == MinMatch - 1
NoLocals == [hash_head |-> 0, length |-> NoMatch, available |-> FALSE]
EmptyHead == [h \in 0 .. HashSize - 1 |-> 0]
InitBlock == [l_buf |-> <<>>, d_buf |-> <<>>, flag_buf |-> <<>>, flags |-> {}, flag_bit |-> 0]

Init ==
    /\ pc = "begin"
    /\ \E input \in Inputs : /\ message = Head(input) /\ source = Head(input)
                             /\ files = Tail(input)
    /\ piece \in Pieces
    /\ ds = [window |-> [k \in 0 .. WindowSize - 1 |-> 0],
             prev |-> [k \in 0 .. WSize - 1 |-> 0], head |-> EmptyHead, ins_h |-> 0,
             strstart |-> 0, block_start |-> 0, lookahead |-> 0, eofile |-> FALSE,
             match_start |-> 0, nice_match |-> Nice]
    /\ ts = InitBlock /\ lz = NoLocals /\ output = <<>>

-----------------------------------------------------------------------------
(* The window.                                                             *)

Smaller(a, b) == IF a < b THEN a ELSE b
Readable(room) == Smaller(Smaller(room, piece), Len(source))

\* The next n bytes of the source, read behind the lookahead.
Stored(d, n) ==
    LET at == d.strstart + d.lookahead
    IN  [d EXCEPT !.window = [k \in 0 .. WindowSize - 1 |->
                                 IF k \in at .. at + n - 1 THEN source[k - at + 1] ELSE @[k]],
                  !.lookahead = @ + n]

UpdateHash(h, c) == (h * Shift + c) % HashSize

InsertString(d, s) ==
    LET h == UpdateHash(d.ins_h, d.window[s + MinMatch - 1])
    IN  [d EXCEPT !.ins_h = h, !.prev[s % WSize] = d.head[h], !.head[h] = s]

\* lm_init: positions are set only when the source has something.
LmInit ==
    /\ pc = "begin"
    /\ LET n == Readable(WindowSize)
           new == [ds EXCEPT !.head = EmptyHead, !.nice_match = Nice, !.lookahead = 0]
       IN  IF n = 0
           THEN ds' = new /\ source' = source /\ pc' = "turn"
           ELSE /\ ds' = Stored([new EXCEPT !.strstart = 0, !.block_start = 0, !.eofile = FALSE], n)
                /\ source' = SubSeq(source, n + 1, Len(source))
                /\ pc' = IF n < MinLookahead THEN "first" ELSE "hash"
    /\ ts' = [ts EXCEPT !.l_buf = <<>>, !.d_buf = <<>>, !.flag_buf = <<>>]
    /\ lz' = NoLocals
    /\ UNCHANGED <<files, message, piece, output>>

FirstHash ==
    /\ pc = "hash"
    /\ ds' = [ds EXCEPT !.ins_h = UpdateHash(UpdateHash(0, ds.window[0]), ds.window[1])]
    /\ pc' = "turn"
    /\ UNCHANGED <<files, message, source, piece, ts, lz, output>>

\* Mutant of Back: positions in the chains do not slide.
Back_Any(m) == m

Back(m) == IF m >= WSize THEN m - WSize ELSE 0

Slid(d) ==
    [d EXCEPT !.window = [k \in 0 .. WindowSize - 1 |-> @[IF k < WSize THEN k + WSize ELSE k]],
              !.match_start = @ - WSize, !.strstart = @ - WSize, !.block_start = @ - WSize,
              !.head = [h \in DOMAIN @ |-> Back(@[h])],
              !.prev = [n \in DOMAIN @ |-> Back(@[n])]]

Placed == IF ds.strstart >= WSize + MaxDist THEN Slid(ds) ELSE ds
Room(d) == WindowSize - d.lookahead - d.strstart

\* One turn of the loop of fill_window.
FillWindow ==
    /\ pc \in {"first", "fill"}
    /\ LET n == IF ds.eofile THEN 0 ELSE Readable(Room(Placed))
           more == n > 0 /\ ds.lookahead + n < MinLookahead
       IN  /\ ds' = IF n = 0 THEN [Placed EXCEPT !.eofile = TRUE] ELSE Stored(Placed, n)
           /\ source' = SubSeq(source, n + 1, Len(source))
           /\ pc' = IF more THEN pc ELSE IF pc = "first" THEN "hash" ELSE "turn"
    /\ UNCHANGED <<files, message, piece, ts, lz, output>>

\* readFromSource fails; deflate gives the file up.
ReadFails ==
    /\ pc = "fill" /\ ~ds.eofile
    /\ ds' = [Placed EXCEPT !.eofile = TRUE]
    /\ pc' = "failed"
    /\ UNCHANGED <<files, message, source, piece, ts, lz, output>>

-----------------------------------------------------------------------------
(* longest_match.  The third byte is not compared: the hash has seen it.   *)

Same(d, a, b, k) == d.window[a + k] = d.window[b + k]

CommonLength(d, m) ==
    LET differ == {k \in 3 .. MaxMatch - 1 : ~Same(d, m, d.strstart, k)}
    IN  IF differ = {} THEN MaxMatch ELSE Min(differ)

MayBeLonger(d, m, best) ==
    /\ Same(d, m, d.strstart, best) /\ Same(d, m, d.strstart, best - 1)
    /\ Same(d, m, d.strstart, 0) /\ Same(d, m, d.strstart, 1)

LongestMatch(d, first, prev_length) ==
    LET limit == IF d.strstart > MaxDist THEN d.strstart - MaxDist ELSE 0
        turns == IF prev_length >= Good THEN Chain \div 4 ELSE Chain
        Tried(s) ==
            LET len == CommonLength(d, s.cur)
                longer == MayBeLonger(d, s.cur, s.len) /\ len > s.len
                next == d.prev[s.cur % WSize]
            IN  [cur |-> next,
                 len |-> IF longer THEN len ELSE s.len,
                 start |-> IF longer THEN s.cur ELSE s.start,
                 over |-> (longer /\ len >= d.nice_match) \/ next <= limit]
        after[n \in 0 .. turns] ==
            IF n = 0 THEN [cur |-> first, len |-> prev_length, start |-> d.match_start, over |-> FALSE]
            ELSE LET s == after[n - 1] IN IF s.over THEN s ELSE Tried(s)
    IN  [len |-> after[turns].len, start |-> after[turns].start]

-----------------------------------------------------------------------------
(* The items of a block.                                                   *)

Tally(t, dist, lc) ==
    LET match == IF dist = 0 THEN {} ELSE {t.flag_bit} \cap (0 .. FlagBits - 1)
        items == Append(t.l_buf, lc)
        full == Len(items) % FlagBits = 0
    IN  [l_buf |-> items,
         d_buf |-> IF dist = 0 THEN t.d_buf ELSE Append(t.d_buf, dist - 1),
         flag_buf |-> IF full THEN Append(t.flag_buf, t.flags \cup match) ELSE t.flag_buf,
         flags |-> IF full THEN {} ELSE t.flags \cup match,
         flag_bit |-> IF full THEN 0 ELSE t.flag_bit + 1]

BlockFull(t) == Len(t.l_buf) = LitBufSize - 1 \/ Len(t.d_buf) = LitBufSize

\* Whether it pays is reckoned from the lengths of codes.
MayPay(t) == Len(t.l_buf) % Guess = 0 /\ Len(t.d_buf) < Len(t.l_buf) \div 2

\* The items compress_block sends: <<0, byte>> or <<distance, length>>.
CompressBlock(t) ==
    LET flag_buf == Append(t.flag_buf, t.flags)
        IsMatch(lx) == ((lx - 1) % FlagBits) \in flag_buf[((lx - 1) \div FlagBits) + 1]
        dx(lx) == Cardinality({k \in 1 .. lx : IsMatch(k)})
        Dist(lx) == IF dx(lx) \in DOMAIN t.d_buf THEN t.d_buf[dx(lx)] + 1 ELSE WSize
    IN  [lx \in 1 .. Len(t.l_buf) |->
            IF IsMatch(lx) THEN <<Dist(lx), t.l_buf[lx] + MinMatch>> ELSE <<0, t.l_buf[lx]>>]

CopyBlock(d) == [k \in 1 .. d.strstart - d.block_start |-> <<0, d.window[d.block_start + k - 1]>>]

\* A block is sent as it was read only if the window still holds it.
MayCopy(d) == d.block_start >= 0

\* What a reader makes of an item: -1 for a distance that leads nowhere.
Expand(out, item) ==
    IF item[1] = 0 THEN Append(out, item[2])
    ELSE IF item[1] > Len(out) THEN Append(out, -1)
    ELSE out \o [k \in 1 .. item[2] |-> out[Len(out) - item[1] + ((k - 1) % item[1]) + 1]]

Expanded(out, items) ==
    LET after[n \in 0 .. Len(items)] ==
            IF n = 0 THEN out ELSE LET before == after[n - 1] IN Expand(before, items[n])
    IN  after[Len(items)]

FlushBlock(d, t, copy) ==
    /\ copy => MayCopy(d)
    /\ output' = Expanded(output, IF copy THEN CopyBlock(d) ELSE CompressBlock(t))
    /\ ts' = InitBlock

\* ct_tally, and flush_block where deflate calls it: d says how far the block goes.
TallyAndFlush(t, d, next) ==
    \/ /\ ~BlockFull(t)
       /\ ts' = t /\ ds' = next /\ UNCHANGED output
    \/ /\ BlockFull(t) \/ MayPay(t)
       /\ \E copy \in BOOLEAN : FlushBlock(d, t, copy)
       /\ ds' = [next EXCEPT !.block_start = d.strstart]

-----------------------------------------------------------------------------
(* A turn of deflate.                                                      *)

Inserting == ds.lookahead >= MinMatch
Entered == IF Inserting THEN InsertString(ds, ds.strstart) ELSE ds
HashHead == IF Inserting THEN Entered.prev[ds.strstart % WSize] ELSE lz.hash_head

\* Mutant of Searching: a string is searched however far back.
Searching_Any == HashHead # 0 /\ lz.length < Lazy

Searching == HashHead # 0 /\ lz.length < Lazy /\ ds.strstart - HashHead <= MaxDist
NiceMatch == IF Searching THEN Smaller(ds.nice_match, ds.lookahead) ELSE ds.nice_match
Best == LongestMatch([Entered EXCEPT !.nice_match = NiceMatch], HashHead, lz.length)

\* What the search leaves in match_start, and the length that counts.
Searched == [Entered EXCEPT !.nice_match = NiceMatch,
                            !.match_start = IF Searching THEN Best.start ELSE @]
MatchLength ==
    IF ~Searching THEN NoMatch
    ELSE LET cut == Smaller(Best.len, ds.lookahead)
             far == ds.strstart < Best.start \/ ds.strstart - Best.start > TooFar
         IN  IF cut = MinMatch /\ far THEN NoMatch ELSE cut

PreviousWins == lz.length >= MinMatch /\ MatchLength <= lz.length

Turn == pc = "turn" /\ ds.lookahead > 0
AfterTurn(next) == pc' = IF next.lookahead < MinLookahead THEN "fill" ELSE "turn"

\* The match that starts one byte back is sent; its strings are hashed as
\* far as there are three bytes.
SendPrevious ==
    /\ Turn /\ PreviousWins
    /\ LET max_insert == ds.strstart + ds.lookahead - MinMatch
           hashed == [k \in 1 .. Smaller(lz.length - 2, max_insert - ds.strstart) |-> ds.strstart + k]
           inserted == FoldLeft(InsertString, Searched, hashed)
           next == [inserted EXCEPT !.lookahead = @ - (lz.length - 1),
                                    !.strstart = @ + lz.length - 1]
       IN  /\ TallyAndFlush(Tally(ts, ds.strstart - 1 - ds.match_start, lz.length - MinMatch), next, next)
           /\ lz' = [hash_head |-> IF hashed = <<>> THEN HashHead
                                   ELSE inserted.prev[Last(hashed) % WSize],
                     length |-> NoMatch, available |-> FALSE]
           /\ AfterTurn(next)
    /\ UNCHANGED <<files, message, source, piece>>

\* A longer match starts here, or none did one byte back: that byte is sent.
SendByte ==
    /\ Turn /\ ~PreviousWins /\ lz.available
    /\ LET next == [Searched EXCEPT !.strstart = @ + 1, !.lookahead = @ - 1]
       IN  /\ TallyAndFlush(Tally(ts, 0, ds.window[ds.strstart - 1]), ds, next)
           /\ AfterTurn(next)
    /\ lz' = [lz EXCEPT !.hash_head = HashHead, !.length = MatchLength]
    /\ UNCHANGED <<files, message, source, piece>>

Defer ==
    /\ Turn /\ ~PreviousWins /\ ~lz.available
    /\ ds' = [Searched EXCEPT !.strstart = @ + 1, !.lookahead = @ - 1]
    /\ AfterTurn(ds')
    /\ lz' = [hash_head |-> HashHead, length |-> MatchLength, available |-> TRUE]
    /\ UNCHANGED <<files, message, source, piece, ts, output>>

\* The end of the source: the byte that waits, and the last block.
FinishFile ==
    /\ pc = "turn" /\ ds.lookahead = 0
    /\ LET t == IF lz.available THEN Tally(ts, 0, ds.window[ds.strstart - 1]) ELSE ts
       IN  \E copy \in BOOLEAN : /\ copy => t.l_buf # <<>>
                                 /\ FlushBlock(ds, t, copy)
    /\ pc' = "done"
    /\ UNCHANGED <<files, message, source, piece, ds, lz>>

\* The same TSTATE compresses the next file.
NextFile ==
    /\ pc = "done" \/ (pc = "failed" /\ GoesOn)
    /\ files # <<>>
    /\ message' = Head(files) /\ source' = Head(files) /\ files' = Tail(files)
    /\ output' = <<>>
    /\ pc' = "begin"
    /\ UNCHANGED <<piece, ds, ts, lz>>

Next ==
    \/ LmInit \/ FirstHash \/ FillWindow \/ ReadFails
    \/ SendPrevious \/ SendByte \/ Defer \/ FinishFile
    \/ NextFile

Spec == Init /\ [][Next]_vars

-----------------------------------------------------------------------------
(* Properties.                                                             *)

\* A reader of the blocks gets the file back: what was sent, and what the
\* items of the block at hand would send, is always a beginning of the file,
\* and all of it at the end, whatever matches were found, deferred and given
\* up, wherever the window slid and the blocks were cut (mglite_zip.c:
\* 2153-2333, 2457-2575, 1748-1880).
BlocksExpand ==
    /\ IsPrefix(Expanded(output, CompressBlock(ts)), message)
    /\ pc = "done" => output = message

\* The assertions of the debug build (mglite_zip.c:2182, 2322, 1761): the
\* window has room to compare and to read, matches are within reach.
AssertsHold ==
    /\ pc = "turn" /\ ds.lookahead > 0 => ds.strstart <= WindowSize - MinLookahead
    /\ pc \in {"first", "fill"} /\ ~ds.eofile => Room(Placed) >= 2
    /\ \A k \in DOMAIN ts.d_buf : ts.d_buf[k] < MaxDist
================================================================================
