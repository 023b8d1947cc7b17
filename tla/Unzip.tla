--------------------------------- MODULE Unzip ---------------------------------
(***************************************************************************)
(* mglite_unzip.c: UnzipOpen*, UnzipGetItem, UnzipFindItem, UnzipItemTo*   *)
(* and UnzipClose on an archive that lies behind Stub other bytes.  The    *)
(* calls that unpack go on turn by turn of the loop of readEntry: its      *)
(* input buffer is filled, decrypted, and copied or inflated, to as much   *)
(* room as the caller gave.  The safe name, time stamps, the creation of   *)
(* folders, gzip and raw mode are left out, and so is the CRC, which no    *)
(* reading ever compares.  tunzip is the TUNZIP; call is the call at work. *)
(***************************************************************************)
EXTENDS ZipFormat

CONSTANTS
    Stub,          \* bytes in front of the archive, 0 for none
    LongSize,      \* sizeof(unsigned long)
    Chunk,         \* BUFREADCOMMENT
    MaxComment,    \* 0xffff
    UNZ_BUFSIZE,   \* the input buffer
    OutBuf,        \* the output buffer of unzipEntry
    Names,         \* what is looked for
    Indices,       \* the items asked for, -1 for their number
    Rooms,         \* the caller's buffers
    OpenPasswords  \* passwords to open with, 0 for none

VARIABLES
    tunzip,
    call,
    got,        \* auxiliary: [entry, bytes], what was handed out of the entry at hand
    reply       \* auxiliary: [call, asked, result, item], the last call that returned

reading == <<tunzip, call, got, reply>>

Closed == [open |-> FALSE]
Idle == [at |-> "none"]
NoEntry == -1
Nothing == [entry |-> NoEntry, bytes |-> <<>>]

InitUnzip ==
    /\ tunzip = Closed /\ call = Idle /\ got = Nothing
    /\ reply = [call |-> "none", asked |-> NoEntry, result |-> "ok", item |-> <<>>]

Replies(what, asked, result, item) ==
    reply' = [call |-> what, asked |-> asked, result |-> result, item |-> item]

-----------------------------------------------------------------------------
(* The archive.                                                            *)

File == IF Stub = 0 THEN archive ELSE Filler(Stub) \o archive
ReadAt(at, n) == SubSeq(File, at + 1, Smaller(at + n, Len(File)))
GetShort(at) == Value(ReadAt(at, 2))
\* As many bytes are read as an unsigned long has, the first four are used.
GetLong(at) == IF Len(ReadAt(at, LongSize)) < 4 THEN Garbage ELSE Value(ReadAt(at, 4))

\* The search for the end record: from the end, in windows that overlap.  (The
\* scan of a window looks at the byte before its buffer too: it holds no 'P'.)
EndRecords ==
    LET size == Len(File)
        back == Smaller(MaxComment, size)
        Window(b) == (size - b) .. (size - b + Smaller(Chunk + 4, b) - 4)
        Hits(b) == {p \in Window(b) : ReadAt(p, 4) = Long(ENDSIG)}
        tried == {b \in 5 .. back : b = back \/ (b - 4) % Chunk = 0}
        found == {b \in tried : Hits(b) # {}}
    IN  IF found = {} THEN {} ELSE {Max(Hits(Min(found)))}

\* openArchive: "ok" and what it found out, or why not.
Opened(p, password) ==
    LET at == p + LongSize
        total == GetShort(at + 4)
        size == GetLong(at + 8)
        offset == GetLong(at + 8 + LongSize)
    IN  [result |-> IF GetShort(at + 6) # total \/ GetShort(at) # 0 \/ GetShort(at + 2) # 0
                    THEN "notsupported"
                    ELSE IF p < offset + size THEN "corrupt" ELSE "ok",
         tunzip |-> [open |-> TRUE, password |-> password, total |-> total, central |-> offset,
                     before |-> p - (offset + size), num |-> NoEntry, entrypos |-> 0, pos |-> 0,
                     err |-> "ok", info |-> <<>>, fa |-> 0, vars |-> <<>>]]

UnzipOpen(password) ==
    /\ ~tunzip.open /\ archive # NoArchive
    /\ \/ EndRecords = {} /\ Replies("open", password, "corrupt", <<>>) /\ UNCHANGED tunzip
       \/ \E p \in EndRecords :
            LET o == Opened(p, password)
            IN  /\ tunzip' = IF o.result = "ok" THEN o.tunzip ELSE Closed
                /\ Replies("open", password, o.result, <<>>)
    /\ UNCHANGED <<archive, call, got>>

-----------------------------------------------------------------------------
(* Entries.                                                                *)

\* The fields of ZIPENTRYINFO that count; with longs of eight bytes no archive gets here.
GetEntryInfo(t) ==
    LET at == t.entrypos + t.before
    IN  IF GetLong(at) # CENSIG \/ Len(ReadAt(at + 4, CentralSize - 4)) < CentralSize - 4
        THEN [t EXCEPT !.err = "corrupt"]
        ELSE [t EXCEPT !.pos = at + CentralSize,
                       !.info = [flag |-> GetShort(at + 8), how |-> GetShort(at + 10),
                                 date |-> GetLong(at + 12), siz |-> GetLong(at + 20),
                                 len |-> GetLong(at + 24), nam |-> GetShort(at + 28),
                                 ext |-> GetShort(at + 30), com |-> GetShort(at + 32),
                                 atx |-> GetLong(at + 38), off |-> GetLong(at + 42)]]

GoToFirstEntry(t) ==
    IF t.total = 0 THEN [t EXCEPT !.err = "notfound"]
    ELSE GetEntryInfo([t EXCEPT !.entrypos = t.central, !.num = 0])

\* Mutant of NextPos: the extra field is not skipped.
NextPos_NoExtra(t) == t.entrypos + CentralSize + t.info.nam + t.info.com

NextPos(t) == t.entrypos + CentralSize + t.info.nam + t.info.ext + t.info.com

GoToNextEntry(t) ==
    IF t.num + 1 >= t.total THEN [t EXCEPT !.err = "notfound"]
    ELSE GetEntryInfo([t EXCEPT !.entrypos = NextPos(t), !.num = @ + 1])

EntryFN(t) ==
    LET cells == ReadAt(t.pos, t.info.nam) IN [k \in DOMAIN cells |-> cells[k][1]]
GetEntryFN(t) ==
    IF Len(EntryFN(t)) < t.info.nam THEN [t EXCEPT !.err = "corrupt"] ELSE [t EXCEPT !.pos = @ + t.info.nam]

CleanupEntry(t) == [t EXCEPT !.num = NoEntry, !.vars = <<>>]

\* After the first n + 1 entries, or where that went wrong.
Walked(t, n) ==
    LET at[k \in 0 .. n] ==
            IF k = 0 THEN GoToFirstEntry(t)
            ELSE LET u == at[k - 1] IN IF u.err # "ok" THEN u ELSE GoToNextEntry(u)
    IN  at[n]

\* The rest of setCurrentEntry, for the entry whose name was read.
SetCurrent(t) ==
    LET u == IF t.info.how \notin {STORE, DEFLATE} THEN [t EXCEPT !.err = "notsupported"]
             ELSE IF Len(ReadAt(t.pos, t.info.ext)) < t.info.ext THEN [t EXCEPT !.err = "corrupt"]
             ELSE [t EXCEPT !.pos = @ + t.info.ext, !.fa = 0]
    IN  IF t.err # "ok" \/ u.err # "ok" THEN CleanupEntry(IF t.err # "ok" THEN t ELSE u) ELSE u

Item(t, name) == [name |-> name, siz |-> t.info.siz, len |-> t.info.len]
Forget == got' = Nothing

GetItem(index) ==
    /\ tunzip.open /\ call = Idle
    /\ \/ /\ index = -1
          /\ tunzip' = [tunzip EXCEPT !.err = "ok"]
          /\ Replies("count", index, "ok", tunzip.total)
          /\ UNCHANGED got
       \/ /\ index >= 0
          /\ LET u == Walked([CleanupEntry(tunzip) EXCEPT !.err = "ok"], index)
                 t == IF u.err # "ok" THEN CleanupEntry(u) ELSE SetCurrent(GetEntryFN(u))
             IN  /\ tunzip' = t
                 /\ Replies("get", index, t.err, IF t.err = "ok" THEN Item(t, EntryFN(u)) ELSE <<>>)
          /\ Forget
    /\ UNCHANGED <<archive, call>>

FindItem(name, ic) ==
    /\ tunzip.open /\ call = Idle
    /\ LET start == [CleanupEntry(tunzip) EXCEPT !.err = "ok"]
           Names_(t) == IF ic THEN Lower(EntryFN(t)) ELSE EntryFN(t)
           wanted == IF ic THEN Lower(Slashed(name)) ELSE Slashed(name)
           Here(n) == LET w == Walked(start, n) IN w.err = "ok" /\ Names_(w) = wanted
           here == {n \in 0 .. tunzip.total - 1 : Here(n)}
           u == Walked(start, IF here = {} THEN Larger(tunzip.total, 0) ELSE Min(here))
           t == IF u.err # "ok" THEN CleanupEntry(u) ELSE SetCurrent(GetEntryFN(u))
       IN  /\ tunzip' = t
           /\ Replies("find", <<name, ic>>, t.err,
                      IF t.err = "ok" THEN [index |-> t.num, item |-> Item(t, EntryFN(u))] ELSE <<>>)
    /\ Forget
    /\ UNCHANGED <<archive, call>>

-----------------------------------------------------------------------------
(* Unpacking.  remU is unsigned: below 0 it is as good as endless.         *)

DataPos(t) == t.info.off + LocalSize + t.info.nam + GetShort(t.info.off + t.before + 28)

\* The length of the extra field before the data can be read.
HasExtraSize(t) == ReadAt(t.info.off + t.before + 28, 2) # <<>>

InitEntry(t) ==
    [t EXCEPT !.pos = DataPos(t),
              !.vars = [remC |-> t.info.siz, remU |-> t.info.len,
                        remE |-> IF t.info.flag % 2 = 1 THEN EncHead ELSE 0,
                        keys |-> 0, in |-> <<>>, cells |-> 0, waiting |-> <<>>, ended |-> FALSE]]

\* The room that readEntry uses.
Room(vars, len) == IF vars.remU < 0 THEN len ELSE Smaller(len, vars.remU)

ReadEntry(into, len, t) ==
    call' = [at |-> "turn", into |-> into, len |-> len, room |-> Room(t.vars, len), bytes |-> <<>>]

Started(t) == InitEntry([t EXCEPT !.err = "ok"])
Begun(t) == got' = [entry |-> t.num, bytes |-> <<>>]

NotSelected ==
    /\ tunzip.open /\ call = Idle /\ tunzip.num = NoEntry
    /\ Replies("unzip", NoEntry, "args", <<>>)
    /\ UNCHANGED <<archive, tunzip, call, got>>

\* The first call for an entry, and after ZR_MORE the next.
ItemToBuffer(len) ==
    /\ tunzip.open /\ call = Idle /\ tunzip.num # NoEntry
    /\ tunzip.fa = 0 => HasExtraSize(tunzip)
    /\ LET t == IF tunzip.fa = 0 THEN [Started(tunzip) EXCEPT !.fa = 1] ELSE [tunzip EXCEPT !.err = "ok"]
       IN  tunzip' = t /\ ReadEntry("buffer", len, t)
    /\ IF tunzip.fa = 0 THEN Begun(tunzip) ELSE UNCHANGED got
    /\ UNCHANGED <<archive, reply>>

\* Of a folder nothing is written, and it stays selected.
ItemToHandle ==
    /\ tunzip.open /\ call = Idle /\ tunzip.num # NoEntry
    /\ \/ /\ tunzip.info.atx = 1
          /\ Replies("unzip", tunzip.num, "ok", <<>>)
          /\ tunzip' = [tunzip EXCEPT !.err = "ok"]
          /\ UNCHANGED <<call, got>>
       \/ /\ tunzip.info.atx # 1 /\ HasExtraSize(tunzip)
          /\ tunzip' = Started(tunzip)
          /\ ReadEntry("handle", OutBuf, tunzip')
          /\ Begun(tunzip)
          /\ UNCHANGED reply
    /\ UNCHANGED archive

\* initEntry gets no memory, or has nothing to read where the local header should be.
InitFails ==
    /\ tunzip.open /\ call = Idle /\ tunzip.num # NoEntry
    /\ tunzip.fa = 0 \/ tunzip.info.atx # 1
    /\ \E err \in {"noalloc"} \union (IF HasExtraSize(tunzip) THEN {} ELSE {"read"}) :
         /\ tunzip' = CleanupEntry([tunzip EXCEPT !.err = err])
         /\ Replies("unzip", tunzip.num, err, <<>>)
    /\ Forget
    /\ UNCHANGED <<archive, call>>

\* The input buffer is filled when it is empty, and decrypted.  Where the archive
\* ends before, what the buffer holds behind the bytes read counts as read.
Filled(t) ==
    LET v == t.vars
        n == Smaller(UNZ_BUFSIZE, v.remC)
        read == ReadAt(t.pos, n)
        cells == read \o Junks(n - Len(read))
        plain == IF t.info.flag % 2 = 1 THEN Decrypted(cells, t.password, v.keys) ELSE cells
    IN  IF v.in # <<>> \/ v.remC = 0 THEN t
        ELSE IF read = <<>> THEN [t EXCEPT !.err = "read"]
        ELSE [t EXCEPT !.pos = @ + Len(read), !.vars.in = plain,
                       !.vars.remC = @ - n, !.vars.keys = @ + n]

\* The encryption header is taken off, as far as it was read.
Unheaded(t) ==
    LET v == t.vars
        n == Smaller(v.remE, Len(v.in))
        u == [t EXCEPT !.vars.remU = @ - n, !.vars.remE = @ - n,
                       !.vars.in = SubSeq(@, n + 1, Len(@))]
    IN  IF t.err # "ok" \/ n = 0 THEN t
        ELSE IF n = v.remE /\ v.in[n] # CheckByte(t.info.date) THEN [u EXCEPT !.err = "password"]
        ELSE u

InLoop == tunzip.open /\ call.at = "turn" /\ call.room > 0
Ready == Unheaded(Filled(tunzip))

\* A turn leaves the TUNZIP so and gives these bytes; the loop goes on while
\* there is room, unless the turn leaves it.
Gave(t, bytes, left) ==
    [tunzip |-> t,
     call |-> [call EXCEPT !.bytes = @ \o bytes, !.room = @ - Len(bytes),
                           !.at = IF left \/ call.room = Len(bytes) THEN "return" ELSE "turn"]]
GaveNone(t) == [tunzip |-> t, call |-> [call EXCEPT !.at = "return", !.bytes = <<>>]]

\* Mutant of Copied: the copied bytes stay in the input buffer's count.
Copied_NotRemoved(t) ==
    LET n == Smaller(call.room, Len(t.vars.in))
    IN  Gave([t EXCEPT !.vars.remU = @ - n], [k \in 1 .. n |-> t.vars.in[k][1]], t.vars.remU = n)

Copied(t) ==
    LET n == Smaller(call.room, Len(t.vars.in))
    IN  Gave([t EXCEPT !.vars.in = SubSeq(@, n + 1, Len(@)), !.vars.remU = @ - n],
             [k \in 1 .. n |-> t.vars.in[k][1]], t.vars.remU = n)

\* Mutant of Leaves: the end that inflate reports is overlooked.
Leaves_Remaining(over, v, n) == v.remU = n

\* The end that inflate reports, or the entry's, ends the loop.
Leaves(over, v, n) == over \/ v.remU = n

\* inflate uses all its input and keeps what has no room; without either it fails.
Unpacked(t) ==
    LET v == t.vars
        sound == v.in = <<>> \/ (IsDeflated(v.in, v.cells) /\ ~v.ended)
        all == v.waiting \o (IF sound THEN Inflated(v.in) ELSE <<>>)
        n == Smaller(call.room, Len(all))
        rest == SubSeq(all, n + 1, Len(all))
        ended == v.ended \/ HasEnd(v.in)
        stuck == v.in = <<>> /\ n = 0 /\ ~ended
    IN  IF ~sound \/ stuck THEN GaveNone([t EXCEPT !.err = "flate"])
        ELSE Gave([t EXCEPT !.vars.in = <<>>, !.vars.cells = @ + Len(v.in), !.vars.waiting = rest,
                            !.vars.ended = ended, !.vars.remU = @ - n],
                  SubSeq(all, 1, n), Leaves(ended /\ rest = <<>>, v, n))

Turned ==
    IF Ready.err # "ok" THEN GaveNone(Ready)
    ELSE IF tunzip.info.how = STORE THEN Copied(Ready) ELSE Unpacked(Ready)

ReadTurn ==
    /\ InLoop
    /\ tunzip' = Turned.tunzip /\ call' = Turned.call
    /\ UNCHANGED <<archive, got, reply>>

Returning == tunzip.open /\ (call.at = "return" \/ (call.at = "turn" /\ call.room = 0))
GotMore == got' = [got EXCEPT !.bytes = @ \o call.bytes]

\* To a buffer: the end, or ZR_MORE.
BufferReturns ==
    /\ Returning /\ call.into = "buffer"
    /\ LET over == tunzip.err # "ok" \/ tunzip.vars.remU = 0
       IN  /\ tunzip' = IF over THEN CleanupEntry([tunzip EXCEPT !.fa = 0]) ELSE tunzip
           /\ Replies("unzip", got.entry, IF over THEN tunzip.err ELSE "more", <<>>)
    /\ GotMore
    /\ call' = Idle
    /\ UNCHANGED archive

\* To a handle: what was read is written, which may fail, and more is read until there is none.
HandleReturns ==
    /\ Returning /\ call.into = "handle"
    /\ \/ /\ call.bytes # <<>> /\ tunzip.err = "ok"
          /\ ReadEntry("handle", OutBuf, tunzip) /\ GotMore
          /\ UNCHANGED <<tunzip, reply>>
       \/ /\ call.bytes # <<>>
          /\ tunzip' = CleanupEntry([tunzip EXCEPT !.err = "write"])
          /\ Replies("unzip", got.entry, "write", <<>>) /\ call' = Idle
          /\ UNCHANGED got
       \/ /\ call.bytes = <<>>
          /\ tunzip' = CleanupEntry(tunzip)
          /\ Replies("unzip", got.entry, tunzip.err, <<>>) /\ call' = Idle
          /\ UNCHANGED got
    /\ UNCHANGED archive

UnzipClose ==
    /\ tunzip.open /\ call = Idle
    /\ tunzip' = Closed /\ Forget
    /\ Replies("close", NoEntry, "ok", <<>>)
    /\ UNCHANGED <<archive, call>>

Reading ==
    \/ \E password \in OpenPasswords : UnzipOpen(password)
    \/ \E index \in Indices : GetItem(index)
    \/ \E name \in Names, ic \in BOOLEAN : FindItem(name, ic)
    \/ NotSelected
    \/ \E len \in Rooms : ItemToBuffer(len)
    \/ ItemToHandle
    \/ InitFails
    \/ ReadTurn
    \/ BufferReturns
    \/ HandleReturns
    \/ UnzipClose
================================================================================
