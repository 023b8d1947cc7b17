------------------------------- MODULE ZipWriter -------------------------------
(***************************************************************************)
(* mglite_zip.c: ZipCreate*, ZipAdd*, ZipGetMemory, ZipResetMemory,        *)
(* ZipOptions and ZipClose, each call one action.  tzip is the TZIP with   *)
(* the destination's bytes in it.  A call may fail half-way, when memory   *)
(* or the disk is full, a source cannot be read or the client gave up;     *)
(* what it wrote before stays.  Time stamps, attributes, gzip and raw mode *)
(* are left out; deflate is ZipFormat's stand-in.                          *)
(***************************************************************************)
EXTENDS ZipFormat

CONSTANTS
    Clients,       \* [memory, size, at, seeks, limit, password, items, goeson, resets]:
                   \* the destination (size of a buffer or 0, what a file holds before,
                   \* limit of memory or disk), the password or 0, what may be added,
                   \* whether it adds after a failure, whether it resets before the archive is complete
    ZipSuffixes,
    MaxCalls       \* calls of addSrc

VARIABLES
    client,
    tzip,
    added,      \* auxiliary: names and contents of the entries added
    outcome     \* what the last call returned

writing == <<client, tzip, added, archive, outcome>>

Unknown == -1

Init ==
    /\ client \in Clients
    /\ LET old == IF client.memory THEN Larger(client.size, 1) ELSE client.at
       IN  tzip = [owned |-> client.memory /\ client.size = 0, mapsize |-> old,
                   out |-> Filler(old), lent |-> <<>>,
                   opos |-> IF client.memory THEN 0 ELSE client.at, ooffset |-> client.at,
                   writ |-> 0, lasterr |-> "ok", abort |-> FALSE, done |-> FALSE, closed |-> FALSE,
                   encrypt |-> FALSE, keys |-> 0, csize |-> 0, isize |-> 0, totalRead |-> 0,
                   state |-> FALSE, zfis |-> <<>>, calls |-> 0]
    /\ added = <<>> /\ archive = NoArchive /\ outcome = "ok"

-----------------------------------------------------------------------------
(* The destination.                                                        *)

\* realloc; a buffer that was lent stays behind with what it holds.
Grown(t, end) ==
    IF end <= t.mapsize THEN t
    ELSE [t EXCEPT !.out = IF t.owned THEN @ ELSE Junks(t.opos),
                   !.lent = IF t.owned THEN @ ELSE t.out,
                   !.mapsize = end, !.owned = TRUE]

Laid(out, at, bytes) ==
    SubSeq(out \o Junks(at - Len(out)), 1, at) \o bytes \o SubSeq(out, at + Len(bytes) + 1, Len(out))

Placed(t, bytes) ==
    LET u == IF client.memory THEN Grown(t, t.opos + Len(bytes)) ELSE t
    IN  [u EXCEPT !.out = Laid(@, u.opos, bytes), !.opos = @ + Len(bytes)]

\* writeDestination and writeDestShort, which writes a header by units of two
\* bytes: a unit goes to memory whole or not at all, to a file as far as the
\* disk has room; after the first one a client that gave up is noticed.
WriteUnits(t, bytes, unit) ==
    LET coded == IF t.encrypt THEN Encrypted(bytes, client.password, t.keys) ELSE bytes
        u == [t EXCEPT !.keys = IF t.encrypt THEN @ + Len(bytes) ELSE @]
        room == Larger(client.limit - t.opos, 0)
        fits == IF client.memory THEN (room \div unit) * unit ELSE room
        full == IF client.memory THEN "memsize" ELSE "write"
    IN  IF bytes = <<>> \/ t.lasterr # "ok" THEN t
        ELSE IF t.abort THEN [Placed(u, SubSeq(coded, 1, Smaller(fits, unit))) EXCEPT !.lasterr = "abort"]
        ELSE IF fits < Len(bytes) THEN [Placed(u, SubSeq(coded, 1, fits)) EXCEPT !.lasterr = full]
        ELSE Placed(u, coded)

WriteDestination(t, bytes) == WriteUnits(t, bytes, Larger(Len(bytes), 1))
WriteShorts(t, head) == WriteUnits(t, head, 2)

\* A place behind the end of the memory is never asked for; addSrc answers
\* ZR_SEEK for either error.
SeekDestination(t, pos) ==
    IF t.lasterr # "ok" THEN t
    ELSE IF ~client.seeks THEN [t EXCEPT !.lasterr = "seek"]
    ELSE IF client.memory /\ pos > t.mapsize THEN [t EXCEPT !.lasterr = "memsize"]
    ELSE [t EXCEPT !.opos = IF client.memory THEN pos ELSE pos + t.ooffset]

\* What follows a step that went well.
Then(t, next) == IF t.lasterr = "ok" THEN next ELSE t
Counted(t, n) == Then(t, [t EXCEPT !.writ = @ + n])

-----------------------------------------------------------------------------
(* Headers.                                                                *)

Partial(z) == Long(TimeStamp) \o Long(z.crc) \o Long(z.siz) \o Long(z.len) \o Short(Len(z.name))
LocalHead(z) ==
    Long(LOCSIG) \o Short(20) \o Short(z.lflg) \o Short(z.how) \o Partial(z) \o Short(EB_L_UT_SIZE)
CentralHead(z) ==
    Long(CENSIG) \o Short(791) \o Short(20) \o Short(z.flg) \o Short(z.how) \o Partial(z)
        \o Short(EB_C_UT_SIZE) \o Short(0) \o Short(0) \o Short(0) \o Long(z.atx) \o Long(z.off)

PutLocal(t, z) ==
    WriteDestination(WriteDestination(WriteShorts(t, LocalHead(z)), Bytes(z.name)), Filler(EB_L_UT_SIZE))

PutExtended(t, z) == WriteShorts(t, Long(EXTLOCSIG) \o Long(z.crc) \o Long(z.siz) \o Long(z.len))

PutCentral(t, z) ==
    LET u == WriteDestination(WriteDestination(WriteShorts(t, CentralHead(z)), Bytes(z.name)),
                              Filler(EB_C_UT_SIZE))
    IN  [u EXCEPT !.writ = @ + CentralSize + Len(z.name) + EB_C_UT_SIZE]

AddCentral(t) ==
    IF t.lasterr # "ok" \/ t.done THEN t
    ELSE LET put[k \in 0 .. Len(t.zfis)] ==
                 IF k = 0 THEN t ELSE LET before == put[k - 1] IN PutCentral(before, t.zfis[k])
             u == put[Len(t.zfis)]
             n == Len(t.zfis)
             e == WriteShorts(u, Long(ENDSIG) \o Short(0) \o Short(0) \o Short(n) \o Short(n)
                                   \o Long(u.writ - t.writ) \o Long(t.writ + t.ooffset) \o Short(0))
         IN  [e EXCEPT !.writ = @ + EndSize, !.done = TRUE]

-----------------------------------------------------------------------------
(* addSrc.                                                                 *)

HasZipSuffix(name) ==
    LET dots == {k \in 1 .. Len(name) : name[k] = Dot}
    IN  dots # {} /\ Lower(SubSeq(name, Max(dots), Len(name))) \in ZipSuffixes

\* What is left over from the call before.
Renewed(t) ==
    [t EXCEPT !.ooffset = 0, !.csize = 0, !.totalRead = 0, !.encrypt = FALSE, !.calls = @ + 1]

\* What the call finds out about its source: the place of a handle and the size,
\* if it can be told.
Sourced(t, item) ==
    [Renewed(t) EXCEPT !.ooffset = IF item.kind = "handle" THEN item.at ELSE 0,
                       !.isize = IF item.kind = "pipe" THEN Unknown ELSE Len(item.data),
                       !.lasterr = "ok"]

Passex(item) == IF client.password # 0 /\ item.kind # "folder" THEN EncHead ELSE 0

\* The entry as it is guessed before the source is read.
Entry(t, item) ==
    LET plain == Slashed(item.name)
        name == IF item.kind = "folder" /\ Last(plain) # Slash THEN Append(plain, Slash) ELSE plain
        how == IF item.kind = "folder" \/ HasZipSuffix(name) THEN STORE ELSE DEFLATE
        flg == IF Passex(item) > 0 THEN 9 ELSE 8
    IN  [name |-> name, flg |-> flg, lflg |-> flg, how |-> how, crc |-> 0,
         atx |-> IF item.kind = "folder" THEN 1 ELSE 0,
         siz |-> IF how = STORE /\ t.isize # Unknown THEN t.isize + Passex(item) ELSE 0,
         len |-> t.isize, off |-> t.writ + t.ooffset]

EncryptionHeader == Encrypted(Append(Filler(EncHead - 1), CheckByte(TimeStamp)), client.password, 0)

PutEncryption(t, item) ==
    IF Passex(item) = 0 THEN t
    ELSE LET w == WriteDestination(t, EncryptionHeader)
         IN  Counted(Then(w, [w EXCEPT !.encrypt = TRUE, !.keys = EncHead]), EncHead)

\* What is written of a source; a read that fails does so half-way.
Given(cells, item) == IF item.broken THEN SubSeq(cells, 1, Len(cells) \div 2) ELSE cells

\* readFromSource fails, or the client has given up.
ReadError(t, item) ==
    IF t.lasterr # "ok" THEN t
    ELSE IF t.abort THEN [t EXCEPT !.lasterr = "abort"]
    ELSE IF item.broken THEN [t EXCEPT !.lasterr = "read"]
    ELSE t

\* istore counts what its last read returned: nothing, unless the source is a buffer.
Stored(t, item) ==
    LET w == WriteDestination(t, Given(Bytes(item.data), item))
        u == IF item.kind = "buffer" THEN w ELSE ReadError(w, item)
    IN  [u EXCEPT !.totalRead = Len(item.data),
                  !.csize = IF item.kind = "buffer" THEN Len(item.data) ELSE 0]

Compressed(t, item) ==
    LET w == WriteDestination([t EXCEPT !.state = TRUE], Given(Deflated(item.data), item))
    IN  [ReadError(w, item) EXCEPT !.totalRead = Len(item.data), !.csize = Len(Deflated(item.data))]

PutSource(t, z, item) ==
    IF item.kind = "folder" \/ t.lasterr # "ok" THEN t
    ELSE LET u == IF z.how = DEFLATE THEN Compressed(t, item) ELSE Stored(t, item)
             closed == [u EXCEPT !.encrypt = FALSE, !.isize = u.totalRead]
         IN  Then(u, Counted(closed, u.csize))

Final(t, z, item) ==
    LET rewritten == client.seeks /\ Passex(item) = 0
        flg == IF rewritten THEN 0 ELSE z.flg
    IN  [z EXCEPT !.siz = t.csize + Passex(item), !.len = t.isize, !.flg = flg, !.lflg = flg]

\* Mutant of Rewritten: the position stays behind the rewritten header.
Rewritten_StaysThere(t, z) == PutLocal(SeekDestination(t, z.off - t.ooffset), z)

\* The local header is written again, or an extended one at the end.
Rewritten(t, z) ==
    SeekDestination(PutLocal(SeekDestination(t, z.off - t.ooffset), z), t.writ)

Settled(t, z, item) ==
    IF t.lasterr # "ok" THEN t
    ELSE IF client.seeks /\ Passex(item) = 0 THEN Rewritten(t, Final(t, z, item))
    ELSE LET w == PutExtended(t, Final(t, z, item)) IN Counted(w, 16)

\* The first header of a stored entry cannot be put right without seeking.
CannotChange(t, z, item) ==
    /\ t.lasterr = "ok"
    /\ ~(client.seeks /\ Passex(item) = 0)
    /\ z.how = STORE /\ z.siz # t.csize + Passex(item)

MayAdd(item) ==
    /\ ~tzip.closed /\ tzip.calls < MaxCalls
    /\ outcome \in {"ok", "nofile", "args", "ended"} \/ client.goeson
    /\ item \in client.items

\* Nothing is written: the archive is complete, there is no such file, no name, no data.
Refused(item) ==
    /\ MayAdd(item)
    /\ \/ tzip.done /\ outcome' = "ended" /\ tzip' = [tzip EXCEPT !.calls = @ + 1]
       \/ ~tzip.done /\ item.kind = "missing" /\ outcome' = "nofile" /\ tzip' = Renewed(tzip)
       \/ /\ ~tzip.done /\ item.kind # "missing"
          /\ item.name = <<>> \/ (item.kind = "buffer" /\ item.data = <<>>)
          /\ outcome' = "args" /\ tzip' = [Sourced(tzip, item) EXCEPT !.lasterr = tzip.lasterr]
    /\ UNCHANGED <<client, added, archive>>

AddSrc(item) ==
    /\ MayAdd(item)
    /\ ~tzip.done /\ item.kind # "missing" /\ item.name # <<>>
    /\ item.kind = "buffer" => item.data # <<>>
    /\ LET start == Sourced(tzip, item)
           z == Entry(start, item)
           head == Counted(PutLocal(start, z), LocalSize + Len(z.name) + EB_L_UT_SIZE)
           data == PutSource(PutEncryption(head, item), z, item)
           end == Settled(data, z, item)
       IN  IF CannotChange(data, z, item)
           THEN tzip' = data /\ outcome' = "nochange" /\ UNCHANGED added
           ELSE IF end.lasterr # "ok"
           THEN tzip' = end /\ outcome' = end.lasterr /\ UNCHANGED added
           ELSE /\ tzip' = [end EXCEPT !.zfis = Append(@, Final(data, z, item))]
                /\ outcome' = "ok"
                /\ added' = Append(added, [name |-> z.name, how |-> z.how,
                                           data |-> IF item.kind = "folder" THEN <<>> ELSE item.data,
                                           secret |-> Passex(item) > 0])
    /\ UNCHANGED <<client, archive>>

-----------------------------------------------------------------------------
(* The other calls.                                                        *)

Freed == [closed |-> TRUE, done |-> TRUE]

\* What stays of the destination without its TZIP: a file, or a buffer of the caller's.
Left(t) ==
    LET left == IF ~client.memory THEN t.out ELSE IF t.lent # <<>> THEN t.lent ELSE t.out
        stays == t.lasterr = "ok" /\ (~client.memory \/ client.size > 0)
    IN  IF archive = NoArchive /\ stays THEN left ELSE archive

\* The archive has an address only if this TZIP made its memory.  A caller that
\* asks for the base gives the TZIP away, whatever the result.
GetMemory(base) ==
    /\ ~tzip.closed /\ archive = NoArchive
    /\ LET t == AddCentral(tzip)
       IN  /\ tzip' = IF base THEN Freed ELSE t
           /\ outcome' = IF t.lasterr # "ok" THEN t.lasterr ELSE IF t.owned THEN "ok" ELSE "notmmap"
           /\ archive' = IF t.lasterr = "ok" /\ t.owned THEN SubSeq(t.out, 1, t.writ)
                         ELSE IF base THEN Left(t) ELSE archive
    /\ UNCHANGED <<client, added>>

\* Without a TSTATE it reads through a null pointer.
ResetMemory ==
    /\ ~tzip.closed /\ client.memory
    /\ (tzip.done /\ tzip.lasterr = "ok") \/ client.resets
    /\ LET shrunk == IF tzip.owned THEN [tzip EXCEPT !.mapsize = 1, !.out = SubSeq(@, 1, 1)] ELSE tzip
       IN  IF tzip.state
           THEN /\ tzip' = [shrunk EXCEPT !.lasterr = "ok", !.opos = 0, !.writ = 0]
                /\ outcome' = "ok"
           ELSE tzip' = [tzip EXCEPT !.closed = TRUE, !.done = TRUE] /\ outcome' = "crash"
    /\ UNCHANGED <<client, added, archive>>

Abort ==
    /\ ~tzip.closed /\ ~tzip.abort
    /\ tzip' = [tzip EXCEPT !.abort = TRUE]
    /\ outcome' = "ok"
    /\ UNCHANGED <<client, added, archive>>

Close ==
    /\ ~tzip.closed
    /\ LET t == AddCentral(tzip)
       IN  /\ tzip' = Freed
           /\ outcome' = t.lasterr
           /\ archive' = Left(t)
    /\ UNCHANGED <<client, added>>

Writing ==
    \/ \E item \in UNION {c.items : c \in Clients} : Refused(item) \/ AddSrc(item)
    \/ \E base \in BOOLEAN : GetMemory(base)
    \/ ResetMemory \/ Abort \/ Close

-----------------------------------------------------------------------------
(* Properties.                                                             *)

\* Every entry added stands whole where the central directory will send a
\* reader, whatever was rewritten behind or before it, refused or given up
\* since; its header tells its size where it could be rewritten (addSrc and
\* seekDestination, mglite_zip.c:3014-3040, 3652-3762).
Packed(a) == IF a.how = DEFLATE THEN Deflated(a.data) ELSE Bytes(a.data)
PackedEntry(a) ==
    IF a.secret THEN EncryptionHeader \o Encrypted(Packed(a), client.password, EncHead) ELSE Packed(a)

EntriesInPlace ==
    ~tzip.done => \A n \in DOMAIN added :
        LET z == tzip.zfis[n]
            Part(at, bytes) == SubSeq(tzip.out, z.off + at + 1, z.off + at + Len(bytes)) = bytes
            tail == Short(EB_L_UT_SIZE) \o Bytes(added[n].name) \o Filler(EB_L_UT_SIZE) \o PackedEntry(added[n])
        IN  /\ IF client.seeks /\ ~added[n].secret THEN Part(0, LocalHead(z)) ELSE Part(0, Long(LOCSIG))
            /\ Part(LocalSize - 2, tail)
================================================================================
