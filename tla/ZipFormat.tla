------------------------------- MODULE ZipFormat -------------------------------
(***************************************************************************)
(* The bytes of an archive, as mglite_zip.c writes and mglite_unzip.c      *)
(* reads them.  A byte is <<v, k, w>>: the k-th of the w bytes of a value  *)
(* v, so that what is read off its place is told from what was written.    *)
(* Sizes and places of fields are those of the files.                      *)
(***************************************************************************)
EXTENDS Integers, SequencesExt, FiniteSetsExt

VARIABLE archive   \* the bytes of the archive, once it is complete

NoArchive == <<>>

Short(v) == [k \in 1 .. 2 |-> <<v, k, 2>>]
Long(v) == [k \in 1 .. 4 |-> <<v, k, 4>>]
Bytes(s) == [k \in 1 .. Len(s) |-> <<s[k], 1, 1>>]
Filler(n) == [k \in 1 .. n |-> <<0, k, n>>]
Junk == <<-1, 1, 1>>
Junks(n) == [k \in 1 .. n |-> Junk]

\* The number that these bytes are read as.
Garbage == -1
Value(cells) ==
    IF cells # <<>> /\ \A k \in 1 .. Len(cells) : cells[k] = <<cells[1][1], k, Len(cells)>>
    THEN cells[1][1] ELSE Garbage

LOCSIG == 67324752
CENSIG == 33639248
ENDSIG == 101010256
EXTLOCSIG == 134695760

LocalSize == 30      \* 4 + LOCHEAD
CentralSize == 46    \* 4 + CENHEAD
EndSize == 22        \* 4 + ENDHEAD
EB_L_UT_SIZE == 17
EB_C_UT_SIZE == 9
EncHead == 12        \* the encryption header of an entry

STORE == 0
DEFLATE == 8

Slash == 47
Backslash == 92
Dot == 46

Smaller(a, b) == IF a < b THEN a ELSE b
Larger(a, b) == IF a > b THEN a ELSE b

Lower(s) == [k \in 1 .. Len(s) |-> IF s[k] \in 65 .. 90 THEN s[k] + 32 ELSE s[k]]
Slashed(s) == [k \in 1 .. Len(s) |-> IF s[k] = Backslash THEN Slash ELSE s[k]]

(* A stand-in for deflate: two bytes, of 1 to 14, in one, and an end.      *)
Pairs(s) == (Len(s) + 1) \div 2
Deflated(s) ==
    [n \in 1 .. Pairs(s) + 1 |->
        IF n > Pairs(s) THEN <<0, n, 100>>
        ELSE <<16 * s[2 * n - 1] + (IF 2 * n <= Len(s) THEN s[2 * n] ELSE 15), n, 100>>]

\* Whether these are the bytes of a deflated text after the first n, and what they tell.
IsDeflated(cells, n) ==
    \A k \in 1 .. Len(cells) : cells[k][1] \in 0 .. 255 /\ cells[k][2] = n + k /\ cells[k][3] = 100
Inflated(cells) ==
    FlattenSeq([k \in 1 .. Len(cells) |->
        LET c == cells[k][1]
        IN  IF c = 0 THEN <<>> ELSE IF c % 16 = 15 THEN <<c \div 16>> ELSE <<c \div 16, c % 16>>])
HasEnd(cells) == \E k \in 1 .. Len(cells) : cells[k][1] = 0

(* The cipher: what a byte becomes depends on the password and on how many *)
(* came before it.                                                         *)
Mask(password, n) == 10000 * (100 * password + n + 1)
Encrypted(cells, password, n) ==
    [k \in 1 .. Len(cells) |-> <<cells[k][1] + Mask(password, n + k), cells[k][2], cells[k][3]>>]
Decrypted(cells, password, n) ==
    [k \in 1 .. Len(cells) |-> <<cells[k][1] - Mask(password, n + k), cells[k][2], cells[k][3]>>]

\* The last byte of the encryption header repeats this part of the time stamp.
TimeStamp == 0
CheckByte(date) == <<(date \div 256) % 256, 1, 1>>
================================================================================
