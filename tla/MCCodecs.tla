------------------------------- MODULE MCCodecs -------------------------------
(* Digests, checksums, conversions, compression, archives, the stack and its *)
(* sort, side by side: each behaviour uses one of them.  They share nothing; *)
(* variables of the same name stand for the same thing.                      *)
EXTENDS SequencesExt, Integers

CONSTANT Null

VARIABLES used,
          last, lastLen, allLen, rounds, way,   \* ShaStream
          count, buffer, transformed, done,   \* Md5Stream
          left, chunk, rlen,   \* MgBase64
          crc_tab, mask, result,   \* MgCrc32
          p, q, e, again, d, m, a, b,   \* MgRSA
          list, calls, pc, j, given,   \* MgFastsort
          data, num, sorted, held, ret,   \* MgStack
          files, source, piece, ds, ts, lz, output,   \* Deflate
          client, tzip, added, archive, outcome, tunzip, call, got, reply,   \* ZipArchive
          message, at, r, i   \* of several

\* Pieces around the block and around the place the length needs.
Sha64 == INSTANCE ShaStream WITH BlockLen <- 64, Reserve <- 8, MaxLen <- 200, Nuls <- FALSE,
             Piece <- {0, 1, 7, 55, 64, 65, 130}
Sha128 == INSTANCE ShaStream WITH BlockLen <- 128, Reserve <- 16, MaxLen <- 300, Nuls <- FALSE,
              Piece <- {0, 1, 13, 111, 128, 129, 260}
\* A small block; and the real one, with words of count as narrow as they may be.
Md5Blocks == INSTANCE Md5Stream WITH BlockLen <- 16, WordBits <- 8, MaxLen <- 75,
                 Piece <- {0, 1, 7, 16, 20, 40}
Md5Count == INSTANCE Md5Stream WITH BlockLen <- 64, WordBits <- 16, MaxLen <- 210,
                Piece <- {1, 55, 64, 150}
Base64 == INSTANCE MgBase64 WITH Octets <- {0, 90, 255}, MaxBytes <- 7,
              Chars <- {86, 113, 61, 10, -56}, MaxChars <- 6, MaxLine <- 8,
              Before <- [c \in -128 .. -1 |-> 70]
Crc32 == INSTANCE MgCrc32 WITH Bytes <- {0, 1, 90, 128, 255}, MaxLen <- 3
Rsa == INSTANCE MgRSA WITH Primes <- {2, 3, 5, 7, 11}, Exponents <- {0, 1, 3, 7, 13, 100}
Values == INSTANCE MgFastsort WITH Value <- {1, 2, 3}, MaxLen <- 5, ByAddress <- FALSE
Addresses == INSTANCE MgFastsort WITH Value <- {1, 2, 3}, MaxLen <- 5, ByAddress <- TRUE
Grows == INSTANCE MgStack WITH Value <- {1, 2, 3}, DataMax <- 0, DefaultMax <- 2, MaxAlloc <- 4
Limit == INSTANCE MgStack WITH Value <- {1, 2, 3}, DataMax <- 3, DefaultMax <- 2, MaxAlloc <- 4

\* Repeats near and far, matches that overlap themselves, windows that slide;
\* archives of two files, and empty ones.
Up == <<0, 1, 2, 3>>
Same == <<1, 1, 1, 1>>
Back == <<2, 0, 1, 2>>
OneFile == {<<FlattenSeq(<<x, y, z, Up, y, x, Same, z, x, Up>>)>> :
                x \in {Up, Same, Back}, y \in {Up, Same, Back}, z \in {Up, Back}}
TwoFiles == {<<FlattenSeq(<<x, Up, x, y, Up, x, Up>>), FlattenSeq(<<y, x, y>>)>> :
                 x \in {Up, Same, Back}, y \in {Up, Same, Back}}
Finder == INSTANCE Deflate WITH WSize <- 16, MaxMatch <- 5, HashSize <- 8, Shift <- 2,
              Good <- 4, Lazy <- 4, Nice <- 5, Chain <- 4, TooFar <- 5, LitBufSize <- 16,
              Guess <- 7, FlagBits <- 8, Pieces <- {1, 3, 100}, GoesOn <- FALSE,
              Inputs <- OneFile \union TwoFiles \union {<<Up, << >>, Up>>, << << >>, Same>>}

\* What is added: two names differ by case and slash, one asks for no compression.
Source(kind, name, contents) == [kind |-> kind, name |-> name, data |-> contents, at |-> 0, broken |-> FALSE]
Small == Source("buffer", <<97>>, <<1, 2, 3>>)
Large == Source("file", <<65, 92, 98>>, [k \in 1 .. 30 |-> 1 + (k % 14)])
Zipped == Source("buffer", <<97, 46, 122>>, <<5, 6, 7, 8>>)
ZippedFile == Source("file", <<97, 46, 122>>, <<5, 6, 7, 8>>)
Folder == Source("folder", <<65>>, <<>>)
Piped == Source("pipe", <<65>>, <<9>>)
Empty == Source("file", <<98>>, <<>>)
Missing == Source("missing", <<98>>, <<>>)
Nameless == Source("file", <<>>, <<1>>)
Broken == [Source("file", <<98>>, <<1, 2, 3, 4, 5>>) EXCEPT !.broken = TRUE]
Writer(memory, size, seeks, limit, password, items) ==
    [memory |-> memory, size |-> size, at |-> 0, seeks |-> seeks, limit |-> limit,
     password |-> password, items |-> items, goeson |-> FALSE, resets |-> FALSE]
\* Files, pipes and memory, with a password, and with too little room.
Writers == {Writer(FALSE, 0, TRUE, 1000, 0, {Small, Large, Zipped, Folder, Broken}),
            Writer(FALSE, 0, FALSE, 1000, 0, {Small, Zipped, Piped, Empty}),
            Writer(FALSE, 0, TRUE, 1000, 7, {Small, Large, Folder}),
            Writer(FALSE, 0, TRUE, 170, 0, {Small}),
            Writer(TRUE, 0, TRUE, 1000, 0, {Large, Zipped, Missing, Nameless}),
            Writer(TRUE, 0, TRUE, 120, 0, {Small}),
            Writer(TRUE, 260, TRUE, 1000, 0, {Small, Zipped})}
Archives == INSTANCE ZipArchive WITH Clients <- Writers, ZipSuffixes <- {<<46, 122>>}, MaxCalls <- 2,
           Stub <- 0, LongSize <- 4, Chunk <- 10, MaxComment <- 1000, UNZ_BUFSIZE <- 13, OutBuf <- 8,
           Names <- {<<97>>, <<65, 92, 66>>}, Indices <- -1 .. 2, Rooms <- {2, 100},
           OpenPasswords <- {0, 7}
\* Another archive, added as a file.
ZipOfZip == INSTANCE ZipArchive WITH ZipSuffixes <- {<<46, 122>>}, MaxCalls <- 2,
                Clients <- {Writer(FALSE, 0, TRUE, 1000, 0, {Small, ZippedFile})},
                Stub <- 0, LongSize <- 4, Chunk <- 10, MaxComment <- 1000, UNZ_BUFSIZE <- 13, OutBuf <- 8,
                Names <- {<<97>>}, Indices <- -1 .. 2, Rooms <- {2, 100}, OpenPasswords <- {0}

ASSUME Finder!DeflateAssumption
ASSUME Sha64!ShaAssumption /\ Sha128!ShaAssumption
ASSUME Md5Blocks!Md5Assumption /\ Md5Count!Md5Assumption
ASSUME Base64!Base64Assumption /\ Crc32!Crc32Assumption /\ Rsa!RSAAssumption
ASSUME Values!SortAssumption /\ Addresses!SortAssumption
ASSUME Grows!StackAssumption /\ Limit!StackAssumption

sha == <<last, lastLen, allLen, rounds, way>>
md5 == <<count, buffer, transformed, done>>
b64 == <<left, chunk, rlen>>
crc == <<crc_tab, mask, result>>
rsa == <<p, q, e, again, d, m, a, b>>
sort == <<list, calls, pc, j, given>>
stack == <<data, num, sorted, held, ret>>
finder == <<files, source, piece, ds, ts, lz, output>>
zip == <<client, tzip, added, archive, outcome, tunzip, call, got, reply>>
vars == <<used, sha, md5, b64, crc, rsa, sort, stack, finder, zip, message, at, r, i>>

NoSha == last = Null /\ lastLen = Null /\ allLen = Null /\ rounds = Null /\ way = Null
NoMd5 == count = Null /\ buffer = Null /\ transformed = Null /\ done = Null
NoB64 == left = Null /\ chunk = Null /\ rlen = Null
NoCrc == crc_tab = Null /\ mask = Null /\ result = Null
NoRsa == /\ p = Null /\ q = Null /\ e = Null /\ again = Null /\ d = Null
         /\ m = Null /\ a = Null /\ b = Null
NoSort == list = Null /\ calls = Null /\ pc = Null /\ j = Null /\ given = Null
NoStack == data = Null /\ num = Null /\ sorted = Null /\ held = Null /\ ret = Null
NoFinder == /\ files = Null /\ source = Null /\ piece = Null /\ ds = Null /\ ts = Null
            /\ lz = Null /\ output = Null
NoZip == /\ client = Null /\ tzip = Null /\ added = Null /\ archive = Null /\ outcome = Null
         /\ tunzip = Null /\ call = Null /\ got = Null /\ reply = Null
NoCodec == NoSha /\ NoMd5 /\ NoB64 /\ NoCrc /\ NoRsa /\ NoStack /\ at = Null /\ r = Null /\ i = Null

InitCodecs ==
    \/ used = "sha64" /\ Sha64!Init
       /\ NoMd5 /\ NoB64 /\ NoCrc /\ NoRsa /\ NoSort /\ NoStack /\ at = Null /\ r = Null /\ i = Null
    \/ used = "sha128" /\ Sha128!Init
       /\ NoMd5 /\ NoB64 /\ NoCrc /\ NoRsa /\ NoSort /\ NoStack /\ at = Null /\ r = Null /\ i = Null
    \/ used = "md5 blocks" /\ Md5Blocks!Init
       /\ NoSha /\ NoB64 /\ NoCrc /\ NoRsa /\ NoSort /\ NoStack /\ at = Null /\ r = Null /\ i = Null
    \/ used = "md5 count" /\ Md5Count!Init
       /\ NoSha /\ NoB64 /\ NoCrc /\ NoRsa /\ NoSort /\ NoStack /\ at = Null /\ r = Null /\ i = Null
    \/ used = "base64" /\ Base64!Init
       /\ NoSha /\ NoMd5 /\ NoCrc /\ NoRsa /\ NoSort /\ NoStack /\ i = Null
    \/ used = "crc32" /\ Crc32!Init
       /\ NoSha /\ NoMd5 /\ NoB64 /\ NoRsa /\ NoSort /\ NoStack /\ at = Null /\ r = Null
    \/ used = "rsa" /\ Rsa!Init
       /\ NoSha /\ NoMd5 /\ NoB64 /\ NoCrc /\ NoSort /\ NoStack /\ message = Null /\ i = Null
    \/ used = "values" /\ Values!Init
       /\ NoSha /\ NoMd5 /\ NoB64 /\ NoCrc /\ NoRsa /\ NoStack /\ message = Null /\ at = Null /\ r = Null
    \/ used = "addresses" /\ Addresses!Init
       /\ NoSha /\ NoMd5 /\ NoB64 /\ NoCrc /\ NoRsa /\ NoStack /\ message = Null /\ at = Null /\ r = Null
    \/ used = "stack grows" /\ Grows!Init
       /\ NoSha /\ NoMd5 /\ NoB64 /\ NoCrc /\ NoRsa /\ NoSort /\ message = Null /\ at = Null /\ r = Null /\ i = Null
    \/ used = "stack limit" /\ Limit!Init
       /\ NoSha /\ NoMd5 /\ NoB64 /\ NoCrc /\ NoRsa /\ NoSort /\ message = Null /\ at = Null /\ r = Null /\ i = Null

Init ==
    \/ InitCodecs /\ NoFinder /\ NoZip
    \/ /\ used = "deflate" /\ Finder!Init
       /\ NoCodec /\ NoZip /\ list = Null /\ calls = Null /\ j = Null /\ given = Null
    \/ used = "zip" /\ Archives!InitArchive /\ NoCodec /\ NoSort /\ NoFinder /\ message = Null

ShaRest == UNCHANGED <<used, md5, b64, crc, rsa, sort, stack, finder, zip, at, r, i>>
Md5Rest == UNCHANGED <<used, sha, b64, crc, rsa, sort, stack, finder, zip, at, r, i>>
B64Rest == UNCHANGED <<used, sha, md5, crc, rsa, sort, stack, finder, zip, i>>
CrcRest == UNCHANGED <<used, sha, md5, b64, rsa, sort, stack, finder, zip, at, r>>
RsaRest == UNCHANGED <<used, sha, md5, b64, crc, sort, stack, finder, zip, message, i>>
SortRest == UNCHANGED <<used, sha, md5, b64, crc, rsa, stack, finder, zip, message, at, r>>
StackRest == UNCHANGED <<used, sha, md5, b64, crc, rsa, sort, finder, zip, message, at, r, i>>
FinderRest == UNCHANGED <<used, sha, md5, b64, crc, rsa, list, calls, j, given, stack, zip, at, r, i>>
ZipRest == UNCHANGED <<used, sha, md5, b64, crc, rsa, sort, stack, finder, message, at, r, i>>

Next ==
    \/ used = "sha64" /\ Sha64!Next /\ ShaRest
    \/ used = "sha128" /\ Sha128!Next /\ ShaRest
    \/ used = "md5 blocks" /\ Md5Blocks!Next /\ Md5Rest
    \/ used = "md5 count" /\ Md5Count!Next /\ Md5Rest
    \/ used = "base64" /\ Base64!Next /\ B64Rest
    \/ used = "crc32" /\ Crc32!Next /\ CrcRest
    \/ used = "rsa" /\ Rsa!Next /\ RsaRest
    \/ used = "values" /\ Values!Next /\ SortRest
    \/ used = "addresses" /\ Addresses!Next /\ SortRest
    \/ used = "stack grows" /\ Grows!Next /\ StackRest
    \/ used = "stack limit" /\ Limit!Next /\ StackRest
    \/ used = "deflate" /\ Finder!Next /\ FinderRest
    \/ used = "zip" /\ Archives!NextArchive /\ ZipRest

\* The sort runs on.
Spec == /\ Init /\ [][Next]_vars
        /\ WF_vars(used = "values" /\ Values!Next /\ SortRest)
        /\ WF_vars(used = "addresses" /\ Addresses!Next /\ SortRest)

InitStored ==
    used = "zip of zip" /\ ZipOfZip!InitArchive /\ NoCodec /\ NoSort /\ NoFinder /\ message = Null
NextStored == used = "zip of zip" /\ ZipOfZip!NextArchive /\ ZipRest
SpecStored == InitStored /\ [][NextStored]_vars

------------------------------------------------------------------------------

\* However a message is cut into pieces, the rounds of each digest are given
\* the message, the padding its standard asks for and the length, nothing
\* twice and nothing left out (mgsha1.c:86-170 and its like, mgmd5.c:88-160).
DigestsOfMessage ==
    CASE used = "sha64" -> Sha64!DigestOfMessage /\ Sha64!NothingSkipped
      [] used = "sha128" -> Sha128!DigestOfMessage /\ Sha128!NothingSkipped
      [] used = "md5 blocks" -> Md5Blocks!NothingSkipped /\ Md5Blocks!WholeBlocks
      [] used = "md5 count" -> Md5Count!BitsCounted /\ Md5Count!WholeBlocks
      [] OTHER -> TRUE

\* What is encoded means the message, what is decoded is what the text means if
\* its characters are below 0x80, both in the room allocated (mgbase64.c); the
\* table of mgcrc32.c divides by the polynomial; what mgRSA.c enciphers it
\* deciphers.
CodesMeanMessage ==
    CASE used = "base64" -> /\ Base64!MeansMessage /\ Base64!DecodesMeaning
                            /\ Base64!LinesShort /\ Base64!WithinRoom
      [] used = "crc32" -> Crc32!MaskIsRemainder /\ Crc32!SumChecks
      [] used = "rsa" -> Rsa!RoundTrip /\ Rsa!KeyWithinReach
      [] OTHER -> TRUE

\* The stack and its sort lose nothing and stay in their range, the flag that
\* skips a sort is never true of an array out of order (mgstack.c:58-120,
\* mgfastsort.c:6-29), and the sort comes to an end.
Kept == CASE used = "values" -> Values!Permutes /\ Values!InRange /\ Values!SortedElsewhere
          [] used = "addresses" -> Addresses!Permutes /\ Addresses!InRange
          [] used = "stack grows" -> Grows!NothingLost /\ Grows!FlagMeansSorted
          [] used = "stack limit" -> Limit!NothingLost /\ Limit!FlagMeansSorted
          [] OTHER -> TRUE
Sorting == used \in {"values", "addresses"}
SortedAndKept == []Kept /\ (Sorting ~> (Sorting /\ calls = << >>))

\* A reader of what deflate sends gets the file back, from whatever matches,
\* windows and blocks (mglite_zip.c:2153-2575, 1748-1880), and the window has
\* room whenever the code asserts it (mglite_zip.c:2182, 2322, 1761).
BlocksExpand == used = "deflate" => Finder!BlocksExpand
AssertsHold == used = "deflate" => Finder!AssertsHold

\* Entries added to an archive stay whole where the directory will say
\* (addSrc, mglite_zip.c:3361-3765).
EntriesInPlace == used = "zip" => Archives!EntriesInPlace

\* An archive finished without an error lists and finds what was added
\* (mglite_zip.c:2660-2735, mglite_unzip.c:4193-4470, 3251-3605).
AddedIsFound == used = "zip" => Archives!AddedIsFound

\* What is unpacked is what was added (mglite_unzip.c:3018-3168, 3796-3985).
ReadsWhatWasAdded == used = "zip" => Archives!ReadsWhatWasAdded

\* No turn of the loop that unpacks repeats itself (mglite_unzip.c:3031-3165).
TurnsGoOn == used = "zip" => Archives!TurnsGoOn

\* "Increment total amount of bytes written (ie, the total size of the
\* archive)" (mglite_zip.c:3257): what an archive added as a file counts for,
\* so that nothing is written over it.
StoredInPlace == used = "zip of zip" => ZipOfZip!EntriesInPlace
==============================================================================
