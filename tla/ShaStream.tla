------------------------------ MODULE ShaStream ------------------------------
(* The stream side of mgsha1.c, mgsha256.c, mgsha384.c and mgsha512.c: what   *)
(* bytes the rounds are given, for a message that comes in pieces.  A byte of *)
(* the message is its number in it; the rounds are what they are given.       *)
EXTENDS SequencesExt, Integers

CONSTANTS BlockLen,   \* 64; 128 for sha384 and sha512
          Reserve,    \* bytes kept for the length in the last block: 8, or 16
          Piece,      \* lengths of the pieces given to update
          MaxLen,     \* bound: the longest message
          Nuls        \* a line of a file may hold NUL bytes

ShaAssumption ==
    /\ BlockLen \in Nat /\ Reserve \in 8 .. BlockLen - 1
    /\ Piece \subseteq Nat /\ MaxLen \in Nat /\ Nuls \in BOOLEAN

VARIABLES last, lastLen, allLen,  \* LastString (two blocks), LastStringLen, all_len
          rounds,                 \* all bytes given to the rounds, in order
          message,                \* auxiliary: what was to be digested
          way                     \* "init", "pieces", "file" or "final"

vars == <<last, lastLen, allLen, rounds, message, way>>

\* Bytes that are not of the message.
Zero == 0
Mark == -1
LengthByte(k) == -1 - k    \* the k-th byte of the length in bits, from the right

Zeros(n) == [k \in 1 .. n |-> Zero]

Init == /\ last = Zeros(2 * BlockLen) /\ lastLen = 0 /\ allLen = 0
        /\ rounds = << >> /\ message = << >> /\ way = "init"

Over(s, at, t) == [k \in DOMAIN s |-> IF k \in at + 1 .. at + Len(t) THEN t[k - at] ELSE s[k]]

\* Mutant of Kept: the rest of the last piece is not cut off the blocks.
Kept_Short(input) ==
    LET rest == (Len(input) - (BlockLen - lastLen)) % BlockLen
    IN  SubSeq(input, Len(input) - rest + 2, Len(input))

\* What a piece that fills a block leaves for the next one.
Kept(input) ==
    LET rest == (Len(input) - (BlockLen - lastLen)) % BlockLen
    IN  SubSeq(input, Len(input) - rest + 1, Len(input))

\* mg_sha1_update and its like.
Update(input) ==
    /\ allLen' = allLen + Len(input)
    /\ \/ /\ Len(input) + lastLen < BlockLen
          /\ last' = Over(last, lastLen, input) /\ lastLen' = lastLen + Len(input)
          /\ UNCHANGED rounds
       \/ /\ Len(input) + lastLen >= BlockLen
          /\ rounds' = rounds \o SubSeq(last, 1, lastLen)
                              \o SubSeq(input, 1, Len(input) - Len(Kept(input)))
          /\ last' = Over(Zeros(2 * BlockLen), 0, Kept(input)) /\ lastLen' = Len(Kept(input))

Bytes(n) == [k \in 1 .. n |-> Len(message) + k]

UpdatePiece(n) == /\ way \in {"init", "pieces"} /\ Len(message) + n <= MaxLen
                  /\ way' = "pieces" /\ message' = message \o Bytes(n) /\ Update(Bytes(n))

\* mg_sha1_file: a line of the file; strlen ends it at its first NUL.
UpdateLine(n, nul) ==
    /\ way \in {"init", "file"} /\ n > 0 /\ Len(message) + n <= MaxLen
    /\ nul = n \/ Nuls
    /\ way' = "file" /\ message' = message \o Bytes(n) /\ Update(SubSeq(Bytes(n), 1, nul))

\* Mutant of OneBlock: one byte more for the data of a last block.
OneBlock_Tight == lastLen <= BlockLen - Reserve

\* There is room for the mark and the length in the block that is begun.
OneBlock == lastLen <= BlockLen - 1 - Reserve

\* mg_sha1_final: the mark, and eight bytes of length at the end of the
\* first or the second block of LastString.
Final == /\ way # "final" /\ way' = "final"
         /\ LET marked == [last EXCEPT ![(allLen % BlockLen) + 1] = Mark]
                size == IF OneBlock THEN BlockLen ELSE 2 * BlockLen
                full == Over(marked, size - 8, [k \in 1 .. 8 |-> LengthByte(9 - k)])
            IN  last' = full /\ rounds' = rounds \o SubSeq(full, 1, size)
         /\ UNCHANGED <<lastLen, allLen, message>>

Next == \/ \E n \in Piece : UpdatePiece(n)
        \/ \E n \in Piece : \E nul \in 0 .. n : UpdateLine(n, nul)
        \/ Final
Spec == Init /\ [][Next]_vars

---------------------------------------------------------------------------

\* The standard: the message, the mark, the fewest zeros that leave room for
\* the length, and the length at the end of a block.
Padding(n) == CHOOSE z \in 0 .. BlockLen - 1 : (n + 1 + z + Reserve) % BlockLen = 0

Padded(m) == m \o <<Mark>> \o Zeros(Padding(Len(m)) + Reserve - 8)
               \o [k \in 1 .. 8 |-> LengthByte(9 - k)]

\* However the message was cut into pieces or lines, the rounds are given the
\* padded message and the length in bytes is that of the message.
DigestOfMessage ==
    way = "final" => rounds = Padded(message) /\ allLen = Len(message)

\* Before that, what the rounds have had and what waits are the message so
\* far, and what waits does not fill a block.
NothingSkipped ==
    way = "pieces" => /\ rounds \o SubSeq(last, 1, lastLen) = message
                      /\ lastLen < BlockLen /\ Len(rounds) % BlockLen = 0
=============================================================================
