------------------------------ MODULE Md5Stream ------------------------------
(* The stream side of mgmd5.c: mg_MD5Update derives the fill of its buffer    *)
(* from the count of bits, which is kept in two words.  A byte of the message *)
(* is its number in it; MD5Transform is what it is given.                     *)
EXTENDS SequencesExt, Integers

CONSTANTS BlockLen,   \* MD5_BLOCK_LENGTH, a power of two
          WordBits,   \* width of a word of count (32)
          Piece,      \* lengths of the pieces given to mg_MD5Update
          MaxLen      \* bound: the longest message

Md5Assumption ==
    /\ BlockLen \in Nat \ 0 .. 9 /\ 8 * BlockLen < 2 ^ WordBits
    /\ Piece \subseteq Nat /\ MaxLen \in Nat

VARIABLES count, buffer, transformed,  \* count[0] and count[1]; the blocks so far
          message, done                \* auxiliary

vars == <<count, buffer, transformed, message, done>>

Word == 2 ^ WordBits
Zero == 0
Mark == -1
CountByte(c, k) == -2 - ((c[1 + (k \div (WordBits \div 8))] \div 256 ^ (k % (WordBits \div 8))) % 256)
CountBytes == 2 * (WordBits \div 8)

Init == /\ count = <<0, 0>> /\ buffer = [k \in 1 .. BlockLen |-> Zero]
        /\ transformed = << >> /\ message = << >> /\ done = FALSE

Have(c) == (c[1] \div 8) % BlockLen

\* Mutant of Counted: a piece that ends a block is counted without it.
Counted_Late(c, n) == <<(c[1] + (IF n % BlockLen = 0 THEN 0 ELSE n * 8)) % Word, c[2]>>

\* The sum is compared with the length and not with what was added.
Counted(c, n) ==
    LET low == (c[1] + n * 8) % Word
    IN  <<low, (c[2] + (IF low < n % Word THEN 1 ELSE 0) + ((n % Word) * 8) \div Word) % Word>>

\* Mutant of Kept: the whole of the last piece, its first bytes included.
Kept_All(input, need) == SubSeq(input, Len(input) - (Len(input) % BlockLen) + 1, Len(input))

\* What remains of a piece that fills a block.
Kept(input, need) ==
    SubSeq(input, Len(input) - ((Len(input) - need) % BlockLen) + 1, Len(input))

\* mg_MD5Update, for a context [count, buffer, out].
Updated(ctx, input) ==
    LET have == Have(ctx.count)
        need == BlockLen - have
        rest == IF Len(input) < need THEN input ELSE Kept(input, need)
        at == IF Len(input) < need THEN have ELSE 0
    IN  [count  |-> Counted(ctx.count, Len(input)),
         buffer |-> [k \in 1 .. BlockLen |-> IF k \in at + 1 .. at + Len(rest)
                                             THEN rest[k - at] ELSE ctx.buffer[k]],
         out    |-> IF Len(input) < need THEN ctx.out
                    ELSE ctx.out \o SubSeq(ctx.buffer, 1, have)
                                 \o SubSeq(input, 1, Len(input) - Len(rest))]

Context == [count |-> count, buffer |-> buffer, out |-> transformed]

Becomes(ctx) == count' = ctx.count /\ buffer' = ctx.buffer /\ transformed' = ctx.out

Update(n) == /\ ~ done /\ Len(message) + n <= MaxLen
             /\ LET input == [k \in 1 .. n |-> Len(message) + k]
                IN  Becomes(Updated(Context, input)) /\ message' = message \o input
             /\ UNCHANGED done

\* Mutant of PadLen: a block that has just room for the count is not used.
PadLen_Tight(c) == LET n == BlockLen - Have(c)
                   IN  IF n < CountBytes THEN n + BlockLen ELSE n

PadLen(c) == LET n == BlockLen - Have(c)
             IN  IF n < 1 + CountBytes THEN n + BlockLen ELSE n

\* mg_MD5Final: padding and the count before it, by two more updates.
Final ==
    /\ ~ done /\ done' = TRUE
    /\ LET size == PadLen(count) - CountBytes
           padding == [k \in 1 .. size |-> IF k = 1 THEN Mark ELSE Zero]
           bytes == [k \in 1 .. CountBytes |-> CountByte(count, k - 1)]
       IN  Becomes(Updated(Updated(Context, padding), bytes))
    /\ UNCHANGED message

Next == (\E n \in Piece : Update(n)) \/ Final
Spec == Init /\ [][Next]_vars

---------------------------------------------------------------------------

\* "number of bits, mod 2^64" (mgmd5.h:59).
BitsCounted ==
    ~ done => count = <<(8 * Len(message)) % Word, ((8 * Len(message)) \div Word) % Word>>

\* The blocks transformed and the filled part of the buffer are the message,
\* however it was cut, also when the count has wrapped.
NothingSkipped == ~ done => transformed \o SubSeq(buffer, 1, Have(count)) = message

\* In the end the message, the mark, zeros and the count fill whole blocks,
\* the fewest possible: nothing remains in the buffer.
WholeBlocks ==
    done => /\ SubSeq(transformed, 1, Len(message) + 1) = message \o <<Mark>>
            /\ Len(transformed) = ((Len(message) + CountBytes) \div BlockLen + 1) * BlockLen
            /\ \A k \in Len(message) + 2 .. Len(transformed) - CountBytes : transformed[k] = Zero
=============================================================================
