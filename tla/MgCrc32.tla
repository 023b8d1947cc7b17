-------------------------------- MODULE MgCrc32 --------------------------------
(* mgcrc32.c.  A word is the set of the positions of its ones.                 *)
EXTENDS SequencesExt, Integers, FiniteSets

CONSTANTS Bytes,  \* bytes of the messages
          MaxLen  \* bound: their length

Crc32Assumption == Bytes \subseteq 0 .. 255 /\ MaxLen \in Nat

Word32 == 0 .. 31

\* The positions of the ones of a number below 256, and of other words by their
\* bytes from the lowest.
Ones(n) == {b \in 0 .. 7 : (n \div 2 ^ b) % 2 = 1}
Number(w) == LET Sum[b \in 0 .. 8] == IF b = 8 THEN 0 ELSE 2 * Sum[b + 1] + IF b \in w THEN 1 ELSE 0
             IN  Sum[0]
WordOf(b0, b1, b2, b3) == Ones(b0) \cup {b + 8 : b \in Ones(b1)}
                          \cup {b + 16 : b \in Ones(b2)} \cup {b + 24 : b \in Ones(b3)}

Xor(v, w) == (v \ w) \cup (w \ v)
ShiftRight(w, n) == {b - n : b \in {x \in w : x >= n}}

poly == WordOf(32, 131, 184, 237)   \* 0xEDB88320

Halved(crc) ==
    IF 0 \in crc THEN Xor(ShiftRight(crc, 1), poly) ELSE ShiftRight(crc, 1)

\* Mutant of TableEntry: seven turns.
TableEntry_Seven(i) == LET C[j \in 0 .. 7] == IF j = 0 THEN Ones(i) ELSE LET c == C[j - 1] IN Halved(c)
                         IN  C[7]

TableEntry(i) == LET C[j \in 0 .. 8] == IF j = 0 THEN Ones(i) ELSE LET c == C[j - 1] IN Halved(c)
                 IN  C[8]

VARIABLES message,   \* auxiliary: what the caller gave
          crc_tab, mask,
          i,         \* bytes taken
          result
vars == <<message, crc_tab, mask, i, result>>

\* Mutant of Start: the mask starts from zero.
Start_Zero == {}

Start == Word32

\* mg_crc32_init.
Init == /\ message \in UNION {[1 .. n -> Bytes] : n \in 0 .. MaxLen}
        /\ crc_tab = [x \in 0 .. 255 |-> TableEntry(x)]
        /\ mask = Start /\ i = 0 /\ result = {}

\* One turn of the loop of mg_crc32_update.
Update ==
    /\ i < Len(message)
    /\ mask' = Xor(ShiftRight(mask, 8),
                   crc_tab[Number(Xor(mask, Ones(message[i + 1])) \cap 0 .. 7)])
    /\ i' = i + 1 /\ UNCHANGED <<message, crc_tab, result>>

Final == /\ i = Len(message) /\ result = {} /\ result' = Xor(mask, Word32)
         /\ UNCHANGED <<message, crc_tab, mask, i>>

Next == Update \/ Final
Spec == Init /\ [][Next]_vars

------------------------------------------------------------------------------

\* The remainder of a sequence of bits divided by 0x04C11DB7 (mgcrc32.c:14),
\* from ones and with the bits of each byte from the lowest, one bit at a time.
Poly == {0, 1, 2, 4, 5, 7, 8, 10, 11, 12, 16, 22, 23, 26}
Divided(s, n) ==
    LET Bit(b) == (s[b \div 8 + 1] \div 2 ^ (b % 8)) % 2 = 1
        Shifted(w) == {b + 1 : b \in w \ {31}}
        R[b \in 0 .. 8 * n] ==
            IF b = 0 THEN Word32
            ELSE LET w == R[b - 1]
                 IN  IF (31 \in w) # Bit(b - 1) THEN Xor(Shifted(w), Poly) ELSE Shifted(w)
    IN  R[8 * n]

Mirrored(w) == {31 - b : b \in w}

\* After each byte the mask is the remainder of the bytes so far.
MaskIsRemainder == mask = Mirrored(Divided(message, i))

\* A message with its checksum behind it leaves the same remainder whatever
\* the message is, which is how a receiver tests it.
SumChecks ==
    result # {} =>
        LET byte(k) == Number({b - 8 * k : b \in result \cap (8 * k .. 8 * k + 7)})
        IN  Divided(message \o <<byte(0), byte(1), byte(2), byte(3)>>, Len(message) + 4)
                = Divided(<<0, 0, 0, 0>>, 4)
==============================================================================
