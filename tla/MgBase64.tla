------------------------------- MODULE MgBase64 -------------------------------
(* mgbase64.c: the encoder, one group of three bytes at a time, and the        *)
(* decoder, one group of four characters at a time.  The encoder's characters  *)
(* stand as their places in basis_64; the decoder's are chars, which have a    *)
(* sign, so that from 0x80 on they index the bytes before index_64.            *)
EXTENDS SequencesExt, Integers, FiniteSets

CONSTANTS Octets,   \* bytes of the messages
          MaxBytes, \* bound: their length
          Chars,    \* characters of the texts given to the decoder
          MaxChars, \* bound: their length
          Before,   \* the bytes before index_64, by their (negative) index
          MaxLine   \* MAX_LINE

Base64Assumption ==
    /\ Octets \subseteq 0 .. 255 /\ MaxBytes \in Nat /\ MaxChars \in Nat
    /\ MaxLine \in Nat \ {0} /\ MaxLine % 4 = 0
    /\ Chars \subseteq -128 .. 127 /\ Before \in [-128 .. -1 -> 0 .. 255]

EQ == 254
INVALID == 255
Eol == INVALID      \* the newline is no character of the alphabet

VARIABLES at,       \* "encode", "encoded", "decode" or "decoded"
          message,  \* auxiliary: what the caller gave
          left,     \* what the loop has not taken yet
          chunk, r, \* its counter and the result
          rlen      \* room allocated for the result
vars == <<at, message, left, chunk, r, rlen>>

Upto(S, n) == UNION {[1 .. k -> S] : k \in 0 .. n}

\* Mutant of EncodeRoom: the last group is not counted.
EncodeRoom_Floor(len) == LET chars == (len \div 3) * 4
                         IN  chars + 1 + (chars \div MaxLine + 1)

EncodeRoom(len) == LET chars == ((len + 2) \div 3) * 4
                   IN  chars + 1 + (chars \div MaxLine + 1)

DecodeRoom(len) == (len * 3) \div 4 + 1

StartEncode(m) == /\ message = m /\ left = m /\ at = "encode"
                  /\ chunk = 0 /\ r = << >> /\ rlen = EncodeRoom(Len(m))

StartDecode(text) == /\ message = text /\ left = text /\ at = "decode"
                     /\ chunk = 0 /\ r = << >> /\ rlen = DecodeRoom(Len(text))

Init == \/ \E m \in Upto(Octets, MaxBytes) : StartEncode(m)
        \/ \E text \in Upto(Chars, MaxChars) : StartDecode(text)

------------------------------------------------------------------------------
(* mg_encode_base64.                                                          *)

\* Mutant of Group: the last character of two bytes is not shifted.
Group_Low(g, c2) ==
    CASE Len(g) = 1 -> <<g[1] \div 4, (g[1] % 4) * 16 + c2 \div 16, EQ, EQ>>
      [] Len(g) = 2 -> <<g[1] \div 4, (g[1] % 4) * 16 + c2 \div 16, c2 % 16, EQ>>
      [] Len(g) = 3 -> <<g[1] \div 4, (g[1] % 4) * 16 + c2 \div 16,
                         (c2 % 16) * 4 + g[3] \div 64, g[3] % 64>>

\* The characters of a group; c2 is the byte behind the message when there is
\* one byte left.
Group(g, c2) ==
    LET c1 == g[1]
        two == <<c1 \div 4, (c1 % 4) * 16 + c2 \div 16>>
    IN  CASE Len(g) = 1 -> two \o <<EQ, EQ>>
          [] Len(g) = 2 -> two \o <<(c2 % 16) * 4, EQ>>
          [] Len(g) = 3 -> two \o <<(c2 % 16) * 4 + g[3] \div 64, g[3] % 64>>

\* Mutant of LineFull: a newline for every MAX_LINE groups.
LineFull_Groups(n) == n = MaxLine

LineFull(n) == n = MaxLine \div 4

\* One turn of the loop.
Encode ==
    /\ at = "encode" /\ left # << >>
    /\ LET g == SubSeq(left, 1, IF Len(left) < 3 THEN Len(left) ELSE 3)
           start == IF LineFull(chunk) THEN <<Eol>> ELSE << >>
       IN  /\ \E c2 \in IF Len(left) > 1 THEN {left[2]} ELSE Octets : r' = r \o start \o Group(g, c2)
           /\ left' = SubSeq(left, Len(g) + 1, Len(left))
    /\ chunk' = (IF LineFull(chunk) THEN 1 ELSE chunk + 1)
    /\ UNCHANGED <<at, message, rlen>>

EncodeEnds == /\ at = "encode" /\ left = << >> /\ r' = Append(r, Eol) /\ at' = "encoded"
              /\ UNCHANGED <<message, left, chunk, rlen>>

------------------------------------------------------------------------------
(* mg_decode_base64.                                                          *)

\* index_64[*str].
Index(c) == CASE c < 0 -> Before[c]
              [] c \in 65 .. 90 -> c - 65       \* A to Z
              [] c \in 97 .. 122 -> c - 71      \* a to z
              [] c \in 48 .. 57 -> c + 4        \* 0 to 9
              [] c = 43 -> 62                   \* +
              [] c = 47 -> 63                   \* /
              [] c = 61 -> EQ                   \* =
              [] OTHER -> INVALID

Looked(text) == [k \in DOMAIN text |-> Index(text[k])]

\* The position where the inner loop stops: behind the fourth value that is
\* not INVALID or at the end.
Taken(s) == LET Valid(n) == {k \in 1 .. n : s[k] # INVALID}
            IN  CHOOSE n \in 1 .. Len(s) :
                    /\ n = Len(s) \/ Cardinality(Valid(n)) = 4
                    /\ \A j \in 1 .. n - 1 : Cardinality(Valid(j)) < 4

\* Mutant of Filled: the end of the text is taken for zeros.
Filled_Zero(c) == IF Len(c) < 4 THEN c \o [k \in 1 .. 4 - Len(c) |-> 0] ELSE c

\* A group that the end cuts short.
Filled(c) == CASE Len(c) = 2 -> c \o <<EQ, EQ>>
               [] Len(c) = 3 -> c \o <<EQ>>
               [] OTHER -> c

\* a | b of two bits each.
Either(a, b) == (2 * Max({a \div 2, b \div 2})) + Max({a % 2, b % 2})

\* The bytes of a group; fewer than three end the loop.
BytesOf(c) ==
    IF Len(c) < 2 \/ c[1] = EQ \/ c[2] = EQ THEN << >>
    ELSE <<((c[1] * 4) % 256) + ((c[2] % 64) \div 16)>> \o
         (IF c[3] = EQ THEN << >>
          ELSE <<((c[2] % 16) * 16) + ((c[3] % 64) \div 4)>> \o
               (IF c[4] = EQ THEN << >> ELSE <<Either(c[3] % 4, c[4] \div 64) * 64 + (c[4] % 64)>>))

Decode ==
    /\ at = "decode" /\ left # << >>
    /\ LET uc == Looked(left)
           n == Taken(uc)
           c == Filled(SelectSeq(SubSeq(uc, 1, n), LAMBDA x : x # INVALID))
       IN  /\ r' = r \o BytesOf(c)
           /\ left' = IF Len(BytesOf(c)) < 3 THEN << >> ELSE SubSeq(left, n + 1, Len(left))
    /\ UNCHANGED <<at, message, chunk, rlen>>

DecodeEnds == /\ at = "decode" /\ left = << >> /\ at' = "decoded"
              /\ UNCHANGED <<message, left, chunk, r, rlen>>

Next == Encode \/ EncodeEnds \/ Decode \/ DecodeEnds

Spec == Init /\ [][Next]_vars

------------------------------------------------------------------------------

\* The bytes a text stands for, given what its characters are in the alphabet:
\* those up to the first padding, as one string of bits of which whole bytes
\* count.
Meaning(text) ==
    LET s == SelectSeq(text, LAMBDA x : x # INVALID)
        pads == {k \in 1 .. Len(s) : s[k] = EQ}
        n == IF pads = {} THEN Len(s) ELSE (CHOOSE k \in pads : \A j \in pads : k <= j) - 1
        Bit(b) == (s[b \div 6 + 1] \div 2 ^ (5 - (b % 6))) % 2
    IN  [k \in 1 .. (6 * n) \div 8 |->
            LET Sum[j \in 0 .. 8] == IF j = 0 THEN 0 ELSE 2 * Sum[j - 1] + Bit(8 * (k - 1) + j - 1)
            IN  Sum[8]]

\* What is encoded decodes to the message, whatever byte lies behind it.
MeansMessage == at = "encoded" => Meaning(r) = message

\* A text of characters below 0x80 decodes to what it means, also without its
\* padding, with characters outside the alphabet, and with padding in the wrong
\* place.  What one from 0x80 on adds is up to the memory before index_64.
DecodesMeaning == (at = "decoded" /\ \A k \in DOMAIN message : message[k] >= 0)
                      => r = Meaning(Looked(message))

\* mgbase64.h: lines of at most MAX_LINE characters, each terminated by eol.
LinesShort ==
    at = "encoded" =>
        /\ r[Len(r)] = Eol
        /\ \A j, k \in 0 .. Len(r) :
            (j < k /\ \A x \in j + 1 .. k : r[x] # Eol) => k - j <= MaxLine

\* The result and its NUL are within what malloc was asked for, whatever the
\* characters.
WithinRoom == Len(r) + 1 <= rlen
==============================================================================
