---------------------------- MODULE ShaStreamProofs ----------------------------
(* Theorems about the stream side of the SHA files and of mgmd5.c, for every  *)
(* length of a block, of the pieces and of the message, and about the encoder *)
(* of mgbase64.c.                                                             *)
EXTENDS ShaStream, SequenceTheorems, TLAPS

\* The context of mgmd5.c, whose message and constants have the same names.
CONSTANT WordBits
VARIABLES count, buffer, transformed, done
Md5 == INSTANCE Md5Stream

\* Lines of a file without NUL bytes (see section 7 of the README for others).
Lines == ShaAssumption /\ ~ Nuls

Multiple(n) == \E q \in Int : n = q * BlockLen

-------------------------------------------------------------------------------
(* Remainders.                                                                *)

LEMMA Remainder ==
    ASSUME ShaAssumption, NEW n \in Int
    PROVE  n % BlockLen \in 0 .. BlockLen - 1 /\ Multiple(n - (n % BlockLen))
<1>1. BlockLen \in Nat /\ BlockLen > 0
  BY DEF ShaAssumption
<1>2. n % BlockLen \in 0 .. BlockLen - 1
  BY <1>1
<1>3. \A b \in Nat \ {0} : n \div b \in Int /\ n = b * (n \div b) + (n % b)
  OBVIOUS
<1>4. PICK q \in Int : n = BlockLen * q + (n % BlockLen)
  <2>1. BlockLen \in Nat \ {0}
    BY <1>1
  <2>. QED  BY <1>3, <2>1, Zenon
<1>5. n - (n % BlockLen) = q * BlockLen
  BY <1>1, <1>2, <1>4
<1>. QED  BY <1>2, <1>5 DEF Multiple

\* No multiple lies strictly between 0 and BlockLen.
LEMMA NoneBetween ==
    ASSUME ShaAssumption, NEW n \in Int, Multiple(n), - BlockLen < n, n < BlockLen
    PROVE  n = 0
<1>1. BlockLen \in Nat /\ BlockLen > 0
  BY DEF ShaAssumption
<1>2. PICK q \in Int : n = q * BlockLen
  BY DEF Multiple
<1>3. q >= 1 => q * BlockLen >= BlockLen
  BY <1>1
<1>4. q <= -1 => q * BlockLen <= - BlockLen
  BY <1>1
<1>5. q = 0 => q * BlockLen = 0
  BY <1>1
<1>. QED  BY <1>1, <1>2, <1>3, <1>4, <1>5

LEMMA MultiplesAdd ==
    ASSUME ShaAssumption, NEW m \in Int, NEW n \in Int, Multiple(m), Multiple(n)
    PROVE  Multiple(m + n) /\ Multiple(m - n)
<1>1. BlockLen \in Nat
  BY DEF ShaAssumption
<1>2. PICK p \in Int, q \in Int : m = p * BlockLen /\ n = q * BlockLen
  BY DEF Multiple
<1>3. m + n = (p + q) * BlockLen /\ m - n = (p - q) * BlockLen
  BY <1>1, <1>2
<1>. QED  BY <1>3 DEF Multiple

LEMMA BlockMultiple == ASSUME ShaAssumption PROVE Multiple(BlockLen) /\ Multiple(0)
<1>1. BlockLen \in Nat /\ BlockLen = 1 * BlockLen /\ 0 = 0 * BlockLen
  BY DEF ShaAssumption
<1>. QED  BY <1>1 DEF Multiple

\* A remainder is what is left of a multiple.
LEMMA RemainderIs ==
    ASSUME ShaAssumption, NEW n \in Int, NEW r \in 0 .. BlockLen - 1, Multiple(n - r)
    PROVE  n % BlockLen = r
<1>1. /\ n % BlockLen \in 0 .. BlockLen - 1 /\ Multiple(n - (n % BlockLen))
      /\ BlockLen \in Nat
  BY Remainder DEF ShaAssumption
<1>. DEFINE m == n % BlockLen
<1>. HIDE DEF m
<1>2. Multiple((n - m) - (n - r))
  BY <1>1, MultiplesAdd DEF m
<1>3. (n - m) - (n - r) = r - m /\ r - m \in Int /\ - BlockLen < r - m /\ r - m < BlockLen
  BY <1>1 DEF m
<1>4. r - m = 0
  BY <1>2, <1>3, NoneBetween
<1>. QED  BY <1>1, <1>4 DEF m

-------------------------------------------------------------------------------
(* The stream.                                                                *)

\* The rounds had whole blocks r of the message m, its last l bytes wait at the
\* start of LastString s, and behind them s is zero.
Streamed(r, s, l, m) ==
    /\ r \in Seq(Int) /\ s \in Seq(Int) /\ m \in Seq(Int)
    /\ Len(s) = 2 * BlockLen /\ l \in 0 .. BlockLen - 1
    /\ Multiple(Len(r)) /\ Len(m) = Len(r) + l
    /\ \A k \in 1 .. Len(r) : r[k] = m[k]
    /\ \A k \in 1 .. l : s[k] = m[Len(r) + k]
    /\ \A k \in l + 1 .. 2 * BlockLen : s[k] = Zero

LEMMA ConcatAt ==
    ASSUME NEW s \in Seq(Int), NEW t \in Seq(Int)
    PROVE  /\ s \o t \in Seq(Int) /\ Len(s \o t) = Len(s) + Len(t)
           /\ \A k \in 1 .. Len(s) : (s \o t)[k] = s[k]
           /\ \A k \in 1 .. Len(t) : (s \o t)[Len(s) + k] = t[k]
OBVIOUS

LEMMA SeqFunction ==
    ASSUME NEW N \in Nat, NEW f \in [1 .. N -> Int]
    PROVE  f \in Seq(Int) /\ Len(f) = N
OBVIOUS

\* o is s with t written behind its first at elements.
Laid(o, s, at, t) ==
    /\ o \in Seq(Int) /\ Len(o) = Len(s)
    /\ \A k \in 1 .. Len(s) : o[k] = IF k \in at + 1 .. at + Len(t)
                                     THEN t[k - at] ELSE s[k]

LEMMA OverAt ==
    ASSUME NEW s \in Seq(Int), NEW at \in Nat, NEW t \in Seq(Int)
    PROVE  Laid(Over(s, at, t), s, at, t)
<1>1. Len(s) \in Nat /\ Len(t) \in Nat /\ DOMAIN s = 1 .. Len(s)
  OBVIOUS
<1>2. /\ Over(s, at, t) \in [1 .. Len(s) -> Int]
      /\ \A k \in 1 .. Len(s) : Over(s, at, t)[k] = IF k \in at + 1 .. at + Len(t)
                                                     THEN t[k - at] ELSE s[k]
  <2>1. ASSUME NEW k \in 1 .. Len(s)
        PROVE  (IF k \in at + 1 .. at + Len(t) THEN t[k - at] ELSE s[k]) \in Int
    <3>1. k \in at + 1 .. at + Len(t) => k - at \in 1 .. Len(t)
      BY <1>1
    <3>. QED  BY <1>1, <3>1
  <2>. QED  BY <1>1, <2>1 DEF Over
<1>. QED  BY <1>1, <1>2, SeqFunction DEF Laid

LEMMA ZerosAt ==
    ASSUME NEW n \in Nat
    PROVE  /\ Zeros(n) \in Seq(Int) /\ Len(Zeros(n)) = n
           /\ \A k \in 1 .. n : Zeros(n)[k] = 0
BY DEF Zeros, Zero

\* A piece that does not fill the block waits behind the rest.
LEMMA PieceWaits ==
    ASSUME ShaAssumption, NEW r, NEW s, NEW l, NEW m, Streamed(r, s, l, m),
           NEW t \in Seq(Int), Len(t) + l < BlockLen
    PROVE  Streamed(r, Over(s, l, t), l + Len(t), m \o t)
<1>. DEFINE o == Over(s, l, t)
            c == m \o t
<1>1. /\ BlockLen \in Nat /\ l \in Nat /\ l < BlockLen /\ Len(t) \in Nat /\ Len(r) \in Nat
      /\ r \in Seq(Int) /\ s \in Seq(Int) /\ m \in Seq(Int) /\ Len(s) = 2 * BlockLen
      /\ Len(m) = Len(r) + l
  <2>1. /\ r \in Seq(Int) /\ s \in Seq(Int) /\ m \in Seq(Int) /\ Len(s) = 2 * BlockLen
        /\ Len(m) = Len(r) + l /\ l \in 0 .. BlockLen - 1
    BY DEF Streamed
  <2>. QED  BY <2>1 DEF ShaAssumption
<1>2. /\ c \in Seq(Int) /\ Len(c) = Len(m) + Len(t)
      /\ \A k \in 1 .. Len(m) : c[k] = m[k]
      /\ \A k \in 1 .. Len(t) : c[Len(m) + k] = t[k]
  BY <1>1, ConcatAt
<1>3. Laid(o, s, l, t)
  BY <1>1, OverAt, Zenon
<1>. HIDE DEF o, c
<1>4. \A k \in 1 .. Len(r) : r[k] = c[k]
  BY <1>1, <1>2 DEF Streamed
<1>5. ASSUME NEW k \in 1 .. l + Len(t) PROVE o[k] = c[Len(r) + k]
  <2>1. CASE k <= l
    <3>1. /\ k \in 1 .. l /\ k \in 1 .. Len(s) /\ k \notin l + 1 .. l + Len(t)
          /\ Len(r) + k \in 1 .. Len(m)
      BY <1>1, <1>5, <2>1
    <3>2. o[k] = s[k]
      BY <1>3, <3>1 DEF Laid
    <3>3. s[k] = m[Len(r) + k]
      BY <3>1 DEF Streamed
    <3>. QED  BY <1>2, <3>1, <3>2, <3>3
  <2>2. CASE k > l
    <3>1. /\ k - l \in 1 .. Len(t) /\ Len(r) + k = Len(m) + (k - l)
          /\ k \in 1 .. 2 * BlockLen /\ k \in l + 1 .. l + Len(t)
      BY <1>1, <1>5, <2>2
    <3>2. o[k] = t[k - l]
      BY <1>1, <1>3, <3>1 DEF Laid
    <3>. QED  BY <1>2, <3>1, <3>2
  <2>. QED  BY <1>1, <1>5, <2>1, <2>2
<1>6. ASSUME NEW k \in (l + Len(t)) + 1 .. 2 * BlockLen PROVE o[k] = Zero
  <2>1. k \in l + 1 .. 2 * BlockLen /\ k \in 1 .. 2 * BlockLen /\ k \notin l + 1 .. l + Len(t)
    BY <1>1, <1>6
  <2>2. o[k] = s[k]
    BY <1>1, <1>3, <2>1 DEF Laid
  <2>. QED  BY <2>1, <2>2 DEF Streamed
<1>7. Streamed(r, o, l + Len(t), c)
  <2>1. Multiple(Len(r)) /\ l + Len(t) \in 0 .. BlockLen - 1
        /\ Len(c) = Len(r) + (l + Len(t))
    BY <1>1, <1>2 DEF Streamed
  <2>. QED  BY <1>1, <1>2, <1>3, <1>4, <1>5, <1>6, <2>1 DEF Streamed, Laid
<1>. QED  BY <1>7 DEF o, c

LEMMA SameElements ==
    ASSUME NEW s \in Seq(Int), NEW t \in Seq(Int), Len(s) = Len(t),
           \A k \in 1 .. Len(s) : s[k] = t[k]
    PROVE  s = t
OBVIOUS

LEMMA SubSeqAt ==
    ASSUME NEW s \in Seq(Int), NEW i \in 1 .. Len(s) + 1, NEW j \in i - 1 .. Len(s)
    PROVE  /\ SubSeq(s, i, j) \in Seq(Int) /\ Len(SubSeq(s, i, j)) = j - i + 1
           /\ \A k \in 1 .. j - i + 1 : SubSeq(s, i, j)[k] = s[i - 1 + k]
OBVIOUS

LEMMA PrefixAt ==
    ASSUME NEW s \in Seq(Int), NEW n \in 0 .. Len(s)
    PROVE  /\ SubSeq(s, 1, n) \in Seq(Int) /\ Len(SubSeq(s, 1, n)) = n
           /\ \A k \in 1 .. n : SubSeq(s, 1, n)[k] = s[k]
OBVIOUS

\* A piece that fills the block goes to the rounds with the rest, but for the
\* bytes k of an unfinished block at its end, which wait alone.
LEMMA PieceFills ==
    ASSUME ShaAssumption, NEW r, NEW s, NEW l, NEW m, Streamed(r, s, l, m),
           NEW t \in Seq(Int), NEW x \in 0 .. BlockLen - 1, x <= Len(t),
           Multiple(l + Len(t) - x)
    PROVE  LET k == SubSeq(t, Len(t) - x + 1, Len(t))
           IN  /\ Len(k) = x
               /\ Streamed(r \o SubSeq(s, 1, l) \o SubSeq(t, 1, Len(t) - x),
                           Over(Zeros(2 * BlockLen), 0, k), x, m \o t)
<1>. DEFINE k == SubSeq(t, Len(t) - x + 1, Len(t))
            d == SubSeq(s, 1, l)
            e == SubSeq(t, 1, Len(t) - x)
            z == Zeros(2 * BlockLen)
            o == Over(z, 0, k)
            c == m \o t
            rd == r \o d
            rde == rd \o e
<1>1. /\ BlockLen \in Nat /\ l \in Nat /\ l < BlockLen /\ Len(t) \in Nat /\ Len(r) \in Nat
      /\ x \in Nat /\ x < BlockLen /\ Len(s) = 2 * BlockLen
      /\ r \in Seq(Int) /\ s \in Seq(Int) /\ m \in Seq(Int) /\ Len(m) = Len(r) + l
  BY DEF Streamed, ShaAssumption
<1>2. /\ k \in Seq(Int) /\ Len(k) = x
      /\ \A j \in 1 .. x : k[j] = t[(Len(t) - x) + j]
  <2>1. /\ Len(t) - x + 1 \in 1 .. Len(t) + 1 /\ Len(t) \in (Len(t) - x + 1) - 1 .. Len(t)
        /\ Len(t) - (Len(t) - x + 1) + 1 = x /\ (Len(t) - x + 1) - 1 = Len(t) - x
    BY <1>1
  <2>. QED  BY <2>1, SubSeqAt
<1>3. /\ d \in Seq(Int) /\ Len(d) = l /\ \A j \in 1 .. l : d[j] = s[j]
  <2>1. l \in 0 .. Len(s)
    BY <1>1
  <2>. QED  BY <1>1, <2>1, PrefixAt
<1>4. /\ e \in Seq(Int) /\ Len(e) = Len(t) - x
      /\ \A j \in 1 .. Len(t) - x : e[j] = t[j]
  <2>1. Len(t) - x \in 0 .. Len(t)
    BY <1>1
  <2>. QED  BY <2>1, PrefixAt
<1>5. Laid(o, z, 0, k) /\ z \in Seq(Int) /\ Len(z) = 2 * BlockLen
      /\ \A j \in 1 .. 2 * BlockLen : z[j] = 0
  <2>1. 2 * BlockLen \in Nat /\ 0 \in Nat
    BY <1>1
  <2>2. z \in Seq(Int) /\ Len(z) = 2 * BlockLen /\ \A j \in 1 .. 2 * BlockLen : z[j] = 0
    BY <2>1, ZerosAt
  <2>. HIDE DEF z, k
  <2>. QED  BY <1>2, <2>1, <2>2, OverAt
<1>. HIDE DEF k, d, e, z, o
<1>6. /\ c \in Seq(Int) /\ Len(c) = Len(m) + Len(t)
      /\ \A j \in 1 .. Len(m) : c[j] = m[j]
      /\ \A j \in 1 .. Len(t) : c[Len(m) + j] = t[j]
  BY <1>1, ConcatAt
<1>7. /\ rd \in Seq(Int) /\ Len(rd) = Len(m)
      /\ \A j \in 1 .. Len(r) : rd[j] = r[j]
      /\ \A j \in 1 .. l : rd[Len(r) + j] = d[j]
  BY <1>1, <1>3, ConcatAt
<1>. HIDE DEF c, rd
<1>8. /\ rde \in Seq(Int) /\ Len(rde) = Len(m) + (Len(t) - x)
      /\ \A j \in 1 .. Len(m) : rde[j] = rd[j]
      /\ \A j \in 1 .. Len(t) - x : rde[Len(m) + j] = e[j]
  <2>1. /\ rde \in Seq(Int) /\ Len(rde) = Len(rd) + Len(e)
        /\ \A j \in 1 .. Len(rd) : rde[j] = rd[j]
        /\ \A j \in 1 .. Len(e) : rde[Len(rd) + j] = e[j]
    BY <1>4, <1>7, ConcatAt
  <2>. HIDE DEF rde
  <2>. QED  BY <1>4, <1>7, <2>1
<1>. HIDE DEF rde
<1>9. \A j \in 1 .. Len(m) : rd[j] = m[j]
  <2>1. ASSUME NEW j \in 1 .. Len(m) PROVE rd[j] = m[j]
    <3>1. CASE j <= Len(r)
      BY <1>1, <1>7, <2>1, <3>1 DEF Streamed
    <3>2. CASE j > Len(r)
      <4>1. j - Len(r) \in 1 .. l /\ Len(r) + (j - Len(r)) = j
        BY <1>1, <2>1, <3>2
      <4>2. rd[j] = d[j - Len(r)] /\ d[j - Len(r)] = s[j - Len(r)]
        BY <1>3, <1>7, <4>1
      <4>3. s[j - Len(r)] = m[j]
        BY <4>1 DEF Streamed
      <4>. QED  BY <4>2, <4>3
    <3>. QED  BY <1>1, <2>1, <3>1, <3>2
  <2>. QED  BY <2>1
<1>10. \A j \in 1 .. Len(rde) : rde[j] = c[j]
  <2>0. /\ Len(rde) = Len(m) + (Len(t) - x) /\ Len(m) \in Nat /\ Len(t) \in Nat
        /\ x \in Nat /\ x <= Len(t)
    BY <1>1, <1>8
  <2>1. ASSUME NEW j \in 1 .. Len(rde) PROVE rde[j] = c[j]
    <3>1. CASE j <= Len(m)
      <4>1. j \in 1 .. Len(m)
        BY <2>0, <2>1, <3>1
      <4>. QED  BY <1>6, <1>8, <1>9, <4>1
    <3>2. CASE j > Len(m)
      <4>1. /\ j - Len(m) \in 1 .. Len(t) - x /\ j - Len(m) \in 1 .. Len(t)
            /\ Len(m) + (j - Len(m)) = j
        BY <2>0, <2>1, <3>2
      <4>2. rde[j] = e[j - Len(m)]
        <5>1. rde[Len(m) + (j - Len(m))] = e[j - Len(m)]
          BY <1>8, <4>1, Zenon
        <5>. QED  BY <4>1, <5>1
      <4>3. c[j] = t[j - Len(m)]
        <5>1. c[Len(m) + (j - Len(m))] = t[j - Len(m)]
          BY <1>6, <4>1, Zenon
        <5>. QED  BY <4>1, <5>1
      <4>4. e[j - Len(m)] = t[j - Len(m)]
        BY <1>4, <4>1, Zenon
      <4>. QED  BY <4>2, <4>3, <4>4
    <3>3. j \in Int /\ Len(m) \in Int
      BY <2>0, <2>1
    <3>. QED  BY <3>1, <3>2, <3>3
  <2>. QED  BY <2>1
<1>11. \A j \in 1 .. x : o[j] = c[Len(rde) + j]
  <2>1. ASSUME NEW j \in 1 .. x PROVE o[j] = c[Len(rde) + j]
    <3>1. /\ j \in 0 + 1 .. 0 + Len(k) /\ j - 0 = j /\ j \in 1 .. Len(z)
          /\ (Len(t) - x) + j \in 1 .. Len(t)
          /\ Len(rde) + j = Len(m) + ((Len(t) - x) + j)
      BY <1>1, <1>2, <1>5, <1>8, <2>1
    <3>2. o[j] = k[j]
      BY <1>5, <3>1 DEF Laid
    <3>. QED  BY <1>2, <1>6, <2>1, <3>1, <3>2
  <2>. QED  BY <2>1
<1>12. \A j \in x + 1 .. 2 * BlockLen : o[j] = Zero
  BY <1>1, <1>2, <1>5 DEF Laid, Zero
<1>13. Multiple(Len(rde)) /\ Len(c) = Len(rde) + x
  <2>1. Multiple(Len(r)) /\ l + Len(t) - x \in Int
    BY <1>1 DEF Streamed
  <2>2. Multiple(Len(r) + (l + Len(t) - x))
    BY <1>1, <2>1, MultiplesAdd
  <2>3. Len(rde) = Len(r) + (l + Len(t) - x)
    BY <1>1, <1>8
  <2>. QED  BY <1>1, <1>6, <1>8, <2>2, <2>3
<1>14. Streamed(rde, o, x, c)
  BY <1>1, <1>5, <1>6, <1>8, <1>10, <1>11, <1>12, <1>13 DEF Streamed, Laid
<1>. QED  BY <1>2, <1>14 DEF rde, rd, d, e, o, z, k, c

-------------------------------------------------------------------------------
(* The end of the message.                                                    *)

\* Bytes of the last block, or of the last two, when l bytes of data wait.
LastSize(l) == IF l <= BlockLen - 1 - Reserve THEN BlockLen ELSE 2 * BlockLen

\* The fewest zeros end the data, the mark and the length with a block.
LEMMA PaddingIs ==
    ASSUME ShaAssumption, NEW n \in Nat, NEW l \in 0 .. BlockLen - 1, Multiple(n - l)
    PROVE  Padding(n) = LastSize(l) - 1 - Reserve - l
<1>. DEFINE z == LastSize(l) - 1 - Reserve - l
            P(y) == (n + 1 + y + Reserve) % BlockLen = 0
<1>1. /\ BlockLen \in Nat /\ Reserve \in Nat /\ Reserve < BlockLen /\ l \in Nat
      /\ l < BlockLen /\ LastSize(l) \in {BlockLen, 2 * BlockLen}
      /\ 0 \in 0 .. BlockLen - 1
  BY DEF ShaAssumption, LastSize
<1>2. z \in 0 .. BlockLen - 1
  BY <1>1 DEF LastSize
<1>3. Multiple(LastSize(l)) /\ n - l \in Int /\ LastSize(l) \in Int
  <2>1. BlockLen + BlockLen = 2 * BlockLen /\ BlockLen \in Int
    BY <1>1
  <2>2. Multiple(BlockLen) /\ Multiple(BlockLen + BlockLen)
    BY <2>1, BlockMultiple, MultiplesAdd
  <2>. QED  BY <1>1, <2>1, <2>2
<1>4. Multiple(n + 1 + z + Reserve)
  <2>1. Multiple((n - l) + LastSize(l))
    BY <1>3, MultiplesAdd
  <2>2. (n - l) + LastSize(l) = n + 1 + z + Reserve
    BY <1>1, <1>3
  <2>. QED  BY <2>1, <2>2
<1>. HIDE DEF z
<1>5. P(z)
  <2>1. (n + 1 + z + Reserve) - 0 = n + 1 + z + Reserve /\ n + 1 + z + Reserve \in Int
    BY <1>1, <1>2
  <2>. QED  BY <1>1, <1>4, <2>1, RemainderIs
<1>6. ASSUME NEW y \in 0 .. BlockLen - 1, P(y) PROVE y = z
  <2>. DEFINE a == n + 1 + y + Reserve
              b == n + 1 + z + Reserve
  <2>1. /\ a \in Int /\ b \in Int /\ a - 0 = a /\ a - b = y - z
        /\ y - z \in Int /\ - BlockLen < y - z /\ y - z < BlockLen
    BY <1>1, <1>2, <1>6
  <2>2. Multiple(b) /\ a % BlockLen = 0
    BY <1>4, <1>6
  <2>. HIDE DEF a, b
  <2>3. Multiple(a)
    BY <2>1, <2>2, Remainder
  <2>4. Multiple(y - z)
    BY <2>1, <2>2, <2>3, MultiplesAdd
  <2>5. y - z = 0
    BY <2>1, <2>4, NoneBetween
  <2>. QED  BY <1>2, <1>6, <2>5
<1>7. Padding(n) \in 0 .. BlockLen - 1 /\ P(Padding(n))
  BY <1>2, <1>5 DEF Padding
<1>. QED  BY <1>6, <1>7 DEF z

\* The length as it is written: eight bytes, whatever Reserve leaves for it.
LengthBytes == [k \in 1 .. 8 |-> LengthByte(9 - k)]

LEMMA LengthBytesAt == LengthBytes \in Seq(Int) /\ Len(LengthBytes) = 8
<1>1. 8 \in Nat /\ LengthBytes \in [1 .. 8 -> Int]
  BY DEF LengthBytes, LengthByte
<1>. QED  BY <1>1, SeqFunction

\* What the rounds get in the end is the standard's padded message.
LEMMA FinalPads ==
    ASSUME ShaAssumption, NEW r, NEW s, NEW l, NEW m, Streamed(r, s, l, m),
           NEW full, full = Over([s EXCEPT ![l + 1] = Mark], LastSize(l) - 8, LengthBytes)
    PROVE  r \o SubSeq(full, 1, LastSize(l)) = Padded(m)
<1>. DEFINE z == LastSize(l)
            w == LengthBytes
            marked == [s EXCEPT ![l + 1] = Mark]
            f == SubSeq(full, 1, z)
            p1 == m \o <<Mark>>
            zeros == Zeros(z - 9 - l)
            p2 == p1 \o zeros
            p3 == p2 \o w
            q == r \o f
<1>1. /\ BlockLen \in Nat /\ Reserve \in Nat /\ Reserve < BlockLen /\ Reserve >= 8
      /\ l \in Nat /\ l < BlockLen /\ z \in {BlockLen, 2 * BlockLen} /\ l + 9 <= z
      /\ Len(s) = 2 * BlockLen /\ s \in Seq(Int) /\ r \in Seq(Int) /\ m \in Seq(Int)
      /\ Len(r) \in Nat /\ Len(m) \in Nat /\ Len(m) = Len(r) + l
  BY DEF ShaAssumption, LastSize, Streamed
<1>2. /\ marked \in Seq(Int) /\ Len(marked) = 2 * BlockLen /\ marked[l + 1] = Mark
      /\ \A k \in 1 .. 2 * BlockLen : k # l + 1 => marked[k] = s[k]
  BY <1>1 DEF Mark
<1>3. w \in Seq(Int) /\ Len(w) = 8
  BY LengthBytesAt
<1>. HIDE DEF z, w, marked
<1>4. Laid(full, marked, z - 8, w)
  <2>1. z - 8 \in Nat
    BY <1>1
  <2>2. full = Over(marked, z - 8, w)
    BY Zenon DEF z, w, marked
  <2>3. marked \in Seq(Int) /\ w \in Seq(Int)
    BY <1>2, <1>3
  <2>. QED  BY <2>1, <2>2, <2>3, OverAt, Zenon
<1>5. f \in Seq(Int) /\ Len(f) = z /\ \A k \in 1 .. z : f[k] = full[k]
  <2>1. full \in Seq(Int) /\ z \in 0 .. Len(full)
    BY <1>1, <1>2, <1>4 DEF Laid
  <2>. QED  BY <2>1, PrefixAt
<1>6. /\ zeros \in Seq(Int) /\ Len(zeros) = z - 9 - l
      /\ \A k \in 1 .. z - 9 - l : zeros[k] = 0
  <2>1. z - 9 - l \in Nat
    BY <1>1
  <2>. QED  BY <2>1, ZerosAt
<1>7. Padded(m) = p3
  <2>1. Len(m) - l = Len(r) /\ Len(m) \in Nat /\ l \in 0 .. BlockLen - 1
    BY <1>1
  <2>2. Multiple(Len(m) - l)
    BY <2>1 DEF Streamed
  <2>3. Padding(Len(m)) = z - 1 - Reserve - l
    BY <2>1, <2>2, PaddingIs DEF z
  <2>4. Padding(Len(m)) + Reserve - 8 = z - 9 - l
    BY <1>1, <2>3
  <2>. QED  BY <2>4 DEF Padded, w, LengthBytes
<1>. HIDE DEF f, zeros
<1>8. /\ p1 \in Seq(Int) /\ Len(p1) = Len(m) + 1 /\ p1[Len(m) + 1] = Mark
      /\ \A k \in 1 .. Len(m) : p1[k] = m[k]
  <2>1. <<Mark>> \in Seq(Int) /\ Len(<<Mark>>) = 1 /\ <<Mark>>[1] = Mark
    BY DEF Mark
  <2>. DEFINE t == <<Mark>>
  <2>. HIDE DEF t
  <2>2. /\ m \o t \in Seq(Int) /\ Len(m \o t) = Len(m) + Len(t)
        /\ \A k \in 1 .. Len(m) : (m \o t)[k] = m[k]
        /\ \A k \in 1 .. Len(t) : (m \o t)[Len(m) + k] = t[k]
    BY <1>1, <2>1, ConcatAt DEF t
  <2>3. t \in Seq(Int) /\ Len(t) = 1 /\ t[1] = Mark /\ 1 \in 1 .. 1
    BY <2>1 DEF t
  <2>4. p1 = m \o t
    BY DEF t
  <2>. HIDE DEF p1
  <2>. QED  BY <2>2, <2>3, <2>4
<1>. HIDE DEF p1
<1>9. /\ p2 \in Seq(Int) /\ Len(p2) = Len(p1) + Len(zeros)
      /\ \A k \in 1 .. Len(p1) : p2[k] = p1[k]
      /\ \A k \in 1 .. Len(zeros) : p2[Len(p1) + k] = zeros[k]
  BY <1>6, <1>8, ConcatAt
<1>. HIDE DEF p2
<1>10. /\ p3 \in Seq(Int) /\ Len(p3) = Len(p2) + Len(w)
       /\ \A k \in 1 .. Len(p2) : p3[k] = p2[k]
       /\ \A k \in 1 .. Len(w) : p3[Len(p2) + k] = w[k]
  BY <1>3, <1>9, ConcatAt
<1>. HIDE DEF p3
<1>11. /\ q \in Seq(Int) /\ Len(q) = Len(r) + Len(f)
       /\ \A k \in 1 .. Len(r) : q[k] = r[k]
       /\ \A k \in 1 .. Len(f) : q[Len(r) + k] = f[k]
  BY <1>1, <1>5, ConcatAt
<1>. HIDE DEF q
<1>12. /\ Len(q) = Len(p3) /\ Len(p2) = Len(r) + (z - 8) /\ Len(q) = Len(r) + z
       /\ Len(p1) = Len(r) + l + 1 /\ Len(zeros) = z - 9 - l /\ Len(w) = 8
       /\ Len(f) = z /\ Len(m) = Len(r) + l
       /\ z \in Nat /\ l \in Nat /\ Len(r) \in Nat /\ l + 9 <= z /\ z <= 2 * BlockLen
       /\ BlockLen \in Nat
  BY <1>1, <1>3, <1>5, <1>6, <1>8, <1>9, <1>10, <1>11
<1>13. ASSUME NEW k \in 1 .. Len(r) PROVE q[k] = p3[k]
  <2>1. k \in 1 .. Len(m) /\ k \in 1 .. Len(p1) /\ k \in 1 .. Len(p2)
    BY <1>12
  <2>2. q[k] = m[k]
    BY <1>11, <1>13 DEF Streamed
  <2>. QED  BY <1>8, <1>9, <1>10, <2>1, <2>2
<1>14. ASSUME NEW k \in 1 .. z PROVE q[Len(r) + k] = p3[Len(r) + k]
  <2>1. q[Len(r) + k] = full[k] /\ k \in 1 .. Len(marked)
    <3>1. k \in 1 .. Len(f) /\ k \in 1 .. 2 * BlockLen
      BY <1>12
    <3>. QED  BY <1>2, <1>5, <1>11, <1>14, <3>1
  <2>2. CASE k <= l
    <3>1. /\ Len(r) + k \in 1 .. Len(m) /\ Len(r) + k \in 1 .. Len(p1)
          /\ Len(r) + k \in 1 .. Len(p2) /\ k \in 1 .. l /\ k # l + 1
          /\ k \notin (z - 8) + 1 .. (z - 8) + Len(w)
      BY <1>12, <2>2
    <3>2. full[k] = s[k] /\ s[k] = m[Len(r) + k]
      BY <1>2, <1>4, <2>1, <3>1 DEF Laid, Streamed
    <3>. QED  BY <1>8, <1>9, <1>10, <2>1, <3>1, <3>2
  <2>3. CASE k = l + 1
    <3>1. /\ Len(r) + k = Len(m) + 1 /\ Len(r) + k \in 1 .. Len(p1)
          /\ Len(r) + k \in 1 .. Len(p2)
          /\ k \notin (z - 8) + 1 .. (z - 8) + Len(w)
      BY <1>12, <2>3
    <3>2. full[k] = Mark
      BY <1>2, <1>4, <2>1, <2>3, <3>1 DEF Laid
    <3>. QED  BY <1>8, <1>9, <1>10, <2>1, <3>1, <3>2
  <2>4. CASE l + 1 < k /\ k <= z - 8
    <3>1. /\ k - l - 1 \in 1 .. Len(zeros) /\ Len(p1) + (k - l - 1) = Len(r) + k
          /\ k \notin (z - 8) + 1 .. (z - 8) + Len(w) /\ k # l + 1
          /\ Len(r) + k \in 1 .. Len(p2) /\ k \in l + 1 .. 2 * BlockLen
          /\ k - l - 1 \in 1 .. z - 9 - l
      BY <1>12, <2>4
    <3>2. full[k] = s[k] /\ s[k] = 0
      BY <1>2, <1>4, <2>1, <3>1 DEF Laid, Streamed, Zero
    <3>3. p2[Len(r) + k] = 0
      BY <1>6, <1>9, <3>1
    <3>. QED  BY <1>10, <2>1, <3>1, <3>2, <3>3
  <2>5. CASE k > z - 8
    <3>1. /\ k - (z - 8) \in 1 .. Len(w) /\ Len(p2) + (k - (z - 8)) = Len(r) + k
          /\ k \in (z - 8) + 1 .. (z - 8) + Len(w)
      BY <1>12, <2>5
    <3>2. full[k] = w[k - (z - 8)]
      BY <1>2, <1>4, <2>1, <3>1 DEF Laid
    <3>. QED  BY <1>10, <2>1, <3>1, <3>2
  <2>6. k <= l \/ k = l + 1 \/ (l + 1 < k /\ k <= z - 8) \/ k > z - 8
    BY <1>12
  <2>. QED  BY <2>2, <2>3, <2>4, <2>5, <2>6
<1>15. ASSUME NEW k \in 1 .. Len(q) PROVE q[k] = p3[k]
  <2>1. CASE k > Len(r)
    <3>1. k - Len(r) \in 1 .. z /\ Len(r) + (k - Len(r)) = k
      BY <1>12, <2>1
    <3>. QED  BY <1>14, <3>1
  <2>2. CASE k <= Len(r)
    <3>1. k \in 1 .. Len(r)
      BY <1>12, <2>2
    <3>. QED  BY <1>13, <3>1
  <2>. QED  BY <1>12, <2>1, <2>2
<1>16. q = p3
  BY <1>10, <1>11, <1>12, <1>15, SameElements
<1>. QED  BY <1>7, <1>16 DEF q, f, z

-------------------------------------------------------------------------------
(* The theorem.                                                               *)

ShaInv ==
    /\ allLen = Len(message)
    /\ way # "final" => Streamed(rounds, last, lastLen, message)
    /\ way = "final" => rounds = Padded(message)

LEMMA ShaInit == ASSUME ShaAssumption, Init PROVE ShaInv
<1>1. /\ BlockLen \in Nat /\ BlockLen > 0 /\ 2 * BlockLen \in Nat
      /\ last = Zeros(2 * BlockLen) /\ lastLen = 0 /\ allLen = 0
      /\ rounds = << >> /\ message = << >> /\ way = "init"
  BY DEF ShaAssumption, Init
<1>2. /\ last \in Seq(Int) /\ Len(last) = 2 * BlockLen
      /\ \A k \in 1 .. 2 * BlockLen : last[k] = 0
  BY <1>1, ZerosAt
<1>3. Streamed(rounds, last, lastLen, message)
  BY <1>1, <1>2, BlockMultiple DEF Streamed, Zero
<1>. QED  BY <1>1, <1>3 DEF ShaInv

LEMMA ShaUpdate ==
    ASSUME ShaAssumption, ShaInv, way # "final", way' # "final",
           NEW t \in Seq(Int), message' = message \o t, Update(t)
    PROVE  ShaInv'
<1>1. /\ message \in Seq(Int) /\ Len(t) \in Nat
      /\ Streamed(rounds, last, lastLen, message) /\ allLen = Len(message)
  BY DEF ShaInv, Streamed
<1>2. /\ BlockLen \in Nat /\ BlockLen > 0 /\ lastLen \in 0 .. BlockLen - 1
      /\ Len(message) \in Nat
  BY <1>1 DEF Streamed, ShaAssumption
<1>3. allLen' = Len(message')
  BY <1>1, ConcatAt DEF Update
<1>4. Streamed(rounds', last', lastLen', message')
  <2>1. CASE Len(t) + lastLen < BlockLen
    <3>1. Streamed(rounds, Over(last, lastLen, t), lastLen + Len(t), message \o t)
      BY <1>1, <2>1, PieceWaits
    <3>2. /\ last' = Over(last, lastLen, t) /\ lastLen' = lastLen + Len(t)
          /\ rounds' = rounds
      <4>1. ~ (Len(t) + lastLen >= BlockLen)
        BY <1>1, <1>2, <2>1
      <4>. QED  BY <4>1, Zenon DEF Update
    <3>. QED  BY <3>1, <3>2
  <2>2. CASE Len(t) + lastLen >= BlockLen
    <3>. DEFINE y == Len(t) - (BlockLen - lastLen)
                x == y % BlockLen
    <3>1. y \in Int
      BY <1>1, <1>2
    <3>2. x \in 0 .. BlockLen - 1 /\ Multiple(y - x)
      <4>. HIDE DEF y
      <4>. QED  BY <3>1, Remainder
    <3>. HIDE DEF x
    <3>3. x <= Len(t)
      <4>1. y - x > - BlockLen /\ y - x \in Int /\ y >= 0
        BY <1>1, <1>2, <2>2, <3>2
      <4>2. y - x < BlockLen => y - x = 0
        BY <3>2, <4>1, NoneBetween
      <4>. QED  BY <1>1, <1>2, <2>2, <3>2, <4>1, <4>2
    <3>4. Multiple(lastLen + Len(t) - x)
      <4>1. (y - x) + BlockLen = lastLen + Len(t) - x /\ y - x \in Int /\ BlockLen \in Int
        BY <1>1, <1>2, <3>2
      <4>2. Multiple((y - x) + BlockLen)
        BY <3>2, <4>1, BlockMultiple, MultiplesAdd
      <4>. QED  BY <4>1, <4>2
    <3>. DEFINE k == SubSeq(t, Len(t) - x + 1, Len(t))
    <3>5. /\ Len(k) = x
          /\ Streamed(rounds \o SubSeq(last, 1, lastLen) \o SubSeq(t, 1, Len(t) - x),
                      Over(Zeros(2 * BlockLen), 0, k), x, message \o t)
      BY <1>1, <3>2, <3>3, <3>4, PieceFills
    <3>6. Kept(t) = k
      BY DEF Kept, x, y
    <3>. HIDE DEF k, y
    <3>7. /\ rounds' = rounds \o SubSeq(last, 1, lastLen)
                              \o SubSeq(t, 1, Len(t) - Len(Kept(t)))
          /\ last' = Over(Zeros(2 * BlockLen), 0, Kept(t)) /\ lastLen' = Len(Kept(t))
      <4>1. ~ (Len(t) + lastLen < BlockLen)
        BY <1>1, <1>2, <2>2
      <4>. QED  BY <4>1, Zenon DEF Update
    <3>. QED  BY <3>5, <3>6, <3>7
  <2>. QED  BY <1>1, <1>2, <2>1, <2>2
<1>. QED  BY <1>3, <1>4 DEF ShaInv

LEMMA ShaFinal == ASSUME ShaAssumption, ShaInv, Final PROVE ShaInv'
<1>1. /\ Streamed(rounds, last, lastLen, message) /\ allLen = Len(message)
      /\ UNCHANGED <<lastLen, allLen, message>> /\ way' = "final"
  BY DEF ShaInv, Final
<1>2. allLen % BlockLen = lastLen
  <2>1. /\ Len(message) \in Int /\ lastLen \in 0 .. BlockLen - 1
        /\ Len(message) - lastLen = Len(rounds) /\ Multiple(Len(rounds))
    <3>1. /\ message \in Seq(Int) /\ rounds \in Seq(Int) /\ lastLen \in 0 .. BlockLen - 1
          /\ Len(message) = Len(rounds) + lastLen /\ Multiple(Len(rounds))
      BY <1>1, Zenon DEF Streamed
    <3>2. Len(message) \in Nat /\ Len(rounds) \in Nat /\ lastLen \in Int
      BY <3>1, LenProperties
    <3>3. Len(message) - lastLen = Len(rounds)
      BY <3>1, <3>2
    <3>. QED  BY <3>1, <3>2, <3>3
  <2>2. Multiple(Len(message) - lastLen)
    BY <2>1
  <2>. QED  BY <1>1, <2>1, <2>2, RemainderIs
<1>. DEFINE full == Over([last EXCEPT ![lastLen + 1] = Mark], LastSize(lastLen) - 8,
                         LengthBytes)
<1>3. rounds' = rounds \o SubSeq(full, 1, LastSize(lastLen))
  BY <1>2 DEF Final, OneBlock, LastSize, LengthBytes
<1>4. rounds \o SubSeq(full, 1, LastSize(lastLen)) = Padded(message)
  BY <1>1, FinalPads
<1>5. rounds' = Padded(message')
  BY <1>1, <1>3, <1>4
<1>. QED  BY <1>1, <1>5 DEF ShaInv

LEMMA BytesAt ==
    ASSUME ShaInv, way # "final", NEW n \in Nat
    PROVE  Bytes(n) \in Seq(Int) /\ Len(Bytes(n)) = n
<1>1. Bytes(n) \in [1 .. n -> Int]
  BY DEF Bytes, ShaInv, Streamed
<1>. QED  BY <1>1, SeqFunction

\* However a message, or a file without NUL bytes, is cut into pieces, whatever
\* the block's length, the rounds get the standard's padding of exactly that
\* message (mgsha1.c, mgsha256.c, mgsha384.c, mgsha512.c).
THEOREM MessageDigested == ASSUME Lines PROVE Spec => []DigestOfMessage
<1>1. Init => ShaInv
  BY ShaInit DEF Lines
<1>2. ShaInv /\ [Next]_vars => ShaInv'
  <2>. SUFFICES ASSUME ShaInv, [Next]_vars PROVE ShaInv'
    OBVIOUS
  <2>1. ASSUME NEW n \in Piece, UpdatePiece(n) PROVE ShaInv'
    <3>1. /\ way # "final" /\ way' # "final" /\ n \in Nat
          /\ message' = message \o Bytes(n) /\ Update(Bytes(n))
      BY <2>1 DEF UpdatePiece, Lines, ShaAssumption
    <3>2. Bytes(n) \in Seq(Int)
      BY <3>1, BytesAt
    <3>. QED  BY <3>1, <3>2, ShaUpdate DEF Lines
  <2>2. ASSUME NEW n \in Piece, NEW nul \in 0 .. n, UpdateLine(n, nul) PROVE ShaInv'
    <3>1. /\ way # "final" /\ way' # "final" /\ n \in Nat
          /\ message' = message \o Bytes(n) /\ Update(SubSeq(Bytes(n), 1, n))
      BY <2>2 DEF UpdateLine, Lines, ShaAssumption
    <3>2. SubSeq(Bytes(n), 1, n) = Bytes(n)
      <4>1. Bytes(n) \in Seq(Int) /\ Len(Bytes(n)) = n /\ n \in 0 .. Len(Bytes(n))
        BY <3>1, BytesAt
      <4>. QED  BY <4>1, PrefixAt, SameElements
    <3>3. Bytes(n) \in Seq(Int) /\ Update(Bytes(n))
      BY <3>1, <3>2, BytesAt
    <3>. QED  BY <3>1, <3>3, ShaUpdate DEF Lines
  <2>3. CASE Final
    BY <2>3, ShaFinal DEF Lines
  <2>4. CASE UNCHANGED vars
    BY <2>4 DEF vars, ShaInv
  <2>. QED  BY <2>1, <2>2, <2>3, <2>4 DEF Next
<1>3. ShaInv => DigestOfMessage
  BY DEF ShaInv, DigestOfMessage
<1>. QED  BY <1>1, <1>2, <1>3, PTL DEF Spec

-------------------------------------------------------------------------------
(* MD5: the fill of its buffer comes from a count of bits that wraps.         *)

\* The words of the count hold whole blocks, and both fit in one block: 2^32
\* bits and eight bytes, for blocks of 64.
Md5Words == /\ Md5!Md5Assumption
            /\ Md5!Word \in Nat /\ Md5!Word % (8 * BlockLen) = 0
            /\ WordBits \in Nat /\ Md5!CountBytes <= BlockLen

LEMMA QuotientIs ==
    ASSUME NEW B \in Nat \ {0}, NEW j \in Int, NEW r \in 0 .. B - 1
    PROVE  (j * B + r) % B = r /\ (j * B + r) \div B = j
<1>. DEFINE n == j * B + r
            h == n \div B
            m == n % B
<1>1. n \in Int
  OBVIOUS
<1>2. /\ h \in Int /\ m \in 0 .. B - 1 /\ n = B * h + m
  <2>. HIDE DEF n
  <2>. QED  BY <1>1
<1>3. n = j * B + r
  OBVIOUS
<1>. HIDE DEF n, h, m
<1>4. (j - h) * B = m - r /\ j - h \in Int
  BY <1>2, <1>3
<1>5. \A d \in Int : (d >= 1 => d * B >= B) /\ (d <= -1 => d * B <= - B)
  OBVIOUS
<1>6. j - h = 0
  BY <1>2, <1>4, <1>5
<1>7. m = r /\ h = j
  BY <1>2, <1>4, <1>6
<1>. QED  BY <1>7 DEF n, h, m

\* A remainder is what is left of a multiple.
LEMMA Divides ==
    ASSUME NEW B \in Nat \ {0}, NEW n \in Int
    PROVE  \E j \in Int : n = j * B + (n % B)
<1>1. n \div B \in Int /\ n = (n \div B) * B + (n % B)
  OBVIOUS
<1>. QED  BY <1>1

\* A count of bits after n bytes, but for whole blocks.
Counts(c, n) == c \in Nat /\ \E j \in Int : c = 8 * (n - j * BlockLen)

LEMMA HaveIs ==
    ASSUME Md5Words, NEW c, NEW n \in Nat, Counts(c[1], n)
    PROVE  Md5!Have(c) = n % BlockLen
<1>1. BlockLen \in Nat \ {0}
  BY DEF Md5Words, Md5!Md5Assumption
<1>2. PICK j \in Int : c[1] = 8 * (n - j * BlockLen) /\ c[1] \in Nat
  BY DEF Counts
<1>3. /\ n % BlockLen \in 0 .. BlockLen - 1
      /\ \E i \in Int : n = i * BlockLen + (n % BlockLen)
  <2>1. n % BlockLen \in 0 .. BlockLen - 1 /\ n \in Int
    BY <1>1
  <2>. QED  BY <1>1, <2>1, Divides
<1>. DEFINE r == n % BlockLen
<1>. HIDE DEF r
<1>9. PICK i \in Int : n = i * BlockLen + r
  BY <1>3 DEF r
<1>4. c[1] \div 8 = n - j * BlockLen
  <2>. DEFINE x == n - j * BlockLen
  <2>1. x \in Int
    BY <1>1
  <2>. HIDE DEF x
  <2>2. c[1] = 8 * x
    BY <1>2 DEF x
  <2>3. c[1] \div 8 = x
    BY <2>1, <2>2
  <2>. QED  BY <2>3 DEF x
<1>5. n - j * BlockLen = (i - j) * BlockLen + r /\ i - j \in Int
  <2>1. r \in Int
    BY <1>3 DEF r
  <2>2. (i - j) * BlockLen = i * BlockLen - j * BlockLen /\ i * BlockLen \in Int /\ j * BlockLen \in Int
    BY <1>1
  <2>. QED  BY <1>9, <2>1, <2>2
<1>6. (n - j * BlockLen) % BlockLen = r
  BY <1>1, <1>3, <1>5, QuotientIs DEF r
<1>. QED  BY <1>4, <1>6 DEF Md5!Have, r

LEMMA CountedIs ==
    ASSUME Md5Words, NEW c, NEW m \in Nat, NEW n \in Nat, Counts(c[1], m)
    PROVE  Counts(Md5!Counted(c, n)[1], m + n)
<1>. DEFINE W == Md5!Word
            low == (c[1] + n * 8) % W
<1>1. BlockLen \in Nat \ {0} /\ W \in Nat \ {0} /\ W % (8 * BlockLen) = 0
  BY DEF Md5Words, Md5!Md5Assumption, Md5!Word
<1>. HIDE DEF W
<1>2. PICK j \in Int : c[1] = 8 * (m - j * BlockLen) /\ c[1] \in Nat
  BY DEF Counts
<1>3. PICK q \in Int : W = q * (8 * BlockLen)
  <2>. DEFINE E == 8 * BlockLen
  <2>1. E \in Nat \ {0} /\ W \in Int /\ W % E = 0
    BY <1>1
  <2>. HIDE DEF E
  <2>2. PICK q \in Int : W = q * E + (W % E)
    BY <2>1, Divides
  <2>3. W = q * E
    BY <2>1, <2>2
  <2>. QED  BY <2>3 DEF E
<1>4. c[1] + n * 8 \in Nat
  BY <1>2
<1>5. PICK z \in Int : c[1] + n * 8 = z * W + low
  <2>. DEFINE s == c[1] + n * 8
  <2>1. s \in Int
    BY <1>4
  <2>. HIDE DEF s
  <2>2. PICK z \in Int : s = z * W + (s % W)
    BY <1>1, <2>1, Divides
  <2>. QED  BY <2>2 DEF s
<1>6. low \in Nat
  BY <1>1, <1>4
<1>. HIDE DEF low
<1>7. low = 8 * ((m + n) - (j + z * q) * BlockLen) /\ j + z * q \in Int
  <2>1. z * W = 8 * ((z * q) * BlockLen)
    BY <1>1, <1>3
  <2>2. z * q \in Int
    OBVIOUS
  <2>. DEFINE y == z * q
  <2>. HIDE DEF y
  <2>3. y \in Int /\ c[1] + n * 8 = 8 * (y * BlockLen) + low
    BY <1>5, <2>1, <2>2 DEF y
  <2>4. /\ y * BlockLen \in Int /\ j * BlockLen \in Int
        /\ (j + y) * BlockLen = j * BlockLen + y * BlockLen
    BY <1>1, <2>3
  <2>5. low = 8 * ((m + n) - (j + y) * BlockLen)
    <3>. DEFINE u == j * BlockLen
                v == y * BlockLen
                w == (j + y) * BlockLen
    <3>1. u \in Int /\ v \in Int /\ w = u + v /\ c[1] = 8 * (m - u) /\ c[1] + n * 8 = 8 * v + low
      BY <1>2, <2>3, <2>4
    <3>. HIDE DEF u, v, w
    <3>2. low = 8 * ((m + n) - w)
      BY <1>2, <1>6, <3>1
    <3>. QED  BY <3>2 DEF w
  <2>. QED  BY <2>3, <2>5 DEF y
<1>8. Md5!Counted(c, n)[1] = low
  BY DEF Md5!Counted, low, W
<1>. QED  BY <1>6, <1>7, <1>8 DEF Counts

LEMMA RemainderAtMost ==
    ASSUME NEW B \in Nat \ {0}, NEW n \in Nat
    PROVE  n % B \in 0 .. B - 1 /\ n % B <= n
<1>. DEFINE r == n % B
<1>1. r \in 0 .. B - 1
  OBVIOUS
<1>2. PICK j \in Int : n = j * B + r
  <2>1. n \in Int
    OBVIOUS
  <2>. QED  BY <2>1, Divides
<1>. HIDE DEF r
<1>3. j < 0 => j * B <= - B
  OBVIOUS
<1>4. j >= 0 => j * B >= 0
  OBVIOUS
<1>. DEFINE p == j * B
<1>5. p \in Int
  OBVIOUS
<1>. HIDE DEF p
<1>6. n = p + r /\ (j < 0 => p <= - B) /\ (j >= 0 => p >= 0)
  BY <1>2, <1>3, <1>4 DEF p
<1>7. r <= n
  BY <1>1, <1>5, <1>6
<1>. QED  BY <1>1, <1>7 DEF r

\* What a context has been fed: the blocks and the filled part of the buffer.
Fed(S, ctx, m) ==
    /\ ctx.out \in Seq(S) /\ m \in Seq(S) /\ ctx.buffer \in [1 .. BlockLen -> S]
    /\ Counts(ctx.count[1], Len(m))
    /\ ctx.out \o SubSeq(ctx.buffer, 1, Len(m) % BlockLen) = m

LEMMA AsSequence ==
    ASSUME NEW S, NEW N \in Nat, NEW f \in [1 .. N -> S]
    PROVE  f \in Seq(S) /\ Len(f) = N
OBVIOUS

LEMMA FirstOf ==
    ASSUME NEW S, NEW N \in Nat, NEW f \in [1 .. N -> S], NEW n \in 0 .. N
    PROVE  /\ SubSeq(f, 1, n) \in Seq(S) /\ Len(SubSeq(f, 1, n)) = n
           /\ \A k \in 1 .. n : SubSeq(f, 1, n)[k] = f[k]
<1>1. 1 \in Int /\ n \in Int /\ \A i \in 1 .. n : f[i] \in S
  OBVIOUS
<1>2. /\ SubSeq(f, 1, n) \in Seq(S)
      /\ Len(SubSeq(f, 1, n)) = IF 1 <= n THEN n - 1 + 1 ELSE 0
      /\ \A i \in 1 .. n - 1 + 1 : SubSeq(f, 1, n)[i] = f[1 + i - 1]
  BY <1>1, SubSeqProperties
<1>. QED  BY <1>2

\* A piece that does not fill the block is put behind what the buffer has.
LEMMA PieceBuffered ==
    ASSUME Md5Words, NEW S, NEW ctx, NEW m, NEW t \in Seq(S), Fed(S, ctx, m),
           Len(t) < BlockLen - (Len(m) % BlockLen)
    PROVE  Fed(S, Md5!Updated(ctx, t), m \o t)
<1>. DEFINE B == BlockLen
            L == Len(t)
            N == Len(m)
            h == N % B
            new == Md5!Updated(ctx, t)
<1>1. B \in Nat \ {0} /\ N \in Nat /\ L \in Nat /\ h \in 0 .. B - 1 /\ L < B - h
  <2>1. B \in Nat \ {0} /\ N \in Nat /\ L \in Nat
    BY LenProperties DEF Md5Words, Md5!Md5Assumption, Fed
  <2>. QED  BY <2>1, RemainderAtMost
<1>2. Md5!Have(ctx.count) = h
  BY <1>1, HaveIs DEF Fed
<1>3. /\ new.count = Md5!Counted(ctx.count, L)
      /\ new.buffer = [k \in 1 .. B |-> IF k \in h + 1 .. h + L THEN t[k - h] ELSE ctx.buffer[k]]
      /\ new.out = ctx.out
  BY <1>1, <1>2 DEF Md5!Updated
<1>4. Counts(new.count[1], N + L)
  BY <1>1, <1>3, CountedIs DEF Fed
<1>5. (N + L) % B = h + L
  <2>1. N \in Int
    BY <1>1
  <2>2. PICK j \in Int : N = j * B + h
    BY <1>1, <2>1, Divides
  <2>. DEFINE p == j * B
  <2>3. p \in Int /\ N = p + h
    BY <1>1, <2>2
  <2>. HIDE DEF p
  <2>4. N + L = p + (h + L) /\ h + L \in 0 .. B - 1
    BY <1>1, <2>3
  <2>5. (p + (h + L)) % B = h + L
    BY <1>1, <2>4, QuotientIs DEF p
  <2>. QED  BY <2>4, <2>5
<1>. HIDE DEF h, new
<1>6. ctx.out \in Seq(S) /\ m \in Seq(S) /\ ctx.buffer \in [1 .. B -> S]
  BY DEF Fed
<1>7. m \o t \in Seq(S) /\ Len(m \o t) = N + L
  BY <1>6, ConcatProperties
<1>8. new.buffer \in [1 .. B -> S]
  <2>1. \A k \in h + 1 .. h + L : t[k - h] \in S
    <3>. TAKE k \in h + 1 .. h + L
    <3>1. k - h \in 1 .. L
      BY <1>1
    <3>. QED  BY <3>1, ElementOfSeq
  <2>. QED  BY <1>3, <1>6, <2>1
<1>. DEFINE old == SubSeq(ctx.buffer, 1, h)
            now == SubSeq(new.buffer, 1, h + L)
<1>9. /\ old \in Seq(S) /\ Len(old) = h /\ \A k \in 1 .. h : old[k] = ctx.buffer[k]
  BY <1>1, <1>6, FirstOf
<1>10. h + L \in 0 .. B
  BY <1>1
<1>11. /\ now \in Seq(S) /\ Len(now) = h + L /\ \A k \in 1 .. h + L : now[k] = new.buffer[k]
  BY <1>1, <1>8, <1>10, FirstOf
<1>12. ctx.out \o old = m
  BY DEF Fed, h
<1>. HIDE DEF old, now
<1>13. /\ old \o t \in Seq(S) /\ Len(old \o t) = h + L
       /\ \A i \in 1 .. h + L : (old \o t)[i] = IF i <= h THEN old[i] ELSE t[i - h]
  <2>1. /\ old \o t \in Seq(S) /\ Len(old \o t) = Len(old) + L
        /\ \A i \in 1 .. Len(old) + L : (old \o t)[i] = IF i <= Len(old) THEN old[i] ELSE t[i - Len(old)]
    BY <1>9, ConcatProperties
  <2>. QED  BY <1>9, <2>1
<1>14. now = old \o t
  <2>1. \A i \in 1 .. Len(now) : now[i] = (old \o t)[i]
    <3>. SUFFICES ASSUME NEW i \in 1 .. h + L PROVE now[i] = (old \o t)[i]
      BY <1>11
    <3>0. i \in 1 .. B /\ i \in Int
      BY <1>1
    <3>1. now[i] = IF i \in h + 1 .. h + L THEN t[i - h] ELSE ctx.buffer[i]
      BY <1>3, <1>11, <3>0
    <3>2. (old \o t)[i] = IF i <= h THEN old[i] ELSE t[i - h]
      BY <1>13
    <3>3. i <= h => old[i] = ctx.buffer[i] /\ i \notin h + 1 .. h + L
      BY <1>1, <1>9, <3>0
    <3>4. ~ (i <= h) => i \in h + 1 .. h + L
      BY <1>1, <3>0
    <3>. QED  BY <3>1, <3>2, <3>3, <3>4
  <2>. QED  BY <1>11, <1>13, <2>1, SeqEqual
<1>15. ctx.out \o (old \o t) = m \o t
  <2>. DEFINE blocks == ctx.out
  <2>1. blocks \in Seq(S) /\ old \in Seq(S) /\ t \in Seq(S)
    BY <1>6, <1>9
  <2>. HIDE DEF blocks
  <2>2. (blocks \o old) \o t = blocks \o (old \o t)
    BY <2>1, ConcatAssociative
  <2>. QED  BY <1>12, <2>2 DEF blocks
<1>16. new.out \o now = m \o t
  BY <1>3, <1>14, <1>15
<1>. QED  BY <1>3, <1>4, <1>5, <1>6, <1>7, <1>8, <1>16 DEF Fed, now, new

\* A piece that fills the block completes it, with the blocks the piece has
\* whole, and leaves its own rest in the buffer.
LEMMA PieceTransformed ==
    ASSUME Md5Words, NEW S, NEW ctx, NEW m, NEW t \in Seq(S), Fed(S, ctx, m),
           Len(t) >= BlockLen - (Len(m) % BlockLen)
    PROVE  Fed(S, Md5!Updated(ctx, t), m \o t)
<1>. DEFINE B == BlockLen
            L == Len(t)
            N == Len(m)
            h == N % B
            x == (L - (B - h)) % B
            rest == SubSeq(t, L - x + 1, L)
            new == Md5!Updated(ctx, t)
<1>1. B \in Nat \ {0} /\ N \in Nat /\ L \in Nat /\ h \in 0 .. B - 1 /\ L - (B - h) \in Nat
  <2>1. B \in Nat \ {0} /\ N \in Nat /\ L \in Nat
    BY LenProperties DEF Md5Words, Md5!Md5Assumption, Fed
  <2>2. h \in 0 .. B - 1
    BY <2>1, RemainderAtMost
  <2>3. L >= B - h
    OBVIOUS
  <2>. HIDE DEF h, N, L, B
  <2>. QED  BY <2>1, <2>2, <2>3
<1>2. Md5!Have(ctx.count) = h
  BY <1>1, HaveIs DEF Fed
<1>3. x \in 0 .. B - 1 /\ x <= L
  <2>1. x \in 0 .. B - 1 /\ x <= L - (B - h)
    BY <1>1, RemainderAtMost
  <2>. HIDE DEF x
  <2>. QED  BY <1>1, <2>1
<1>4. (N + L) % B = x
  <2>0. N \in Int /\ L - (B - h) \in Int
    BY <1>1
  <2>1. PICK j \in Int : N = j * B + h
    BY <1>1, <2>0, Divides
  <2>2. PICK i \in Int : L - (B - h) = i * B + x
    BY <1>1, <2>0, Divides
  <2>. HIDE DEF x, h
  <2>3. (j + i + 1) * B = j * B + i * B + B
    BY <1>1
  <2>. DEFINE p == j * B
              q == i * B
              y == (j + i + 1) * B
  <2>4. p \in Int /\ q \in Int /\ N = p + h /\ L - (B - h) = q + x /\ y = p + q + B
    BY <1>1, <2>1, <2>2, <2>3
  <2>. HIDE DEF p, q, y
  <2>5. N + L = y + x
    BY <1>1, <1>3, <2>4
  <2>6. j + i + 1 \in Int
    OBVIOUS
  <2>7. (y + x) % B = x
    BY <1>1, <1>3, <2>6, QuotientIs DEF y
  <2>. QED  BY <2>5, <2>7
<1>5. ctx.out \in Seq(S) /\ m \in Seq(S) /\ ctx.buffer \in [1 .. B -> S]
  BY DEF Fed
<1>. HIDE DEF x
<1>6. rest \in Seq(S) /\ Len(rest) = x
  <2>1. L - x + 1 \in Int /\ L \in Int /\ \A i \in L - x + 1 .. L : i \in 1 .. L
    BY <1>1, <1>3
  <2>2. \A i \in L - x + 1 .. L : t[i] \in S
    BY <2>1, ElementOfSeq
  <2>3. /\ rest \in Seq(S)
        /\ Len(rest) = IF L - x + 1 <= L THEN L - (L - x + 1) + 1 ELSE 0
    BY <2>1, <2>2, SubSeqProperties
  <2>. HIDE DEF rest
  <2>. QED  BY <1>1, <1>3, <2>3
<1>7. /\ new.count = Md5!Counted(ctx.count, L)
      /\ new.buffer = [k \in 1 .. B |-> IF k \in 0 + 1 .. 0 + Len(rest) THEN rest[k - 0] ELSE ctx.buffer[k]]
      /\ new.out = ctx.out \o SubSeq(ctx.buffer, 1, h) \o SubSeq(t, 1, L - Len(rest))
  <2>1. Md5!Kept(t, B - h) = rest
    BY DEF Md5!Kept, x
  <2>2. ~ (L < B - h)
    <3>. HIDE DEF h
    <3>. QED  BY <1>1
  <2>. HIDE DEF h, rest
  <2>. QED  BY <1>2, <2>1, <2>2 DEF Md5!Updated
<1>8. Counts(new.count[1], N + L)
  BY <1>1, <1>7, CountedIs DEF Fed
<1>. DEFINE old == SubSeq(ctx.buffer, 1, h)
            first == SubSeq(t, 1, L - x)
            now == SubSeq(new.buffer, 1, x)
<1>9. ctx.out \o old = m
  BY DEF Fed
<1>. HIDE DEF h, new
<1>10. m \o t \in Seq(S) /\ Len(m \o t) = N + L
  BY <1>5, ConcatProperties
<1>11. L - x \in 0 .. L /\ x \in 0 .. L
  BY <1>1, <1>3
<1>12. t \in [1 .. L -> S]
  BY LenProperties
<1>13. first \in Seq(S)
  BY <1>1, <1>11, <1>12, FirstOf
<1>14. first \o rest = t
  <2>1. 1 \in 1 .. L + 1 /\ L - x \in 1 - 1 .. L /\ L \in L - x .. L
    BY <1>1, <1>11
  <2>2. SubSeq(t, 1, L - x) \o SubSeq(t, L - x + 1, L) = SubSeq(t, 1, L)
    BY <2>1, ConcatAdjacentSubSeq
  <2>3. SubSeq(t, 1, L) = t
    BY SubSeqFull
  <2>. QED  BY <2>2, <2>3
<1>. HIDE DEF first, rest
<1>15. \A k \in 1 .. x : rest[k - 0] = rest[k] /\ rest[k] \in S
  BY <1>6, ElementOfSeq
<1>16. new.buffer \in [1 .. B -> S]
  <2>1. \A k \in 0 + 1 .. 0 + Len(rest) : rest[k - 0] \in S
    BY <1>6, <1>11, <1>15
  <2>. QED  BY <1>5, <1>7, <2>1
<1>17. now \in Seq(S) /\ Len(now) = x /\ \A k \in 1 .. x : now[k] = new.buffer[k]
  <2>1. x \in 0 .. B
    BY <1>1, <1>3
  <2>. QED  BY <1>1, <1>16, <2>1, FirstOf
<1>18. now = rest
  <2>1. \A k \in 1 .. x : new.buffer[k] = rest[k]
    <3>1. \A k \in 1 .. x : k \in 1 .. B /\ k \in 0 + 1 .. 0 + Len(rest)
      BY <1>1, <1>3, <1>6
    <3>. QED  BY <1>7, <1>15, <3>1
  <2>. HIDE DEF now
  <2>2. \A k \in 1 .. Len(now) : now[k] = rest[k]
    BY <1>17, <2>1
  <2>. QED  BY <1>6, <1>17, <2>2, SeqEqual
<1>19. new.out \o now = m \o t
  <2>1. new.out = m \o first
    BY <1>6, <1>7, <1>9 DEF first
  <2>2. (m \o first) \o rest = m \o (first \o rest)
    <3>1. m \in Seq(S) /\ first \in Seq(S) /\ rest \in Seq(S)
      BY <1>5, <1>6, <1>13
    <3>2. \A a, b, c \in Seq(S) : (a \o b) \o c = a \o (b \o c)
      BY ConcatAssociative
    <3>. QED  BY <3>1, <3>2, Zenon
  <2>. QED  BY <1>14, <1>18, <2>1, <2>2
<1>20. new.out \in Seq(S)
  <2>1. new.out = m \o first
    BY <1>6, <1>7, <1>9 DEF first
  <2>. QED  BY <1>5, <1>13, <2>1, ConcatProperties
<1>. QED  BY <1>4, <1>8, <1>10, <1>16, <1>19, <1>20 DEF Fed, now, new

LEMMA PieceFed ==
    ASSUME Md5Words, NEW S, NEW ctx, NEW m, NEW t \in Seq(S), Fed(S, ctx, m)
    PROVE  Fed(S, Md5!Updated(ctx, t), m \o t)
<1>1. Len(t) \in Nat /\ Len(m) \in Nat /\ BlockLen \in Nat \ {0}
  BY LenProperties DEF Fed, Md5Words, Md5!Md5Assumption
<1>2. Len(m) % BlockLen \in Int
  BY <1>1
<1>3. Len(t) < BlockLen - (Len(m) % BlockLen) \/ Len(t) >= BlockLen - (Len(m) % BlockLen)
  <2>. DEFINE h == Len(m) % BlockLen
  <2>. HIDE DEF h
  <2>1. h \in Int
    BY <1>2 DEF h
  <2>2. Len(t) < BlockLen - h \/ Len(t) >= BlockLen - h
    BY <1>1, <2>1
  <2>. QED  BY <2>2 DEF h
<1>. QED  BY <1>3, PieceBuffered, PieceTransformed

\* The padding fills the last block, or the one after it.
LEMMA PadFills ==
    ASSUME Md5Words, NEW c, NEW n \in Nat, Counts(c[1], n)
    PROVE  /\ Md5!PadLen(c) - Md5!CountBytes \in Nat \ {0} /\ Md5!CountBytes \in Nat
           /\ Md5!PadLen(c) \in Nat
           /\ (n + Md5!PadLen(c)) % BlockLen = 0
           /\ n + Md5!PadLen(c) = ((n + Md5!CountBytes) \div BlockLen + 1) * BlockLen
<1>. DEFINE B == BlockLen
            C == Md5!CountBytes
            h == n % B
            P == Md5!PadLen(c)
<1>1. B \in Nat \ {0} /\ C \in Nat /\ C <= B
  BY DEF Md5Words, Md5!Md5Assumption, Md5!CountBytes
<1>2. h \in 0 .. B - 1
  BY <1>1, RemainderAtMost
<1>3. PICK j \in Int : n = j * B + h
  <2>1. n \in Int
    OBVIOUS
  <2>. QED  BY <1>1, <2>1, Divides
<1>4. P = IF B - h < 1 + C THEN (B - h) + B ELSE B - h
  BY HaveIs DEF Md5!PadLen
<1>. HIDE DEF B, C, h, P
<1>. DEFINE p == j * B
<1>5. p \in Int /\ n = p + h
  BY <1>1, <1>3
<1>6. (j + 1) * B = p + B /\ (j + 2) * B = p + B + B
  BY <1>1
<1>. HIDE DEF p
<1>7. P \in Nat /\ P - C \in Nat \ {0}
  BY <1>1, <1>2, <1>4
<1>8. CASE B - h < 1 + C
  <2>. DEFINE r == h + C - B
  <2>1. r \in 0 .. B - 1 /\ n + C = (p + B) + r /\ n + P = p + B + B
    BY <1>1, <1>2, <1>4, <1>5, <1>8
  <2>. HIDE DEF r
  <2>2. ((j + 1) * B + r) \div B = j + 1
    BY <1>1, <2>1, QuotientIs
  <2>3. (n + C) \div B = j + 1
    BY <1>6, <2>1, <2>2
  <2>4. n + P = ((n + C) \div B + 1) * B
    <3>1. j + 1 + 1 = j + 2
      OBVIOUS
    <3>. QED  BY <1>6, <2>1, <2>3, <3>1
  <2>5. 0 \in 0 .. B - 1 /\ n + P = (j + 2) * B + 0
    BY <1>1, <1>5, <1>6, <2>1
  <2>6. ((j + 2) * B + 0) % B = 0
    BY <1>1, <2>5, QuotientIs
  <2>. QED  BY <1>1, <1>7, <2>4, <2>5, <2>6 DEF B, C, P
<1>9. CASE ~ (B - h < 1 + C)
  <2>. DEFINE r == h + C
  <2>1. r \in 0 .. B - 1 /\ n + C = p + r /\ n + P = p + B
    BY <1>1, <1>2, <1>4, <1>5, <1>9
  <2>. HIDE DEF r
  <2>2. (j * B + r) \div B = j
    BY <1>1, <2>1, QuotientIs
  <2>3. (n + C) \div B = j
    BY <2>1, <2>2 DEF p
  <2>4. n + P = ((n + C) \div B + 1) * B
    BY <1>6, <2>1, <2>3
  <2>5. 0 \in 0 .. B - 1 /\ n + P = (j + 1) * B + 0
    BY <1>1, <1>5, <1>6, <2>1
  <2>6. ((j + 1) * B + 0) % B = 0
    BY <1>1, <2>5, QuotientIs
  <2>. QED  BY <1>1, <1>7, <2>4, <2>5, <2>6 DEF B, C, P
<1>. QED  BY <1>8, <1>9

\* The bytes of a fed context that ends with a whole block have all been
\* transformed.
LEMMA AllTransformed ==
    ASSUME NEW S, NEW ctx, NEW m, Fed(S, ctx, m), Len(m) % BlockLen = 0
    PROVE  ctx.out = m
<1>1. SubSeq(ctx.buffer, 1, 0) = << >>
  <2>1. 1 \in Int /\ 0 \in Int /\ 0 < 1
    OBVIOUS
  <2>. QED  BY <2>1, SubSeqEmpty
<1>2. ctx.out \o << >> = m /\ ctx.out \in Seq(S)
  BY <1>1 DEF Fed
<1>. QED  BY <1>2, ConcatEmptySeq

IsPadding(pad, size) == pad = [k \in 1 .. size |-> IF k = 1 THEN Md5!Mark ELSE Md5!Zero]

\* What the padding looks like behind the message.
PaddedTo(whole, m, size, C) ==
    /\ Len(whole) = Len(m) + size + C
    /\ SubSeq(whole, 1, Len(m) + 1) = m \o <<Md5!Mark>>
    /\ \A k \in Len(m) + 2 .. Len(whole) - C : whole[k] = Md5!Zero

LEMMA PaddedLooks ==
    ASSUME NEW S, NEW m \in Seq(S), NEW size \in Nat \ {0}, NEW C \in Nat, NEW z \in Seq(S),
           Len(z) = C, Md5!Mark \in S, Md5!Zero \in S,
           NEW pad, IsPadding(pad, size)
    PROVE  PaddedTo((m \o pad) \o z, m, size, C)
<1>. DEFINE N == Len(m)
            whole == (m \o pad) \o z
<1>0. N \in Nat /\ size \in Int
  BY LenProperties
<1>1. /\ pad \in Seq(S) /\ Len(pad) = size
      /\ \A k \in 1 .. size : pad[k] = IF k = 1 THEN Md5!Mark ELSE Md5!Zero
  <2>1. pad \in [1 .. size -> S] /\ \A k \in 1 .. size : pad[k] = IF k = 1 THEN Md5!Mark ELSE Md5!Zero
    BY DEF IsPadding
  <2>. QED  BY <2>1, AsSequence
<1>2. /\ m \o pad \in Seq(S) /\ Len(m \o pad) = N + size
      /\ \A i \in 1 .. N + size : (m \o pad)[i] = IF i <= N THEN m[i] ELSE pad[i - N]
  <2>1. /\ m \o pad \in Seq(S) /\ Len(m \o pad) = N + Len(pad)
        /\ \A i \in 1 .. N + Len(pad) : (m \o pad)[i] = IF i <= N THEN m[i] ELSE pad[i - N]
    BY <1>1, ConcatProperties
  <2>. QED  BY <1>1, <2>1
<1>. DEFINE padded == m \o pad
<1>3. padded \in Seq(S) /\ Len(padded) = N + size
  BY <1>2
<1>. HIDE DEF padded
<1>4. /\ whole \in Seq(S) /\ Len(whole) = N + size + C
      /\ \A i \in 1 .. N + size + C : whole[i] = IF i <= N + size THEN padded[i] ELSE z[i - (N + size)]
  <2>1. whole = padded \o z
    BY DEF padded
  <2>2. /\ padded \o z \in Seq(S) /\ Len(padded \o z) = Len(padded) + Len(z)
        /\ \A i \in 1 .. Len(padded) + Len(z) :
              (padded \o z)[i] = IF i <= Len(padded) THEN padded[i] ELSE z[i - Len(padded)]
    BY <1>3, ConcatProperties
  <2>. QED  BY <1>3, <2>1, <2>2
<1>. HIDE DEF N, whole
<1>5. \A i \in 1 .. N : whole[i] = m[i]
  <2>. TAKE i \in 1 .. N
  <2>1. i \in 1 .. N + size /\ i \in 1 .. N + size + C /\ i <= N /\ i <= N + size
    BY <1>0
  <2>2. whole[i] = padded[i]
    BY <1>4, <2>1
  <2>3. padded[i] = m[i]
    BY <1>2, <2>1 DEF padded
  <2>. QED  BY <2>2, <2>3
<1>6. \A i \in N + 1 .. N + size : whole[i] = pad[i - N] /\ i - N \in 1 .. size
  <2>. TAKE i \in N + 1 .. N + size
  <2>1. i \in 1 .. N + size /\ i \in 1 .. N + size + C /\ ~ (i <= N) /\ i <= N + size /\ i - N \in 1 .. size
    BY <1>0
  <2>2. whole[i] = padded[i]
    BY <1>4, <2>1
  <2>3. padded[i] = pad[i - N]
    BY <1>2, <2>1 DEF padded
  <2>. QED  BY <2>1, <2>2, <2>3
<1>7. whole[N + 1] = Md5!Mark
  <2>1. N + 1 \in N + 1 .. N + size /\ (N + 1) - N = 1 /\ 1 \in 1 .. size
    BY <1>0
  <2>. QED  BY <1>1, <1>6, <2>1
<1>8. \A k \in N + 2 .. Len(whole) - C : whole[k] = Md5!Zero
  <2>. TAKE k \in N + 2 .. Len(whole) - C
  <2>1. k \in N + 1 .. N + size /\ k - N # 1
    BY <1>0, <1>4
  <2>. QED  BY <1>1, <1>6, <2>1
<1>9. SubSeq(whole, 1, N + 1) = m \o <<Md5!Mark>>
  <2>. DEFINE front == SubSeq(whole, 1, N + 1)
              back == m \o <<Md5!Mark>>
  <2>1. whole \in [1 .. N + size + C -> S] /\ N + size + C \in Nat /\ N + 1 \in 0 .. N + size + C
    <3>1. whole \in [1 .. Len(whole) -> S]
      BY <1>4, LenProperties
    <3>2. whole \in [1 .. N + size + C -> S]
      BY <1>4, <3>1
    <3>3. N + size + C \in Nat /\ N + 1 \in 0 .. N + size + C
      BY <1>0
    <3>. QED  BY <3>2, <3>3
  <2>2. front \in Seq(S) /\ Len(front) = N + 1 /\ \A k \in 1 .. N + 1 : front[k] = whole[k]
    <3>. DEFINE size2 == N + size + C
                last2 == N + 1
    <3>1. whole \in [1 .. size2 -> S] /\ size2 \in Nat /\ last2 \in 0 .. size2
      BY <2>1
    <3>. HIDE DEF size2, last2
    <3>2. /\ SubSeq(whole, 1, last2) \in Seq(S) /\ Len(SubSeq(whole, 1, last2)) = last2
          /\ \A k \in 1 .. last2 : SubSeq(whole, 1, last2)[k] = whole[k]
      BY <3>1, FirstOf
    <3>. QED  BY <3>2 DEF last2
  <2>3. <<Md5!Mark>> \in Seq(S) /\ Len(<<Md5!Mark>>) = 1 /\ <<Md5!Mark>>[1] = Md5!Mark
    OBVIOUS
  <2>4. /\ back \in Seq(S) /\ Len(back) = N + 1
        /\ \A i \in 1 .. N + 1 : back[i] = IF i <= N THEN m[i] ELSE <<Md5!Mark>>[i - N]
    <3>1. /\ back \in Seq(S) /\ Len(back) = N + Len(<<Md5!Mark>>)
          /\ \A i \in 1 .. N + Len(<<Md5!Mark>>) : back[i] = IF i <= N THEN m[i] ELSE <<Md5!Mark>>[i - N]
      BY <2>3, ConcatProperties DEF N
    <3>. QED  BY <2>3, <3>1
  <2>. HIDE DEF front, back
  <2>5. \A i \in 1 .. Len(front) : front[i] = back[i]
    <3>. SUFFICES ASSUME NEW i \in 1 .. N + 1 PROVE whole[i] = back[i]
      BY <2>2
    <3>1. CASE i <= N
      <4>1. i \in 1 .. N
        BY <1>0, <3>1
      <4>. QED  BY <1>5, <2>4, <3>1, <4>1
    <3>2. CASE ~ (i <= N)
      <4>1. i = N + 1 /\ i - N = 1
        BY <1>0, <3>2
      <4>. QED  BY <1>7, <2>3, <2>4, <3>2, <4>1
    <3>. QED  BY <3>1, <3>2
  <2>. QED  BY <2>2, <2>4, <2>5, SeqEqual DEF front, back
<1>. QED  BY <1>4, <1>8, <1>9 DEF N, whole, PaddedTo

Md5IInv == /\ message \in Seq(Int) /\ done \in BOOLEAN
           /\ ~ done => Fed(Int, Md5!Context, message)
           /\ done => Md5!WholeBlocks

\* What the two updates of mg_MD5Final leave.
LEMMA FinalWhole ==
    ASSUME Md5Words, Md5IInv, Md5!Final
    PROVE  Md5!WholeBlocks'
<1>. DEFINE C == Md5!CountBytes
            size == Md5!PadLen(count) - C
            padding == [k \in 1 .. size |-> IF k = 1 THEN Md5!Mark ELSE Md5!Zero]
            bytes == [k \in 1 .. C |-> Md5!CountByte(count, k - 1)]
            S == Int \cup {Md5!CountByte(count, k - 1) : k \in 1 .. C}
            one == Md5!Updated(Md5!Context, padding)
            two == Md5!Updated(one, bytes)
            N == Len(message)
<1>1. Fed(Int, Md5!Context, message) /\ message \in Seq(Int) /\ N \in Nat
  BY LenProperties DEF Md5!Final, Md5IInv
<1>2. transformed' = two.out /\ message' = message
  BY DEF Md5!Final, Md5!Becomes
<1>3. /\ size \in Nat \ {0} /\ C \in Nat /\ Md5!PadLen(count) \in Nat
      /\ (N + Md5!PadLen(count)) % BlockLen = 0
      /\ N + Md5!PadLen(count) = ((N + C) \div BlockLen + 1) * BlockLen
  <2>1. Counts(count[1], N)
    BY <1>1 DEF Fed, Md5!Context
  <2>. QED  BY <1>1, <2>1, PadFills
<1>. HIDE DEF C, size, N
<1>4. bytes \in Seq(S) /\ Len(bytes) = C
  <2>1. \A k \in 1 .. C : Md5!CountByte(count, k - 1) \in S
    OBVIOUS
  <2>2. bytes \in [1 .. C -> S]
    <3>. HIDE DEF S
    <3>. QED  BY <2>1, Zenon
  <2>. HIDE DEF S, bytes
  <2>. QED  BY <1>3, <2>2, AsSequence
<1>5. Int \subseteq S /\ Md5!Mark \in S /\ Md5!Zero \in S
  BY DEF Md5!Mark, Md5!Zero
<1>. HIDE DEF S, bytes
<1>6. padding \in Seq(S)
  BY <1>3, <1>5
<1>. HIDE DEF padding, one, two
<1>7. Fed(S, Md5!Context, message)
  <2>1. /\ Md5!Context.out \in Seq(S) /\ message \in Seq(S)
    BY <1>1, <1>5, SeqMonotonic DEF Fed
  <2>2. Md5!Context.buffer \in [1 .. BlockLen -> S]
    BY <1>1, <1>5 DEF Fed
  <2>. QED  BY <1>1, <2>1, <2>2 DEF Fed
<1>8. Fed(S, one, message \o padding)
  BY <1>6, <1>7, PieceFed DEF one
<1>9. Fed(S, two, (message \o padding) \o bytes)
  BY <1>4, <1>8, PieceFed DEF two
<1>. DEFINE whole == (message \o padding) \o bytes
<1>10. message \in Seq(S)
  BY <1>7 DEF Fed
<1>11. /\ Len(whole) = N + size + C
       /\ SubSeq(whole, 1, N + 1) = message \o <<Md5!Mark>>
       /\ \A k \in N + 2 .. Len(whole) - C : whole[k] = Md5!Zero
  <2>1. IsPadding(padding, size)
    BY DEF padding, IsPadding
  <2>2. PaddedTo((message \o padding) \o bytes, message, size, C)
    BY <1>3, <1>4, <1>5, <1>10, <2>1, PaddedLooks
  <2>. QED  BY <2>2 DEF N, PaddedTo
<1>. HIDE DEF whole
<1>12. N + size + C = N + Md5!PadLen(count)
  BY <1>1, <1>3 DEF size
<1>13. two.out = whole
  <2>1. Fed(S, two, whole) /\ Len(whole) % BlockLen = 0
    BY <1>3, <1>9, <1>11, <1>12 DEF whole
  <2>. QED  BY <2>1, AllTransformed
<1>14. transformed' = whole
  BY <1>2, <1>13
<1>. QED  BY <1>2, <1>3, <1>11, <1>12, <1>14 DEF Md5!WholeBlocks, N, C

\* mg_MD5Update, mg_MD5Final of mgmd5.c: until the end the blocks transformed and
\* the filled part of the buffer are the message, also when the count of bits has
\* wrapped; in the end the message, the mark, zeros and the count fill the fewest
\* whole blocks.
THEOREM PiecesDigested ==
    ASSUME Md5Words
    PROVE  Md5!Spec => [](Md5!NothingSkipped /\ Md5!WholeBlocks)
<1>1. Md5!Init => Md5IInv
  <2>. SUFFICES ASSUME Md5!Init PROVE Md5IInv
    OBVIOUS
  <2>1. /\ message = << >> /\ transformed = << >> /\ done = FALSE /\ count[1] = 0
        /\ buffer = [k \in 1 .. BlockLen |-> 0]
    BY DEF Md5!Init, Md5!Zero
  <2>2. BlockLen \in Nat \ {0}
    BY DEF Md5Words, Md5!Md5Assumption
  <2>3. << >> \in Seq(Int) /\ Len(<< >>) = 0
    BY EmptySeq
  <2>4. 0 % BlockLen = 0
    <3>1. 0 \in 0 .. BlockLen - 1 /\ 0 * BlockLen + 0 = 0
      BY <2>2
    <3>. QED  BY <2>2, <3>1, QuotientIs
  <2>5. Counts(0, 0)
    BY <2>2 DEF Counts
  <2>6. SubSeq(buffer, 1, 0) = << >>
    <3>1. 1 \in Int /\ 0 \in Int /\ 0 < 1
      OBVIOUS
    <3>. QED  BY <3>1, SubSeqEmpty
  <2>7. << >> \o << >> = << >>
    BY <2>3, ConcatEmptySeq
  <2>8. buffer \in [1 .. BlockLen -> Int]
    BY <2>1
  <2>9. Fed(Int, Md5!Context, message)
    BY <2>1, <2>3, <2>4, <2>5, <2>6, <2>7, <2>8 DEF Fed, Md5!Context
  <2>. QED  BY <2>1, <2>3, <2>9 DEF Md5IInv
<1>2. Md5IInv /\ [Md5!Next]_(Md5!vars) => Md5IInv'
  <2>. SUFFICES ASSUME Md5IInv, [Md5!Next]_(Md5!vars) PROVE Md5IInv'
    OBVIOUS
  <2>1. ASSUME NEW n \in Piece, Md5!Update(n) PROVE Md5IInv'
    <3>. DEFINE input == [k \in 1 .. n |-> Len(message) + k]
                ctx == Md5!Updated(Md5!Context, input)
    <3>1. /\ ~ done /\ done' = done /\ message' = message \o input
          /\ count' = ctx.count /\ buffer' = ctx.buffer /\ transformed' = ctx.out
      BY <2>1 DEF Md5!Update, Md5!Becomes
    <3>2. Fed(Int, Md5!Context, message) /\ done \in BOOLEAN /\ message \in Seq(Int)
      BY <3>1 DEF Md5IInv
    <3>3. n \in Nat /\ Len(message) \in Nat
      BY <3>2, LenProperties DEF Md5Words, Md5!Md5Assumption
    <3>4. input \in Seq(Int)
      BY <3>3
    <3>. HIDE DEF input
    <3>5. Fed(Int, ctx, message \o input)
      BY <3>2, <3>4, PieceFed
    <3>. HIDE DEF ctx
    <3>6. Md5!Context' = [count |-> ctx.count, buffer |-> ctx.buffer, out |-> ctx.out]
      BY <3>1 DEF Md5!Context
    <3>7. Fed(Int, Md5!Context', message')
      BY <3>1, <3>5, <3>6 DEF Fed
    <3>8. message' \in Seq(Int)
      BY <3>7 DEF Fed
    <3>. QED  BY <3>1, <3>2, <3>7, <3>8 DEF Md5IInv, Fed
  <2>2. CASE Md5!Final
    <3>1. done' = TRUE /\ message' = message
      BY <2>2 DEF Md5!Final
    <3>. QED  BY <2>2, <3>1, FinalWhole DEF Md5IInv
  <2>3. CASE UNCHANGED Md5!vars
    BY <2>3 DEF Md5IInv, Md5!vars, Md5!Context, Md5!WholeBlocks, Fed
  <2>. QED  BY <2>1, <2>2, <2>3 DEF Md5!Next
<1>3. Md5IInv => Md5!NothingSkipped /\ Md5!WholeBlocks
  <2>. SUFFICES ASSUME Md5IInv PROVE Md5!NothingSkipped /\ Md5!WholeBlocks
    OBVIOUS
  <2>1. CASE done
    BY <2>1 DEF Md5IInv, Md5!NothingSkipped
  <2>2. CASE ~ done
    <3>1. Fed(Int, Md5!Context, message) /\ Len(message) \in Nat
      BY <2>2, LenProperties DEF Md5IInv
    <3>2. Counts(count[1], Len(message))
      BY <3>1 DEF Fed, Md5!Context
    <3>3. Md5!Have(count) = Len(message) % BlockLen
      BY <3>1, <3>2, HaveIs
    <3>4. transformed \o SubSeq(buffer, 1, Len(message) % BlockLen) = message
      BY <3>1 DEF Fed, Md5!Context
    <3>. QED  BY <2>2, <3>3, <3>4 DEF Md5!NothingSkipped, Md5!WholeBlocks
  <2>. QED  BY <2>1, <2>2
<1>. QED  BY <1>1, <1>2, <1>3, PTL DEF Md5!Spec

CountIInv == /\ message \in Seq(Int) /\ Len(message) <= MaxLen
             /\ ~ done => count = <<8 * Len(message), 0>>

\* The count of mg_MD5Update (mgmd5.c): of a message whose bits one word can
\* count it is the number of bits.  A longer piece can hide a carry from the
\* comparison with its length (see section 7 of the README).
THEOREM BitsOfMessage ==
    ASSUME Md5Words, 8 * MaxLen < Md5!Word
    PROVE  Md5!Spec => []Md5!BitsCounted
<1>0. MaxLen \in Nat /\ Md5!Word \in Nat \ {0} /\ Piece \subseteq Nat
  BY DEF Md5Words, Md5!Md5Assumption
<1>. DEFINE W == Md5!Word
<1>. HIDE DEF W
<1>1. Md5!Init => CountIInv
  <2>1. << >> \in Seq(Int) /\ Len(<< >>) = 0
    BY EmptySeq
  <2>. QED  BY <1>0, <2>1 DEF Md5!Init, CountIInv
<1>2. \A x \in 0 .. W - 1 : x % W = x /\ x \div W = 0
  <2>. TAKE x \in 0 .. W - 1
  <2>1. W \in Nat \ {0} /\ 0 \in Int /\ 0 * W + x = x
    BY <1>0 DEF W
  <2>. QED  BY <2>1, QuotientIs
<1>3. CountIInv /\ [Md5!Next]_(Md5!vars) => CountIInv'
  <2>. SUFFICES ASSUME CountIInv, [Md5!Next]_(Md5!vars) PROVE CountIInv'
    OBVIOUS
  <2>0. Len(message) \in Nat /\ Len(message) <= MaxLen /\ message \in Seq(Int)
    BY LenProperties DEF CountIInv
  <2>1. ASSUME NEW n \in Piece, Md5!Update(n) PROVE CountIInv'
    <3>. DEFINE input == [k \in 1 .. n |-> Len(message) + k]
                L == Len(message)
    <3>1. n \in Nat /\ L \in Nat /\ L + n <= MaxLen /\ ~ done /\ count = <<8 * L, 0>>
      BY <1>0, <2>0, <2>1 DEF Md5!Update, CountIInv
    <3>2. input \in Seq(Int) /\ Len(input) = n
      BY <3>1
    <3>. HIDE DEF input
    <3>3. message' = message \o input /\ count' = Md5!Counted(count, n)
      <4>1. count' = Md5!Counted(count, Len(input)) /\ message' = message \o input
        BY <2>1 DEF Md5!Update, Md5!Becomes, Md5!Updated, Md5!Context, input
      <4>. QED  BY <3>2, <4>1
    <3>4. message' \in Seq(Int) /\ Len(message') = L + n
      <4>1. message \o input \in Seq(Int) /\ Len(message \o input) = L + Len(input)
        BY <2>0, <3>2, ConcatProperties
      <4>. QED  BY <3>2, <3>3, <4>1
    <3>. HIDE DEF L
    <3>5. /\ 8 * L + n * 8 \in 0 .. W - 1 /\ n \in 0 .. W - 1 /\ n * 8 \in 0 .. W - 1
          /\ 0 \in 0 .. W - 1
      BY <1>0, <3>1 DEF W
    <3>6. /\ (8 * L + n * 8) % W = 8 * L + n * 8 /\ n % W = n /\ (n * 8) \div W = 0 /\ 0 % W = 0
      BY <1>2, <3>5
    <3>7. ~ (8 * L + n * 8 < n)
      BY <3>1
    <3>8. Md5!Counted(<<8 * L, 0>>, n) = <<8 * L + n * 8, 0>>
      <4>1. Md5!Counted(<<8 * L, 0>>, n) =
              <<(8 * L + n * 8) % W,
                (0 + (IF (8 * L + n * 8) % W < n % W THEN 1 ELSE 0) + ((n % W) * 8) \div W) % W>>
        BY DEF Md5!Counted, W
      <4>. QED  BY <3>6, <3>7, <4>1
    <3>9. 8 * L + n * 8 = 8 * (L + n)
      BY <3>1
    <3>. QED  BY <3>1, <3>3, <3>4, <3>8, <3>9 DEF CountIInv
  <2>2. CASE Md5!Final
    <3>1. done' = TRUE /\ message' = message
      BY <2>2 DEF Md5!Final
    <3>. QED  BY <3>1 DEF CountIInv
  <2>3. CASE UNCHANGED Md5!vars
    BY <2>3 DEF CountIInv, Md5!vars
  <2>. QED  BY <2>1, <2>2, <2>3 DEF Md5!Next
<1>4. CountIInv => Md5!BitsCounted
  <2>. SUFFICES ASSUME CountIInv, ~ done PROVE count = <<(8 * Len(message)) % W, ((8 * Len(message)) \div W) % W>>
    BY DEF Md5!BitsCounted, W
  <2>. DEFINE L == Len(message)
  <2>1. L \in Nat /\ L <= MaxLen /\ count = <<8 * L, 0>>
    BY LenProperties DEF CountIInv
  <2>. HIDE DEF L
  <2>2. 8 * L \in 0 .. W - 1 /\ 0 \in 0 .. W - 1
    BY <1>0, <2>1 DEF W
  <2>3. (8 * L) % W = 8 * L /\ (8 * L) \div W = 0 /\ 0 % W = 0
    BY <1>2, <2>2
  <2>. QED  BY <2>1, <2>3 DEF L
<1>. QED  BY <1>1, <1>3, <1>4, PTL DEF Md5!Spec

-------------------------------------------------------------------------------
(* mg_encode_base64, for every message and length of a line.                  *)

CONSTANTS Octets, MaxBytes, Chars, MaxChars, Before, MaxLine
VARIABLES at, left, chunk, r, rlen
B64 == INSTANCE MgBase64

\* The groups of a full line.
PerLine == MaxLine \div 4

LEMMA LineOfGroups ==
    ASSUME B64!Base64Assumption
    PROVE  PerLine \in Nat \ {0} /\ MaxLine = 4 * PerLine
BY DEF B64!Base64Assumption, PerLine

LEMMA DivAtLeast ==
    ASSUME NEW x \in Nat, NEW y \in Nat \ {0}, NEW k \in Nat, k * y <= x
    PROVE  k <= x \div y /\ x \div y \in Nat
<1>1. x \div y \in Nat /\ x = y * (x \div y) + (x % y) /\ x % y \in 0 .. y - 1
  OBVIOUS
<1>. DEFINE q == x \div y
            m == x % y
<1>2. q \in Nat /\ m \in 0 .. y - 1 /\ x = y * q + m
  BY <1>1
<1>. HIDE DEF q, m
<1>3. SUFFICES ASSUME q < k PROVE FALSE
  BY <1>2 DEF q
<1>. DEFINE e == k - q - 1
<1>4. e \in Nat /\ k = q + 1 + e
  BY <1>2, <1>3
<1>. HIDE DEF e
<1>5. k * y = q * y + y + e * y /\ e * y \in Nat /\ y * q = q * y
  BY <1>2, <1>4
<1>. DEFINE p1 == q * y
            p2 == e * y
            p3 == k * y
<1>. HIDE DEF p1, p2, p3
<1>6. p3 = p1 + y + p2 /\ p2 \in Nat /\ p3 <= x /\ x = p1 + m
  BY <1>2, <1>5 DEF p1, p2, p3
<1>7. p1 \in Int
  BY <1>2 DEF p1
<1>. QED  BY <1>2, <1>6, <1>7

\* The room counts every group and every line that can be full.
LEMMA RoomFor ==
    ASSUME B64!Base64Assumption, NEW len \in Nat, NEW n \in Nat, NEW k \in Nat, NEW c \in Nat,
           n = k * PerLine + c, 3 * n <= len + 2
    PROVE  4 * n + k + 2 <= B64!EncodeRoom(len) /\ B64!EncodeRoom(len) \in Nat
<1>1. PerLine \in Nat \ {0} /\ MaxLine = 4 * PerLine /\ MaxLine \in Nat \ {0}
  BY LineOfGroups
<1>. DEFINE chars == ((len + 2) \div 3) * 4
            full == k * PerLine
<1>2. chars \in Nat /\ 4 * n <= chars
  OBVIOUS
<1>. HIDE DEF chars
<1>3. full \in Nat /\ n = full + c
  BY <1>1
<1>4. k * MaxLine = 4 * full
  BY <1>1
<1>5. k * MaxLine <= chars
  <2>. HIDE DEF full
  <2>. QED  BY <1>2, <1>3, <1>4
<1>6. k <= chars \div MaxLine /\ chars \div MaxLine \in Nat
  BY <1>1, <1>2, <1>5, DivAtLeast
<1>7. B64!EncodeRoom(len) = chars + 1 + (chars \div MaxLine + 1)
  BY DEF B64!EncodeRoom, chars
<1>. DEFINE lines == chars \div MaxLine
<1>. HIDE DEF lines
<1>8. k <= lines /\ lines \in Nat /\ B64!EncodeRoom(len) = chars + 1 + (lines + 1)
  BY <1>6, <1>7 DEF lines
<1>. QED  BY <1>2, <1>8

Sym == 0 .. 255

\* A group is four characters, none of them the end of a line.
FourOf(s) == s \in Seq(Sym) /\ Len(s) = 4 /\ \A x \in 1 .. 4 : s[x] # B64!Eol

Joined(v1, v2, v3, v4) == <<v1, v2>> \o <<v3, v4>>

LEMMA PairsJoin ==
    ASSUME NEW v1 \in 0 .. 254, NEW v2 \in 0 .. 254, NEW v3 \in 0 .. 254, NEW v4 \in 0 .. 254
    PROVE  FourOf(Joined(v1, v2, v3, v4))
<1>. DEFINE s == <<v1, v2>>
            t == <<v3, v4>>
            u == s \o t
<1>1. s \in Seq(Sym) /\ t \in Seq(Sym) /\ Len(s) = 2 /\ Len(t) = 2
  BY DEF Sym
<1>2. s[1] = v1 /\ s[2] = v2 /\ t[1] = v3 /\ t[2] = v4
  OBVIOUS
<1>. HIDE DEF s, t
<1>3. /\ u \in Seq(Sym) /\ Len(u) = Len(s) + Len(t)
      /\ \A x \in 1 .. Len(s) + Len(t) : u[x] = IF x <= Len(s) THEN s[x] ELSE t[x - Len(s)]
  BY <1>1, ConcatProperties
<1>. HIDE DEF u
<1>4. Len(u) = 4 /\ \A x \in 1 .. 4 : u[x] = IF x <= 2 THEN s[x] ELSE t[x - 2]
  BY <1>1, <1>3
<1>5. u[1] = v1 /\ u[2] = v2 /\ u[3] = v3 /\ u[4] = v4
  BY <1>2, <1>4
<1>6. \A x \in 1 .. 4 : x = 1 \/ x = 2 \/ x = 3 \/ x = 4
  OBVIOUS
<1>7. \A x \in 1 .. 4 : u[x] # 255
  BY <1>5, <1>6
<1>8. FourOf(u)
  BY <1>3, <1>4, <1>7 DEF FourOf, B64!Eol, B64!INVALID
<1>. QED  BY <1>8 DEF u, s, t, Joined

\* The characters of a group; Short is the third one of two bytes.
First(x) == x \div 4
Second(x, y) == (x % 4) * 16 + y \div 16
Short(y) == (y % 16) * 4
Third(y, z) == (y % 16) * 4 + z \div 64
Fourth(z) == z % 64

LEMMA OneByte ==
    ASSUME NEW x \in 0 .. 255
    PROVE  First(x) \in 0 .. 254 /\ Short(x) \in 0 .. 254 /\ Fourth(x) \in 0 .. 254
<1>1. x \div 4 \in 0 .. 63 /\ x % 16 \in 0 .. 15 /\ x % 64 \in 0 .. 63
  OBVIOUS
<1>. DEFINE m == x % 16
<1>. HIDE DEF m
<1>2. m * 4 \in 0 .. 254
  BY <1>1 DEF m
<1>. QED  BY <1>1, <1>2 DEF m, First, Short, Fourth

LEMMA TwoBytes ==
    ASSUME NEW x \in 0 .. 255, NEW y \in 0 .. 255
    PROVE  Second(x, y) \in 0 .. 254 /\ Third(x, y) \in 0 .. 254
<1>1. y \div 16 \in 0 .. 15 /\ y \div 64 \in 0 .. 3 /\ x % 4 \in 0 .. 3 /\ x % 16 \in 0 .. 15
  OBVIOUS
<1>. DEFINE q == y \div 16
            q3 == y \div 64
            m == x % 4
            m2 == x % 16
<1>2. q \in 0 .. 15 /\ q3 \in 0 .. 3 /\ m \in 0 .. 3 /\ m2 \in 0 .. 15
  BY <1>1
<1>. HIDE DEF q, q3, m, m2
<1>3. m * 16 + q \in 0 .. 254 /\ m2 * 4 + q3 \in 0 .. 254
  BY <1>2
<1>. QED  BY <1>3 DEF q, q3, m, m2, Second, Third

LEMMA GroupIs ==
    ASSUME B64!Base64Assumption, NEW g \in Seq(Octets), Len(g) \in 1 .. 3, NEW c2 \in Octets
    PROVE  FourOf(B64!Group(g, c2))
<1>1. Octets \subseteq 0 .. 255
  BY DEF B64!Base64Assumption
<1>2. g[1] \in 0 .. 255 /\ c2 \in 0 .. 255 /\ (Len(g) = 3 => g[3] \in 0 .. 255)
  <2>. DEFINE n == Len(g)
  <2>0. n \in 1 .. 3
    OBVIOUS
  <2>. HIDE DEF n
  <2>a. 1 \in 1 .. n /\ (n = 3 => 3 \in 1 .. n)
    BY <2>0
  <2>1. 1 \in 1 .. Len(g) /\ (Len(g) = 3 => 3 \in 1 .. Len(g))
    BY <2>a DEF n
  <2>2. g[1] \in Octets /\ (Len(g) = 3 => g[3] \in Octets)
    BY <2>1, ElementOfSeq
  <2>. QED  BY <1>1, <2>2
<1>. DEFINE c1 == g[1]
            c3 == g[3]
            v1 == First(c1)
            v2 == Second(c1, c2)
            v3 == Short(c2)
<1>3. c1 \in 0 .. 255 /\ (Len(g) = 3 => c3 \in 0 .. 255)
  BY <1>2
<1>4. v1 \in 0 .. 254 /\ v2 \in 0 .. 254 /\ v3 \in 0 .. 254 /\ B64!EQ \in 0 .. 254
  <2>1. v1 \in 0 .. 254 /\ v2 \in 0 .. 254 /\ v3 \in 0 .. 254
    <3>. HIDE DEF c1
    <3>1. c1 \in 0 .. 255 /\ c2 \in 0 .. 255
      BY <1>2, <1>3
    <3>2. First(c1) \in 0 .. 254 /\ Short(c2) \in 0 .. 254
      BY <3>1, OneByte
    <3>3. Second(c1, c2) \in 0 .. 254
      <4>1. Second(c1, c2) \in 0 .. 254 /\ Third(c1, c2) \in 0 .. 254
        BY <3>1, TwoBytes
      <4>. QED  BY <4>1
    <3>. QED  BY <3>2, <3>3
  <2>. QED  BY <2>1 DEF B64!EQ
<1>. HIDE DEF c1, c3
<1>5. CASE Len(g) = 1
  <2>1. B64!Group(g, c2) = Joined(v1, v2, B64!EQ, B64!EQ)
    BY <1>5 DEF B64!Group, c1, Joined, First, Second, Short
  <2>. HIDE DEF v1, v2, v3
  <2>2. FourOf(Joined(v1, v2, B64!EQ, B64!EQ))
    BY <1>4, PairsJoin
  <2>. QED  BY <2>1, <2>2
<1>6. CASE Len(g) = 2
  <2>1. B64!Group(g, c2) = Joined(v1, v2, v3, B64!EQ)
    BY <1>6 DEF B64!Group, c1, Joined, First, Second, Short
  <2>. HIDE DEF v1, v2, v3
  <2>2. FourOf(Joined(v1, v2, v3, B64!EQ))
    BY <1>4, PairsJoin
  <2>. QED  BY <2>1, <2>2
<1>7. CASE Len(g) = 3
  <2>. DEFINE v4 == Third(c2, c3)
              v5 == Fourth(c3)
  <2>1. B64!Group(g, c2) = Joined(v1, v2, v4, v5)
    BY <1>7 DEF B64!Group, c1, c3, Joined, First, Second, Third, Fourth
  <2>2. v4 \in 0 .. 254 /\ v5 \in 0 .. 254
    <3>1. c3 \in 0 .. 255
      BY <1>3, <1>7
    <3>2. Fourth(c3) \in 0 .. 254
      BY <3>1, OneByte
    <3>3. Second(c2, c3) \in 0 .. 254 /\ Third(c2, c3) \in 0 .. 254
      BY <1>2, <3>1, TwoBytes
    <3>. QED  BY <3>2, <3>3
  <2>. HIDE DEF v1, v2, v3, v4, v5
  <2>3. FourOf(Joined(v1, v2, v4, v5))
    BY <1>4, <2>2, PairsJoin
  <2>. QED  BY <2>1, <2>3
<1>. QED  BY <1>5, <1>6, <1>7

\* The places behind j and up to k are of one line.
OneLine(s, j, k) == \A x \in j + 1 .. k : s[x] # B64!Eol

\* No line is longer than MAX_LINE, and the last, unfinished one has c groups.
Lined(s, c) == /\ \A j, k \in 0 .. Len(s) : j < k /\ OneLine(s, j, k) => k - j <= MaxLine
               /\ \A j \in 0 .. Len(s) : OneLine(s, j, Len(s)) => Len(s) - j <= 4 * c

LEMMA GroupAdded ==
    ASSUME B64!Base64Assumption, NEW s \in Seq(Sym), NEW c \in 0 .. PerLine - 1, Lined(s, c),
           NEW t, FourOf(t)
    PROVE  s \o t \in Seq(Sym) /\ Len(s \o t) = Len(s) + 4 /\ Lined(s \o t, c + 1)
<1>1. PerLine \in Nat \ {0} /\ MaxLine = 4 * PerLine
  BY LineOfGroups
<1>2. t \in Seq(Sym) /\ Len(t) = 4 /\ \A x \in 1 .. 4 : t[x] # B64!Eol
  BY DEF FourOf
<1>. DEFINE u == s \o t
            n == Len(s)
<1>a. /\ u \in Seq(Sym) /\ Len(u) = Len(s) + Len(t)
      /\ \A x \in 1 .. Len(s) + Len(t) : u[x] = IF x <= Len(s) THEN s[x] ELSE t[x - Len(s)]
  BY <1>2, ConcatProperties
<1>. HIDE DEF u
<1>3. /\ n \in Nat /\ u \in Seq(Sym) /\ Len(u) = n + 4
      /\ \A x \in 1 .. n : u[x] = s[x]
  BY <1>2, <1>a
<1>4. \A j, k \in 0 .. n : OneLine(u, j, k) => OneLine(s, j, k)
  BY <1>3 DEF OneLine
<1>5. \A j, k \in 0 .. n + 4 : j < k /\ n < k /\ OneLine(u, j, k) => k - j <= 4 * (c + 1)
  <2>. SUFFICES ASSUME NEW j \in 0 .. n + 4, NEW k \in 0 .. n + 4, j < k, n < k, OneLine(u, j, k)
                PROVE  k - j <= 4 * (c + 1)
    OBVIOUS
  <2>1. CASE j < n
    <3>1. OneLine(u, j, n)
      BY <1>3 DEF OneLine
    <3>2. n - j <= 4 * c
      BY <1>3, <1>4, <2>1, <3>1 DEF Lined
    <3>. QED  BY <1>3, <3>2
  <2>2. CASE n <= j
    BY <1>3, <2>2
  <2>. QED  BY <1>3, <2>1, <2>2
<1>6. \A j, k \in 0 .. Len(u) : j < k /\ OneLine(u, j, k) => k - j <= MaxLine
  <2>. SUFFICES ASSUME NEW j \in 0 .. n + 4, NEW k \in 0 .. n + 4, j < k, OneLine(u, j, k)
                PROVE  k - j <= MaxLine
    BY <1>3
  <2>1. CASE k <= n
    <3>1. j \in 0 .. n /\ k \in 0 .. n
      BY <1>3, <2>1
    <3>. QED  BY <1>4, <3>1 DEF Lined
  <2>2. CASE n < k
    <3>1. k - j <= 4 * (c + 1)
      BY <1>5, <2>2
    <3>. QED  BY <1>1, <1>3, <3>1
  <2>. QED  BY <1>3, <2>1, <2>2
<1>7. \A j \in 0 .. Len(u) : OneLine(u, j, Len(u)) => Len(u) - j <= 4 * (c + 1)
  <2>. SUFFICES ASSUME NEW j \in 0 .. n + 4, OneLine(u, j, n + 4) PROVE n + 4 - j <= 4 * (c + 1)
    BY <1>3
  <2>. QED  BY <1>3, <1>5
<1>8. Lined(u, c + 1)
  BY <1>6, <1>7 DEF Lined
<1>. QED  BY <1>3, <1>8 DEF u

LEMMA EolAdded ==
    ASSUME B64!Base64Assumption, NEW s \in Seq(Sym), NEW c \in Nat, Lined(s, c)
    PROVE  /\ Append(s, B64!Eol) \in Seq(Sym) /\ Len(Append(s, B64!Eol)) = Len(s) + 1
           /\ Append(s, B64!Eol)[Len(s) + 1] = B64!Eol
           /\ Lined(Append(s, B64!Eol), 0)
<1>. DEFINE u == Append(s, B64!Eol)
            n == Len(s)
<1>1. B64!Eol \in Sym
  BY DEF B64!Eol, B64!INVALID, Sym
<1>2. /\ n \in Nat /\ u \in Seq(Sym) /\ Len(u) = n + 1 /\ u[n + 1] = B64!Eol
      /\ \A x \in 1 .. n : u[x] = s[x]
  BY <1>1, AppendProperties
<1>. HIDE DEF u
<1>3. \A j \in 0 .. n : ~ OneLine(u, j, n + 1)
  BY <1>2 DEF OneLine
<1>4. \A j, k \in 0 .. Len(u) : j < k /\ OneLine(u, j, k) => k - j <= MaxLine
  <2>. SUFFICES ASSUME NEW j \in 0 .. n + 1, NEW k \in 0 .. n + 1, j < k, OneLine(u, j, k)
                PROVE  k - j <= MaxLine
    BY <1>2
  <2>1. k # n + 1
    BY <1>2, <1>3
  <2>2. k \in 0 .. n /\ j \in 0 .. n
    BY <1>2, <2>1
  <2>3. OneLine(s, j, k)
    BY <1>2, <2>2 DEF OneLine
  <2>. QED  BY <2>2, <2>3 DEF Lined
<1>5. \A j \in 0 .. Len(u) : OneLine(u, j, Len(u)) => Len(u) - j <= 0
  <2>. SUFFICES ASSUME NEW j \in 0 .. n + 1, OneLine(u, j, n + 1) PROVE n + 1 - j <= 0
    BY <1>2
  <2>. QED  BY <1>2, <1>3
<1>6. Lined(u, 0)
  BY <1>4, <1>5 DEF Lined
<1>. QED  BY <1>2, <1>6 DEF u

\* n groups have been encoded, with k ends of lines; c groups stand on the last line.
Grouped(n, k, size, c) == /\ n \in Nat /\ k \in Nat /\ size = 4 * n + k /\ n = k * PerLine + c

\* What n groups leave of a message of the length len.
Spent(n, l, len) == IF l = << >> THEN 3 * n <= len + 2 ELSE 3 * n + Len(l) = len

LEMMA GroupsSpent ==
    ASSUME NEW n \in Nat, NEW d \in Nat, NEW len \in Nat, NEW m \in 1 .. 3, m <= d,
           d > m => m = 3, 3 * n + d = len
    PROVE  /\ d = m => 3 * (n + 1) <= len + 2
           /\ d > m => 3 * (n + 1) + (d - m) = len
OBVIOUS

Encoding == /\ message \in Seq(Octets) /\ left \in Seq(Octets) /\ r \in Seq(Sym)
            /\ chunk \in 0 .. PerLine /\ rlen = B64!EncodeRoom(Len(message))
            /\ \E n, k : Grouped(n, k, Len(r), chunk) /\ Spent(n, left, Len(message))
            /\ Lined(r, chunk)

EncodeInv == /\ at \in {"encode", "encoded", "decode", "decoded"}
             /\ at = "encode" => Encoding
             /\ at = "encoded" => B64!WithinRoom /\ B64!LinesShort

LEMMA EncodeStarts ==
    ASSUME B64!Base64Assumption, B64!Init PROVE EncodeInv
<1>1. PerLine \in Nat \ {0} /\ MaxLine = 4 * PerLine
  BY LineOfGroups
<1>2. ASSUME NEW m \in B64!Upto(Octets, MaxBytes), B64!StartEncode(m) PROVE EncodeInv
  <2>1. m \in Seq(Octets) /\ Len(m) \in Nat
    <3>1. PICK k \in 0 .. MaxBytes : m \in [1 .. k -> Octets]
      BY <1>2 DEF B64!Upto
    <3>. QED  BY <3>1
  <2>2. /\ message = m /\ left = m /\ at = "encode" /\ chunk = 0 /\ r = << >>
        /\ rlen = B64!EncodeRoom(Len(m))
    BY <1>2 DEF B64!StartEncode
  <2>3. r \in Seq(Sym) /\ Len(r) = 0
    BY <2>2
  <2>4. Grouped(0, 0, Len(r), chunk) /\ Spent(0, left, Len(message))
    <3>1. 3 * 0 = 0 /\ 4 * 0 = 0 /\ 0 * PerLine = 0
      BY <1>1
    <3>2. IF left = << >> THEN 0 <= Len(message) + 2 ELSE 0 + Len(left) = Len(message)
      BY <2>1, <2>2
    <3>. QED  BY <2>2, <2>3, <3>1, <3>2 DEF Grouped, Spent
  <2>5. Lined(r, chunk)
    BY <2>2, <2>3 DEF Lined
  <2>6. Encoding
    BY <1>1, <2>1, <2>2, <2>3, <2>4, <2>5 DEF Encoding
  <2>. QED  BY <2>2, <2>6 DEF EncodeInv
<1>3. ASSUME NEW text, B64!StartDecode(text) PROVE EncodeInv
  BY <1>3 DEF B64!StartDecode, EncodeInv
<1>. QED  BY <1>2, <1>3 DEF B64!Init

\* One turn of the loop.
LEMMA EncodeTurns ==
    ASSUME B64!Base64Assumption, EncodeInv, B64!Encode PROVE EncodeInv'
<1>1. PerLine \in Nat \ {0} /\ MaxLine = 4 * PerLine
  BY LineOfGroups
<1>2. /\ at = "encode" /\ left # << >> /\ at' = at /\ message' = message /\ rlen' = rlen
      /\ chunk' = IF B64!LineFull(chunk) THEN 1 ELSE chunk + 1
  BY DEF B64!Encode
<1>3. Encoding
  BY <1>2 DEF EncodeInv
<1>. DEFINE taken == IF Len(left) < 3 THEN Len(left) ELSE 3
            g == SubSeq(left, 1, taken)
            start == IF B64!LineFull(chunk) THEN <<B64!Eol>> ELSE << >>
<1>4. /\ message \in Seq(Octets) /\ left \in Seq(Octets) /\ r \in Seq(Sym)
      /\ chunk \in 0 .. PerLine /\ rlen = B64!EncodeRoom(Len(message))
  BY <1>3 DEF Encoding
<1>5. PICK n, k : Grouped(n, k, Len(r), chunk) /\ Spent(n, left, Len(message))
  BY <1>3 DEF Encoding
<1>6. Len(left) \in Nat \ {0} /\ taken \in 1 .. 3 /\ taken <= Len(left)
  <2>. DEFINE d == Len(left)
  <2>1. d \in Nat \ {0}
    BY <1>2, <1>4
  <2>. HIDE DEF d
  <2>2. (IF d < 3 THEN d ELSE 3) \in 1 .. 3 /\ (IF d < 3 THEN d ELSE 3) <= d
    BY <2>1
  <2>. QED  BY <2>1, <2>2 DEF d
<1>7. g \in Seq(Octets) /\ Len(g) = taken
  <2>1. 1 \in 1 .. Len(left) + 1 /\ taken \in 0 .. Len(left)
    BY <1>6
  <2>. HIDE DEF taken
  <2>. QED  BY <1>4, <1>6, <2>1, SubSeqProperties
<1>8. PICK c2 \in Octets : r' = r \o start \o B64!Group(g, c2)
  <2>1. PICK c2 \in IF Len(left) > 1 THEN {left[2]} ELSE Octets : r' = r \o start \o B64!Group(g, c2)
    BY DEF B64!Encode
  <2>2. Len(left) > 1 => left[2] \in Octets
    <3>. SUFFICES ASSUME Len(left) > 1 PROVE left[2] \in Octets
      OBVIOUS
    <3>1. 2 \in 1 .. Len(left)
      BY <1>6
    <3>. QED  BY <1>4, <3>1, ElementOfSeq
  <2>. QED  BY <2>1, <2>2
<1>9. left' = SubSeq(left, taken + 1, Len(left))
  <2>1. left' = SubSeq(left, Len(g) + 1, Len(left))
    BY DEF B64!Encode
  <2>. QED  BY <1>7, <2>1
<1>. HIDE DEF taken
<1>10. left' \in Seq(Octets) /\ Len(left') = Len(left) - taken
  <2>1. taken + 1 \in 1 .. Len(left) + 1 /\ Len(left) \in 0 .. Len(left)
    BY <1>6
  <2>2. /\ SubSeq(left, taken + 1, Len(left)) \in Seq(Octets)
        /\ Len(SubSeq(left, taken + 1, Len(left))) =
              IF taken + 1 <= Len(left) THEN Len(left) - (taken + 1) + 1 ELSE 0
    BY <1>4, <2>1, SubSeqProperties
  <2>. QED  BY <1>6, <1>9, <2>2
<1>. DEFINE t == B64!Group(g, c2)
            s == r \o start
<1>11. FourOf(t)
  <2>1. Len(g) \in 1 .. 3
    BY <1>6, <1>7
  <2>. QED  BY <1>7, <2>1, GroupIs
<1>. HIDE DEF g, t
<1>12. n \in Nat /\ k \in Nat /\ n = k * PerLine + chunk
  BY <1>5 DEF Grouped
<1>b. n \in Nat /\ k \in Nat /\ Len(r) = 4 * n + k /\ 3 * n + Len(left) = Len(message)
  BY <1>2, <1>5 DEF Grouped, Spent
<1>. DEFINE full == k * PerLine
<1>13. Len(message) \in Nat /\ full \in Nat /\ n = full + chunk
  BY <1>1, <1>4, <1>12
<1>14. Spent(n + 1, left', Len(message'))
  <2>. DEFINE d == Len(left)
              len == Len(message)
              d2 == Len(left')
  <2>1. d > taken => taken = 3
    BY <1>6 DEF taken
  <2>2. /\ d \in Nat /\ taken \in 1 .. 3 /\ taken <= d /\ len \in Nat /\ 3 * n + d = len
        /\ d2 = d - taken /\ (left' = << >> <=> d2 = 0)
    <3>1. left' = << >> <=> Len(left') = 0
      BY <1>10
    <3>. QED  BY <1>6, <1>10, <1>13, <1>b, <3>1
  <2>. HIDE DEF d, len, d2
  <2>3. /\ d = taken => 3 * (n + 1) <= len + 2
        /\ d > taken => 3 * (n + 1) + (d - taken) = len
    BY <1>b, <2>1, <2>2, GroupsSpent
  <2>4. IF left' = << >> THEN 3 * (n + 1) <= len + 2 ELSE 3 * (n + 1) + d2 = len
    BY <2>2, <2>3
  <2>5. len = Len(message')
    BY <1>2 DEF len
  <2>. QED  BY <2>4, <2>5 DEF d2, Spent
<1>15. CASE B64!LineFull(chunk)
  <2>1. chunk = PerLine /\ chunk' = 1
    BY <1>2, <1>15 DEF B64!LineFull, PerLine
  <2>2. s = Append(r, B64!Eol)
    <3>1. s = r \o <<B64!Eol>> /\ B64!Eol \in Sym
      BY <1>15 DEF B64!Eol, B64!INVALID, Sym
    <3>. QED  BY <1>4, <3>1, AppendIsConcat
  <2>3. s \in Seq(Sym) /\ Len(s) = Len(r) + 1 /\ Lined(s, 0)
    <3>1. Lined(r, chunk) /\ chunk \in Nat
      BY <1>1, <1>3, <1>4 DEF Encoding
    <3>2. /\ Append(r, B64!Eol) \in Seq(Sym) /\ Len(Append(r, B64!Eol)) = Len(r) + 1
          /\ Lined(Append(r, B64!Eol), 0)
      BY <1>4, <3>1, EolAdded
    <3>. QED  BY <2>2, <3>2
  <2>. HIDE DEF s
  <2>4. s \o t \in Seq(Sym) /\ Len(s \o t) = Len(s) + 4 /\ Lined(s \o t, 1)
    <3>1. 0 \in 0 .. PerLine - 1 /\ 0 + 1 = 1
      BY <1>1
    <3>. QED  BY <1>11, <2>3, <3>1, GroupAdded
  <2>5. r' = s \o t
    BY <1>8 DEF s, t
  <2>6. n + 1 = (k + 1) * PerLine + 1
    <3>1. (k + 1) * PerLine = full + PerLine
      BY <1>1, <1>12
    <3>. HIDE DEF full
    <3>. QED  BY <1>1, <1>13, <2>1, <3>1
  <2>7. Grouped(n + 1, k + 1, Len(r'), chunk')
    <3>1. Len(r') = 4 * (n + 1) + (k + 1)
      BY <1>b, <2>3, <2>4, <2>5
    <3>2. n + 1 \in Nat /\ k + 1 \in Nat
      BY <1>12
    <3>3. n + 1 = (k + 1) * PerLine + chunk'
      BY <2>1, <2>6
    <3>. QED  BY <3>1, <3>2, <3>3, Zenon DEF Grouped
  <2>8. Encoding'
    <3>1. chunk' \in 0 .. PerLine /\ Lined(r', chunk') /\ r' \in Seq(Sym)
      BY <1>1, <2>1, <2>4, <2>5
    <3>. QED  BY <1>2, <1>4, <1>10, <1>14, <2>7, <3>1 DEF Encoding
  <2>. QED  BY <1>2, <2>8 DEF EncodeInv
<1>16. CASE ~ B64!LineFull(chunk)
  <2>1. chunk \in 0 .. PerLine - 1 /\ chunk' = chunk + 1
    BY <1>1, <1>2, <1>4, <1>16 DEF B64!LineFull, PerLine
  <2>2. s = r
    BY <1>4, <1>16, ConcatEmptySeq
  <2>3. r' = r \o t
    BY <1>8, <2>2 DEF t
  <2>4. r' \in Seq(Sym) /\ Len(r') = Len(r) + 4 /\ Lined(r', chunk')
    BY <1>3, <1>4, <1>11, <2>1, <2>3, GroupAdded DEF Encoding
  <2>5. n + 1 = k * PerLine + (chunk + 1)
    BY <1>4, <1>13
  <2>6. Grouped(n + 1, k, Len(r'), chunk')
    <3>1. Len(r') = 4 * (n + 1) + k
      BY <1>4, <1>b, <2>4
    <3>2. n + 1 \in Nat /\ k \in Nat
      BY <1>12
    <3>3. n + 1 = k * PerLine + chunk'
      BY <2>1, <2>5
    <3>. QED  BY <3>1, <3>2, <3>3, Zenon DEF Grouped
  <2>7. Encoding'
    <3>1. chunk' \in 0 .. PerLine
      BY <1>1, <2>1
    <3>. QED  BY <1>2, <1>4, <1>10, <1>14, <2>4, <2>6, <3>1 DEF Encoding
  <2>. QED  BY <1>2, <2>7 DEF EncodeInv
<1>. QED  BY <1>15, <1>16

LEMMA RoomLeft == ASSUME B64!Base64Assumption, Encoding PROVE Len(r) + 2 <= rlen /\ rlen \in Nat
<1>1. PICK n, k : Grouped(n, k, Len(r), chunk) /\ Spent(n, left, Len(message))
  BY DEF Encoding
<1>2. /\ n \in Nat /\ k \in Nat /\ Len(r) = 4 * n + k /\ n = k * PerLine + chunk
  BY <1>1 DEF Grouped
<1>3. /\ Len(message) \in Nat /\ Len(left) \in Nat /\ chunk \in Nat
      /\ rlen = B64!EncodeRoom(Len(message))
  BY LineOfGroups DEF Encoding
<1>a. 3 * n <= Len(message) + 2
  <2>. DEFINE len == Len(message)
              d == Len(left)
  <2>1. (IF left = << >> THEN 3 * n <= len + 2 ELSE 3 * n + d = len) /\ len \in Nat /\ d \in Nat
    BY <1>1, <1>3 DEF Spent
  <2>. HIDE DEF len, d
  <2>2. n \in Nat
    BY <1>2
  <2>3. 3 * n <= len + 2
    BY <2>1, <2>2
  <2>. QED  BY <2>3 DEF len
<1>4. 4 * n + k + 2 <= B64!EncodeRoom(Len(message)) /\ B64!EncodeRoom(Len(message)) \in Nat
  BY <1>2, <1>3, <1>a, RoomFor
<1>. QED  BY <1>2, <1>3, <1>4

\* mg_encode_base64 writes no character and no NUL behind what malloc gave it,
\* and no line longer than MAX_LINE, for every message and length of a line
\* (mgbase64.c:55-107).
THEOREM EncodedFits ==
    ASSUME B64!Base64Assumption
    PROVE  B64!Spec => []((at \in {"encode", "encoded"} => B64!WithinRoom) /\ B64!LinesShort)
<1>1. B64!Init => EncodeInv
  BY EncodeStarts
<1>2. EncodeInv /\ [B64!Next]_(B64!vars) => EncodeInv'
  <2>. SUFFICES ASSUME EncodeInv, [B64!Next]_(B64!vars) PROVE EncodeInv'
    OBVIOUS
  <2>1. CASE B64!Encode
    BY <2>1, EncodeTurns
  <2>2. CASE B64!EncodeEnds
    <3>1. /\ Encoding /\ r' = Append(r, B64!Eol) /\ at' = "encoded" /\ rlen' = rlen
      BY <2>2 DEF B64!EncodeEnds, EncodeInv
    <3>2. r \in Seq(Sym) /\ chunk \in Nat /\ Lined(r, chunk)
      BY <3>1, LineOfGroups DEF Encoding
    <3>3. /\ r' \in Seq(Sym) /\ Len(r') = Len(r) + 1 /\ r'[Len(r')] = B64!Eol /\ Lined(r', 0)
      BY <3>1, <3>2, EolAdded
    <3>4. B64!WithinRoom'
      BY <3>1, <3>2, <3>3, RoomLeft DEF B64!WithinRoom
    <3>5. B64!LinesShort'
      BY <3>1, <3>3 DEF B64!LinesShort, Lined, OneLine
    <3>. QED  BY <3>1, <3>4, <3>5 DEF EncodeInv
  <2>3. CASE B64!Decode
    BY <2>3 DEF B64!Decode, EncodeInv
  <2>4. CASE B64!DecodeEnds
    BY <2>4 DEF B64!DecodeEnds, EncodeInv
  <2>5. CASE UNCHANGED B64!vars
    BY <2>5 DEF B64!vars, EncodeInv, Encoding, B64!WithinRoom, B64!LinesShort
  <2>. QED  BY <2>1, <2>2, <2>3, <2>4, <2>5 DEF B64!Next
<1>3. EncodeInv => (at \in {"encode", "encoded"} => B64!WithinRoom) /\ B64!LinesShort
  <2>. SUFFICES ASSUME EncodeInv
                PROVE  (at \in {"encode", "encoded"} => B64!WithinRoom) /\ B64!LinesShort
    OBVIOUS
  <2>1. at = "encode" => B64!WithinRoom
    <3>. SUFFICES ASSUME at = "encode" PROVE B64!WithinRoom
      OBVIOUS
    <3>1. Len(r) + 2 <= rlen /\ rlen \in Nat /\ Len(r) \in Nat
      BY RoomLeft DEF EncodeInv, Encoding
    <3>. QED  BY <3>1 DEF B64!WithinRoom
  <2>2. at # "encoded" => B64!LinesShort
    BY DEF B64!LinesShort
  <2>. QED  BY <2>1, <2>2 DEF EncodeInv
<1>. QED  BY <1>1, <1>2, <1>3, PTL DEF B64!Spec

===============================================================================
