------------------------------ MODULE MediaProofs ------------------------------
(***************************************************************************)
(* Proofs about MediaStream: what Framing writes is read as it was, every  *)
(* buffer of the two pools is held by whoever will drop it, and what the   *)
(* buffers hold on the way is what the encoder returned.                   *)
(***************************************************************************)
EXTENDS MediaStream, BufPoolProofs, FiniteSetTheorems, SequenceTheorems, WellFoundedInduction

-------------------------------------------------------------------------------
(* Framing: varints, headers and objects. *)

\* u64s whose two highest bits are free.
Free64 == {v \in U64 : v[1] <= 63}

LEMMA BytesAreSeq ==
  ASSUME NEW v \in U64
  PROVE  v \in Seq(Byte) /\ Len(v) = 8 /\ \A i \in 1..8 : v[i] \in Byte
<1>1. v \in [1..8 -> Byte] /\ 8 \in Nat
  BY DEF U64
<1>2. v \in Seq(Byte)
  BY <1>1, SeqDef, Zenon
<1>3. Len(v) = 8
  <2>1. DOMAIN v = 1..8 /\ DOMAIN v = 1..Len(v) /\ Len(v) \in Nat
    BY <1>1, <1>2, LenProperties
  <2> QED BY <2>1
<1> QED BY <1>1, <1>2, <1>3

\* A part of a sequence.
LEMMA PartIs ==
  ASSUME NEW S, NEW s \in Seq(S), NEW m \in 1..Len(s) + 1, NEW n \in m - 1 .. Len(s)
  PROVE  /\ SubSeq(s, m, n) \in Seq(S) /\ Len(SubSeq(s, m, n)) = n - m + 1
         /\ \A i \in 1..n - m + 1 : SubSeq(s, m, n)[i] = s[m + i - 1]
OBVIOUS

LEMMA ZeroesAre ==
  ASSUME NEW n \in Nat
  PROVE  Zeroes(n) \in Seq(Byte) /\ Len(Zeroes(n)) = n /\ \A i \in 1..n : Zeroes(n)[i] = 0
<1> DEFINE z == Zeroes(n)
<1>1. 0 \in Byte
  BY DEF Byte
<1>2. z \in [1..n -> Byte] /\ DOMAIN z = 1..n /\ \A i \in 1..n : z[i] = 0
  BY <1>1 DEF Zeroes
<1> HIDE DEF z
<1>3. z \in Seq(Byte)
  BY <1>2, SeqDef, Zenon
<1>4. Len(z) \in Nat /\ DOMAIN z = 1..Len(z)
  BY <1>3, LenProperties
<1> QED BY <1>2, <1>3, <1>4 DEF z

LEMMA Split ==
  ASSUME NEW S, NEW e \in Seq(S), NEW rest \in Seq(S)
  PROVE  /\ e \o rest \in Seq(S) /\ Len(e \o rest) = Len(e) + Len(rest)
         /\ SubSeq(e \o rest, Len(e) + 1, Len(e \o rest)) = rest
         /\ SubSeq(e \o rest, 1, Len(e)) = e
<1> DEFINE s == e \o rest
<1>1. /\ s \in Seq(S) /\ Len(s) = Len(e) + Len(rest)
      /\ \A i \in 1..Len(e) + Len(rest) : s[i] = IF i <= Len(e) THEN e[i] ELSE rest[i - Len(e)]
      /\ Len(e) \in Nat /\ Len(rest) \in Nat
  BY ConcatProperties, LenProperties
<1> HIDE DEF s
<1>3. SubSeq(s, Len(e) + 1, Len(s)) = rest
  <2> DEFINE t == SubSeq(s, Len(e) + 1, Len(s))
  <2>1. /\ t \in Seq(S) /\ Len(t) = Len(rest)
        /\ \A i \in 1..Len(rest) : t[i] = s[Len(e) + 1 + i - 1]
    BY <1>1, PartIs
  <2> HIDE DEF t
  <2>3. ASSUME NEW i \in 1..Len(rest) PROVE t[i] = rest[i]
    <3>1. i + Len(e) \in 1..Len(e) + Len(rest) /\ ~(i + Len(e) <= Len(e)) /\ i + Len(e) - Len(e) = i
          /\ Len(e) + 1 + i - 1 = i + Len(e)
      BY <1>1
    <3>2. t[i] = s[Len(e) + 1 + i - 1]
      BY <2>1
    <3>3. s[i + Len(e)] = rest[i + Len(e) - Len(e)]
      BY <1>1, <3>1
    <3> QED BY <3>1, <3>2, <3>3
  <2> QED BY <2>1, <2>3, SeqEqual DEF t
<1>4. SubSeq(s, 1, Len(e)) = e
  <2> DEFINE t == SubSeq(s, 1, Len(e))
  <2>1. /\ t \in Seq(S) /\ Len(t) = Len(e)
        /\ \A i \in 1..Len(e) : t[i] = s[i]
    BY <1>1, PartIs
  <2> HIDE DEF t
  <2>3. \A i \in 1..Len(e) : t[i] = e[i]
    BY <1>1, <2>1
  <2> QED BY <2>1, <2>3, SeqEqual DEF t
<1> QED BY <1>1, <1>3, <1>4 DEF s

LEMMA Tags ==
  Tag(1) = 0 /\ Tag(2) = 64 /\ Tag(4) = 128 /\ Tag(8) = 192
<1>1. Tag(1) = 0
  <2>1. 1 = 1 /\ 1 # 2 /\ 1 # 4 /\ 1 # 8
    OBVIOUS
  <2> QED BY <2>1, Zenon DEF Tag
<1>2. Tag(2) = 64
  <2>1. 2 # 1 /\ 2 = 2 /\ 2 # 4 /\ 2 # 8
    OBVIOUS
  <2> QED BY <2>1, Zenon DEF Tag
<1>3. Tag(4) = 128
  <2>1. 4 # 1 /\ 4 # 2 /\ 4 = 4 /\ 4 # 8
    OBVIOUS
  <2> QED BY <2>1, Zenon DEF Tag
<1>4. Tag(8) = 192
  <2>1. 8 # 1 /\ 8 # 2 /\ 8 # 4 /\ 8 = 8
    OBVIOUS
  <2> QED BY <2>1, Zenon DEF Tag
<1> QED BY <1>1, <1>2, <1>3, <1>4

\* What the first byte of a varint is made of: the width and the first bits of the number.
Widths == {1, 2, 4, 8}
Low    == 0..63

LEMMA FirstByte ==
  ASSUME NEW w \in Widths, NEW x \in Low, NEW b, b = Tag(w) + x
  PROVE  /\ b \in Byte /\ b % 64 = x
         /\ (CHOOSE u \in Widths : Tag(u) = 64 * (b \div 64)) = w
<1>1. PICK t \in {0, 64, 128, 192} : t = Tag(w)
  BY Tags DEF Widths
<1>2. b = t + x /\ b \in Int
  BY <1>1 DEF Low
<1>3. b \in Byte /\ b % 64 = x /\ t = 64 * (b \div 64)
  <2>1. CASE t = 0
    BY <1>2, <2>1 DEF Byte, Low
  <2>2. CASE t = 64
    BY <1>2, <2>2 DEF Byte, Low
  <2>3. CASE t = 128
    BY <1>2, <2>3 DEF Byte, Low
  <2>4. CASE t = 192
    BY <1>2, <2>4 DEF Byte, Low
  <2> QED BY <2>1, <2>2, <2>3, <2>4
<1>4. \A u \in Widths : Tag(u) = Tag(w) => u = w
  BY Tags DEF Widths
<1>5. (CHOOSE u \in Widths : Tag(u) = 64 * (b \div 64)) = w
  BY <1>1, <1>3, <1>4, Zenon
<1> QED BY <1>3, <1>5

LEMMA WidthFits ==
  ASSUME NEW v \in Free64
  PROVE  /\ Width(v) \in {1, 2, 4, 8}
         /\ \A i \in 1..8 - Width(v) : v[i] = 0
         /\ v[9 - Width(v)] \in 0..63
<1>1. Width(v) \in {1, 2, 4, 8} /\ (Width(v) = 8 \/ Fits(v, Width(v)))
  BY DEF Width
<1>2. v \in Seq(Byte) /\ Len(v) = 8 /\ v[1] \in 0..63 /\ \A i \in 1..8 : v[i] \in Byte
  <2>1. v \in U64 /\ v[1] <= 63
    BY DEF Free64
  <2>2. v[1] \in Byte
    BY <2>1, BytesAreSeq
  <2>3. v[1] \in 0..63
    BY <2>1, <2>2 DEF Byte
  <2> QED BY <2>1, <2>3, BytesAreSeq
<1>3. CASE Width(v) = 8
  BY <1>2, <1>3
<1>4. ASSUME NEW w \in {1, 2, 4, 8}, Fits(v, w)
      PROVE  (\A i \in 1..8 - w : v[i] = 0) /\ v[9 - w] \in 0..63
  <2>1. \A i \in 1..8 - w : SubSeq(v, 1, 8 - w)[i] = v[1 + i - 1]
    BY <1>2, PartIs
  <2>2. SubSeq(v, 1, 8 - w) = [i \in 1..8 - w |-> 0] /\ v[9 - w] <= 63
    BY <1>4 DEF Fits, Zeroes
  <2>3. v[9 - w] \in Byte
    BY <1>2
  <2>4. v[9 - w] \in 0..63
    BY <2>2, <2>3 DEF Byte
  <2>5. ASSUME NEW i \in 1..8 - w PROVE v[i] = 0
    <3>1. 1 + i - 1 = i
      OBVIOUS
    <3> QED BY <2>1, <2>2, <3>1
  <2> QED BY <2>4, <2>5
<1> QED BY <1>1, <1>3, <1>4

LEMMA VarintIs ==
  ASSUME NEW v \in Free64, NEW w, w = Width(v)
  PROVE  /\ w \in {1, 2, 4, 8} /\ Varint(v) \in Seq(Byte) /\ Len(Varint(v)) = w
         /\ Varint(v)[1] = Tag(w) + v[9 - w]
         /\ \A i \in 2..w : Varint(v)[i] = v[8 - w + i]
         /\ v[9 - w] \in 0..63
         /\ \A i \in 1..8 - w : v[i] = 0
<1> DEFINE f == <<Tag(w) + v[9 - w]>>
           s == SubSeq(v, 10 - w, 8)
<1>1. w \in {1, 2, 4, 8} /\ v[9 - w] \in 0..63 /\ \A i \in 1..8 - w : v[i] = 0
  BY WidthFits
<1>2. v \in Seq(Byte) /\ Len(v) = 8
  BY BytesAreSeq DEF Free64
<1>3. v[9 - w] % 64 = v[9 - w]
  BY <1>1
<1>4. Varint(v) = <<Tag(w) + (v[9 - w] % 64)>> \o SubSeq(v, 10 - w, 8)
  BY DEF Varint
<1>5. Varint(v) = f \o s
  BY <1>3, <1>4
<1>6. f \in Seq(Byte) /\ Len(f) = 1 /\ f[1] = Tag(w) + v[9 - w]
  <2>1. Tag(w) + v[9 - w] \in Byte
    BY <1>1, FirstByte DEF Widths, Low
  <2> HIDE DEF Byte
  <2> QED BY <2>1
<1>7. s \in Seq(Byte) /\ Len(s) = w - 1 /\ \A i \in 1..w - 1 : s[i] = v[10 - w + i - 1]
  <2> DEFINE m == 10 - w
  <2>1. m \in 1..Len(v) + 1 /\ 8 \in m - 1 .. Len(v)
    BY <1>1, <1>2
  <2>2. s = SubSeq(v, m, 8) /\ m = 10 - w
    OBVIOUS
  <2> HIDE DEF m, s
  <2>3. /\ SubSeq(v, m, 8) \in Seq(Byte) /\ Len(SubSeq(v, m, 8)) = 8 - m + 1
        /\ \A i \in 1..8 - m + 1 : SubSeq(v, m, 8)[i] = v[m + i - 1]
    BY <1>2, <2>1, PartIs
  <2>4. 8 - m + 1 = w - 1
    BY <1>1, <2>2
  <2> QED BY <2>2, <2>3, <2>4
<1> HIDE DEF f, s
<1>8. /\ f \o s \in Seq(Byte) /\ Len(f \o s) = Len(f) + Len(s)
      /\ \A i \in 1..Len(f) + Len(s) : (f \o s)[i] = IF i <= Len(f) THEN f[i] ELSE s[i - Len(f)]
  BY <1>6, <1>7, ConcatProperties, ZenonT(60)
<1>9. Len(f \o s) = w /\ (f \o s)[1] = f[1]
  BY <1>1, <1>6, <1>7, <1>8
<1>10. ASSUME NEW i \in 2..w PROVE (f \o s)[i] = v[8 - w + i]
  <2>1. (f \o s)[i] = s[i - 1]
    <3>1. i \in 1..Len(f) + Len(s) /\ ~(i <= Len(f)) /\ i - Len(f) = i - 1
      BY <1>1, <1>6, <1>7
    <3> QED BY <3>1, <1>8
  <2>2. s[i - 1] = v[10 - w + (i - 1) - 1] /\ 10 - w + (i - 1) - 1 = 8 - w + i
    BY <1>1, <1>7
  <2> QED BY <2>1, <2>2
<1> QED BY <1>1, <1>5, <1>6, <1>8, <1>9, <1>10

\* A number is read as it was written, whatever follows it.
LEMMA VarintRead ==
  ASSUME NEW v \in Free64, NEW rest \in Seq(Byte)
  PROVE  ReadVarint(Varint(v) \o rest) = [ok |-> TRUE, value |-> v, rest |-> rest]
<1> DEFINE w == Width(v)
           e == Varint(v)
           s == e \o rest
<1>1. /\ w \in {1, 2, 4, 8} /\ e \in Seq(Byte) /\ Len(e) = w
      /\ e[1] = Tag(w) + v[9 - w]
      /\ \A i \in 2..w : e[i] = v[8 - w + i]
      /\ v[9 - w] \in 0..63
      /\ \A i \in 1..8 - w : v[i] = 0
  BY VarintIs
<1>2. v \in Seq(Byte) /\ Len(v) = 8
  BY BytesAreSeq DEF Free64
<1> HIDE DEF w, e
<1>3. /\ s \in Seq(Byte) /\ Len(s) = w + Len(rest) /\ Len(rest) \in Nat
      /\ SubSeq(s, w + 1, Len(s)) = rest
      /\ \A i \in 1..w : s[i] = e[i]
  <2>1. /\ s \in Seq(Byte) /\ Len(s) = Len(e) + Len(rest)
        /\ \A i \in 1..Len(e) + Len(rest) : s[i] = IF i <= Len(e) THEN e[i] ELSE rest[i - Len(e)]
    BY <1>1, ConcatProperties
  <2>2. SubSeq(s, Len(e) + 1, Len(s)) = rest /\ Len(rest) \in Nat
    BY <1>1, Split, LenProperties
  <2> HIDE DEF s
  <2> QED BY <1>1, <2>1, <2>2
<1> HIDE DEF s
<1>4. s # <<>> /\ s[1] = Tag(w) + v[9 - w]
  BY <1>1, <1>3
<1>5. s[1] % 64 = v[9 - w] /\ (CHOOSE u \in Widths : Tag(u) = 64 * (s[1] \div 64)) = w
  <2> DEFINE x == v[9 - w]
             b == s[1]
  <2>1. w \in Widths /\ x \in Low /\ b = Tag(w) + x
    BY <1>1, <1>4 DEF Widths, Low
  <2> HIDE DEF x, b
  <2>2. b % 64 = x /\ (CHOOSE u \in Widths : Tag(u) = 64 * (b \div 64)) = w
    BY <2>1, FirstByte
  <2> QED BY <2>2 DEF x, b
<1>6. Zeroes(8 - w) \o <<s[1] % 64>> \o SubSeq(s, 2, w) = v
  <2> DEFINE z == Zeroes(8 - w)
             f == <<v[9 - w]>>
             t == SubSeq(s, 2, w)
  <2>1. z \in Seq(Byte) /\ Len(z) = 8 - w /\ \A i \in 1..8 - w : z[i] = 0
    <3>1. 8 - w \in Nat
      BY <1>1
    <3> QED BY <3>1, ZeroesAre
  <2>2. f \in Seq(Byte) /\ Len(f) = 1 /\ f[1] = v[9 - w]
    <3>1. v[9 - w] \in Byte
      BY <1>1 DEF Byte
    <3> QED BY <3>1
  <2>3. t \in Seq(Byte) /\ Len(t) = w - 1 /\ \A i \in 1..w - 1 : t[i] = s[2 + i - 1]
    <3>1. 2 \in 1..Len(s) + 1 /\ w \in 2 - 1 .. Len(s)
      BY <1>1, <1>3
    <3>2. /\ SubSeq(s, 2, w) \in Seq(Byte) /\ Len(SubSeq(s, 2, w)) = w - 2 + 1
          /\ \A i \in 1..w - 2 + 1 : SubSeq(s, 2, w)[i] = s[2 + i - 1]
      BY <1>3, <3>1, PartIs
    <3>3. w - 2 + 1 = w - 1
      BY <1>1
    <3> QED BY <3>2, <3>3
  <2> HIDE DEF z, f, t
  <2>4. /\ z \o f \in Seq(Byte) /\ Len(z \o f) = Len(z) + Len(f)
        /\ \A i \in 1..Len(z) + Len(f) : (z \o f)[i] = IF i <= Len(z) THEN z[i] ELSE f[i - Len(z)]
    BY <2>1, <2>2, ConcatProperties
  <2> DEFINE zf == z \o f
             r == zf \o t
  <2>5. /\ zf \in Seq(Byte) /\ Len(zf) = 9 - w
        /\ \A i \in 1..8 - w : zf[i] = 0
        /\ zf[9 - w] = v[9 - w]
    BY <1>1, <2>1, <2>2, <2>4
  <2> HIDE DEF zf
  <2>6. /\ r \in Seq(Byte) /\ Len(r) = Len(zf) + Len(t)
        /\ \A i \in 1..Len(zf) + Len(t) : r[i] = IF i <= Len(zf) THEN zf[i] ELSE t[i - Len(zf)]
    BY <2>3, <2>5, ConcatProperties
  <2> HIDE DEF r
  <2>7. Len(r) = 8
    BY <1>1, <2>3, <2>5, <2>6
  <2>8. ASSUME NEW i \in 1..8 PROVE r[i] = v[i]
    <3>1. CASE i \in 1..8 - w
      <4>1. i \in 1..Len(zf) + Len(t) /\ i <= Len(zf) /\ zf[i] = 0 /\ v[i] = 0
        BY <1>1, <2>3, <2>5, <3>1
      <4> QED BY <2>6, <4>1
    <3>2. CASE i = 9 - w
      BY <1>1, <2>3, <2>5, <2>6, <3>2
    <3>3. CASE i > 9 - w
      <4> DEFINE j == i - (8 - w)
      <4>1. j \in 2..w /\ i - Len(zf) = j - 1 /\ j - 1 \in 1..w - 1 /\ 2 + (j - 1) - 1 = j /\ 8 - w + j = i
        BY <1>1, <2>5, <3>3
      <4>2. r[i] = t[i - Len(zf)]
        BY <1>1, <2>3, <2>5, <2>6, <3>3
      <4> HIDE DEF j
      <4>3. t[j - 1] = s[2 + (j - 1) - 1] /\ s[j] = e[j] /\ e[j] = v[8 - w + j]
        BY <1>1, <1>3, <2>3, <4>1, SMTT(30)
      <4> QED BY <4>1, <4>2, <4>3
    <3> QED BY <1>1, <3>1, <3>2, <3>3
  <2>9. r = v
    BY <1>2, <2>6, <2>7, <2>8, SeqEqual
  <2> QED BY <1>5, <2>9 DEF r, zf, z, f, t
<1>7. DecodeVarint(s) = [ok |-> TRUE, value |-> v, rest |-> rest]
  <2> DEFINE W == CHOOSE u \in Widths : Tag(u) = 64 * (s[1] \div 64)
  <2>1. DecodeVarint(s) =
          IF s = <<>> THEN Failed
          ELSE IF Len(s) < W THEN Failed
               ELSE [ok |-> TRUE,
                     value |-> Zeroes(8 - W) \o <<s[1] % 64>> \o SubSeq(s, 2, W),
                     rest |-> SubSeq(s, W + 1, Len(s))]
    BY Zenon DEF DecodeVarint, Widths
  <2>2. W = w
    BY <1>5
  <2> HIDE DEF W
  <2>3. ~(Len(s) < w)
    BY <1>1, <1>3
  <2>4. DecodeVarint(s) = [ok |-> TRUE,
                           value |-> Zeroes(8 - w) \o <<s[1] % 64>> \o SubSeq(s, 2, w),
                           rest |-> SubSeq(s, w + 1, Len(s))]
    BY <1>4, <2>1, <2>2, <2>3, Zenon
  <2> QED BY <1>3, <1>6, <2>4, Zenon
<1> QED BY <1>7 DEF ReadVarint, s, e

\* A number and its last digit.
LEMMA Digit ==
  ASSUME NEW n \in Nat
  PROVE  n \div 256 \in Nat /\ n % 256 \in Byte /\ 256 * (n \div 256) + (n % 256) = n
<1>1. n \div 256 \in Nat
  OBVIOUS
<1>2. n % 256 \in Byte
  BY DEF Byte
<1>3. n = 256 * (n \div 256) + (n % 256)
  BY Z3
<1> QED BY <1>1, <1>2, <1>3, Zenon

LEMMA DigitKeepsOrder ==
  ASSUME NEW m \in Nat, NEW n \in Nat, m <= n
  PROVE  m \div 256 <= n \div 256
OBVIOUS

\* Numbers that are written by their value are read as they are.
LEMMA WideIs ==
  ASSUME NEW n \in Number
  PROVE  Wide(n) \in Free64 /\ Narrow(Wide(n)) = n
<1> DEFINE n1 == n \div 256
           n2 == n1 \div 256
           a == n2 \div 256
           b == n2 % 256
           c == n1 % 256
           d == n % 256
<1>1. n \in Nat /\ a < 128
  BY DEF Number
<1>2. n1 \in Nat /\ d \in Byte /\ 256 * n1 + d = n
  BY <1>1, Digit
<1> HIDE DEF n1
<1>3. n2 \in Nat /\ c \in Byte /\ 256 * n2 + c = n1
  BY <1>2, Digit
<1> HIDE DEF n2
<1>4. a \in Nat /\ b \in Byte /\ 256 * a + b = n2
  BY <1>3, Digit
<1> HIDE DEF a, b, c, d
<1>5. a \in Byte
  BY <1>1, <1>4 DEF Byte
<1> DEFINE z == Zeroes(4)
           t == <<a, b, c, d>>
           v == z \o t
<1>6. z \in Seq(Byte) /\ Len(z) = 4 /\ z[1] = 0
  <2>1. 4 \in Nat /\ 1 \in 1..4
    OBVIOUS
  <2>2. z \in Seq(Byte) /\ Len(z) = 4 /\ \A i \in 1..4 : z[i] = 0
    BY <2>1, ZeroesAre
  <2> QED BY <2>1, <2>2
<1>7. t \in Seq(Byte) /\ Len(t) = 4 /\ t[1] = a /\ t[2] = b /\ t[3] = c /\ t[4] = d
  BY <1>2, <1>3, <1>4, <1>5
<1> HIDE DEF z, t
<1>8. /\ v \in Seq(Byte) /\ Len(v) = Len(z) + Len(t)
      /\ \A i \in 1..Len(z) + Len(t) : v[i] = IF i <= Len(z) THEN z[i] ELSE t[i - Len(z)]
  BY <1>6, <1>7, ConcatProperties
<1> HIDE DEF v
<1>9. Len(v) = 8 /\ v[1] = 0 /\ v[5] = a /\ v[6] = b /\ v[7] = c /\ v[8] = d
  BY <1>6, <1>7, <1>8
<1>10. v \in U64
  BY <1>8, <1>9, LenProperties DEF U64
<1>11. Narrow(v) = n
  <2>1. Narrow(v) = 256 * (256 * (256 * a + b) + c) + d
    BY <1>9, ZenonT(60) DEF Narrow
  <2> QED BY <1>2, <1>3, <1>4, <2>1, Zenon
<1>12. Wide(n) = v
  BY Zenon DEF Wide, v, z, t, n1, n2, a, b, c, d
<1> QED BY <1>9, <1>10, <1>11, <1>12 DEF Free64

LEMMA VarintSeq ==
  ASSUME NEW v \in Free64
  PROVE  Varint(v) \in Seq(Byte) /\ Len(Varint(v)) \in 1..8
<1>1. Width(v) \in {1, 2, 4, 8} /\ Varint(v) \in Seq(Byte) /\ Len(Varint(v)) = Width(v)
  BY VarintIs
<1> QED BY <1>1

\* Two numbers in a row.
LEMMA PairRead ==
  ASSUME NEW u \in Free64, NEW v \in Free64, NEW rest \in Seq(Byte)
  PROVE  ReadPair(Varint(u) \o (Varint(v) \o rest)) = [ok |-> TRUE, value |-> <<u, v>>, rest |-> rest]
<1>1. Varint(v) \o rest \in Seq(Byte)
  BY VarintSeq, ConcatProperties
<1> DEFINE tail == Varint(v) \o rest
           s == Varint(u) \o tail
           one == ReadVarint(s)
           two == ReadVarint(one.rest)
<1>2. one = [ok |-> TRUE, value |-> u, rest |-> tail]
  BY <1>1, VarintRead
<1>3. two = [ok |-> TRUE, value |-> v, rest |-> rest]
  <2>1. one.rest = tail
    BY <1>2
  <2> QED BY <2>1, VarintRead
<1>4. ReadPair(s) = IF ~one.ok \/ ~two.ok THEN Failed
                    ELSE [ok |-> TRUE, value |-> <<one.value, two.value>>, rest |-> two.rest]
  BY DEF ReadPair
<1> HIDE DEF one, two, s
<1>5. one.ok /\ one.value = u /\ two.ok /\ two.value = v /\ two.rest = rest
  BY <1>2, <1>3
<1>6. ReadPair(s) = [ok |-> TRUE, value |-> <<u, v>>, rest |-> rest]
  BY <1>4, <1>5
<1> QED BY <1>6 DEF s

\* Sequences of bytes that are put together from the left are read from the left.
Bytes == Seq(Byte)

Cat(x, y) == x \o y

LEMMA CatIn == \A x, y \in Bytes : Cat(x, y) \in Bytes
BY ConcatProperties DEF Bytes, Cat

LEMMA CatAssoc == \A x, y, z \in Bytes : Cat(Cat(x, y), z) = Cat(x, Cat(y, z))
BY ConcatAssociative DEF Bytes, Cat

LEMMA CatSplit ==
  ASSUME NEW e \in Bytes, NEW rest \in Bytes
  PROVE  /\ Len(e) \in Nat /\ Len(rest) \in Nat /\ Len(Cat(e, rest)) = Len(e) + Len(rest)
         /\ SubSeq(Cat(e, rest), Len(e) + 1, Len(Cat(e, rest))) = rest
         /\ SubSeq(Cat(e, rest), 1, Len(e)) = e
         /\ e # <<>> => Cat(e, rest)[1] = e[1]
<1> USE DEF Bytes, Cat
<1>1. Len(e) \in Nat /\ Len(rest) \in Nat /\ (e # <<>> => Len(e) >= 1)
  BY LenProperties, EmptySeq
<1>2. Len(e \o rest) = Len(e) + Len(rest)
  BY ConcatProperties
<1>3. e # <<>> => (e \o rest)[1] = e[1]
  BY <1>1, ConcatProperties
<1> QED BY <1>1, <1>2, <1>3, Split

\* What is proved above, in these words.
LEMMA VarintBytes ==
  ASSUME NEW v \in Free64
  PROVE  Varint(v) \in Bytes /\ Len(Varint(v)) \in 1..8
BY VarintSeq DEF Bytes

LEMMA PairBytes ==
  ASSUME NEW u \in Free64, NEW v \in Free64, NEW rest \in Bytes
  PROVE  ReadPair(Cat(Varint(u), Cat(Varint(v), rest))) =
           [ok |-> TRUE, value |-> <<u, v>>, rest |-> rest]
BY PairRead DEF Bytes, Cat

LEMMA Regroup4 ==
  ASSUME NEW a \in Bytes, NEW b \in Bytes, NEW c \in Bytes, NEW d \in Bytes
  PROVE  /\ Cat(Cat(Cat(a, b), c), d) = Cat(a, Cat(b, Cat(c, d)))
         /\ Cat(b, Cat(c, d)) \in Bytes /\ Cat(c, d) \in Bytes
<1> DEFINE ab == Cat(a, b)
           cd == Cat(c, d)
<1>1. ab \in Bytes /\ cd \in Bytes /\ Cat(b, cd) \in Bytes
  BY CatIn
<1> HIDE DEF ab, cd
<1>2. Cat(Cat(ab, c), d) = Cat(ab, cd)
  BY <1>1, CatAssoc DEF cd
<1>3. Cat(ab, cd) = Cat(a, Cat(b, cd))
  BY <1>1, CatAssoc DEF ab
<1> QED BY <1>1, <1>2, <1>3, Zenon DEF ab, cd

LEMMA Regroup5 ==
  ASSUME NEW a \in Bytes, NEW b \in Bytes, NEW c \in Bytes, NEW d \in Bytes, NEW e \in Bytes
  PROVE  /\ Cat(Cat(Cat(Cat(a, b), c), d), e) = Cat(a, Cat(b, Cat(c, Cat(d, e))))
         /\ Cat(Cat(Cat(Cat(a, b), c), d), e) \in Bytes
         /\ Cat(b, Cat(c, Cat(d, e))) \in Bytes /\ Cat(c, Cat(d, e)) \in Bytes
         /\ Cat(d, e) \in Bytes
<1> DEFINE abc == Cat(Cat(a, b), c)
           de  == Cat(d, e)
<1>1. abc \in Bytes /\ de \in Bytes /\ Cat(Cat(abc, d), e) \in Bytes
  BY CatIn
<1> HIDE DEF abc, de
<1>2. Cat(Cat(abc, d), e) = Cat(abc, de)
  BY <1>1, CatAssoc DEF de
<1>3. /\ Cat(abc, de) = Cat(a, Cat(b, Cat(c, de)))
      /\ Cat(b, Cat(c, de)) \in Bytes /\ Cat(c, de) \in Bytes
  BY <1>1, Regroup4 DEF abc
<1> QED BY <1>1, <1>2, <1>3, Zenon DEF abc, de

LEMMA Regroup6 ==
  ASSUME NEW a \in Bytes, NEW b \in Bytes, NEW c \in Bytes, NEW d \in Bytes,
         NEW e \in Bytes, NEW f \in Bytes
  PROVE  /\ Cat(Cat(Cat(Cat(a, b), c), d), e) \in Bytes
         /\ Cat(Cat(Cat(Cat(Cat(a, b), c), d), e), f) =
              Cat(a, Cat(b, Cat(c, Cat(d, Cat(e, f)))))
         /\ Cat(c, Cat(d, Cat(e, f))) \in Bytes
<1> DEFINE ab   == Cat(a, b)
           abc  == Cat(ab, c)
           abcd == Cat(abc, d)
           ef   == Cat(e, f)
           def  == Cat(d, ef)
           cdef == Cat(c, def)
<1>1. /\ ab \in Bytes /\ abc \in Bytes /\ abcd \in Bytes /\ ef \in Bytes /\ def \in Bytes
      /\ cdef \in Bytes /\ Cat(abcd, e) \in Bytes
  BY CatIn
<1> HIDE DEF ab, abc, abcd, ef, def, cdef
<1>2. Cat(Cat(abcd, e), f) = Cat(abcd, ef)
  BY <1>1, CatAssoc DEF ef
<1>3. Cat(abcd, ef) = Cat(abc, def)
  BY <1>1, CatAssoc DEF abcd, def
<1>4. Cat(abc, def) = Cat(ab, cdef)
  BY <1>1, CatAssoc DEF abc, cdef
<1>5. Cat(ab, cdef) = Cat(a, Cat(b, cdef))
  BY <1>1, CatAssoc DEF ab
<1>6. Cat(Cat(abcd, e), f) = Cat(a, Cat(b, cdef))
  BY <1>2, <1>3, <1>4, <1>5, Zenon
<1> QED BY <1>1, <1>6, Zenon DEF ab, abc, abcd, ef, def, cdef

\* The header of a stream.
LEMMA HeaderRead ==
  ASSUME NEW g \in Free64, NEW sg \in Free64, NEW rest \in Bytes
  PROVE  /\ SubgroupHeader(g, sg) \in Bytes
         /\ ReadSubgroupHeader(Cat(SubgroupHeader(g, sg), rest)) =
              [ok |-> TRUE,
               value |-> [track_alias |-> Wide(TrackVideo), group_id |-> g, subgroup_id |-> sg,
                          publisher_priority |-> PriorityVideo],
               rest |-> rest]
<1> DEFINE type  == Wide(StreamTypeSubgroup)
           track == Wide(TrackVideo)
<1>1. type \in Free64 /\ track \in Free64
  <2>1. StreamTypeSubgroup \in Number /\ TrackVideo \in Number
    BY DEF StreamTypeSubgroup, TrackVideo, Number
  <2> QED BY <2>1, WideIs, Zenon
<1> HIDE DEF type, track
<1> DEFINE p == <<PriorityVideo>>
           behind == Cat(p, rest)
<1>2. p \in Bytes /\ Len(p) = 1 /\ p[1] = PriorityVideo /\ p # <<>>
  <2>1. PriorityVideo \in Byte
    BY DEF PriorityVideo, Byte
  <2> HIDE DEF Byte
  <2> QED BY <2>1 DEF Bytes
<1> HIDE DEF p
<1>3. behind \in Bytes /\ behind # <<>> /\ behind[1] = PriorityVideo /\ Tail(behind) = rest
  <2>1. /\ behind \in Bytes /\ Len(rest) \in Nat /\ Len(behind) = Len(p) + Len(rest)
        /\ SubSeq(behind, Len(p) + 1, Len(behind)) = rest
        /\ behind[1] = p[1]
    BY <1>2, CatSplit, CatIn
  <2> HIDE DEF behind
  <2>2. Len(behind) = 1 + Len(rest) /\ SubSeq(behind, 2, Len(behind)) = rest
    BY <1>2, <2>1
  <2>3. Tail(behind) = SubSeq(behind, 2, Len(behind)) /\ behind # <<>>
    BY <2>1, <2>2, TailIsSubSeq DEF Bytes
  <2> QED BY <1>2, <2>1, <2>2, <2>3
<1>4. /\ Varint(type) \in Bytes /\ Varint(track) \in Bytes
      /\ Varint(g) \in Bytes /\ Varint(sg) \in Bytes
  BY <1>1, VarintBytes
<1> DEFINE group == Cat(Varint(g), Cat(Varint(sg), behind))
           s == Cat(Varint(type), Cat(Varint(track), group))
<1>5. /\ SubgroupHeader(g, sg) \in Bytes
      /\ Cat(SubgroupHeader(g, sg), rest) = s
      /\ group \in Bytes
  <2>1. SubgroupHeader(g, sg) =
          Cat(Cat(Cat(Cat(Varint(type), Varint(track)), Varint(g)), Varint(sg)), p)
    BY Zenon DEF SubgroupHeader, Small, type, track, p, Cat
  <2> QED BY <1>2, <1>4, <2>1, Regroup6 DEF behind
<1>6. ReadPair(s) = [ok |-> TRUE, value |-> <<type, track>>, rest |-> group]
  BY <1>1, <1>5, PairBytes
<1>7. ReadPair(group) = [ok |-> TRUE, value |-> <<g, sg>>, rest |-> behind]
  BY <1>3, PairBytes
<1> HIDE DEF group, s
<1> DEFINE stream == ReadPair(s)
           inner  == ReadPair(stream.rest)
<1>8. /\ stream.ok /\ stream.value[1] = type /\ stream.value[2] = track /\ stream.rest = group
      /\ inner.ok /\ inner.value[1] = g /\ inner.value[2] = sg /\ inner.rest = behind
  BY <1>6, <1>7
<1>9. ReadSubgroupHeader(s) =
        IF ~stream.ok \/ ~inner.ok \/ stream.value[1] # Wide(StreamTypeSubgroup) \/ inner.rest = <<>>
          THEN Failed
          ELSE [ok |-> TRUE,
                value |-> [track_alias |-> stream.value[2], group_id |-> inner.value[1],
                           subgroup_id |-> inner.value[2], publisher_priority |-> inner.rest[1]],
                rest |-> Tail(inner.rest)]
  BY DEF ReadSubgroupHeader
<1> HIDE DEF stream, inner
<1>10. ReadSubgroupHeader(s) =
         [ok |-> TRUE,
          value |-> [track_alias |-> track, group_id |-> g, subgroup_id |-> sg,
                     publisher_priority |-> PriorityVideo],
          rest |-> rest]
  BY <1>3, <1>8, <1>9 DEF type
<1> QED BY <1>5, <1>10 DEF track

LEMMA CatEmpty == \A x \in Bytes : Cat(x, <<>>) = x /\ <<>> \in Bytes
BY ConcatEmptySeq DEF Bytes, Cat

\* The headers between an object's number and its payload, as far as the first and as
\* far as the second of them is read.
Unread(ts)  == [ok |-> TRUE, value |-> [ts |-> Zeroes(8), codec |-> -1],
                rest |-> ExtensionHeaders(ts, Hevc)]
OneRead(ts) == [ok |-> TRUE, value |-> [ts |-> ts, codec |-> -1],
                rest |-> Cat(Small(ExtCodec), Small(Hevc))]
BothRead(ts) == [ok |-> TRUE, value |-> [ts |-> ts, codec |-> Hevc], rest |-> <<>>]

\* Small numbers are free.
LEMMA SmallIs ==
  ASSUME NEW n \in Number
  PROVE  Small(n) = Varint(Wide(n)) /\ Wide(n) \in Free64 /\ Narrow(Wide(n)) = n /\ Small(n) \in Bytes
BY WideIs, VarintBytes DEF Small

LEMMA ExtensionIs ==
  ASSUME NEW ts \in Free64
  PROVE  /\ ExtensionHeaders(ts, Hevc) \in Bytes
         /\ Len(ExtensionHeaders(ts, Hevc)) \in 4..32
         /\ ReadPair(ExtensionHeaders(ts, Hevc)) =
              [ok |-> TRUE, value |-> <<Wide(ExtCaptureTimestamp), ts>>,
               rest |-> Cat(Small(ExtCodec), Small(Hevc))]
         /\ ReadPair(Cat(Small(ExtCodec), Small(Hevc))) =
              [ok |-> TRUE, value |-> <<Wide(ExtCodec), Wide(Hevc)>>, rest |-> <<>>]
         /\ Cat(Small(ExtCodec), Small(Hevc)) # <<>> /\ ExtensionHeaders(ts, Hevc) # <<>>
<1> DEFINE a == Small(ExtCaptureTimestamp)
           b == Varint(ts)
           c == Small(ExtCodec)
           d == Small(Hevc)
<1>1. ExtCaptureTimestamp \in Number /\ ExtCodec \in Number /\ Hevc \in Number
  BY DEF ExtCaptureTimestamp, ExtCodec, Hevc, Number
<1>2. /\ Wide(ExtCaptureTimestamp) \in Free64 /\ Wide(ExtCodec) \in Free64 /\ Wide(Hevc) \in Free64
      /\ a = Varint(Wide(ExtCaptureTimestamp)) /\ c = Varint(Wide(ExtCodec)) /\ d = Varint(Wide(Hevc))
      /\ a \in Bytes /\ b \in Bytes /\ c \in Bytes /\ d \in Bytes
      /\ Len(a) \in 1..8 /\ Len(b) \in 1..8 /\ Len(c) \in 1..8 /\ Len(d) \in 1..8
  BY <1>1, SmallIs, VarintBytes
<1>3. ExtensionHeaders(ts, Hevc) = Cat(Cat(Cat(a, b), c), d)
  BY Zenon DEF ExtensionHeaders, Cat
<1> HIDE DEF a, b, c, d
<1>4. /\ ExtensionHeaders(ts, Hevc) = Cat(a, Cat(b, Cat(c, d)))
      /\ Cat(b, Cat(c, d)) \in Bytes /\ Cat(c, d) \in Bytes /\ Cat(a, Cat(b, Cat(c, d))) \in Bytes
  BY <1>2, <1>3, Regroup4, CatIn
<1>5. /\ Len(Cat(a, Cat(b, Cat(c, d)))) = Len(a) + Len(Cat(b, Cat(c, d)))
      /\ Len(Cat(b, Cat(c, d))) = Len(b) + Len(Cat(c, d))
      /\ Len(Cat(c, d)) = Len(c) + Len(d)
  BY <1>2, <1>4, CatSplit, ZenonT(60)
<1>6. ReadPair(Cat(a, Cat(b, Cat(c, d)))) =
        [ok |-> TRUE, value |-> <<Wide(ExtCaptureTimestamp), ts>>, rest |-> Cat(c, d)]
  BY <1>2, <1>4, PairBytes DEF b
<1>7. ReadPair(Cat(c, d)) = [ok |-> TRUE, value |-> <<Wide(ExtCodec), Wide(Hevc)>>, rest |-> <<>>]
  <2>1. Cat(d, <<>>) = d /\ <<>> \in Bytes
    BY <1>2, CatEmpty
  <2>2. ReadPair(Cat(c, Cat(d, <<>>))) = [ok |-> TRUE, value |-> <<Wide(ExtCodec), Wide(Hevc)>>, rest |-> <<>>]
    BY <1>2, <2>1, PairBytes
  <2> QED BY <2>1, <2>2
<1>8. Len(Cat(c, d)) # 0 /\ Len(Cat(a, Cat(b, Cat(c, d)))) \in 4..32
  <2> DEFINE la == Len(a)
             lb == Len(b)
             lc == Len(c)
             ld == Len(d)
             all == Len(Cat(a, Cat(b, Cat(c, d))))
             two == Len(Cat(c, d))
  <2>1. la \in 1..8 /\ lb \in 1..8 /\ lc \in 1..8 /\ ld \in 1..8
    BY <1>2
  <2>2. all = la + (lb + (lc + ld)) /\ two = lc + ld
    BY <1>5, Zenon
  <2> HIDE DEF la, lb, lc, ld, all, two
  <2>3. all \in 4..32 /\ two # 0
    BY <2>1, <2>2
  <2> QED BY <2>3 DEF all, two
<1>9. Cat(c, d) # <<>> /\ Cat(a, Cat(b, Cat(c, d))) # <<>>
  <2> DEFINE two == Len(Cat(c, d))
             all == Len(Cat(a, Cat(b, Cat(c, d))))
  <2>1. Len(<<>>) = 0
    OBVIOUS
  <2>2. two # 0 /\ all # 0
    <3>1. two # 0 /\ all \in 4..32
      BY <1>8
    <3> HIDE DEF two, all
    <3> QED BY <3>1
  <2> QED BY <2>1, <2>2, Zenon
<1> QED BY <1>4, <1>6, <1>7, <1>8, <1>9 DEF c, d

LEMMA ExtensionsStep ==
  ASSUME NEW ts \in Free64
  PROVE  /\ ParseExtension(Unread(ts)) = OneRead(ts)
         /\ ParseExtension(OneRead(ts)) = BothRead(ts)
<1> DEFINE head(before) == ReadPair(before.rest)
           type(before) == Narrow(head(before).value[1])
<1>0. ExtCaptureTimestamp \in Number /\ ExtCodec \in Number /\ Hevc \in Number
  BY DEF ExtCaptureTimestamp, ExtCodec, Hevc, Number
<1>1. ParseExtension(Unread(ts)) = OneRead(ts)
  <2> DEFINE u == Unread(ts)
  <2>1. /\ head(u).ok /\ head(u).value[1] = Wide(ExtCaptureTimestamp) /\ head(u).value[2] = ts
        /\ head(u).rest = Cat(Small(ExtCodec), Small(Hevc))
    BY ExtensionIs DEF Unread
  <2>2. type(u) = ExtCaptureTimestamp
    BY <1>0, <2>1, SmallIs
  <2>3. ExtCaptureTimestamp # ExtCodec /\ ~(ExtCaptureTimestamp % 2 = 1)
    BY DEF ExtCaptureTimestamp, ExtCodec
  <2>4. ParseExtension(u) = [u EXCEPT !.value.ts = head(u).value[2], !.rest = head(u).rest]
    BY <2>1, <2>2, <2>3, Zenon DEF ParseExtension
  <2> QED BY <2>1, <2>4 DEF Unread, OneRead
<1>2. ParseExtension(OneRead(ts)) = BothRead(ts)
  <2> DEFINE u == OneRead(ts)
  <2>1. /\ head(u).ok /\ head(u).value[1] = Wide(ExtCodec) /\ head(u).value[2] = Wide(Hevc)
        /\ head(u).rest = <<>>
    BY ExtensionIs DEF OneRead
  <2>2. type(u) = ExtCodec /\ Narrow(head(u).value[2]) = Hevc
    BY <1>0, <2>1, SmallIs
  <2>3. ExtCodec # ExtCaptureTimestamp /\ ~(ExtCodec % 2 = 1)
    BY DEF ExtCaptureTimestamp, ExtCodec
  <2>4. ParseExtension(u) = [u EXCEPT !.value.codec = Narrow(head(u).value[2]), !.rest = head(u).rest]
    BY <2>1, <2>2, <2>3, Zenon DEF ParseExtension
  <2> QED BY <2>1, <2>2, <2>4 DEF OneRead, BothRead
<1> QED BY <1>1, <1>2

\* A nonempty set of naturals has a least member.
LEMMA LeastNatural ==
  ASSUME NEW S \in SUBSET Nat, S # {}
  PROVE  \E least \in S : \A k \in S : least <= k
<1> DEFINE R == OpToRel(<, Nat)
<1>1. IsWellFoundedOn(R, Nat)
  BY NatLessThanWellFounded
<1>2. \A i, j \in Nat : i < j <=> <<i, j>> \in R
  BY DEF OpToRel
<1> HIDE DEF R
<1>3. PICK least \in S : \A k \in S : <<k, least>> \notin R
  BY <1>1, WFMin
<1>4. \A k \in S : ~(k < least) /\ k \in Nat /\ least \in Nat
  BY <1>2, <1>3
<1> QED BY <1>4

LEMMA ExtensionsRead ==
  ASSUME NEW ts \in Free64
  PROVE  ParseExtensions(ExtensionHeaders(ts, Hevc), [ts |-> Zeroes(8), codec |-> -1]) = BothRead(ts)
<1> DEFINE s == ExtensionHeaders(ts, Hevc)
           vals == [ts |-> Zeroes(8), codec |-> -1]
           len == Len(s)
           Step(before) == IF ~before.ok \/ before.rest = <<>> THEN before ELSE ParseExtension(before)
           Is(parsed) == parsed = [n \in 0..len |-> IF n = 0 THEN [ok |-> TRUE, value |-> vals, rest |-> s]
                                                    ELSE Step(parsed[n - 1])]
           parsed == CHOOSE parsed : Is(parsed)
<1>1. len \in 4..32
  BY ExtensionIs
<1>2. /\ Step(Unread(ts)) = OneRead(ts) /\ Step(OneRead(ts)) = BothRead(ts)
      /\ Step(BothRead(ts)) = BothRead(ts)
  <2>1. Unread(ts).ok /\ Unread(ts).rest # <<>> /\ OneRead(ts).ok /\ OneRead(ts).rest # <<>>
    BY ExtensionIs DEF Unread, OneRead
  <2>2. BothRead(ts).rest = <<>>
    BY DEF BothRead
  <2> QED BY <2>1, <2>2, ExtensionsStep, Zenon
<1>3. ParseExtensions(s, vals) = parsed[len]
  BY Zenon DEF ParseExtensions
<1>4. Unread(ts) = [ok |-> TRUE, value |-> vals, rest |-> s]
  BY Zenon DEF Unread
<1> HIDE DEF s, vals, len, Step
<1>5. Is(parsed)
  <2> DEFINE g == [n \in 0..len |-> IF n = 0 THEN Unread(ts) ELSE IF n = 1 THEN OneRead(ts) ELSE BothRead(ts)]
  <2>1. ASSUME NEW n \in 0..len
        PROVE  g[n] = IF n = 0 THEN [ok |-> TRUE, value |-> vals, rest |-> s] ELSE Step(g[n - 1])
    <3>1. CASE n = 0
      BY <1>4, <3>1
    <3>2. CASE n = 1
      <4>1. g[0] = Unread(ts) /\ g[1] = OneRead(ts)
        BY <1>1
      <4> HIDE DEF g
      <4> QED BY <1>2, <3>2, <4>1
    <3>3. CASE n = 2
      <4>1. g[1] = OneRead(ts) /\ g[2] = BothRead(ts)
        BY <1>1
      <4> HIDE DEF g
      <4> QED BY <1>2, <3>3, <4>1
    <3>4. CASE n > 2
      <4>1. g[n - 1] = BothRead(ts) /\ g[n] = BothRead(ts)
        BY <1>1, <3>4
      <4> HIDE DEF g
      <4> QED BY <1>2, <3>4, <4>1
    <3> QED BY <1>1, <3>1, <3>2, <3>3, <3>4
  <2>2. Is(g)
    <3> DEFINE h == [n \in 0..len |-> IF n = 0 THEN [ok |-> TRUE, value |-> vals, rest |-> s]
                                      ELSE Step(g[n - 1])]
    <3>1. \A n \in 0..len : g[n] = h[n]
      <4> HIDE DEF g
      <4> QED BY <2>1
    <3>2. g = [n \in 0..len |-> g[n]] /\ h = [n \in 0..len |-> h[n]]
      OBVIOUS
    <3> HIDE DEF g, h
    <3>3. g = h
      BY <3>1, <3>2
    <3> QED BY <3>3 DEF h
  <2> HIDE DEF g, Is
  <2> QED BY <2>2, Zenon
<1> HIDE DEF parsed
<1>6. \A n \in 0..len : parsed[n] = IF n = 0 THEN Unread(ts) ELSE Step(parsed[n - 1])
  BY <1>4, <1>5
<1>7. parsed[2] = BothRead(ts)
  <2>1. parsed[0] = Unread(ts)
    BY <1>1, <1>6
  <2>2. parsed[1] = Step(parsed[0])
    BY <1>1, <1>6
  <2>3. parsed[2] = Step(parsed[1])
    BY <1>1, <1>6
  <2> QED BY <1>2, <2>1, <2>2, <2>3, Zenon
<1>8. \A n \in 2..len : parsed[n] = BothRead(ts)
  <2> DEFINE S == {n \in 2..len : parsed[n] # BothRead(ts)}
  <2> SUFFICES ASSUME S # {} PROVE FALSE
    OBVIOUS
  <2>1. PICK n \in S : \A k \in S : n <= k
    <3>1. S \in SUBSET Nat
      BY <1>1
    <3> QED BY <3>1, LeastNatural
  <2>2. n \in 3..len /\ n - 1 \in 2..len /\ n - 1 \notin S
    BY <1>1, <1>7, <2>1
  <2>3. parsed[n - 1] = BothRead(ts) /\ parsed[n] = Step(parsed[n - 1])
    BY <1>1, <1>6, <2>2
  <2> QED BY <1>2, <2>1, <2>3
<1>9. parsed[len] = BothRead(ts)
  BY <1>1, <1>8
<1> QED BY <1>3, <1>9 DEF s, vals

\* What is used of numbers.
LEMMA Numbers ==
  /\ 0 \in Number /\ \A n \in Number : n \in Nat
  /\ \A n \in 4..32 : n \in Number /\ n > 0 /\ ~(n > MaxExtensions)
  /\ \A n \in Number : n # 0 => n > 0
BY DEF Number, MaxExtensions

LEMMA SmallerIsNumber ==
  ASSUME NEW i \in Nat, NEW j \in Number, i <= j
  PROVE  i \in Number
<1> DEFINE i1 == i \div 256
           i2 == i1 \div 256
           j1 == j \div 256
           j2 == j1 \div 256
<1>1. j \in Nat /\ j2 \div 256 < 128
  BY DEF Number
<1>2. i1 \in Nat /\ j1 \in Nat /\ i1 <= j1
  BY <1>1, Digit, DigitKeepsOrder
<1> HIDE DEF i1, j1
<1>3. i2 \in Nat /\ j2 \in Nat /\ i2 <= j2
  BY <1>2, Digit, DigitKeepsOrder
<1> HIDE DEF i2, j2
<1>4. i2 \div 256 \in Nat /\ j2 \div 256 \in Nat /\ i2 \div 256 <= j2 \div 256
  BY <1>3, Digit, DigitKeepsOrder
<1>5. i2 \div 256 < 128
  BY <1>1, <1>4
<1> QED BY <1>5 DEF Number, i1, i2

\* An object that was written is read as it was, up to its payload.
LEMMA ObjectRead ==
  ASSUME NEW ts \in Free64, NEW payload \in Bytes, Len(payload) \in Number, Len(payload) # 0
  PROVE  /\ WriteObject(ts, Hevc, payload) \in Bytes
         /\ ReadObjectHead(WriteObject(ts, Hevc, payload)) =
              [ok |-> TRUE, value |-> [ts |-> ts, codec |-> Hevc, len |-> Len(payload)],
               rest |-> payload]
<1> DEFINE ext == ExtensionHeaders(ts, Hevc)
           n == Len(ext)
           m == Len(payload)
           zero == Small(0)
           announced == Small(n)
           size == Small(m)
           object == WriteObject(ts, Hevc, payload)
           behind == Cat(ext, Cat(size, payload))
<1>1. ext \in Bytes /\ n \in 4..32
  BY ExtensionIs
<1>2. n \in Number /\ m \in Number /\ m > 0 /\ n > 0 /\ ~(n > MaxExtensions) /\ 0 \in Number
  <2> HIDE DEF n, m
  <2>1. m \in Number /\ m # 0
    BY DEF m
  <2> QED BY <1>1, <2>1, Numbers, Zenon
<1>3. /\ zero = Varint(Wide(0)) /\ Wide(0) \in Free64 /\ zero \in Bytes
      /\ announced = Varint(Wide(n)) /\ Wide(n) \in Free64 /\ Narrow(Wide(n)) = n /\ announced \in Bytes
      /\ size = Varint(Wide(m)) /\ Wide(m) \in Free64 /\ Narrow(Wide(m)) = m /\ size \in Bytes
  <2> HIDE DEF n, m
  <2> QED BY <1>2, SmallIs
<1>4. object = Cat(Cat(Cat(Cat(zero, announced), ext), size), payload)
  BY Zenon DEF WriteObject, Cat
<1> HIDE DEF zero, announced, size, object, ext
<1>5. /\ object = Cat(zero, Cat(announced, behind)) /\ object \in Bytes
      /\ behind \in Bytes /\ Cat(size, payload) \in Bytes
  <2>1. zero \in Bytes /\ announced \in Bytes /\ ext \in Bytes /\ size \in Bytes
    BY <1>1, <1>3
  <2>2. /\ Cat(Cat(Cat(Cat(zero, announced), ext), size), payload) =
             Cat(zero, Cat(announced, Cat(ext, Cat(size, payload))))
        /\ Cat(Cat(Cat(Cat(zero, announced), ext), size), payload) \in Bytes
        /\ Cat(ext, Cat(size, payload)) \in Bytes /\ Cat(size, payload) \in Bytes
    <3> HIDE DEF behind, n, m
    <3> QED BY <2>1, Regroup5
  <2> QED BY <1>4, <2>2, Zenon
<1>6. ReadPair(object) = [ok |-> TRUE, value |-> <<Wide(0), Wide(n)>>, rest |-> behind]
  <2> HIDE DEF behind, n
  <2> QED BY <1>3, <1>5, PairBytes
<1>7. SubSeq(behind, 1, n) = ext /\ SubSeq(behind, n + 1, Len(behind)) = Cat(size, payload)
      /\ Len(behind) = n + Len(Cat(size, payload)) /\ Len(Cat(size, payload)) \in Nat
  BY <1>1, <1>5, CatSplit
<1>8. ~(n > Len(behind))
  <2> DEFINE a == Len(behind)
             b == Len(Cat(size, payload))
  <2>1. a = n + b /\ b \in Nat /\ n \in 4..32
    BY <1>1, <1>7
  <2> HIDE DEF a, b, n
  <2>2. ~(n > a)
    BY <2>1
  <2> QED BY <2>2 DEF a
<1>9. ReadVarint(Cat(size, payload)) = [ok |-> TRUE, value |-> Wide(m), rest |-> payload]
  <2>1. payload \in Seq(Byte)
    BY DEF Bytes
  <2> HIDE DEF m
  <2> QED BY <1>3, <2>1, VarintRead DEF Cat
<1>10. ParseExtensions(ext, [ts |-> Zeroes(8), codec |-> -1]) = BothRead(ts)
  BY ExtensionsRead DEF ext
<1> HIDE DEF behind, n, m
<1>11. ReadObjectHead(object) =
         [ok |-> TRUE, value |-> [ts |-> ts, codec |-> Hevc, len |-> m], rest |-> payload]
  <2> DEFINE two == ReadPair(object)
             len == Narrow(two.value[2])
             vals == ParseExtensions(SubSeq(two.rest, 1, len), [ts |-> Zeroes(8), codec |-> -1])
             sz == ReadVarint(SubSeq(two.rest, len + 1, Len(two.rest)))
  <2>1. two.ok /\ two.rest = behind /\ len = n
    BY <1>3, <1>6
  <2>2. vals = BothRead(ts)
    BY <1>7, <1>10, <2>1, Zenon
  <2>3. vals.ok /\ vals.value.ts = ts /\ vals.value.codec = Hevc
    BY <2>2 DEF BothRead
  <2>4. sz.ok /\ Narrow(sz.value) = m /\ sz.rest = payload
    <3>1. sz = [ok |-> TRUE, value |-> Wide(m), rest |-> payload]
      BY <1>7, <1>9, <2>1, Zenon
    <3> QED BY <1>3, <3>1
  <2>5. ~(~two.ok) /\ ~(two.ok /\ (len > MaxExtensions \/ len > Len(two.rest)))
    BY <1>2, <1>8, <2>1, Zenon
  <2>6. ReadObjectHead(object) =
          IF ~vals.ok \/ ~sz.ok THEN Failed
          ELSE [ok |-> TRUE, value |-> [ts |-> vals.value.ts, codec |-> vals.value.codec,
                             len |-> Narrow(sz.value)],
                   rest |-> IF Narrow(sz.value) > 0 THEN sz.rest
                            ELSE ReadVarint(sz.rest).rest]
    BY <2>5, Zenon DEF ReadObjectHead
  <2> HIDE DEF two, len, vals, sz
  <2> QED BY <1>2, <2>3, <2>4, <2>6, Zenon
<1> QED BY <1>5, <1>11 DEF object, m

-------------------------------------------------------------------------------
(* The two pools and who has handles of their buffers. *)

\* The viewer's pool, with what is proved of it.
InP == INSTANCE BufPoolProofs WITH
  made <- in_made, free <- in_free, place <- in_place, handles <- in_handles, data <- in_data

On(b) == {t \in tasks : t.buf = b}

\* A buffer that is owned is the encoder's.
EncoderHolds ==
  /\ encoder # None => /\ encoder \in [sample : Samples, buf : Ids]
                       /\ place[encoder.buf] \in {"owned", "shared"}
  /\ \A b \in Ids : place[b] = "owned" => encoder # None /\ encoder.buf = b
  /\ Sending => frames # <<>>

\* A task is the only one of its frame and peer.
TasksHold ==
  /\ IsFiniteSet(tasks) /\ frames \in Seq(Samples)
  /\ \A t \in tasks :
       /\ t.buf \in Ids /\ place[t.buf] = "shared"
       /\ t.seq \in 1..Len(frames)
       /\ t.seq = Len(frames) => t.peer \notin unsent

Counted ==
  \A b \in Ids : place[b] = "shared" => handles[b] = Holds(encoder, b) + Cardinality(On(b))

SendInv == PoolInv /\ EncoderHolds /\ TasksHold /\ Counted

LEMMA EncodeKeeps ==
  ASSUME SendInv, NEW sample \in Samples, Encode(sample)
  PROVE  SendInv'
<1>1. PoolInv'
  BY CheckoutKeeps DEF Encode, SendInv
<1>2. /\ Popped \in Ids /\ place' = [place EXCEPT ![Popped] = "owned"] /\ handles' = handles
      /\ encoder = None /\ encoder' = [sample |-> sample, buf |-> Popped]
      /\ UNCHANGED <<frames, unsent, tasks>>
  BY DEF Encode, Checkout, Pop
<1>3. place[Popped] \in {"free", "none"} /\ place \in [Ids -> Places]
  BY <1>2, PoppedIsNobodys DEF SendInv, PoolInv, PoolTypeOK
<1>4. encoder' \in [sample : Samples, buf : Ids] /\ encoder' # None
  <2>1. encoder' \in [sample : Samples, buf : Ids]
    BY <1>2
  <2> QED BY <2>1, MediaAssumption
<1>5. EncoderHolds'
  BY <1>2, <1>3, <1>4 DEF EncoderHolds, SendInv, Sending
<1>6. TasksHold'
  BY <1>2, <1>3 DEF TasksHold, SendInv
<1>7. Counted'
  <2> SUFFICES ASSUME NEW b \in Ids, place'[b] = "shared"
               PROVE  handles'[b] = Holds(encoder', b) + Cardinality(On(b)')
    BY DEF Counted, Holds
  <2>1. b # Popped /\ place[b] = "shared"
    BY <1>2, <1>3
  <2>2. Holds(encoder', b) = 0 /\ Holds(encoder, b) = 0 /\ On(b)' = On(b)
    BY <1>2, <2>1 DEF Holds, On
  <2> QED BY <1>2, <2>1, <2>2 DEF SendInv, Counted
<1> QED BY <1>1, <1>5, <1>6, <1>7 DEF SendInv

LEMMA ExtractFailsKeeps ==
  ASSUME SendInv, ExtractFails
  PROVE  SendInv'
<1>1. encoder.buf \in Ids
  BY DEF SendInv, EncoderHolds, ExtractFails, Extracting
<1>2. PoolInv'
  BY <1>1, DropKeeps DEF ExtractFails, SendInv
<1>3. /\ place[encoder.buf] = "owned" /\ place' = [place EXCEPT ![encoder.buf] = "returning"]
      /\ encoder # None /\ encoder' = None /\ UNCHANGED <<handles, frames, unsent, tasks>>
  BY DEF ExtractFails, DropOwned, Extracting
<1>4. place \in [Ids -> Places]
  BY DEF SendInv, PoolInv, PoolTypeOK
<1>5. EncoderHolds'
  BY <1>1, <1>3, <1>4 DEF EncoderHolds, SendInv, Sending
<1>6. TasksHold'
  BY <1>1, <1>3, <1>4 DEF TasksHold, SendInv
<1>7. Counted'
  BY <1>1, <1>3, <1>4 DEF Counted, SendInv, Holds, On
<1> QED BY <1>2, <1>5, <1>6, <1>7 DEF SendInv

LEMMA ExtractKeeps ==
  ASSUME SendInv, Extract
  PROVE  SendInv'
<1>1. encoder.buf \in Ids /\ encoder.sample \in Samples
  BY DEF SendInv, EncoderHolds, Extract, Extracting
<1>2. PoolInv'
  BY <1>1, ShareKeeps DEF Extract, SendInv
<1>3. /\ place[encoder.buf] = "owned" /\ place' = [place EXCEPT ![encoder.buf] = "shared"]
      /\ handles' = [handles EXCEPT ![encoder.buf] = 1]
      /\ encoder # None /\ UNCHANGED <<encoder, tasks>>
      /\ frames' = Append(frames, encoder.sample)
  BY DEF Extract, Share, Extracting
<1>4. place \in [Ids -> Places] /\ handles \in [Ids -> Nat]
  BY DEF SendInv, PoolInv, PoolTypeOK
<1>5. EncoderHolds'
  BY <1>1, <1>3, <1>4, SMTT(30) DEF EncoderHolds, SendInv
<1>6. TasksHold'
  <2>1. frames' \in Seq(Samples) /\ Len(frames') = Len(frames) + 1 /\ Len(frames) \in Nat
    BY <1>1, <1>3 DEF SendInv, TasksHold
  <2> QED BY <1>1, <1>3, <1>4, <2>1 DEF SendInv, TasksHold
<1>7. Counted'
  <2> SUFFICES ASSUME NEW b \in Ids, place'[b] = "shared"
               PROVE  handles'[b] = Holds(encoder, b) + Cardinality(On(b))
    BY <1>3 DEF Counted, Holds, On
  <2>1. CASE b = encoder.buf
    <3>1. On(b) = {}
      BY <1>3, <2>1 DEF SendInv, TasksHold, On
    <3> QED BY <1>3, <1>4, <2>1, <3>1, FS_EmptySet DEF Holds
  <2>2. CASE b # encoder.buf
    BY <1>3, <1>4, <2>2 DEF SendInv, Counted
  <2> QED BY <2>1, <2>2
<1> QED BY <1>2, <1>5, <1>6, <1>7 DEF SendInv

LEMMA SpawnKeeps ==
  ASSUME SendInv, NEW p \in Peers, Spawn(p)
  PROVE  SendInv'
<1> DEFINE t == [peer |-> p, seq |-> Len(frames), buf |-> encoder.buf]
<1>1. encoder.buf \in Ids /\ encoder # None /\ place[encoder.buf] = "shared"
  BY DEF SendInv, EncoderHolds, Spawn, Sending
<1>2. PoolInv'
  BY <1>1, CloneKeeps DEF Spawn, SendInv
<1>3. /\ handles' = [handles EXCEPT ![encoder.buf] = handles[encoder.buf] + 1]
      /\ UNCHANGED <<encoder, place, frames>>
      /\ p \in unsent /\ unsent' = unsent \ {p} /\ tasks' = tasks \cup {t}
  BY DEF Spawn, Clone
<1>4. place \in [Ids -> Places] /\ handles \in [Ids -> Nat]
  BY DEF SendInv, PoolInv, PoolTypeOK
<1>5. EncoderHolds'
  BY <1>3 DEF EncoderHolds, SendInv, Sending
<1>6. t \notin tasks
  BY <1>3 DEF SendInv, TasksHold
<1>7. frames # <<>>
  BY DEF SendInv, EncoderHolds, Spawn
<1>8. TasksHold'
  <2>1. IsFiniteSet(tasks')
    BY <1>3, FS_AddElement DEF SendInv, TasksHold
  <2> QED BY <1>1, <1>3, <1>7, <2>1 DEF SendInv, TasksHold
<1>9. Counted'
  <2> SUFFICES ASSUME NEW b \in Ids, place[b] = "shared"
               PROVE  handles'[b] = Holds(encoder, b) + Cardinality(On(b)')
    BY <1>3 DEF Counted, Holds, On
  <2>1. handles[b] = Holds(encoder, b) + Cardinality(On(b))
    BY DEF SendInv, Counted
  <2>2. CASE b = encoder.buf
    <3>1. On(b)' = On(b) \cup {t} /\ t \notin On(b)
      BY <1>3, <1>6, <2>2 DEF On
    <3>2. IsFiniteSet(On(b))
      BY FS_Subset DEF SendInv, TasksHold, On
    <3>3. Cardinality(On(b)') = Cardinality(On(b)) + 1
      BY <3>1, <3>2, FS_AddElement
    <3>4. Cardinality(On(b)) \in Nat
      BY <3>2, FS_CardinalityType
    <3>5. handles'[b] = handles[b] + 1
      BY <1>3, <1>4, <2>2
    <3> QED BY <2>1, <3>3, <3>4, <3>5 DEF Holds
  <2>3. CASE b # encoder.buf
    <3>1. On(b)' = On(b)
      BY <1>3, <2>3 DEF On
    <3> QED BY <1>3, <1>4, <2>1, <2>3, <3>1
  <2> QED BY <2>2, <2>3
<1> QED BY <1>2, <1>5, <1>8, <1>9 DEF SendInv

LEMMA SpawnedKeeps ==
  ASSUME SendInv, Spawned
  PROVE  SendInv'
<1> DEFINE e == encoder.buf
<1>1. e \in Ids /\ encoder # None /\ place[e] = "shared" /\ DropShared(e)
  BY DEF SendInv, EncoderHolds, Spawned, Sending
<1>2. PoolInv'
  BY <1>1, DropKeeps DEF SendInv
<1>3. encoder' = None /\ UNCHANGED <<tasks, frames, unsent>>
  BY DEF Spawned
<1>4. place \in [Ids -> Places] /\ handles \in [Ids -> Nat]
  BY DEF SendInv, PoolInv, PoolTypeOK
<1>5. handles[e] = 1 + Cardinality(On(e))
  BY <1>1 DEF SendInv, Counted, Holds
<1>6. IsFiniteSet(On(e)) /\ Cardinality(On(e)) \in Nat
  BY FS_Subset, FS_CardinalityType DEF SendInv, TasksHold, On
<1>7. CASE handles[e] = 1
  <2>1. On(e) = {}
    BY <1>5, <1>6, <1>7, FS_EmptySet
  <2>2. /\ place' = [place EXCEPT ![e] = "returning"] /\ handles' = [handles EXCEPT ![e] = 0]
    BY <1>1, <1>7 DEF DropShared
  <2>3. EncoderHolds'
    BY <1>1, <1>3, <1>4, <2>2 DEF SendInv, EncoderHolds, Sending
  <2>4. TasksHold'
    BY <1>1, <1>3, <1>4, <2>1, <2>2 DEF SendInv, TasksHold, On
  <2>5. Counted'
    BY <1>1, <1>3, <1>4, <2>2 DEF SendInv, Counted, On, Holds
  <2> QED BY <1>2, <2>3, <2>4, <2>5 DEF SendInv
<1>8. CASE handles[e] # 1
  <2>1. place' = place /\ handles' = [handles EXCEPT ![e] = handles[e] - 1]
    BY <1>1, <1>8 DEF DropShared
  <2>2. EncoderHolds'
    BY <1>1, <1>3, <2>1 DEF SendInv, EncoderHolds, Sending
  <2>3. TasksHold'
    BY <1>3, <2>1 DEF SendInv, TasksHold
  <2>4. Counted'
    <3> SUFFICES ASSUME NEW b \in Ids, place[b] = "shared"
                 PROVE  handles'[b] = Holds(None, b) + Cardinality(On(b))
      BY <1>3, <2>1 DEF Counted, Holds, On
    <3>1. Holds(None, b) = 0 /\ (b # e => Holds(encoder, b) = 0)
      BY DEF Holds
    <3>2. CASE b = e
      BY <1>1, <1>4, <1>5, <1>6, <2>1, <3>1, <3>2
    <3>3. CASE b # e
      BY <1>1, <1>4, <2>1, <3>1, <3>3 DEF SendInv, Counted
    <3> QED BY <3>2, <3>3
  <2> QED BY <1>2, <2>2, <2>3, <2>4 DEF SendInv
<1> QED BY <1>7, <1>8

LEMMA EndTaskKeeps ==
  ASSUME SendInv, NEW t \in tasks, NEW whole \in BOOLEAN, EndTask(t, whole)
  PROVE  SendInv'
<1> DEFINE e == t.buf
<1>1. e \in Ids /\ place[e] = "shared" /\ DropShared(e)
  BY DEF SendInv, TasksHold, EndTask
<1>2. PoolInv'
  BY <1>1, DropKeeps DEF SendInv
<1>3. tasks' = tasks \ {t} /\ UNCHANGED <<encoder, frames, unsent>>
  BY DEF EndTask
<1>4. place \in [Ids -> Places] /\ handles \in [Ids -> Nat]
  BY DEF SendInv, PoolInv, PoolTypeOK
<1>5. handles[e] = Holds(encoder, e) + Cardinality(On(e)) /\ Holds(encoder, e) \in {0, 1}
  BY <1>1 DEF SendInv, Counted, Holds
<1>6. IsFiniteSet(On(e)) /\ Cardinality(On(e)) \in Nat /\ IsFiniteSet(tasks')
  BY <1>3, FS_Subset, FS_CardinalityType DEF SendInv, TasksHold, On
<1>7. t \in On(e) /\ On(e)' = On(e) \ {t} /\ \A b \in Ids : b # e => On(b)' = On(b)
  BY <1>3 DEF On
<1>8. Cardinality(On(e)') = Cardinality(On(e)) - 1 /\ IsFiniteSet(On(e)')
  BY <1>6, <1>7, FS_RemoveElement
<1>9. CASE handles[e] = 1
  <2>1. Holds(encoder, e) = 0 /\ Cardinality(On(e)') = 0
    BY <1>5, <1>6, <1>8, <1>9, FS_CardinalityType
  <2>2. On(e)' = {} /\ ~(encoder # None /\ encoder.buf = e)
    BY <1>8, <2>1, FS_EmptySet DEF Holds
  <2>3. /\ place' = [place EXCEPT ![e] = "returning"] /\ handles' = [handles EXCEPT ![e] = 0]
    BY <1>1, <1>9 DEF DropShared
  <2>4. EncoderHolds'
    BY <1>1, <1>3, <1>4, <2>2, <2>3 DEF SendInv, EncoderHolds, Sending
  <2>5. TasksHold'
    BY <1>1, <1>3, <1>4, <1>6, <2>2, <2>3 DEF SendInv, TasksHold, On
  <2>6. Counted'
    BY <1>1, <1>3, <1>4, <1>7, <2>3 DEF SendInv, Counted, Holds
  <2> QED BY <1>2, <2>4, <2>5, <2>6 DEF SendInv
<1>10. CASE handles[e] # 1
  <2>1. place' = place /\ handles' = [handles EXCEPT ![e] = handles[e] - 1]
    BY <1>1, <1>10 DEF DropShared
  <2>2. EncoderHolds' /\ TasksHold'
    BY <1>3, <1>6, <2>1 DEF SendInv, EncoderHolds, TasksHold, Sending
  <2>3. Counted'
    <3> SUFFICES ASSUME NEW b \in Ids, place[b] = "shared"
                 PROVE  handles'[b] = Holds(encoder, b) + Cardinality(On(b)')
      BY <1>3, <2>1 DEF Counted, Holds, On
    <3>1. CASE b = e
      BY <1>1, <1>4, <1>5, <1>6, <1>8, <2>1, <3>1
    <3>2. CASE b # e
      BY <1>1, <1>4, <1>7, <2>1, <3>2 DEF SendInv, Counted
    <3> QED BY <3>1, <3>2
  <2> QED BY <1>2, <2>2, <2>3 DEF SendInv
<1> QED BY <1>9, <1>10

LEMMA ReturnKeeps ==
  ASSUME SendInv, NEW b \in Ids, Return(b)
  PROVE  SendInv'
<1>1. PoolInv'
  BY PushBackKeeps DEF Return, SendInv
<1>2. /\ place[b] = "returning" /\ place' = [place EXCEPT ![b] = "free"]
      /\ UNCHANGED <<handles, encoder, tasks, frames, unsent>>
  BY DEF Return, PushBack, sendVars
<1>3. place \in [Ids -> Places]
  BY DEF SendInv, PoolInv, PoolTypeOK
<1>4. EncoderHolds'
  BY <1>2, <1>3 DEF SendInv, EncoderHolds, Sending
<1>5. TasksHold'
  BY <1>2, <1>3 DEF SendInv, TasksHold
<1>6. Counted'
  BY <1>2, <1>3 DEF SendInv, Counted, Holds, On
<1> QED BY <1>1, <1>4, <1>5, <1>6 DEF SendInv

LEMMA SendStutters ==
  ASSUME SendInv, UNCHANGED <<poolVars, sendVars>>
  PROVE  SendInv'
BY DEF SendInv, PoolInv, PoolTypeOK, OneHome, ReturningEmpty, EncoderHolds, TasksHold, Counted,
       Holds, On, Sending, poolVars, sendVars

-------------------------------------------------------------------------------
(* The viewer's pool: a buffer is held by one stream task or one place in the *)
(* channel to the decoder.                                                    *)

IsSeq(s) == s \in Seq({s[i] : i \in DOMAIN s})

LEMMA SeqIsSeq ==
  ASSUME NEW S, NEW s \in Seq(S)
  PROVE  IsSeq(s)
<1> DEFINE T == {s[i] : i \in DOMAIN s}
<1>1. Len(s) \in Nat /\ s = [i \in 1..Len(s) |-> s[i]] /\ \A i \in 1..Len(s) : s[i] \in T
  OBVIOUS
<1> HIDE DEF T
<1>2. s \in Seq(T)
  BY <1>1
<1> QED BY <1>2 DEF T, IsSeq

LEMMA Appended ==
  ASSUME NEW s, IsSeq(s), NEW x
  PROVE  /\ IsSeq(Append(s, x)) /\ Len(s) \in Nat /\ DOMAIN s = 1..Len(s)
         /\ DOMAIN Append(s, x) = 1..Len(s) + 1
         /\ \A i \in 1..Len(s) : Append(s, x)[i] = s[i]
         /\ Append(s, x)[Len(s) + 1] = x
<1> DEFINE S == {s[i] : i \in DOMAIN s} \cup {x}
           a == Append(s, x)
<1>1. s \in Seq(S) /\ x \in S
  <2>1. s \in Seq({s[i] : i \in DOMAIN s}) /\ {s[i] : i \in DOMAIN s} \subseteq S
    BY DEF IsSeq
  <2> HIDE DEF S
  <2>2. s \in Seq(S)
    BY <2>1
  <2> QED BY <2>2 DEF S
<1> HIDE DEF S
<1>2. /\ a \in Seq(S) /\ Len(s) \in Nat /\ DOMAIN s = 1..Len(s) /\ DOMAIN a = 1..Len(s) + 1
      /\ \A i \in 1..Len(s) : a[i] = s[i]
      /\ a[Len(s) + 1] = x
  BY <1>1
<1>3. IsSeq(a)
  BY <1>2, SeqIsSeq
<1> QED BY <1>2, <1>3

LEMMA Tailed ==
  ASSUME NEW s, IsSeq(s), s # <<>>
  PROVE  /\ IsSeq(Tail(s)) /\ Len(s) \in Nat \ {0} /\ DOMAIN s = 1..Len(s)
         /\ DOMAIN Tail(s) = 1..Len(s) - 1 /\ Head(s) = s[1]
         /\ \A i \in 1..Len(s) - 1 : Tail(s)[i] = s[i + 1]
<1> DEFINE S == {s[i] : i \in DOMAIN s}
           t == Tail(s)
<1>1. s \in Seq(S)
  BY DEF IsSeq
<1> HIDE DEF S
<1>2. /\ t \in Seq(S) /\ Len(s) \in Nat \ {0} /\ DOMAIN s = 1..Len(s) /\ DOMAIN t = 1..Len(s) - 1
      /\ \A i \in 1..Len(s) - 1 : t[i] = s[i + 1]
      /\ Head(s) = s[1]
  BY <1>1
<1>3. IsSeq(t)
  BY <1>2, SeqIsSeq
<1> QED BY <1>2, <1>3

ReadersHold == \A r \in reading : r.buf \in Ids /\ in_place[r.buf] \in {"owned", "shared"}

VideoHolds ==
  IsSeq(video) /\ \A i \in DOMAIN video : video[i].buf \in Ids /\ in_place[video[i].buf] = "shared"

OneHolder ==
  /\ \A q, r \in reading : q.buf = r.buf => q = r
  /\ \A i, j \in DOMAIN video : video[i].buf = video[j].buf => i = j
  /\ \A r \in reading : \A i \in DOMAIN video : r.buf # video[i].buf
  /\ \A b \in Ids : in_place[b] \in {"owned", "shared"} =>
       (\E r \in reading : r.buf = b) \/ (\E i \in DOMAIN video : video[i].buf = b)

OneHandle == \A b \in Ids : in_place[b] = "shared" => in_handles[b] = 1

ReadInv == InP!PoolInv /\ ReadersHold /\ VideoHolds /\ OneHolder /\ OneHandle

\* The operations of the viewer's pool are those that BufPoolProofs is about.
LEMMA SamePool ==
  /\ InP!Ids = Ids /\ InP!Places = Places /\ InP!Popped = In!Popped
  /\ \A len : In!Checkout(len) <=> InP!Checkout(len)
  /\ \A b, d : In!Share(b, d) <=> InP!Share(b, d)
  /\ \A b : In!DropOwned(b) <=> InP!DropOwned(b)
  /\ \A b : In!DropShared(b) <=> InP!DropShared(b)
  /\ \A b : In!PushBack(b) <=> InP!PushBack(b)
  /\ In!PoolInit <=> InP!PoolInit
<1>1. InP!Ids = Ids /\ InP!Places = Places /\ InP!Popped = In!Popped /\ InP!Ids = In!Ids
  BY DEF InP!Ids, Ids, InP!Places, Places, InP!Popped, In!Popped, In!Ids
<1>2. \A d, len : In!Resized(d, len) = InP!Resized(d, len)
  BY DEF In!Resized, InP!Resized, In!Zero, InP!Zero
<1>3. In!Pop <=> InP!Pop
  BY <1>1 DEF In!Pop, InP!Pop
<1>4. \A len : In!Checkout(len) <=> InP!Checkout(len)
  BY <1>1, <1>2, <1>3 DEF In!Checkout, InP!Checkout
<1>5. \A b, d : In!Share(b, d) <=> InP!Share(b, d)
  BY DEF In!Share, InP!Share
<1>6. \A b : In!DropOwned(b) <=> InP!DropOwned(b)
  BY DEF In!DropOwned, InP!DropOwned
<1>7. \A b : In!DropShared(b) <=> InP!DropShared(b)
  BY DEF In!DropShared, InP!DropShared
<1>8. \A b : In!PushBack(b) <=> InP!PushBack(b)
  BY DEF In!PushBack, InP!PushBack
<1>9. In!PoolInit <=> InP!PoolInit
  BY <1>1 DEF In!PoolInit, InP!PoolInit
<1> QED BY <1>1, <1>4, <1>5, <1>6, <1>7, <1>8, <1>9

LEMMA InTypes ==
  ASSUME InP!PoolInv
  PROVE  in_place \in [Ids -> Places] /\ in_handles \in [Ids -> Nat] /\ DOMAIN in_data = Ids
BY SamePool DEF InP!PoolInv, InP!PoolTypeOK

\* What a stream task is given is nobody else's.
LEMMA ReadHeadKeeps ==
  ASSUME ReadInv, NEW len, In!Checkout(len), NEW r, r.buf = In!Popped,
         reading' = reading \cup {r}, video' = video
  PROVE  ReadInv' /\ In!Popped \in Ids /\ \A q \in reading : q.buf # In!Popped
<1> DEFINE new == In!Popped
<1>1. InP!PoolInv'
  BY SamePool, InP!CheckoutKeeps, BufPoolAssumption DEF ReadInv
<1>2. new \in Ids /\ in_place' = [in_place EXCEPT ![new] = "owned"] /\ in_handles' = in_handles
  BY SamePool DEF In!Checkout, In!Pop, In!Ids, Ids
<1>3. in_place[new] \notin {"owned", "shared"} /\ in_place \in [Ids -> Places]
  BY <1>2, SamePool, InTypes, InP!PoppedIsNobodys, BufPoolAssumption DEF ReadInv
<1> HIDE DEF new
<1>4. \A q \in reading : q.buf # new
  BY <1>3 DEF ReadInv, ReadersHold
<1>5. \A i \in DOMAIN video : video[i].buf # new
  BY <1>3 DEF ReadInv, VideoHolds
<1>6. r.buf = new
  BY DEF new
<1>7. ReadersHold' /\ VideoHolds'
  BY <1>2, <1>3, <1>6 DEF ReadInv, ReadersHold, VideoHolds
<1>8. OneHolder'
  <2>1. \A q, s \in reading' : q.buf = s.buf => q = s
    BY <1>4, <1>6 DEF ReadInv, OneHolder
  <2>2. \A q \in reading' : \A i \in DOMAIN video : q.buf # video[i].buf
    BY <1>5, <1>6 DEF ReadInv, OneHolder
  <2>3. ASSUME NEW b \in Ids, in_place'[b] \in {"owned", "shared"}
        PROVE  (\E q \in reading' : q.buf = b) \/ (\E i \in DOMAIN video : video[i].buf = b)
    BY <1>2, <1>3, <1>6, <2>3 DEF ReadInv, OneHolder
  <2> QED BY <2>1, <2>2, <2>3 DEF ReadInv, OneHolder
<1>9. OneHandle'
  BY <1>2, <1>3 DEF ReadInv, OneHandle
<1> QED BY <1>1, <1>2, <1>4, <1>7, <1>8, <1>9 DEF ReadInv, new

LEMMA ReadPayloadKeeps ==
  ASSUME ReadInv, NEW r \in reading, NEW d, In!Share(r.buf, d), UNCHANGED <<reading, video>>
  PROVE  ReadInv'
<1>1. r.buf \in Ids
  BY DEF ReadInv, ReadersHold
<1>2. InP!PoolInv'
  BY <1>1, SamePool, InP!ShareKeeps, BufPoolAssumption DEF ReadInv
<1>3. /\ in_place[r.buf] = "owned" /\ in_place' = [in_place EXCEPT ![r.buf] = "shared"]
      /\ in_handles' = [in_handles EXCEPT ![r.buf] = 1]
  BY DEF In!Share
<1>4. in_place \in [Ids -> Places] /\ in_handles \in [Ids -> Nat]
  BY InTypes DEF ReadInv
<1>5. ReadersHold' /\ VideoHolds'
  BY <1>1, <1>3, <1>4 DEF ReadInv, ReadersHold, VideoHolds
<1>6. OneHolder'
  BY <1>1, <1>3, <1>4 DEF ReadInv, OneHolder
<1>7. OneHandle'
  BY <1>1, <1>3, <1>4 DEF ReadInv, OneHandle
<1> QED BY <1>2, <1>5, <1>6, <1>7 DEF ReadInv

\* The buffer goes back when its holder drops it.
LEMMA ReaderDropKeeps ==
  ASSUME ReadInv, NEW r \in reading, In!DropOwned(r.buf) \/ In!DropShared(r.buf),
         reading' = reading \ {r}, video' = video
  PROVE  ReadInv'
<1>1. r.buf \in Ids
  BY DEF ReadInv, ReadersHold
<1>2. InP!PoolInv'
  BY <1>1, SamePool, InP!DropKeeps, BufPoolAssumption DEF ReadInv
<1>3. in_place \in [Ids -> Places] /\ in_handles \in [Ids -> Nat]
  BY InTypes DEF ReadInv
<1>4. /\ in_place' = [in_place EXCEPT ![r.buf] = "returning"]
      /\ \A b \in Ids : b # r.buf => in_handles'[b] = in_handles[b]
  <2>1. CASE In!DropOwned(r.buf)
    BY <2>1 DEF In!DropOwned
  <2>2. CASE In!DropShared(r.buf)
    <3>1. in_handles[r.buf] = 1
      BY <1>1, <2>2 DEF ReadInv, OneHandle, In!DropShared
    <3> QED BY <1>3, <2>2, <3>1 DEF In!DropShared
  <2> QED BY <2>1, <2>2
<1>5. ReadersHold' /\ VideoHolds'
  BY <1>1, <1>3, <1>4 DEF ReadInv, ReadersHold, VideoHolds, OneHolder
<1>6. OneHolder'
  BY <1>1, <1>3, <1>4 DEF ReadInv, OneHolder
<1>7. OneHandle'
  BY <1>1, <1>3, <1>4 DEF ReadInv, OneHandle
<1> QED BY <1>2, <1>5, <1>6, <1>7 DEF ReadInv

LEMMA HandOnKeeps ==
  ASSUME ReadInv, NEW r \in reading, in_place[r.buf] = "shared",
         reading' = reading \ {r}, video' = Append(video, r), UNCHANGED inVars
  PROVE  ReadInv'
<1>1. /\ IsSeq(video') /\ Len(video) \in Nat /\ DOMAIN video = 1..Len(video)
      /\ DOMAIN video' = 1..Len(video) + 1
      /\ \A i \in 1..Len(video) : video'[i] = video[i]
      /\ video'[Len(video) + 1] = r
  BY Appended DEF ReadInv, VideoHolds
<1>2. InP!PoolInv'
  BY DEF ReadInv, inVars, InP!PoolInv, InP!PoolTypeOK, InP!OneHome, InP!ReturningEmpty
<1>3. in_place' = in_place /\ in_handles' = in_handles /\ r.buf \in Ids
  BY DEF inVars, ReadInv, ReadersHold
<1>4. \A i \in DOMAIN video' :
        \/ i = Len(video) + 1 /\ video'[i] = r
        \/ i \in DOMAIN video /\ video'[i] = video[i]
  BY <1>1
<1>5. ReadersHold'
  BY <1>3 DEF ReadInv, ReadersHold
<1>6. VideoHolds'
  BY <1>1, <1>3, <1>4 DEF ReadInv, VideoHolds
<1>7. OneHolder'
  <2>1. \A i, j \in DOMAIN video' : video'[i].buf = video'[j].buf => i = j
    BY <1>4 DEF ReadInv, OneHolder
  <2>2. \A q \in reading' : \A i \in DOMAIN video' : q.buf # video'[i].buf
    BY <1>4 DEF ReadInv, OneHolder
  <2>3. ASSUME NEW b \in Ids, in_place[b] \in {"owned", "shared"}
        PROVE  (\E q \in reading' : q.buf = b) \/ (\E i \in DOMAIN video' : video'[i].buf = b)
    <3>1. CASE b = r.buf
      BY <1>1, <3>1
    <3>2. CASE b # r.buf
      BY <1>1, <2>3, <3>2 DEF ReadInv, OneHolder
    <3> QED BY <3>1, <3>2
  <2> QED BY <1>3, <2>1, <2>2, <2>3 DEF ReadInv, OneHolder
<1>8. OneHandle'
  BY <1>3 DEF ReadInv, OneHandle
<1> QED BY <1>2, <1>5, <1>6, <1>7, <1>8 DEF ReadInv

LEMMA DecoderDropKeeps ==
  ASSUME ReadInv, video # <<>>, In!DropShared(Head(video).buf), video' = Tail(video),
         reading' = reading
  PROVE  ReadInv'
<1> DEFINE e == Head(video).buf
<1>1. /\ IsSeq(video') /\ Len(video) \in Nat \ {0} /\ DOMAIN video = 1..Len(video)
      /\ DOMAIN video' = 1..Len(video) - 1 /\ e = video[1].buf
      /\ \A i \in 1..Len(video) - 1 : video'[i] = video[i + 1]
  BY Tailed DEF ReadInv, VideoHolds
<1> HIDE DEF e
<1>2. e \in Ids
  BY <1>1 DEF ReadInv, VideoHolds
<1>3. InP!PoolInv'
  BY <1>2, SamePool, InP!DropKeeps, BufPoolAssumption DEF ReadInv, e
<1>4. in_place \in [Ids -> Places] /\ in_handles \in [Ids -> Nat]
  BY InTypes DEF ReadInv
<1>5. /\ in_place' = [in_place EXCEPT ![e] = "returning"]
      /\ \A b \in Ids : b # e => in_handles'[b] = in_handles[b]
  <2>1. in_handles[e] = 1
    BY <1>2 DEF ReadInv, OneHandle, In!DropShared, e
  <2> QED BY <1>4, <2>1 DEF In!DropShared, e
<1>6. \A i \in DOMAIN video' : i + 1 \in DOMAIN video /\ video'[i] = video[i + 1]
                                 /\ video'[i].buf # e
  BY <1>1 DEF ReadInv, OneHolder
<1>7. ReadersHold' /\ VideoHolds'
  <2>1. \A r \in reading : r.buf # e
    BY <1>1 DEF ReadInv, OneHolder
  <2>2. ReadersHold'
    BY <1>2, <1>4, <1>5, <2>1 DEF ReadInv, ReadersHold
  <2>3. VideoHolds'
    BY <1>1, <1>2, <1>4, <1>5, <1>6 DEF ReadInv, VideoHolds
  <2> QED BY <2>2, <2>3
<1>8. OneHolder'
  <2>1. \A i, j \in DOMAIN video' : video'[i].buf = video'[j].buf => i = j
    BY <1>1, <1>6 DEF ReadInv, OneHolder
  <2>2. \A q \in reading : \A i \in DOMAIN video' : q.buf # video'[i].buf
    BY <1>6 DEF ReadInv, OneHolder
  <2>3. ASSUME NEW b \in Ids, in_place'[b] \in {"owned", "shared"}
        PROVE  (\E q \in reading : q.buf = b) \/ (\E i \in DOMAIN video' : video'[i].buf = b)
    <3>1. b # e /\ in_place[b] \in {"owned", "shared"}
      BY <1>2, <1>4, <1>5, <2>3
    <3>2. ASSUME NEW i \in DOMAIN video, video[i].buf = b
          PROVE  \E j \in DOMAIN video' : video'[j].buf = b
      <4>1. i # 1 /\ i - 1 \in DOMAIN video'
        BY <1>1, <3>1, <3>2
      <4>2. video'[i - 1] = video[i]
        BY <1>1, <4>1
      <4> QED BY <3>2, <4>1, <4>2
    <3> QED BY <3>1, <3>2 DEF ReadInv, OneHolder
  <2> QED BY <2>1, <2>2, <2>3 DEF ReadInv, OneHolder
<1>9. OneHandle'
  BY <1>2, <1>4, <1>5 DEF ReadInv, OneHandle
<1> QED BY <1>3, <1>7, <1>8, <1>9 DEF ReadInv

LEMMA InReturnKeeps ==
  ASSUME ReadInv, NEW b \in Ids, In!PushBack(b), UNCHANGED <<reading, video>>
  PROVE  ReadInv'
<1>1. InP!PoolInv'
  BY SamePool, InP!PushBackKeeps, BufPoolAssumption DEF ReadInv
<1>2. /\ in_place[b] = "returning" /\ in_place' = [in_place EXCEPT ![b] = "free"]
      /\ in_handles' = in_handles
  BY DEF In!PushBack
<1>3. in_place \in [Ids -> Places]
  BY InTypes DEF ReadInv
<1>4. ReadersHold' /\ VideoHolds'
  BY <1>2, <1>3 DEF ReadInv, ReadersHold, VideoHolds
<1>5. OneHolder'
  BY <1>2, <1>3 DEF ReadInv, OneHolder
<1>6. OneHandle'
  BY <1>2, <1>3 DEF ReadInv, OneHandle
<1> QED BY <1>1, <1>4, <1>5, <1>6 DEF ReadInv

LEMMA ReadStutters ==
  ASSUME ReadInv, UNCHANGED <<inVars, reading, video>>
  PROVE  ReadInv'
<1>1. InP!PoolInv'
  BY DEF ReadInv, inVars, InP!PoolInv, InP!PoolTypeOK, InP!OneHome, InP!ReturningEmpty
<1> QED BY <1>1 DEF ReadInv, ReadersHold, VideoHolds, OneHolder, OneHandle, inVars

-------------------------------------------------------------------------------

HoldInv == SendInv /\ ReadInv

LEMMA HoldInit == Init => HoldInv
<1> SUFFICES ASSUME Init PROVE HoldInv
  OBVIOUS
<1>1. PoolInv /\ InP!PoolInv
  BY PoolInvInit, SamePool, InP!PoolInvInit, BufPoolAssumption DEF Init
<1>2. /\ \A b \in Ids : place[b] = "none" /\ in_place[b] = "none"
      /\ encoder = None /\ tasks = {} /\ frames = <<>> /\ reading = {} /\ video = <<>>
  BY SamePool DEF Init, PoolInit, InP!PoolInit, InP!Ids, Ids
<1>3. EncoderHolds /\ TasksHold /\ Counted
  BY <1>2, FS_EmptySet DEF EncoderHolds, TasksHold, Counted, Sending
<1>4. IsSeq(video)
  BY <1>2 DEF IsSeq
<1>5. ReadersHold /\ VideoHolds /\ OneHolder /\ OneHandle
  BY <1>2, <1>4 DEF ReadersHold, VideoHolds, OneHolder, OneHandle
<1> QED BY <1>1, <1>3, <1>5 DEF HoldInv, SendInv, ReadInv

LEMMA HoldNext == HoldInv /\ [Next]_vars => HoldInv'
<1> SUFFICES ASSUME HoldInv, [Next]_vars PROVE HoldInv'
  OBVIOUS
<1> USE DEF HoldInv
<1>1. ASSUME NEW sample \in Samples, Encode(sample) PROVE HoldInv'
  BY <1>1, EncodeKeeps, ReadStutters DEF Encode, readVars
<1>2. CASE Extract
  BY <1>2, ExtractKeeps, ReadStutters DEF Extract, readVars
<1>3. CASE ExtractFails
  BY <1>3, ExtractFailsKeeps, ReadStutters DEF ExtractFails, readVars
<1>4. ASSUME NEW p \in Peers, Spawn(p) PROVE HoldInv'
  BY <1>4, SpawnKeeps, ReadStutters DEF Spawn, readVars
<1>5. CASE Spawned
  BY <1>5, SpawnedKeeps, ReadStutters DEF Spawned, readVars
<1>6. ASSUME NEW t \in tasks, NEW whole \in BOOLEAN, EndTask(t, whole) PROVE HoldInv'
  BY <1>6, EndTaskKeeps, ReadStutters DEF EndTask, readVars
<1>7. ASSUME NEW b \in Ids, Return(b) PROVE HoldInv'
  BY <1>7, ReturnKeeps, ReadStutters DEF Return, readVars
<1>8. ASSUME NEW b \in Ids, InReturn(b) PROVE HoldInv'
  BY <1>8, InReturnKeeps, SendStutters DEF InReturn, readVars
<1>9. ASSUME NEW s \in streams, ReadHead(s) PROVE HoldInv'
  <2> DEFINE header == ReadSubgroupHeader(s.bytes)
             object == ReadObjectHead(header.rest)
             r == [group_id |-> Narrow(header.value.group_id),
                   key |-> Narrow(header.value.subgroup_id) = 0,
                   ts |-> object.value.ts, codec |-> object.value.codec,
                   payload |-> object.rest, whole |-> s.whole, buf |-> In!Popped]
  <2>1. /\ In!Checkout(object.value.len) /\ reading' = reading \cup {r}
        /\ UNCHANGED <<poolVars, sendVars, video>>
    BY <1>9 DEF ReadHead
  <2>2. r.buf = In!Popped
    OBVIOUS
  <2> HIDE DEF r, object
  <2> QED BY <2>1, <2>2, ReadHeadKeeps, SendStutters
<1>10. ASSUME NEW s \in streams, ReadNothing(s) PROVE HoldInv'
  BY <1>10, ReadStutters, SendStutters DEF ReadNothing, readVars
<1>11. ASSUME NEW r \in reading, ReadPayload(r) PROVE HoldInv'
  BY <1>11, ReadPayloadKeeps, SendStutters DEF ReadPayload, readVars
<1>12. ASSUME NEW r \in reading, ReadFails(r) PROVE HoldInv'
  BY <1>12, ReaderDropKeeps, SendStutters DEF ReadFails, readVars
<1>13. ASSUME NEW r \in reading, Dispatch(r) PROVE HoldInv'
  BY <1>13, HandOnKeeps, ReaderDropKeeps, SendStutters DEF Dispatch, readVars
<1>14. CASE Decode
  <2>1. /\ video # <<>> /\ In!DropShared(Head(video).buf) /\ video' = Tail(video)
        /\ UNCHANGED <<poolVars, sendVars, reading>>
    BY <1>14 DEF Decode
  <2> QED BY <2>1, DecoderDropKeeps, SendStutters
<1>15. CASE UNCHANGED vars
  BY <1>15, ReadStutters, SendStutters DEF vars, readVars
<1> QED BY <1>1, <1>2, <1>3, <1>4, <1>5, <1>6, <1>7, <1>8, <1>9, <1>10, <1>11, <1>12, <1>13,
           <1>14, <1>15 DEF Next

LEMMA Holding == Spec => []HoldInv
BY HoldInit, HoldNext, PTL DEF Spec

\* Every buffer of either pool has as many handles as there are threads and queues that
\* will drop one, whichever tasks fail or are aborted: none is lost, none returned early.
THEOREM NoBufferLost == Spec => []EveryHandleHeld
<1>1. ASSUME HoldInv, NEW b \in Ids
      PROVE  /\ place[b] = "owned" => Holds(encoder, b) = 1
             /\ place[b] = "shared" =>
                  handles[b] = Holds(encoder, b) + Cardinality({t \in tasks : t.buf = b})
             /\ \A t \in tasks : place[t.buf] = "shared"
  BY <1>1 DEF HoldInv, SendInv, EncoderHolds, TasksHold, Counted, Holds, On
<1>2. ASSUME HoldInv, NEW b \in Ids, in_place[b] \in {"owned", "shared"}
      PROVE  Cardinality({r \in reading : r.buf = b})
               + Cardinality({i \in DOMAIN video : video[i].buf = b}) = 1
  <2> DEFINE R == {r \in reading : r.buf = b}
             V == {i \in DOMAIN video : video[i].buf = b}
  <2>1. ((\E r : R = {r}) /\ V = {}) \/ (R = {} /\ \E i : V = {i})
    <3>1. (\E r \in reading : r.buf = b) \/ (\E i \in DOMAIN video : video[i].buf = b)
      BY <1>2 DEF HoldInv, ReadInv, OneHolder
    <3>2. CASE \E r \in reading : r.buf = b
      <4>1. PICK r \in reading : r.buf = b
        BY <3>2
      <4>2. R = {r}
        BY <1>2, <4>1 DEF HoldInv, ReadInv, OneHolder
      <4>3. V = {}
        BY <1>2, <4>1 DEF HoldInv, ReadInv, OneHolder
      <4> QED BY <4>2, <4>3
    <3>3. CASE \E i \in DOMAIN video : video[i].buf = b
      <4>1. PICK i \in DOMAIN video : video[i].buf = b
        BY <3>3
      <4>2. R = {}
        BY <1>2, <4>1 DEF HoldInv, ReadInv, OneHolder
      <4>3. V = {i}
        BY <1>2, <4>1 DEF HoldInv, ReadInv, OneHolder
      <4> QED BY <4>2, <4>3
    <3> QED BY <3>1, <3>2, <3>3
  <2> HIDE DEF R, V
  <2>2. Cardinality(R) + Cardinality(V) = 1
    <3>1. (\A x : Cardinality({x}) = 1) /\ Cardinality({}) = 0
      BY FS_Singleton, FS_EmptySet
    <3>2. CASE (\E r : R = {r}) /\ V = {}
      <4>1. Cardinality(R) = 1 /\ Cardinality(V) = 0
        BY <3>1, <3>2, Zenon
      <4> QED BY <4>1
    <3>3. CASE R = {} /\ (\E i : V = {i})
      <4>1. Cardinality(R) = 0 /\ Cardinality(V) = 1
        BY <3>1, <3>3, Zenon
      <4> QED BY <4>1
    <3> QED BY <2>1, <3>2, <3>3
  <2> QED BY <2>2 DEF R, V
<1>3. ASSUME HoldInv
      PROVE  /\ \A i \in DOMAIN video : in_place[video[i].buf] = "shared"
             /\ In!OneHome /\ In!FreeIsEmpty
  <2>1. InP!OneHome /\ InP!FreeIsEmpty
    BY <1>3, InP!FreeListEmpty, BufPoolAssumption DEF HoldInv, ReadInv, InP!PoolInv
  <2>2. In!OneHome
    BY <2>1, SamePool DEF In!OneHome, InP!OneHome, In!Ids, Ids
  <2>3. In!FreeIsEmpty
    BY <2>1 DEF In!FreeIsEmpty, InP!FreeIsEmpty
  <2> QED BY <1>3, <2>2, <2>3 DEF HoldInv, ReadInv, VideoHolds
<1>4. HoldInv => EveryHandleHeld
  BY <1>1, <1>2, <1>3 DEF EveryHandleHeld
<1> QED BY <1>4, Holding, PTL

-------------------------------------------------------------------------------
(* What the buffers hold. *)

\* The stream of frame n.
FrameBytes(f, n) ==
  Cat(SubgroupHeader(Wide(n), Wide(IF f.key THEN 0 ELSE 1)),
      WriteObject(f.ts, Hevc, AnnexBOf(f)))

\* An element of reading or video is that of a frame.
Carries(r) ==
  \E n \in 1..Len(frames) :
    /\ r.group_id = n /\ r.key = frames[n].key /\ r.ts = frames[n].ts
    /\ r.codec = Hevc /\ r.payload = AnnexBOf(frames[n])

\* A buffer the sender has shared holds its frame.
Filled ==
  /\ Sending => /\ encoder.sample = frames[Len(frames)]
                /\ data[encoder.buf] = AnnexBOf(encoder.sample)
  /\ \A t \in tasks : data[t.buf] = AnnexBOf(frames[t.seq])

\* There is a number for a frame that is being extracted.
Numbered == Len(frames) <= MaxFrames /\ (Extracting => Len(frames) < MaxFrames)

StreamsCarry == \A s \in streams : \E n \in 1..Len(frames) : s.bytes = FrameBytes(frames[n], n)

\* Whatever has a buffer of the viewer's pool.
Held == reading \cup {video[i] : i \in DOMAIN video}

HeldCarries(r) ==
  /\ Carries(r)
  /\ in_place[r.buf] = "owned" => Len(in_data[r.buf]) = Len(r.payload)
  /\ in_place[r.buf] = "shared" => in_data[r.buf] = r.payload

HeldCarry == \A r \in Held : HeldCarries(r)

ContentInv == Filled /\ Numbered /\ StreamsCarry /\ HeldCarry

\* Frame n depends on the last keyframe before it, and the session is that keyframe's.
Depends(n) ==
  \E k \in 1..n : /\ frames[k].key /\ frames[k].params = session
                  /\ \A j \in k + 1 .. n : ~frames[j].key

DecodeInv ==
  /\ session # None => \E k \in 1..Len(frames) : frames[k].key /\ session = frames[k].params
  /\ got_keyframe => last_decoded_group \in 1..Len(frames) /\ Depends(last_decoded_group)
  /\ \A d \in decoded : d.seq \in 1..Len(frames)
  /\ DecodedAsEncoded

LEMMA SampleIs ==
  ASSUME NEW f \in Samples
  PROVE  /\ f.key \in BOOLEAN /\ f.ts \in Free64 /\ AnnexBOf(f) \in Bytes
         /\ Len(AnnexBOf(f)) \in Number /\ Len(AnnexBOf(f)) # 0
BY SamplesAssumption DEF Free64, Bytes

\* A stream is read as it was written.
LEMMA FrameRead ==
  ASSUME NEW f \in Samples, NEW n \in Number
  PROVE  LET header == ReadSubgroupHeader(FrameBytes(f, n))
             object == ReadObjectHead(header.rest)
         IN  /\ header.ok /\ object.ok
             /\ Narrow(header.value.group_id) = n
             /\ Narrow(header.value.subgroup_id) = 0 <=> f.key
             /\ object.value.ts = f.ts /\ object.value.codec = Hevc
             /\ object.value.len = Len(AnnexBOf(f)) /\ object.rest = AnnexBOf(f)
<1> DEFINE sub == IF f.key THEN 0 ELSE 1
           written == WriteObject(f.ts, Hevc, AnnexBOf(f))
           payload == AnnexBOf(f)
           header == ReadSubgroupHeader(FrameBytes(f, n))
           object == ReadObjectHead(header.rest)
<1>1. sub \in Number /\ (sub = 0 <=> f.key)
  <2>1. 0 \in Number /\ 1 \in Number
    BY DEF Number
  <2> QED BY <2>1
<1>2. written \in Bytes
      /\ ReadObjectHead(written) =
           [ok |-> TRUE, value |-> [ts |-> f.ts, codec |-> Hevc, len |-> Len(payload)],
            rest |-> payload]
  <2>1. f.ts \in Free64 /\ payload \in Bytes /\ Len(payload) \in Number /\ Len(payload) # 0
    BY SampleIs
  <2> HIDE DEF payload
  <2> QED BY <2>1, ObjectRead DEF payload
<1>3. /\ Wide(n) \in Free64 /\ Narrow(Wide(n)) = n
      /\ Wide(sub) \in Free64 /\ Narrow(Wide(sub)) = sub
  <2> HIDE DEF sub
  <2> QED BY <1>1, WideIs
<1>4. FrameBytes(f, n) = Cat(SubgroupHeader(Wide(n), Wide(sub)), written)
  BY Zenon DEF FrameBytes
<1> HIDE DEF written, payload, sub
<1>5. header = [ok |-> TRUE,
                value |-> [track_alias |-> Wide(TrackVideo), group_id |-> Wide(n),
                           subgroup_id |-> Wide(sub), publisher_priority |-> PriorityVideo],
                rest |-> written]
  BY <1>2, <1>3, <1>4, HeaderRead
<1>6. header.ok /\ header.rest = written /\ header.value.group_id = Wide(n)
      /\ header.value.subgroup_id = Wide(sub)
  BY <1>5
<1>7. object = ReadObjectHead(written)
  BY <1>6, Zenon
<1> HIDE DEF header, object
<1>8. object.ok /\ object.value.ts = f.ts /\ object.value.codec = Hevc
      /\ object.value.len = Len(payload) /\ object.rest = payload
  BY <1>2, <1>7
<1>9. Narrow(header.value.group_id) = n /\ (Narrow(header.value.subgroup_id) = 0 <=> f.key)
  BY <1>1, <1>3, <1>6
<1> QED BY <1>6, <1>8, <1>9, Zenon DEF header, object, payload

LEMMA ResizedLen ==
  ASSUME NEW d, NEW len \in Nat
  PROVE  Len(Resized(d, len)) = len
<1> DEFINE r == Resized(d, len)
           S == {r[i] : i \in 1..len}
<1>1. r \in [1..len -> S] /\ DOMAIN r = 1..len
  BY DEF Resized
<1> HIDE DEF r, S
<1>2. r \in Seq(S)
  BY <1>1, SeqDef, Zenon
<1>3. Len(r) \in Nat /\ DOMAIN r = 1..Len(r)
  BY <1>2, LenProperties
<1> QED BY <1>1, <1>3 DEF r

\* The whole of a sequence of bytes.
LEMMA WholeIs == \A x \in Bytes : SubSeq(x, 1, Len(x)) = x
BY CatEmpty, CatSplit

\* Frames that have been numbered stay as they are.
LEMMA CarriesKept ==
  ASSUME NEW r, Carries(r), frames \in Seq(Samples),
         frames' = frames \/ \E f \in Samples : frames' = Append(frames, f)
  PROVE  Carries(r)'
<1>1. PICK n \in 1..Len(frames) :
        /\ r.group_id = n /\ r.key = frames[n].key /\ r.ts = frames[n].ts
        /\ r.codec = Hevc /\ r.payload = AnnexBOf(frames[n])
  BY DEF Carries
<1>2. n \in 1..Len(frames') /\ frames'[n] = frames[n]
  OBVIOUS
<1> QED BY <1>1, <1>2 DEF Carries

-------------------------------------------------------------------------------

\* What the steps of the sender that number no frame have in common.
LEMMA SenderKeeps ==
  ASSUME HoldInv, HoldInv', Filled, Numbered, UNCHANGED frames,
         \A b \in Ids : place'[b] = "shared" => data'[b] = data[b],
         Sending' => Sending /\ encoder' = encoder,
         Extracting' => Len(frames) < MaxFrames,
         \A t \in tasks' : t \in tasks \/ (Sending /\ t.buf = encoder.buf /\ t.seq = Len(frames))
  PROVE  Filled' /\ Numbered'
<1>1. \A t \in tasks' : t.buf \in Ids /\ place'[t.buf] = "shared"
  BY DEF HoldInv, SendInv, TasksHold
<1>2. Sending' => encoder'.buf \in Ids /\ place'[encoder'.buf] = "shared"
  BY DEF HoldInv, SendInv, EncoderHolds, Sending
<1>3. ASSUME NEW t \in tasks' PROVE data'[t.buf] = AnnexBOf(frames'[t.seq])
  BY <1>1 DEF Filled
<1>4. ASSUME Sending'
      PROVE  encoder'.sample = frames'[Len(frames')] /\ data'[encoder'.buf] = AnnexBOf(encoder'.sample)
  BY <1>2, <1>4 DEF Filled
<1>5. Filled'
  BY <1>3, <1>4 DEF Filled
<1>6. Numbered'
  BY DEF Numbered
<1> QED BY <1>5, <1>6

\* The pool's part of that.
LEMMA SharedKept ==
  ASSUME HoldInv,
         \/ \E len : Checkout(len)
         \/ \E b \in Ids : Clone(b) \/ DropOwned(b) \/ DropShared(b) \/ PushBack(b)
  PROVE  \A b \in Ids : place'[b] = "shared" => place[b] = "shared" /\ data'[b] = data[b]
<1>1. \A b \in Ids : place'[b] \in {"owned", "shared"} =>
        \/ place[b] = place'[b] /\ data'[b] = data[b]
        \/ place[b] \in {"none", "free"} /\ b = Popped
  BY ContentsKept DEF HoldInv, SendInv
<1>2. ASSUME NEW len, Checkout(len) PROVE \A b \in Ids : b = Popped => place'[b] = "owned"
  BY <1>2 DEF Checkout, Pop, HoldInv, SendInv, PoolInv, PoolTypeOK
<1>3. ASSUME NEW c \in Ids, Clone(c) \/ DropOwned(c) \/ DropShared(c) \/ PushBack(c)
      PROVE  \A b \in Ids : place'[b] = "shared" => place[b] = "shared"
  BY <1>3 DEF Clone, DropOwned, DropShared, PushBack, HoldInv, SendInv, PoolInv, PoolTypeOK
<1> QED BY <1>1, <1>2, <1>3

LEMMA SenderContent ==
  ASSUME HoldInv, HoldInv', Filled, Numbered,
         \/ \E sample \in Samples : Encode(sample)
         \/ ExtractFails \/ (\E p \in Peers : Spawn(p)) \/ Spawned
         \/ \E t \in tasks, whole \in BOOLEAN : EndTask(t, whole)
         \/ \E b \in Ids : Return(b)
  PROVE  Filled' /\ Numbered'
<1>0. /\ Extracting => encoder.buf \in Ids
      /\ Sending => encoder.buf \in Ids
      /\ \A t \in tasks : t.buf \in Ids /\ place[t.buf] = "shared"
      /\ place \in [Ids -> Places]
  BY DEF HoldInv, SendInv, EncoderHolds, TasksHold, PoolInv, PoolTypeOK, Extracting, Sending
<1>1. ASSUME NEW sample \in Samples, Encode(sample) PROVE Filled' /\ Numbered'
  <2>1. \A b \in Ids : place'[b] = "shared" => data'[b] = data[b]
    BY <1>1, SharedKept DEF Encode
  <2>2. ~Sending'
    BY <1>0, <1>1 DEF Encode, Checkout, Pop, Sending
  <2>3. UNCHANGED <<frames, tasks>> /\ Len(frames) < MaxFrames
    BY <1>1 DEF Encode
  <2> QED BY <2>1, <2>2, <2>3, SenderKeeps
<1>2. CASE ExtractFails
  <2>1. \A b \in Ids : place'[b] = "shared" => data'[b] = data[b]
    BY <1>0, <1>2, SharedKept DEF ExtractFails
  <2>2. ~Sending' /\ ~Extracting' /\ UNCHANGED <<frames, tasks>>
    BY <1>2 DEF ExtractFails, Sending, Extracting
  <2> QED BY <2>1, <2>2, SenderKeeps
<1>3. ASSUME NEW p \in Peers, Spawn(p) PROVE Filled' /\ Numbered'
  <2>1. \A b \in Ids : place'[b] = "shared" => data'[b] = data[b]
    BY <1>0, <1>3, SharedKept DEF Spawn
  <2>2. Sending /\ UNCHANGED <<frames, encoder, place>>
        /\ tasks' = tasks \cup {[peer |-> p, seq |-> Len(frames), buf |-> encoder.buf]}
    BY <1>3 DEF Spawn, Clone
  <2>3. Sending /\ ~Extracting' /\ (Sending' <=> Sending)
    BY <2>2 DEF Extracting, Sending
  <2> QED BY <2>1, <2>2, <2>3, SenderKeeps
<1>4. CASE Spawned
  <2>1. \A b \in Ids : place'[b] = "shared" => data'[b] = data[b]
    BY <1>0, <1>4, SharedKept DEF Spawned
  <2>2. ~Sending' /\ ~Extracting' /\ UNCHANGED <<frames, tasks>>
    BY <1>4 DEF Spawned, Sending, Extracting
  <2> QED BY <2>1, <2>2, SenderKeeps
<1>5. ASSUME NEW t \in tasks, NEW whole \in BOOLEAN, EndTask(t, whole) PROVE Filled' /\ Numbered'
  <2>1. \A b \in Ids : place'[b] = "shared" => place[b] = "shared" /\ data'[b] = data[b]
    BY <1>0, <1>5, SharedKept DEF EndTask
  <2>2. UNCHANGED <<frames, encoder>> /\ tasks' = tasks \ {t} /\ DropShared(t.buf)
    BY <1>5 DEF EndTask
  <2>3. (Sending' => Sending) /\ (Extracting' => Extracting)
    BY <1>0, <2>2 DEF DropShared, Sending, Extracting, HoldInv, SendInv, EncoderHolds
  <2> QED BY <2>1, <2>2, <2>3, SenderKeeps DEF Numbered
<1>6. ASSUME NEW b \in Ids, Return(b) PROVE Filled' /\ Numbered'
  <2>1. \A c \in Ids : place'[c] = "shared" => place[c] = "shared" /\ data'[c] = data[c]
    BY <1>6, SharedKept DEF Return
  <2>2. UNCHANGED <<frames, encoder, tasks>> /\ place' = [place EXCEPT ![b] = "free"]
    BY <1>6 DEF Return, PushBack, sendVars
  <2>3. (Sending' => Sending) /\ (Extracting' => Extracting)
    BY <1>0, <2>2 DEF Sending, Extracting, HoldInv, SendInv, EncoderHolds
  <2> QED BY <2>1, <2>2, <2>3, SenderKeeps DEF Numbered
<1> QED BY <1>1, <1>2, <1>3, <1>4, <1>5, <1>6

LEMMA ExtractContent ==
  ASSUME HoldInv, HoldInv', Filled, Numbered, Extract
  PROVE  Filled' /\ Numbered'
<1>1. /\ Extracting /\ encoder.buf \in Ids /\ frames \in Seq(Samples) /\ encoder.sample \in Samples
      /\ DOMAIN data = Ids /\ place \in [Ids -> Places]
  BY DEF HoldInv, SendInv, EncoderHolds, TasksHold, PoolInv, PoolTypeOK, Extract, Extracting
<1>2. /\ frames' = Append(frames, encoder.sample) /\ UNCHANGED <<encoder, tasks>>
      /\ place[encoder.buf] = "owned"
      /\ place' = [place EXCEPT ![encoder.buf] = "shared"]
      /\ data' = [data EXCEPT ![encoder.buf] = AnnexBOf(encoder.sample)]
  BY DEF Extract, Share
<1>3. /\ Len(frames') = Len(frames) + 1 /\ frames'[Len(frames')] = encoder.sample
      /\ \A n \in 1..Len(frames) : frames'[n] = frames[n]
  BY <1>1, <1>2
<1>4. \A t \in tasks : t.buf # encoder.buf /\ t.buf \in Ids /\ t.seq \in 1..Len(frames)
  BY <1>2 DEF HoldInv, SendInv, TasksHold
<1>5. Filled'
  BY <1>1, <1>2, <1>3, <1>4 DEF Filled
<1>6. ~Extracting' /\ Len(frames) < MaxFrames
  BY <1>1, <1>2 DEF Extracting, Numbered
<1>7. Numbered'
  <2>1. Len(frames) \in Nat
    BY <1>1
  <2>2. MaxFrames \in Nat
    BY SamplesAssumption, Numbers
  <2> QED BY <1>3, <1>6, <2>1, <2>2 DEF Numbered
<1> QED BY <1>5, <1>7

-------------------------------------------------------------------------------

\* Frames are numbered one after the other.
FramesKept == frames' = frames \/ \E f \in Samples : frames' = Append(frames, f)

LEMMA FramesGrow ==
  ASSUME HoldInv, [Next]_vars
  PROVE  frames \in Seq(Samples) /\ FramesKept
<1>1. frames \in Seq(Samples) /\ (encoder # None => encoder.sample \in Samples)
  BY DEF HoldInv, SendInv, TasksHold, EncoderHolds
<1>2. CASE Extract
  BY <1>1, <1>2 DEF Extract, Extracting, FramesKept
<1>3. CASE ~Extract
  <2>1. frames' = frames
    BY <1>3 DEF Next, Encode, ExtractFails, Spawn, Spawned, EndTask, Return, InReturn, ReadHead,
       ReadNothing, ReadPayload, ReadFails, Dispatch, Decode, vars, sendVars
  <2> QED BY <1>1, <2>1, SMTT(30) DEF FramesKept
<1> QED BY <1>2, <1>3

\* A stream that a task writes is its frame's.
LEMMA StreamsContent ==
  ASSUME HoldInv, HoldInv', Filled, StreamsCarry, [Next]_vars
  PROVE  StreamsCarry'
<1>1. frames \in Seq(Samples) /\ FramesKept
  BY FramesGrow
<1>2. ASSUME NEW s, NEW n \in 1..Len(frames), s.bytes = FrameBytes(frames[n], n)
      PROVE  \E m \in 1..Len(frames') : s.bytes = FrameBytes(frames'[m], m)
  <2>1. n \in 1..Len(frames') /\ frames'[n] = frames[n]
    BY <1>1 DEF FramesKept
  <2> QED BY <1>2, <2>1
<1>3. ASSUME NEW t \in tasks, NEW whole \in BOOLEAN, EndTask(t, whole) PROVE StreamsCarry'
  <2> DEFINE new == [bytes |-> StreamOf(t), whole |-> whole]
  <2>1. streams' \subseteq streams \cup {new}
    BY <1>3 DEF EndTask
  <2>2. t.seq \in 1..Len(frames) /\ data[t.buf] = AnnexBOf(frames[t.seq])
    BY DEF HoldInv, SendInv, TasksHold, Filled
  <2>3. new.bytes = FrameBytes(frames[t.seq], t.seq)
    <3>1. StreamOf(t) = FrameBytes(frames[t.seq], t.seq)
      BY <2>2, Zenon DEF StreamOf, FrameBytes, Cat
    <3> QED BY <3>1
  <2> HIDE DEF new
  <2> QED BY <1>2, <2>1, <2>2, <2>3 DEF StreamsCarry
<1>4. CASE streams' \subseteq streams
  BY <1>2, <1>4, SMTT(30) DEF StreamsCarry
<1>5. (\E t \in tasks, whole \in BOOLEAN : EndTask(t, whole)) \/ streams' \subseteq streams
  BY DEF Next, Encode, Extract, ExtractFails, Spawn, Spawned, Return, InReturn, ReadHead,
     ReadNothing, ReadPayload, ReadFails, Dispatch, Decode, vars
<1> QED BY <1>3, <1>4, <1>5

\* The viewer's buffers that somebody holds keep what they hold, but for the one that is
\* shared and the one that is checked out.
LEMMA InKept ==
  ASSUME ReadInv,
         \/ \E len : In!Checkout(len)
         \/ \E b \in Ids : In!DropOwned(b) \/ In!DropShared(b) \/ In!PushBack(b)
  PROVE  \A b \in Ids : in_place'[b] \in {"owned", "shared"} =>
           \/ in_place[b] = in_place'[b] /\ in_data'[b] = in_data[b]
           \/ in_place[b] \in {"none", "free"} /\ b = In!Popped
<1>1. \/ \E len : InP!Checkout(len)
      \/ \E b \in InP!Ids : InP!Clone(b) \/ InP!DropOwned(b) \/ InP!DropShared(b) \/ InP!PushBack(b)
  BY SamePool
<1>2. InP!PoolInv /\ InP!Ids = Ids /\ InP!Popped = In!Popped
  BY SamePool DEF ReadInv
<1> QED BY <1>1, <1>2, InP!ContentsKept, BufPoolAssumption

\* What is held is owned or shared.
LEMMA HeldPlaces ==
  ASSUME ReadInv
  PROVE  \A r \in Held : r.buf \in Ids /\ in_place[r.buf] \in {"owned", "shared"}
BY DEF ReadInv, ReadersHold, VideoHolds, Held

\* Whoever keeps his buffer and what is in it.
LEMMA HolderKeeps ==
  ASSUME HoldInv, HeldCarry, [Next]_vars, NEW r \in Held,
         in_place'[r.buf] = in_place[r.buf], in_data'[r.buf] = in_data[r.buf]
  PROVE  HeldCarries(r)'
<1>1. frames \in Seq(Samples) /\ FramesKept
  BY FramesGrow
<1>2. HeldCarries(r)
  BY DEF HeldCarry
<1>3. Carries(r)'
  BY <1>1, <1>2, CarriesKept DEF HeldCarries, FramesKept
<1> QED BY <1>2, <1>3 DEF HeldCarries

\* A step that gives no one a buffer.
LEMMA HoldersKeep ==
  ASSUME HoldInv, HoldInv', HeldCarry, [Next]_vars, Held' \subseteq Held,
         \A b \in Ids : in_place'[b] \in {"owned", "shared"} =>
           \/ in_place[b] = in_place'[b] /\ in_data'[b] = in_data[b]
           \/ in_place[b] \notin {"owned", "shared"}
  PROVE  HeldCarry'
<1>1. /\ \A r \in Held : r.buf \in Ids /\ in_place[r.buf] \in {"owned", "shared"}
      /\ \A r \in Held' : in_place'[r.buf] \in {"owned", "shared"}
  BY HeldPlaces DEF HoldInv, ReadInv, ReadersHold, VideoHolds, Held
<1>2. ASSUME NEW r \in Held' PROVE HeldCarries(r)'
  BY <1>1, HolderKeeps
<1> QED BY <1>2 DEF HeldCarry

LEMMA FrameNumbered ==
  ASSUME HoldInv, Numbered, NEW n \in 1..Len(frames)
  PROVE  frames[n] \in Samples /\ n \in Number
<1>1. frames \in Seq(Samples) /\ Len(frames) <= MaxFrames
  BY DEF HoldInv, SendInv, TasksHold, Numbered
<1>2. MaxFrames \in Number /\ MaxFrames \in Nat
  BY SamplesAssumption, Numbers
<1>3. Len(frames) \in Nat /\ frames[n] \in Samples
  BY <1>1
<1>4. n \in Nat /\ n <= MaxFrames
  <2> DEFINE len == Len(frames)
  <2>1. len \in Nat /\ n \in 1..len /\ len <= MaxFrames
    BY <1>1, <1>3
  <2> HIDE DEF len
  <2> QED BY <1>2, <2>1
<1>5. n \in Number
  BY <1>2, <1>4, SmallerIsNumber
<1> QED BY <1>3, <1>5

LEMMA ReadHeadContent ==
  ASSUME HoldInv, HoldInv', Numbered, StreamsCarry, HeldCarry, NEW s \in streams, ReadHead(s)
  PROVE  HeldCarry'
<1> DEFINE header == ReadSubgroupHeader(s.bytes)
           object == ReadObjectHead(header.rest)
           new == [group_id |-> Narrow(header.value.group_id),
                   key |-> Narrow(header.value.subgroup_id) = 0,
                   ts |-> object.value.ts, codec |-> object.value.codec,
                   payload |-> object.rest, whole |-> s.whole, buf |-> In!Popped]
<1>1. /\ In!Checkout(object.value.len) /\ reading' = reading \cup {new}
      /\ UNCHANGED <<poolVars, sendVars, video>> /\ [Next]_vars
  BY DEF ReadHead, Next
<1>2. PICK n \in 1..Len(frames) : s.bytes = FrameBytes(frames[n], n)
  BY DEF StreamsCarry
<1>3. frames[n] \in Samples /\ n \in Number
  BY FrameNumbered
<1>4. /\ Narrow(header.value.group_id) = n
      /\ Narrow(header.value.subgroup_id) = 0 <=> frames[n].key
      /\ object.value.ts = frames[n].ts /\ object.value.codec = Hevc
      /\ object.value.len = Len(AnnexBOf(frames[n])) /\ object.rest = AnnexBOf(frames[n])
  BY <1>2, <1>3, FrameRead
<1>5. frames[n].key \in BOOLEAN /\ Len(AnnexBOf(frames[n])) \in Nat
  BY <1>3, SampleIs, Numbers
<1> HIDE DEF header, object
<1>r. PICK r : r = new
  OBVIOUS
<1>6. /\ r.group_id = n /\ r.key = frames[n].key /\ r.ts = frames[n].ts /\ r.codec = Hevc
      /\ r.payload = AnnexBOf(frames[n]) /\ r.buf = In!Popped
  BY <1>4, <1>5, <1>r
<1> HIDE DEF new
<1>7. In!Popped \in Ids /\ \A q \in reading : q.buf # In!Popped
  BY <1>1, <1>6, <1>r, ReadHeadKeeps DEF HoldInv
<1>8. in_place'[In!Popped] = "owned" /\ in_data'[In!Popped] = In!Resized(in_data[In!Popped], object.value.len)
  BY <1>1, <1>7, InTypes DEF In!Checkout, In!Pop, HoldInv, ReadInv
<1>9. Len(in_data'[r.buf]) = Len(r.payload)
  <2>1. In!Resized(in_data[In!Popped], object.value.len) = Resized(in_data[In!Popped], object.value.len)
    BY DEF In!Resized, Resized, In!Zero, Zero
  <2>2. object.value.len \in Nat
    BY <1>4, <1>5
  <2> QED BY <1>4, <1>6, <1>8, <2>1, <2>2, ResizedLen
<1>10. HeldCarries(r)'
  <2>1. Carries(r)'
    BY <1>1, <1>6 DEF Carries, sendVars
  <2> QED BY <1>6, <1>8, <1>9, <2>1 DEF HeldCarries
<1>11. \A q \in Held : in_place'[q.buf] = in_place[q.buf] /\ in_data'[q.buf] = in_data[q.buf]
  <2>1. \A q \in Held : q.buf \in Ids /\ in_place[q.buf] \in {"owned", "shared"}
    BY HeldPlaces DEF HoldInv
  <2>2. \A b \in Ids : b # In!Popped => in_place'[b] = in_place[b] /\ in_data'[b] = in_data[b]
    BY <1>1, InTypes DEF In!Checkout, In!Pop, HoldInv, ReadInv
  <2>3. in_place[In!Popped] \in {"none", "free"}
    BY <1>7, SamePool, InP!PoppedIsNobodys, BufPoolAssumption DEF HoldInv, ReadInv
  <2> QED BY <2>1, <2>2, <2>3
<1>12. ASSUME NEW q \in Held' PROVE HeldCarries(q)'
  <2>1. q = r \/ q \in Held
    BY <1>1, <1>r DEF Held
  <2> QED BY <1>1, <1>10, <1>11, <2>1, HolderKeeps
<1> QED BY <1>12 DEF HeldCarry

LEMMA ReadPayloadContent ==
  ASSUME HoldInv, HeldCarry, NEW r \in reading, ReadPayload(r)
  PROVE  HeldCarry'
<1>1. /\ In!Share(r.buf, Payload(r)) /\ UNCHANGED <<frames, reading, video>> /\ [Next]_vars
      /\ in_place[r.buf] = "owned" /\ r \in Held
  BY DEF ReadPayload, readVars, sendVars, Next, Held
<1>2. r.buf \in Ids /\ DOMAIN in_data = Ids /\ in_place \in [Ids -> Places]
  BY InTypes DEF HoldInv, ReadInv, ReadersHold
<1>3. Payload(r) = r.payload
  <2>1. HeldCarries(r)
    BY <1>1 DEF HeldCarry
  <2>2. r.payload \in Bytes
    <3>1. PICK n \in 1..Len(frames) : r.payload = AnnexBOf(frames[n])
      BY <2>1 DEF HeldCarries, Carries
    <3>2. frames[n] \in Samples
      BY DEF HoldInv, SendInv, TasksHold
    <3> QED BY <3>1, <3>2, SampleIs
  <2>3. Len(in_data[r.buf]) = Len(r.payload)
    BY <1>1, <2>1 DEF HeldCarries
  <2> QED BY <2>2, <2>3, WholeIs DEF Payload
<1>4. in_place'[r.buf] = "shared" /\ in_data'[r.buf] = r.payload
  BY <1>1, <1>2, <1>3 DEF In!Share
<1>5. HeldCarries(r)'
  <2>1. Carries(r)
    BY <1>1 DEF HeldCarry, HeldCarries
  <2> QED BY <1>1, <1>4, <2>1 DEF HeldCarries, Carries
<1>6. ASSUME NEW q \in Held', q # r PROVE HeldCarries(q)'
  <2>1. q \in Held
    BY <1>1 DEF Held
  <2>2. q.buf # r.buf
    BY <1>6, <2>1 DEF HoldInv, ReadInv, OneHolder, Held
  <2>3. in_place'[q.buf] = in_place[q.buf] /\ in_data'[q.buf] = in_data[q.buf]
    BY <1>1, <1>2, <2>2, HeldPlaces, <2>1 DEF In!Share, HoldInv
  <2> QED BY <1>1, <2>1, <2>3, HolderKeeps
<1> QED BY <1>5, <1>6 DEF HeldCarry

LEMMA HeldContent ==
  ASSUME HoldInv, HoldInv', Numbered, StreamsCarry, HeldCarry, [Next]_vars
  PROVE  HeldCarry'
<1>1. ASSUME UNCHANGED inVars, Held' \subseteq Held PROVE HeldCarry'
  BY <1>1, HoldersKeep DEF inVars
<1>2. ASSUME Held' \subseteq Held,
             \E b \in Ids : In!DropOwned(b) \/ In!DropShared(b) \/ In!PushBack(b)
      PROVE  HeldCarry'
  BY <1>2, InKept, HoldersKeep DEF HoldInv
<1>3. ASSUME NEW r \in reading, Dispatch(r) PROVE HeldCarry'
  <2>1. CASE video' = Append(video, r) /\ UNCHANGED inVars
    <3>1. IsSeq(video)
      BY DEF HoldInv, ReadInv, VideoHolds
    <3>2. \A i \in DOMAIN video' : video'[i] \in {video[j] : j \in DOMAIN video} \cup {r}
      BY <2>1, <3>1, Appended
    <3>3. Held' \subseteq Held
      BY <1>3, <3>2 DEF Held, Dispatch
    <3> QED BY <1>1, <2>1, <3>3
  <2>2. CASE In!DropShared(r.buf) /\ UNCHANGED video
    BY <1>2, <1>3, <2>2 DEF Held, Dispatch, HoldInv, ReadInv, ReadersHold
  <2> QED BY <1>3, <2>1, <2>2 DEF Dispatch
<1>4. CASE Decode
  <2>1. IsSeq(video) /\ video # <<>> /\ video' = Tail(video) /\ In!DropShared(Head(video).buf)
        /\ UNCHANGED reading
    BY <1>4 DEF Decode, HoldInv, ReadInv, VideoHolds
  <2>2. /\ DOMAIN video = 1..Len(video) /\ Len(video) \in Nat \ {0} /\ Head(video) = video[1]
        /\ DOMAIN video' = 1..Len(video) - 1
        /\ \A i \in 1..Len(video) - 1 : video'[i] = video[i + 1]
    BY <2>1, Tailed
  <2>3. \A i \in DOMAIN video' : i + 1 \in DOMAIN video /\ video'[i] = video[i + 1]
    BY <2>2
  <2>4. Held' \subseteq Held
    BY <2>1, <2>3 DEF Held
  <2>5. Head(video).buf \in Ids
    <3>1. 1 \in DOMAIN video
      BY <2>2
    <3> QED BY <2>2, <3>1 DEF HoldInv, ReadInv, VideoHolds
  <2> QED BY <1>2, <2>1, <2>4, <2>5
<1>5. ASSUME NEW r \in reading, ReadFails(r) PROVE HeldCarry'
  BY <1>2, <1>5 DEF ReadFails, Held, HoldInv, ReadInv, ReadersHold
<1>6. ASSUME NEW b \in Ids, InReturn(b) PROVE HeldCarry'
  BY <1>2, <1>6 DEF InReturn, Held, readVars
<1>7. CASE UNCHANGED <<inVars, reading, video>>
  BY <1>1, <1>7 DEF Held
<1>8. \/ UNCHANGED <<inVars, reading, video>>
      \/ \E s \in streams : ReadHead(s)
      \/ \E r \in reading : ReadPayload(r) \/ ReadFails(r) \/ Dispatch(r)
      \/ \E b \in Ids : InReturn(b)
      \/ Decode
  BY DEF Next, Encode, Extract, ExtractFails, Spawn, Spawned, EndTask, Return, ReadNothing,
         vars, readVars
<1> QED BY <1>3, <1>4, <1>5, <1>6, <1>7, <1>8, ReadHeadContent, ReadPayloadContent

LEMMA ContentInit == Init => ContentInv
<1> SUFFICES ASSUME Init PROVE ContentInv
  OBVIOUS
<1>1. frames = <<>> /\ encoder = None /\ tasks = {} /\ streams = {} /\ Held = {}
  BY DEF Init, Held
<1>2. Len(frames) <= MaxFrames
  <2>1. MaxFrames \in Nat
    BY SamplesAssumption, Numbers
  <2> QED BY <1>1, <2>1
<1> QED BY <1>1, <1>2 DEF ContentInv, Filled, Numbered, StreamsCarry, HeldCarry, Sending, Extracting

LEMMA ContentNext == HoldInv /\ HoldInv' /\ ContentInv /\ [Next]_vars => ContentInv'
<1> SUFFICES ASSUME HoldInv, HoldInv', ContentInv, [Next]_vars PROVE ContentInv'
  OBVIOUS
<1> USE DEF ContentInv
<1>1. Filled' /\ Numbered'
  <2>1. CASE UNCHANGED <<poolVars, sendVars>>
    BY <2>1, SMTT(30) DEF Filled, Numbered, Sending, Extracting, poolVars, sendVars
  <2>2. \/ UNCHANGED <<poolVars, sendVars>>
        \/ Extract
        \/ \E sample \in Samples : Encode(sample)
        \/ ExtractFails \/ (\E p \in Peers : Spawn(p)) \/ Spawned
        \/ \E t \in tasks, whole \in BOOLEAN : EndTask(t, whole)
        \/ \E b \in Ids : Return(b)
    BY DEF Next, InReturn, ReadHead, ReadNothing, ReadPayload, ReadFails, Dispatch, Decode, vars
  <2> QED BY <2>1, <2>2, SenderContent, ExtractContent
<1>2. StreamsCarry'
  BY StreamsContent
<1>3. HeldCarry'
  BY HeldContent
<1> QED BY <1>1, <1>2, <1>3

LEMMA Content == Spec => [](HoldInv /\ ContentInv)
<1>1. HoldInv /\ ContentInv /\ [Next]_vars => (HoldInv /\ ContentInv)'
  BY HoldNext, ContentNext
<1> QED BY <1>1, HoldInit, ContentInit, PTL DEF Spec

\* Every frame's stream that arrives whole can be read up to its payload, and the payload
\* fills the buffer that was checked out for it: for whatever samples, as long as their
\* numbers stay below 2^16, two bits of their timestamps are free and none is empty.
THEOREM WholeStreams == Spec => []WholeStreamsRead
<1>1. ASSUME HoldInv, ContentInv PROVE WholeStreamsRead
  <2>1. ASSUME NEW s \in streams PROVE Readable(s)
    <3>1. PICK n \in 1..Len(frames) : s.bytes = FrameBytes(frames[n], n)
      BY <1>1 DEF ContentInv, StreamsCarry
    <3>2. frames[n] \in Samples /\ n \in Number
      BY <1>1, FrameNumbered DEF ContentInv
    <3> QED BY <3>1, <3>2, FrameRead, Zenon DEF Readable
  <2>2. ASSUME NEW r \in reading PROVE Len(r.payload) = Len(in_data[r.buf])
    <3>1. r \in Held /\ in_place[r.buf] \in {"owned", "shared"}
      BY <1>1 DEF Held, HoldInv, ReadInv, ReadersHold
    <3> QED BY <1>1, <3>1 DEF ContentInv, HeldCarry, HeldCarries
  <2> QED BY <2>1, <2>2 DEF WholeStreamsRead
<1> QED BY <1>1, Content, PTL

-------------------------------------------------------------------------------
(* What the decoder is given. *)

\* A session is that of a keyframe, and while the gate is open that of the keyframe the
\* last frame depends on.
LEMMA DecodeContent ==
  ASSUME SurvivesAnnexB, HoldInv, ContentInv, DecodeInv, Decode
  PROVE  DecodeInv'
<1> DEFINE bytes == in_data[Head(video).buf]
<1>1. PICK v : v = Head(video)
  OBVIOUS
<1>2. v \in Held /\ in_place[v.buf] = "shared" /\ frames \in Seq(Samples) /\ UNCHANGED frames
  <2>1. IsSeq(video) /\ video # <<>> /\ UNCHANGED frames
    BY DEF HoldInv, ReadInv, VideoHolds, Decode, sendVars
  <2>2. v = video[1] /\ 1 \in DOMAIN video
    BY <1>1, <2>1, Tailed
  <2> QED BY <2>1, <2>2 DEF Held, HoldInv, ReadInv, VideoHolds, SendInv, TasksHold
<1>3. PICK n \in 1..Len(frames) :
        /\ v.group_id = n /\ v.key = frames[n].key /\ v.ts = frames[n].ts /\ v.codec = Hevc
        /\ v.payload = AnnexBOf(frames[n])
  BY <1>2 DEF ContentInv, HeldCarry, HeldCarries, Carries
<1>4. bytes = AnnexBOf(frames[n]) /\ frames[n] \in Samples
  BY <1>1, <1>2, <1>3 DEF ContentInv, HeldCarry, HeldCarries
<1> DEFINE f == frames[n]
<1>5. Hvcc(bytes) = Slices(f) /\ (f.key => ParameterSets(bytes) = f.params) /\ f.key \in BOOLEAN
  BY <1>4, SampleIs DEF SurvivesAnnexB
<1> DEFINE new == [seq |-> v.group_id, key |-> v.key, ts |-> v.ts, codec |-> v.codec,
                   slices |-> Hvcc(bytes), params |-> session']
<1>6. ASSUME Depends(n)', got_keyframe' = TRUE, last_decoded_group' = n, decoded' = decoded \cup {new},
             session' # None => \E k \in 1..Len(frames) : frames[k].key /\ session' = frames[k].params
      PROVE  DecodeInv'
  <2>1. ASSUME NEW d \in decoded'
        PROVE  /\ d.seq \in 1..Len(frames) /\ d.key = frames[d.seq].key /\ d.ts = frames[d.seq].ts
               /\ d.codec = Hevc /\ d.slices = Slices(frames[d.seq])
               /\ \E k \in 1..d.seq : /\ frames[k].key /\ frames[k].params = d.params
                                      /\ \A j \in k + 1 .. d.seq : ~frames[j].key
    <3>1. CASE d \in decoded
      BY <3>1 DEF DecodeInv, DecodedAsEncoded
    <3>2. CASE d = new
      <4>1. d.seq = n /\ d.key = f.key /\ d.ts = f.ts /\ d.codec = Hevc /\ d.slices = Slices(f)
            /\ d.params = session'
        BY <1>3, <1>5, <3>2
      <4> QED BY <1>2, <1>6, <4>1 DEF Depends
    <3> QED BY <1>6, <3>1, <3>2
  <2>2. DecodedAsEncoded'
    BY <1>2, <2>1 DEF DecodedAsEncoded
  <2> QED BY <1>2, <1>6, <2>1, <2>2 DEF DecodeInv
<1>7. ASSUME got_keyframe' = FALSE, UNCHANGED decoded, session' \in {None, session} PROVE DecodeInv'
  BY <1>2, <1>7, SMTT(30) DEF DecodeInv, DecodedAsEncoded
<1>8. Feed(v, bytes) => /\ got_keyframe' = TRUE /\ last_decoded_group' = n
                        /\ decoded' = decoded \cup {new}
  BY <1>3, Zenon DEF Feed
<1>9. CASE ~v.key /\ got_keyframe /\ ~Gap(v) /\ UNCHANGED session /\ Feed(v, bytes)
  <2>1. last_decoded_group + 1 = n /\ last_decoded_group \in 1..Len(frames) /\ Depends(last_decoded_group)
    BY <1>3, <1>9 DEF DecodeInv, Gap
  <2>2. PICK k \in 1..last_decoded_group :
          /\ frames[k].key /\ frames[k].params = session
          /\ \A j \in k + 1 .. last_decoded_group : ~frames[j].key
    BY <2>1 DEF Depends
  <2>3. k \in 1..n /\ \A j \in k + 1 .. n : ~frames[j].key
    <3>1. \A j \in k + 1 .. n : j = n \/ j \in k + 1 .. last_decoded_group
      BY <2>1
    <3>2. k \in 1..n
      BY <2>1
    <3> QED BY <1>3, <1>9, <2>2, <3>1, <3>2
  <2>4. Depends(n)'
    BY <1>2, <1>9, <2>2, <2>3 DEF Depends
  <2> QED BY <1>6, <1>8, <1>9, <2>4 DEF DecodeInv
<1>10. ASSUME v.key, session' = f.params, Feed(v, bytes) PROVE DecodeInv'
  <2>1. n \in 1..n /\ \A j \in n + 1 .. n : ~frames[j].key
    OBVIOUS
  <2>2. Depends(n)'
    BY <1>2, <1>3, <1>10, <2>1 DEF Depends
  <2> QED BY <1>3, <1>6, <1>8, <1>10, <2>2
<1>11. CASE v.key /\ session # None /\ ParamsMatch(session, bytes) /\ UNCHANGED session /\ Feed(v, bytes)
  <2>1. PICK k \in 1..Len(frames) : frames[k].key /\ session = frames[k].params
    BY <1>11 DEF DecodeInv
  <2>2. frames[k] \in Samples /\ f \in Samples /\ f.key /\ FlattenSeq(frames[k].params) = FlattenSeq(f.params)
    BY <1>2, <1>3, <1>4, <1>5, <1>11, <2>1 DEF ParamsMatch
  <2>3. session = f.params
    BY <2>1, <2>2 DEF SurvivesAnnexB
  <2> QED BY <1>10, <1>11, <2>3
<1>12. CASE v.key /\ session' = ParameterSets(bytes) /\ Feed(v, bytes)
  BY <1>3, <1>5, <1>10, <1>12
<1>13. CASE got_keyframe' = FALSE /\ UNCHANGED decoded /\ session' \in {None, session}
  BY <1>7, <1>13
<1>14. \/ ~v.key /\ got_keyframe /\ ~Gap(v) /\ UNCHANGED session /\ Feed(v, bytes)
       \/ v.key /\ session # None /\ ParamsMatch(session, bytes) /\ UNCHANGED session /\ Feed(v, bytes)
       \/ v.key /\ session' = ParameterSets(bytes) /\ Feed(v, bytes)
       \/ got_keyframe' = FALSE /\ UNCHANGED decoded /\ session' \in {None, session}
  BY <1>1, Zenon DEF Decode
<1> QED BY <1>9, <1>11, <1>12, <1>13, <1>14

\* The other steps only number frames.
LEMMA DecodeStutters ==
  ASSUME HoldInv, DecodeInv, [Next]_vars, UNCHANGED <<session, got_keyframe, last_decoded_group, decoded>>
  PROVE  DecodeInv'
<1>1. frames \in Seq(Samples) /\ FramesKept
  BY FramesGrow
<1>2. \A n \in 1..Len(frames) : n \in 1..Len(frames') /\ frames'[n] = frames[n]
  BY <1>1 DEF FramesKept
<1>3. ASSUME NEW n \in 1..Len(frames), NEW k \in 1..n
      PROVE  frames'[k] = frames[k] /\ \A j \in k + 1 .. n : frames'[j] = frames[j]
  <2>1. k \in 1..Len(frames) /\ \A j \in k + 1 .. n : j \in 1..Len(frames)
    BY <1>1
  <2> QED BY <1>2, <2>1
<1>4. session # None => \E k \in 1..Len(frames') : frames'[k].key /\ session = frames'[k].params
  BY <1>2 DEF DecodeInv
<1>5. got_keyframe => last_decoded_group \in 1..Len(frames') /\ Depends(last_decoded_group)'
  BY <1>2, <1>3 DEF DecodeInv, Depends
<1>6. ASSUME NEW d \in decoded
      PROVE  /\ d.seq \in 1..Len(frames') /\ d.key = frames'[d.seq].key /\ d.ts = frames'[d.seq].ts
             /\ d.codec = Hevc /\ d.slices = Slices(frames'[d.seq])
             /\ \E k \in 1..d.seq : /\ frames'[k].key /\ frames'[k].params = d.params
                                    /\ \A j \in k + 1 .. d.seq : ~frames'[j].key
  <2>1. d.seq \in 1..Len(frames)
    BY DEF DecodeInv
  <2> DEFINE n == d.seq
  <2>2. n \in 1..Len(frames') /\ frames'[n] = frames[n]
    BY <1>2, <2>1
  <2>3. /\ d.key = frames[n].key /\ d.ts = frames[n].ts /\ d.codec = Hevc /\ d.slices = Slices(frames[n])
        /\ \E k \in 1..n : /\ frames[k].key /\ frames[k].params = d.params
                           /\ \A j \in k + 1 .. n : ~frames[j].key
    BY DEF DecodeInv, DecodedAsEncoded
  <2>4. PICK k \in 1..n : /\ frames[k].key /\ frames[k].params = d.params
                          /\ \A j \in k + 1 .. n : ~frames[j].key
    BY <2>3
  <2>5. frames'[k].key /\ frames'[k].params = d.params /\ \A j \in k + 1 .. n : ~frames'[j].key
    BY <1>3, <2>1, <2>4
  <2> QED BY <2>2, <2>3, <2>5
<1>7. DecodedAsEncoded'
  BY <1>6 DEF DecodedAsEncoded
<1> QED BY <1>4, <1>5, <1>6, <1>7 DEF DecodeInv

\* What the decoder is given is what the encoder returned, in a session with the parameter
\* sets of the keyframe it depends on, if the receiver takes samples apart as they were put
\* together: with any number of buffers, peers and frames, and whatever is lost, aborted
\* or dropped in between.
THEOREM DecodesWhatWasEncoded ==
  ASSUME SurvivesAnnexB
  PROVE  Spec => []DecodedAsEncoded
<1> DEFINE Inv == HoldInv /\ ContentInv
<1>1. Init => DecodeInv
  BY DEF Init, DecodeInv, DecodedAsEncoded
<1>2. Inv /\ DecodeInv /\ [Next]_vars => DecodeInv'
  <2> SUFFICES ASSUME Inv, DecodeInv, [Next]_vars PROVE DecodeInv'
    OBVIOUS
  <2>1. Decode \/ UNCHANGED <<session, got_keyframe, last_decoded_group, decoded>>
    BY DEF Next, Encode, Extract, ExtractFails, Spawn, Spawned, EndTask, Return, InReturn, ReadHead,
       ReadNothing, ReadPayload, ReadFails, Dispatch, vars, readVars
  <2> QED BY <2>1, DecodeContent, DecodeStutters
<1>3. DecodeInv => DecodedAsEncoded
  BY DEF DecodeInv
<1>4. Spec => []Inv
  BY Content
<1> HIDE DEF Inv
<1> QED BY <1>1, <1>2, <1>3, <1>4, PTL DEF Spec
===============================================================================
