---------------------------- MODULE FrameProofs ----------------------------
(***************************************************************************)
(* Proofs about the definitions Reports is built from, for any bytes:      *)
(* frames and their checksum, the values of parameters, the lists of       *)
(* destinations.                                                           *)
(***************************************************************************)
EXTENDS Reports, DataFacts

-----------------------------------------------------------------------------
(* Exclusive or.                                                           *)

\* A number below 16 and its four bits.
Bits(a, p, q, r, s) ==
  /\ p \in {0, 1} /\ q \in {0, 1} /\ r \in {0, 1} /\ s \in {0, 1}
  /\ a = 8 * p + 4 * q + 2 * r + s

\* It has them.
LEMMA BitsOfHalf ==
  ASSUME NEW a \in 0 .. 15
  PROVE  \E p, q, r, s : Bits(a, p, q, r, s)
  <1> DEFINE p == a \div 8
             q == (a \div 4) % 2
             r == (a \div 2) % 2
             s == a % 2
  <1>1. p \in {0, 1} /\ q \in {0, 1} /\ r \in {0, 1} /\ s \in {0, 1}
    OBVIOUS
  <1>2. a = 8 * p + 4 * q + 2 * r + s
    OBVIOUS
  <1> HIDE DEF p, q, r, s
  <1>3. Bits(a, p, q, r, s)
    BY <1>1, <1>2 DEF Bits
  <1> QED
    BY <1>3

\* And is below 16.
LEMMA BitsBound ==
  ASSUME NEW a, NEW p, NEW q, NEW r, NEW s, Bits(a, p, q, r, s)
  PROVE  a \in 0 .. 15
  BY DEF Bits

Xor(p, q) == (p + q) % 2

\* Exclusive or of bits.
LEMMA XorFacts ==
  /\ \A p, q \in {0, 1} : Xor(p, q) \in {0, 1}
  /\ \A p \in {0, 1} : Xor(p, p) = 0 /\ Xor(0, p) = p
  /\ \A p, q, r \in {0, 1} : Xor(Xor(p, q), r) = Xor(Xor(p, r), q)
  BY DEF Xor

\* HalfXor is exclusive or, bit by bit.
LEMMA HalfXorOfBits ==
  ASSUME NEW a, NEW p, NEW q, NEW r, NEW s, Bits(a, p, q, r, s),
         NEW b, NEW t, NEW u, NEW v, NEW w, Bits(b, t, u, v, w)
  PROVE  Bits(HalfXor[a][b], Xor(p, t), Xor(q, u), Xor(r, v), Xor(s, w))
  <1>1. /\ p \in {0, 1} /\ q \in {0, 1} /\ r \in {0, 1} /\ s \in {0, 1}
        /\ t \in {0, 1} /\ u \in {0, 1} /\ v \in {0, 1} /\ w \in {0, 1}
        /\ a = 8 * p + 4 * q + 2 * r + s /\ b = 8 * t + 4 * u + 2 * v + w
    BY DEF Bits
  <1>2. a \in 0 .. 15 /\ b \in 0 .. 15
    BY BitsBound
  <1>3. /\ a \div 8 = p /\ a \div 4 = 2 * p + q /\ a \div 2 = 4 * p + 2 * q + r
        /\ b \div 8 = t /\ b \div 4 = 2 * t + u /\ b \div 2 = 4 * t + 2 * u + v
    BY <1>1
  <1>4. HalfXor[a][b] = 8 * ((a \div 8 + b \div 8) % 2) + 4 * ((a \div 4 + b \div 4) % 2)
                          + 2 * ((a \div 2 + b \div 2) % 2) + ((a + b) % 2)
    BY <1>2 DEF HalfXor
  <1>5. (2 * p + q + 2 * t + u) % 2 = (q + u) % 2
    BY <1>1
  <1>6. (4 * p + 2 * q + r + 4 * t + 2 * u + v) % 2 = (r + v) % 2
    BY <1>1
  <1>7. (a + b) % 2 = (s + w) % 2
    BY <1>1, SMTT(60)
  <1>8. HalfXor[a][b] = 8 * Xor(p, t) + 4 * Xor(q, u) + 2 * Xor(r, v) + Xor(s, w)
    <2>1. (a \div 8 + b \div 8) % 2 = Xor(p, t)
      BY <1>3 DEF Xor
    <2>2. (a \div 4 + b \div 4) % 2 = Xor(q, u)
      <3>1. a \div 4 + b \div 4 = 2 * p + q + 2 * t + u
        BY <1>1, <1>3
      <3> QED
        BY <1>5, <3>1 DEF Xor
    <2>3. (a \div 2 + b \div 2) % 2 = Xor(r, v)
      <3>1. a \div 2 + b \div 2 = 4 * p + 2 * q + r + 4 * t + 2 * u + v
        BY <1>1, <1>3
      <3> QED
        BY <1>6, <3>1 DEF Xor
    <2>4. (a + b) % 2 = Xor(s, w)
      BY <1>7 DEF Xor
    <2> QED
      BY <1>4, <2>1, <2>2, <2>3, <2>4
  <1>9. Xor(p, t) \in {0, 1} /\ Xor(q, u) \in {0, 1} /\ Xor(r, v) \in {0, 1} /\ Xor(s, w) \in {0, 1}
    BY <1>1, XorFacts
  <1> QED
    BY <1>8, <1>9 DEF Bits

\* A number is told by its bits.
LEMMA SameBits ==
  ASSUME NEW a, NEW b, NEW p, NEW q, NEW r, NEW s, Bits(a, p, q, r, s), Bits(b, p, q, r, s)
  PROVE  a = b
  BY DEF Bits

\* So it has the laws of exclusive or.
LEMMA HalfXorFacts ==
  /\ \A a, b \in 0 .. 15 : HalfXor[a][b] \in 0 .. 15
  /\ \A a \in 0 .. 15 : HalfXor[a][a] = 0 /\ HalfXor[0][a] = a
  /\ \A a, b, c \in 0 .. 15 : HalfXor[HalfXor[a][b]][c] = HalfXor[HalfXor[a][c]][b]
  <1>1. ASSUME NEW a \in 0 .. 15, NEW b \in 0 .. 15 PROVE HalfXor[a][b] \in 0 .. 15
    <2>1. PICK p, q, r, s : Bits(a, p, q, r, s)
      BY BitsOfHalf
    <2>2. PICK t, u, v, w : Bits(b, t, u, v, w)
      BY BitsOfHalf
    <2>3. Bits(HalfXor[a][b], Xor(p, t), Xor(q, u), Xor(r, v), Xor(s, w))
      BY <2>1, <2>2, HalfXorOfBits
    <2> QED
      BY <2>3, BitsBound
  <1>2. ASSUME NEW a \in 0 .. 15 PROVE HalfXor[a][a] = 0 /\ HalfXor[0][a] = a
    <2>1. PICK p, q, r, s : Bits(a, p, q, r, s)
      BY BitsOfHalf
    <2>2. Bits(0, 0, 0, 0, 0)
      BY DEF Bits
    <2>3. Bits(HalfXor[a][a], Xor(p, p), Xor(q, q), Xor(r, r), Xor(s, s))
      BY <2>1, HalfXorOfBits
    <2>4. Bits(HalfXor[0][a], Xor(0, p), Xor(0, q), Xor(0, r), Xor(0, s))
      BY <2>1, <2>2, HalfXorOfBits
    <2>5. p \in {0, 1} /\ q \in {0, 1} /\ r \in {0, 1} /\ s \in {0, 1}
      BY <2>1 DEF Bits
    <2>6. /\ Xor(p, p) = 0 /\ Xor(q, q) = 0 /\ Xor(r, r) = 0 /\ Xor(s, s) = 0
          /\ Xor(0, p) = p /\ Xor(0, q) = q /\ Xor(0, r) = r /\ Xor(0, s) = s
      BY <2>5, XorFacts
    <2> QED
      BY <2>1, <2>2, <2>3, <2>4, <2>6, SameBits
  <1>3. ASSUME NEW a \in 0 .. 15, NEW b \in 0 .. 15, NEW c \in 0 .. 15
        PROVE  HalfXor[HalfXor[a][b]][c] = HalfXor[HalfXor[a][c]][b]
    <2>1. PICK p, q, r, s : Bits(a, p, q, r, s)
      BY BitsOfHalf
    <2>2. PICK t, u, v, w : Bits(b, t, u, v, w)
      BY BitsOfHalf
    <2>3. PICK h, i, j, k : Bits(c, h, i, j, k)
      BY BitsOfHalf
    <2>4. Bits(HalfXor[a][b], Xor(p, t), Xor(q, u), Xor(r, v), Xor(s, w))
      BY <2>1, <2>2, HalfXorOfBits
    <2>5. Bits(HalfXor[a][c], Xor(p, h), Xor(q, i), Xor(r, j), Xor(s, k))
      BY <2>1, <2>3, HalfXorOfBits
    <2>6. Bits(HalfXor[HalfXor[a][b]][c],
               Xor(Xor(p, t), h), Xor(Xor(q, u), i), Xor(Xor(r, v), j), Xor(Xor(s, w), k))
      BY <2>3, <2>4, HalfXorOfBits
    <2>7. Bits(HalfXor[HalfXor[a][c]][b],
               Xor(Xor(p, h), t), Xor(Xor(q, i), u), Xor(Xor(r, j), v), Xor(Xor(s, k), w))
      BY <2>2, <2>5, HalfXorOfBits
    <2>8. /\ p \in {0, 1} /\ q \in {0, 1} /\ r \in {0, 1} /\ s \in {0, 1}
          /\ t \in {0, 1} /\ u \in {0, 1} /\ v \in {0, 1} /\ w \in {0, 1}
          /\ h \in {0, 1} /\ i \in {0, 1} /\ j \in {0, 1} /\ k \in {0, 1}
      BY <2>1, <2>2, <2>3 DEF Bits
    <2>9. /\ Xor(Xor(p, t), h) = Xor(Xor(p, h), t) /\ Xor(Xor(q, u), i) = Xor(Xor(q, i), u)
          /\ Xor(Xor(r, v), j) = Xor(Xor(r, j), v) /\ Xor(Xor(s, w), k) = Xor(Xor(s, k), w)
      BY <2>8, XorFacts
    <2> QED
      BY <2>6, <2>7, <2>9, SameBits
  <1> QED
    BY <1>1, <1>2, <1>3, Zenon

\* The second and the third operand may change places.
Swaps(a, b, c) == HalfXor[HalfXor[a][b]][c] = HalfXor[HalfXor[a][c]][b]

\* They always may.
LEMMA HalfXorSwaps ==
  ASSUME NEW a \in 0 .. 15, NEW b \in 0 .. 15, NEW c \in 0 .. 15
  PROVE  Swaps(a, b, c)
  BY HalfXorFacts, ZenonT(60) DEF Swaps

\* A byte has two halves.
LEMMA HalvesOfByte ==
  /\ \A h, l \in 0 .. 15 : 16 * h + l \in Byte
  /\ \A h, l \in 0 .. 15 : (16 * h + l) \div 16 = h /\ (16 * h + l) % 16 = l
  /\ \A a \in Byte : \E h, l \in 0 .. 15 : a = 16 * h + l /\ a \div 16 = h /\ a % 16 = l
  <1>1. ASSUME NEW h \in 0 .. 15, NEW l \in 0 .. 15
        PROVE  16 * h + l \in Byte /\ (16 * h + l) \div 16 = h /\ (16 * h + l) % 16 = l
    BY DEF Byte
  <1>2. ASSUME NEW a \in Byte
        PROVE  \E h, l \in 0 .. 15 : a = 16 * h + l /\ a \div 16 = h /\ a % 16 = l
    <2>1. a \div 16 \in 0 .. 15 /\ a % 16 \in 0 .. 15 /\ a = 16 * (a \div 16) + (a % 16)
      BY DEF Byte
    <2> QED
      BY <2>1
  <1> QED
    BY <1>1, <1>2

Halves(a, h, l) ==
  h \in 0 .. 15 /\ l \in 0 .. 15 /\ a = 16 * h + l /\ a \div 16 = h /\ a % 16 = l

\* Every byte is made of a pair of halves.
LEMMA HalvesExist == ASSUME NEW a \in Byte PROVE \E h, l : Halves(a, h, l)
  BY HalvesOfByte, Zenon DEF Halves

\* The exclusive or of bytes is that of their halves.
LEMMA XorOfHalves ==
  ASSUME NEW a, NEW b, NEW h, NEW l, NEW i, NEW m, Halves(a, h, l), Halves(b, i, m)
  PROVE  /\ Halves(XorByte(a, b), HalfXor[h][i], HalfXor[l][m])
         /\ XorByte(a, b) \in Byte
  <1>1. XorByte(a, b) = 16 * HalfXor[h][i] + HalfXor[l][m]
    BY DEF XorByte, Halves
  <1>2. HalfXor[h][i] \in 0 .. 15 /\ HalfXor[l][m] \in 0 .. 15
    BY HalfXorFacts, ZenonT(60) DEF Halves
  <1> HIDE DEF HalfXor
  <1> DEFINE x == HalfXor[h][i]
             y == HalfXor[l][m]
  <1>3. (16 * x + y) \div 16 = x /\ (16 * x + y) % 16 = y /\ 16 * x + y \in Byte
    <2> HIDE DEF x, y
    <2>1. x \in 0 .. 15 /\ y \in 0 .. 15
      BY <1>2 DEF x, y
    <2> QED
      BY <2>1 DEF Byte
  <1> QED
    BY <1>1, <1>2, <1>3 DEF Halves

\* So XorByte has the laws of exclusive or, and yields a byte.
LEMMA XorByteFacts ==
  /\ \A a, b \in Byte : XorByte(a, b) \in Byte
  /\ \A a \in Byte : XorByte(a, a) = 0 /\ XorByte(0, a) = a
  /\ \A a, b, c \in Byte : XorByte(XorByte(a, b), c) = XorByte(XorByte(a, c), b)
  <1>1. ASSUME NEW a \in Byte, NEW b \in Byte PROVE XorByte(a, b) \in Byte
    BY HalvesExist, XorOfHalves
  <1>2. ASSUME NEW a \in Byte PROVE XorByte(a, a) = 0 /\ XorByte(0, a) = a
    <2>1. PICK h, l : Halves(a, h, l)
      BY HalvesExist
    <2>2. Halves(0, 0, 0)
      BY DEF Halves
    <2>3. /\ Halves(XorByte(a, a), HalfXor[h][h], HalfXor[l][l])
          /\ Halves(XorByte(0, a), HalfXor[0][h], HalfXor[0][l])
      BY <2>1, <2>2, XorOfHalves, ZenonT(60)
    <2>4. /\ HalfXor[h][h] = 0 /\ HalfXor[l][l] = 0
          /\ HalfXor[0][h] = h /\ HalfXor[0][l] = l
      BY <2>1, HalfXorFacts, ZenonT(60) DEF Halves
    <2> QED
      BY <2>1, <2>3, <2>4 DEF Halves
  <1>3. ASSUME NEW a \in Byte, NEW b \in Byte, NEW c \in Byte
        PROVE  XorByte(XorByte(a, b), c) = XorByte(XorByte(a, c), b)
    <2>1. PICK h, l : Halves(a, h, l)
      BY HalvesExist
    <2>2. PICK i, m : Halves(b, i, m)
      BY HalvesExist
    <2>3. PICK j, n : Halves(c, j, n)
      BY HalvesExist
    <2>4. /\ Halves(XorByte(a, b), HalfXor[h][i], HalfXor[l][m])
          /\ Halves(XorByte(a, c), HalfXor[h][j], HalfXor[l][n])
      BY <2>1, <2>2, <2>3, XorOfHalves
    <2>5. Halves(XorByte(XorByte(a, b), c), HalfXor[HalfXor[h][i]][j], HalfXor[HalfXor[l][m]][n])
      BY <2>3, <2>4, XorOfHalves
    <2>6. Halves(XorByte(XorByte(a, c), b), HalfXor[HalfXor[h][j]][i], HalfXor[HalfXor[l][n]][m])
      BY <2>2, <2>4, XorOfHalves
    <2>7. /\ HalfXor[HalfXor[h][i]][j] = HalfXor[HalfXor[h][j]][i]
          /\ HalfXor[HalfXor[l][m]][n] = HalfXor[HalfXor[l][n]][m]
      <3>1. /\ h \in 0 .. 15 /\ i \in 0 .. 15 /\ j \in 0 .. 15
            /\ l \in 0 .. 15 /\ m \in 0 .. 15 /\ n \in 0 .. 15
        BY <2>1, <2>2, <2>3, ZenonT(60) DEF Halves
      <3>2. Swaps(h, i, j) /\ Swaps(l, m, n)
        BY <3>1, HalfXorSwaps, ZenonT(60)
      <3> QED
        BY <3>2 DEF Swaps
    <2>8. XorByte(XorByte(a, b), c) = 16 * HalfXor[HalfXor[h][i]][j] + HalfXor[HalfXor[l][m]][n]
      BY <2>5 DEF Halves
    <2>9. XorByte(XorByte(a, c), b) = 16 * HalfXor[HalfXor[h][j]][i] + HalfXor[HalfXor[l][n]][m]
      BY <2>6 DEF Halves
    <2> QED
      BY <2>7, <2>8, <2>9
  <1> QED
    BY <1>1, <1>2, <1>3

\* Exclusive or of bytes is associative.
LEMMA XorByteAssociative ==
  ASSUME NEW a \in Byte, NEW b \in Byte, NEW c \in Byte
  PROVE  XorByte(a, XorByte(b, c)) = XorByte(XorByte(a, b), c)
  <1>1. \A x, y \in Byte : XorByte(x, y) = XorByte(y, x)
    <2> TAKE x, y \in Byte
    <2>1. 0 \in Byte
      BY DEF Byte
    <2>2. XorByte(XorByte(0, x), y) = XorByte(XorByte(0, y), x)
      BY <2>1, XorByteFacts
    <2> QED
      BY <2>2, XorByteFacts
  <1>2. XorByte(b, c) \in Byte
    BY XorByteFacts
  <1>3. XorByte(a, XorByte(b, c)) = XorByte(XorByte(b, c), a)
    BY <1>1, <1>2
  <1>4. XorByte(XorByte(b, c), a) = XorByte(XorByte(b, a), c)
    BY XorByteFacts
  <1> QED
    BY <1>1, <1>3, <1>4

-----------------------------------------------------------------------------
(* The checksum.                                                           *)

XorStep == [b \in Byte |-> [x \in Byte |-> XorByte(x, b)]]

\* A byte of the frame changes the checksum.
LEMMA XorStepType == XorStep \in StepFunctions(Byte, Byte)
  BY XorByteFacts DEF XorStep, StepFunctions

\* The checksum is where a run of XorStep from 255 ends.
LEMMA ChecksumIsRun ==
  ASSUME NEW bytes \in Seq(Byte)
  PROVE  \E h : /\ IsRun(h, bytes, XorStep, Byte)
                /\ h[0] = 255
                /\ Checksum(bytes) = h[Len(bytes)]
  <1> DEFINE n == Len(bytes)
             Sums(f) == f = [i \in 0 .. n |-> IF i = 0 THEN 255 ELSE XorByte(f[i - 1], bytes[i])]
             sum == CHOOSE f : Sums(f)
  <1>1. PICK h : IsRun(h, bytes, XorStep, Byte) /\ h[0] = 255
    <2> HIDE DEF Sums, sum, n
    <2> DEFINE start == 255
    <2>1. start \in Byte
      BY DEF Byte
    <2> HIDE DEF start
    <2>2. \E h : IsRun(h, bytes, XorStep, Byte) /\ h[0] = start
      BY <2>1, XorStepType, RunExists
    <2> QED
      BY <2>2 DEF start
  <1>2. h \in [0 .. n -> Byte] /\ \A i \in 1 .. n : h[i] = XorStep[bytes[i]][h[i - 1]]
    BY <1>1 DEF IsRun
  <1>3. n \in Nat /\ \A i \in 1 .. n : bytes[i] \in Byte
    OBVIOUS
  <1>4. \A i \in 1 .. n : h[i] = XorByte(h[i - 1], bytes[i])
    BY <1>2, <1>3 DEF XorStep
  <1>5. Sums(h)
    BY <1>1, <1>2, <1>4
  <1>6. Sums(sum)
    BY <1>5
  <1>7. Checksum(bytes) = sum[n]
    BY DEF Checksum
  <1>8. \A k \in Nat : k <= n => sum[k] = h[k]
    <2> DEFINE A == {k \in Nat : k <= n => sum[k] = h[k]}
    <2>1. 0 \in A
      BY <1>3, <1>5, <1>6, SMTT(60)
    <2>2. ASSUME NEW k \in Nat, k \in A PROVE k + 1 \in A
      <3> SUFFICES ASSUME k + 1 <= n PROVE sum[k + 1] = h[k + 1]
        OBVIOUS
      <3>1. k + 1 \in 0 .. n /\ k + 1 # 0 /\ (k + 1) - 1 = k
        BY <1>3
      <3>2. sum[k + 1] = XorByte(sum[k], bytes[k + 1])
        <4> HIDE DEF sum
        <4> QED
          BY <1>6, <3>1
      <3>3. h[k + 1] = XorByte(h[k], bytes[k + 1])
        BY <1>3, <1>4, <3>1
      <3>4. sum[k] = h[k]
        BY <1>3, <2>2
      <3> QED
        BY <3>2, <3>3, <3>4
    <2> HIDE DEF A
    <2>3. \A k \in Nat : k \in A
      BY <2>1, <2>2, NatSetInduction
    <2> QED
      BY <2>3 DEF A
  <1> QED
    BY <1>1, <1>3, <1>7, <1>8

\* The checksum of a frame is that of its bytes but the last, changed by the
\* last.
LEMMA ChecksumOfAppend ==
  ASSUME NEW bytes \in Seq(Byte), NEW b \in Byte
  PROVE  /\ Checksum(bytes) \in Byte
         /\ Checksum(Append(bytes, b)) = XorByte(Checksum(bytes), b)
  <1>1. PICK h : IsRun(h, bytes, XorStep, Byte) /\ h[0] = 255 /\ Checksum(bytes) = h[Len(bytes)]
    BY ChecksumIsRun
  <1>2. Append(bytes, b) \in Seq(Byte) /\ Len(bytes) \in Nat /\ Len(Append(bytes, b)) = Len(bytes) + 1
    OBVIOUS
  <1>3. PICK g : /\ IsRun(g, Append(bytes, b), XorStep, Byte) /\ g[0] = 255
                 /\ Checksum(Append(bytes, b)) = g[Len(Append(bytes, b))]
    <2> DEFINE longer == Append(bytes, b)
    <2>1. longer \in Seq(Byte)
      BY <1>2
    <2> HIDE DEF longer
    <2>2. PICK g : IsRun(g, longer, XorStep, Byte) /\ g[0] = 255 /\ Checksum(longer) = g[Len(longer)]
      BY <2>1, ChecksumIsRun
    <2> QED
      BY <2>2 DEF longer
  <1> DEFINE e == Extended(h, Len(bytes), XorStep[b][h[Len(bytes)]])
  <1>4. IsRun(e, Append(bytes, b), XorStep, Byte)
    <2>1. IsRun(h, bytes, XorStep, Byte)
      BY <1>1
    <2> QED
      BY <2>1, XorStepType, RunOfAppend
  <1>5. e[0] = 255 /\ e[Len(bytes) + 1] = XorStep[b][h[Len(bytes)]]
    BY <1>1, <1>2 DEF Extended
  <1>6. g[Len(bytes) + 1] = e[Len(bytes) + 1]
    <2> DEFINE longer == Append(bytes, b)
    <2>1. /\ IsRun(g, longer, XorStep, Byte) /\ IsRun(e, longer, XorStep, Byte)
          /\ g[0] = e[0] /\ Len(longer) \in Nat /\ Len(bytes) + 1 \in 0 .. Len(longer)
      BY <1>2, <1>3, <1>4, <1>5
    <2> HIDE DEF e, longer
    <2> DEFINE m == Len(bytes) + 1
    <2>2. m \in 0 .. Len(longer)
      BY <2>1
    <2> HIDE DEF m
    <2>3. g[m] = e[m]
      BY <2>1, <2>2, RunUnique
    <2> QED
      BY <2>3 DEF m
  <1>7. h[Len(bytes)] \in Byte
    BY <1>1, <1>2 DEF IsRun
  <1> QED
    BY <1>1, <1>2, <1>3, <1>5, <1>6, <1>7 DEF XorStep

\* A byte that is changed changes the checksum the same way.
LEMMA ChecksumOfDamaged ==
  ASSUME NEW bytes \in Seq(Byte), NEW k \in 1 .. Len(bytes), NEW mask \in Byte
  PROVE  Checksum([bytes EXCEPT ![k] = XorByte(bytes[k], mask)]) = XorByte(Checksum(bytes), mask)
  <1> DEFINE n == Len(bytes)
             damaged == [bytes EXCEPT ![k] = XorByte(bytes[k], mask)]
  <1>1. n \in Nat /\ k \in 1 .. n /\ \A i \in 1 .. n : bytes[i] \in Byte
    OBVIOUS
  <1>2. /\ damaged \in Seq(Byte) /\ Len(damaged) = n
        /\ \A i \in 1 .. n : damaged[i] = IF i = k THEN XorByte(bytes[k], mask) ELSE bytes[i]
    BY <1>1, XorByteFacts
  <1>3. PICK h : IsRun(h, bytes, XorStep, Byte) /\ h[0] = 255 /\ Checksum(bytes) = h[n]
    BY ChecksumIsRun
  <1>4. PICK g : IsRun(g, damaged, XorStep, Byte) /\ g[0] = 255 /\ Checksum(damaged) = g[n]
    <2> HIDE DEF damaged
    <2> QED
      BY <1>2, ChecksumIsRun
  <1> HIDE DEF damaged
  <1>5. /\ \A i \in 0 .. n : h[i] \in Byte /\ g[i] \in Byte
        /\ \A i \in 1 .. n : h[i] = XorByte(h[i - 1], bytes[i])
        /\ \A i \in 1 .. n : g[i] = XorByte(g[i - 1], damaged[i])
    <2>1. /\ h \in [0 .. n -> Byte] /\ g \in [0 .. n -> Byte]
          /\ \A i \in 1 .. n : h[i] = XorStep[bytes[i]][h[i - 1]]
          /\ \A i \in 1 .. n : g[i] = XorStep[damaged[i]][g[i - 1]]
      BY <1>2, <1>3, <1>4 DEF IsRun
    <2>2. \A i \in 1 .. n : damaged[i] \in Byte /\ i - 1 \in 0 .. n
      BY <1>1, <1>2
    <2> QED
      BY <1>1, <2>1, <2>2 DEF XorStep
  <1> DEFINE A == {i \in Nat : i <= n => g[i] = IF i < k THEN h[i] ELSE XorByte(h[i], mask)}
  <1>6. 0 \in A
    BY <1>1, <1>3, <1>4
  <1>7. ASSUME NEW i \in Nat, i \in A PROVE i + 1 \in A
    <2> SUFFICES ASSUME i + 1 <= n
                 PROVE  g[i + 1] = IF i + 1 < k THEN h[i + 1] ELSE XorByte(h[i + 1], mask)
      OBVIOUS
    <2>1. /\ i + 1 \in 1 .. n /\ (i + 1) - 1 = i /\ i \in 0 .. n
          /\ g[i] = IF i < k THEN h[i] ELSE XorByte(h[i], mask)
      BY <1>1, <1>7
    <2>2. h[i + 1] = XorByte(h[i], bytes[i + 1]) /\ g[i + 1] = XorByte(g[i], damaged[i + 1])
      BY <1>5, <2>1
    <2>3. h[i] \in Byte /\ bytes[i + 1] \in Byte
      BY <1>1, <1>5, <2>1
    <2>4. CASE i + 1 < k
      BY <1>1, <1>2, <2>1, <2>2, <2>4
    <2>5. CASE i + 1 = k
      <3>1. damaged[k] = XorByte(bytes[k], mask) /\ g[i] = h[i]
        BY <1>1, <1>2, <2>1, <2>5
      <3>2. XorByte(h[i], XorByte(bytes[k], mask)) = XorByte(XorByte(h[i], bytes[k]), mask)
        BY <1>1, <2>3, XorByteAssociative
      <3> QED
        BY <2>2, <2>5, <3>1, <3>2
    <2>6. CASE i + 1 > k
      <3>1. damaged[i + 1] = bytes[i + 1] /\ g[i] = XorByte(h[i], mask)
        BY <1>1, <1>2, <2>1, <2>6
      <3>2. XorByte(XorByte(h[i], mask), bytes[i + 1]) = XorByte(XorByte(h[i], bytes[i + 1]), mask)
        BY <2>3, XorByteFacts
      <3>3. ~(i + 1 < k)
        BY <1>1, <2>6
      <3> QED
        BY <2>2, <3>1, <3>2, <3>3
    <2> QED
      BY <1>1, <2>4, <2>5, <2>6
  <1> HIDE DEF A
  <1>8. \A i \in Nat : i \in A
    BY <1>6, <1>7, NatSetInduction
  <1>9. g[n] = XorByte(h[n], mask)
    BY <1>1, <1>8 DEF A
  <1> QED
    BY <1>3, <1>4, <1>9 DEF damaged

-----------------------------------------------------------------------------
(* Frames.                                                                 *)

Bytes == Seq(Byte)

\* The elements of a concatenation.
Joined(a, b) == a \o b

\* Byte by byte, what two pieces make together.
LEMMA ConcatFacts ==
  ASSUME NEW a \in Bytes, NEW b \in Bytes
  PROVE  /\ Joined(a, b) \in Bytes /\ Len(Joined(a, b)) = Len(a) + Len(b)
         /\ \A i \in 1 .. Len(a) : Joined(a, b)[i] = a[i]
         /\ \A i \in 1 .. Len(b) : Joined(a, b)[Len(a) + i] = b[i]
  BY DEF Joined, Bytes

\* A length that fits into a byte is written as it is.
LEMMA SmallBytes == 0 \in Byte /\ 1 \in Byte /\ \A n \in Nat : n <= 255 => n \in Byte /\ n % 256 = n
  BY DEF Byte

\* The checksum is a byte.
LEMMA ChecksumIsByte == ASSUME NEW bytes \in Seq(Byte) PROVE Checksum(bytes) \in Byte
  BY SmallBytes, ChecksumOfAppend

\* What fits a frame, and what fits a payload.
Payloads == {payload \in Seq(Byte) : Len(payload) <= 252}
Commands == {cmd \in Seq(Byte) : 2 <= Len(cmd) /\ Len(cmd) <= 248}

\* The bytes of a frame, and that its checksum is right.
LEMMA EncodeFacts ==
  ASSUME NEW func \in Byte, NEW payload \in Payloads
  PROVE  LET frame == Encode_Frame(func, payload)
         IN /\ frame \in Seq(Byte) /\ Len(frame) = 5 + Len(payload)
            /\ frame[1] = 1 /\ frame[2] = 3 + Len(payload) /\ frame[4] = func
            /\ \A i \in 1 .. Len(payload) : frame[4 + i] = payload[i]
            /\ Checksum(Tail(frame)) = 0
  <1> DEFINE frame == Encode_Frame(func, payload)
  <1>0. payload \in Seq(Byte)
    BY DEF Payloads
  <1> DEFINE size == (3 + Len(payload)) % 256
             front == <<size, 0, func>>
             body == front \o payload
             check == Checksum(body)
  <1>1. Len(payload) \in Nat /\ size = 3 + Len(payload) /\ size \in Byte
    <2>1. Len(payload) \in Nat /\ Len(payload) <= 252
      BY DEF Payloads
    <2>2. 3 + Len(payload) \in Nat /\ 3 + Len(payload) <= 255
      BY <2>1
    <2> QED
      BY <2>1, <2>2, SmallBytes
  <1>2. 0 \in Byte /\ 1 \in Byte
    BY SmallBytes
  <1>3. /\ front \in Seq(Byte) /\ Len(front) = 3
        /\ front[1] = size /\ front[2] = 0 /\ front[3] = func
    BY <1>1, <1>2
  <1>4. /\ body \in Seq(Byte) /\ Len(body) = 3 + Len(payload)
        /\ body[1] = size /\ body[3] = func
        /\ \A i \in 1 .. Len(payload) : body[3 + i] = payload[i]
    <2>1. body = front \o payload
      OBVIOUS
    <2> HIDE DEF front, size, check, body
    <2>2. /\ body \in Seq(Byte) /\ Len(body) = Len(front) + Len(payload)
          /\ \A i \in 1 .. Len(front) : body[i] = front[i]
          /\ \A i \in 1 .. Len(payload) : body[Len(front) + i] = payload[i]
      <3>1. front \in Seq(Byte)
        BY <1>3
      <3> QED
        BY <1>0, <2>1, <3>1
    <2> QED
      BY <1>1, <1>3, <2>2
  <1>5. check \in Byte
    <2> HIDE DEF body
    <2> QED
      BY <1>4, ChecksumIsByte
  <1>6. frame = (<<1>> \o body) \o <<check>>
    BY DEF Encode_Frame
  <1> HIDE DEF frame, body, check, size
  <1>7. /\ frame \in Seq(Byte) /\ Len(frame) = Len(body) + 2
        /\ frame[1] = 1
        /\ \A i \in 1 .. Len(body) : frame[i + 1] = body[i]
        /\ frame[Len(body) + 2] = check
    BY <1>2, <1>4, <1>5, <1>6
  <1>8. Tail(frame) = Append(body, check)
    <2>1. /\ Tail(frame) \in Seq(Byte) /\ Len(Tail(frame)) = Len(body) + 1
          /\ \A i \in 1 .. Len(body) + 1 : Tail(frame)[i] = frame[i + 1]
      BY <1>4, <1>7
    <2>2. /\ Append(body, check) \in Seq(Byte) /\ Len(Append(body, check)) = Len(body) + 1
          /\ \A i \in 1 .. Len(body) + 1 : Append(body, check)[i] = IF i = Len(body) + 1 THEN check ELSE body[i]
      BY <1>4, <1>5
    <2>3. Len(body) \in Nat
      BY <1>4
    <2>4. \A i \in 1 .. Len(body) + 1 : Tail(frame)[i] = Append(body, check)[i]
      BY <1>7, <2>1, <2>2, <2>3
    <2> QED
      BY <2>1, <2>2, <2>4, SeqEqual
  <1>9. Checksum(Append(body, check)) = XorByte(check, check)
    BY <1>4, <1>5, ChecksumOfAppend DEF check
  <1>10. Checksum(Tail(frame)) = 0
    BY <1>5, <1>8, <1>9, XorByteFacts
  <1>11. \A i \in 1 .. Len(payload) : frame[4 + i] = payload[i]
    <2> TAKE i \in 1 .. Len(payload)
    <2>1. 3 + i \in 1 .. Len(body) /\ (3 + i) + 1 = 4 + i
      BY <1>4
    <2> QED
      BY <1>4, <1>7, <2>1
  <1> QED
    BY <1>1, <1>4, <1>7, <1>10, <1>11 DEF frame

\* Decode_Frame gives back what Encode_Frame was given.
THEOREM DecodeOfEncode ==
  ASSUME NEW func \in Byte, NEW payload \in Payloads
  PROVE  Decode_Frame(Encode_Frame(func, payload)) = [func |-> func, payload |-> payload]
  <1> DEFINE frame == Encode_Frame(func, payload)
  <1> HIDE DEF frame
  <1>1. /\ frame \in Seq(Byte) /\ Len(frame) = 5 + Len(payload)
        /\ frame[1] = 1 /\ frame[2] = 3 + Len(payload) /\ frame[4] = func
        /\ \A i \in 1 .. Len(payload) : frame[4 + i] = payload[i]
        /\ Checksum(Tail(frame)) = 0
    BY EncodeFacts DEF frame
  <1>2. Len(payload) \in Nat /\ payload \in Seq(Byte)
    BY DEF Payloads
  <1>3. SubSeq(frame, 5, Len(frame) - 1) = payload
    <2>1. /\ SubSeq(frame, 5, Len(frame) - 1) \in Seq(Byte)
          /\ Len(SubSeq(frame, 5, Len(frame) - 1)) = Len(payload)
          /\ \A i \in 1 .. Len(payload) : SubSeq(frame, 5, Len(frame) - 1)[i] = frame[4 + i]
      BY <1>1, <1>2
    <2> QED
      BY <1>1, <1>2, <2>1, SeqEqual
  <1>4. Framed(frame)
    BY <1>1, <1>2 DEF Framed
  <1> QED
    BY <1>1, <1>3, <1>4 DEF Decode_Frame, frame

\* A frame with a byte damaged behind its length is not that frame, and not valid.
Damaged(bytes, k, mask) == [bytes EXCEPT ![k] = XorByte(bytes[k], mask)]

\* A frame with one byte damaged behind its length is not decoded, whichever
\* byte it is and whatever it becomes: the checksum tells (APIFrame.h:86-110).
THEOREM DecodeOfDamaged ==
  ASSUME NEW func \in Byte, NEW payload \in Payloads,
         NEW k \in 3 .. Len(Encode_Frame(func, payload)), NEW mask \in Byte \ {0}
  PROVE  /\ Damaged(Encode_Frame(func, payload), k, mask) \in Seq(Byte)
         /\ Damaged(Encode_Frame(func, payload), k, mask) # Encode_Frame(func, payload)
         /\ Decode_Frame(Damaged(Encode_Frame(func, payload), k, mask)) = None
  <1> DEFINE frame == Encode_Frame(func, payload)
             damaged == Damaged(frame, k, mask)
  <1>0. k \in 3 .. Len(frame) /\ damaged = [frame EXCEPT ![k] = XorByte(frame[k], mask)]
    BY DEF Damaged
  <1> HIDE DEF frame, damaged
  <1>1. /\ frame \in Seq(Byte) /\ Len(frame) = 5 + Len(payload) /\ Len(payload) \in Nat
        /\ Checksum(Tail(frame)) = 0
    BY EncodeFacts DEF frame
  <1>2. frame[k] \in Byte /\ mask \in Byte /\ 0 \in Byte
    BY <1>0, <1>1, SmallBytes
  <1>3. XorByte(frame[k], mask) \in Byte
    BY <1>2, XorByteFacts
  <1>4. /\ damaged \in Seq(Byte) /\ Len(damaged) = Len(frame)
        /\ \A i \in 1 .. Len(frame) : damaged[i] = IF i = k THEN XorByte(frame[k], mask) ELSE frame[i]
    BY <1>0, <1>1, <1>3
  <1>5. damaged # frame
    <2> SUFFICES ASSUME XorByte(frame[k], mask) = frame[k] PROVE FALSE
      BY <1>0, <1>1, <1>4
    <2>1. XorByte(XorByte(frame[k], mask), frame[k]) = XorByte(XorByte(frame[k], frame[k]), mask)
      BY <1>2, XorByteFacts
    <2>2. XorByte(frame[k], frame[k]) = 0 /\ XorByte(0, mask) = mask
      BY <1>2, XorByteFacts
    <2> QED
      BY <2>1, <2>2
  <1> DEFINE rest == Tail(frame)
  <1>6. /\ rest \in Seq(Byte) /\ Len(rest) = Len(frame) - 1 /\ k - 1 \in 1 .. Len(rest)
        /\ \A i \in 1 .. Len(rest) : rest[i] = frame[i + 1]
    BY <1>0, <1>1
  <1>7. Tail(damaged) = [rest EXCEPT ![k - 1] = XorByte(rest[k - 1], mask)]
    <2> DEFINE other == [rest EXCEPT ![k - 1] = XorByte(rest[k - 1], mask)]
    <2>1. /\ Tail(damaged) \in Seq(Byte) /\ Len(Tail(damaged)) = Len(rest)
          /\ \A i \in 1 .. Len(rest) : Tail(damaged)[i] = damaged[i + 1]
      BY <1>1, <1>4, <1>6
    <2>2. rest[k - 1] = frame[k]
      BY <1>6
    <2>3. /\ other \in Seq(Byte) /\ Len(other) = Len(rest)
          /\ \A i \in 1 .. Len(rest) : other[i] = IF i = k - 1 THEN XorByte(frame[k], mask) ELSE rest[i]
      <3> HIDE DEF rest
      <3> QED
        BY <1>3, <1>6, <2>2
    <2>4. \A i \in 1 .. Len(rest) : Tail(damaged)[i] = other[i]
      <3> HIDE DEF rest, other
      <3> QED
        BY <1>1, <1>4, <1>6, <2>1, <2>3
    <2> HIDE DEF rest, other
    <2> QED
      BY <2>1, <2>3, <2>4, SeqEqual DEF other
  <1>8. Checksum(Tail(damaged)) = XorByte(Checksum(rest), mask)
    <2> HIDE DEF rest
    <2> DEFINE m == k - 1
    <2>1. m \in 1 .. Len(rest)
      BY <1>6
    <2> HIDE DEF m
    <2>2. Checksum([rest EXCEPT ![m] = XorByte(rest[m], mask)]) = XorByte(Checksum(rest), mask)
      BY <1>2, <1>6, <2>1, ChecksumOfDamaged
    <2> QED
      BY <1>7, <2>2 DEF m
  <1>9. Checksum(Tail(damaged)) = mask
    BY <1>1, <1>2, <1>8, XorByteFacts
  <1> QED
    BY <1>4, <1>5, <1>9 DEF Decode_Frame, frame, damaged

\* What stands between two sequences is a part of the whole.
Middle(a, b, c) == (a \o b) \o c

IsMiddle(r, a, b, c) ==
  /\ r \in Bytes /\ Len(r) = Len(a) + Len(b) + Len(c)
  /\ \A i \in 1 .. Len(a) : r[i] = a[i]
  /\ \A i \in 1 .. Len(c) : r[Len(a) + Len(b) + i] = c[i]
  /\ SubSeq(r, Len(a) + 1, Len(a) + Len(b)) = b

\* The piece in the middle of three is found again.
LEMMA MiddleFacts ==
  ASSUME NEW a \in Bytes, NEW b \in Bytes, NEW c \in Bytes
  PROVE  IsMiddle(Middle(a, b, c), a, b, c)
  <1> DEFINE p == Joined(a, b)
             r == Joined(p, c)
  <1>1. /\ p \in Bytes /\ Len(p) = Len(a) + Len(b)
        /\ \A i \in 1 .. Len(a) : p[i] = a[i]
        /\ \A i \in 1 .. Len(b) : p[Len(a) + i] = b[i]
    BY ConcatFacts
  <1>2. Middle(a, b, c) = r
    BY DEF Middle, Joined
  <1> HIDE DEF p
  <1>3. /\ r \in Bytes /\ Len(r) = Len(p) + Len(c)
        /\ \A i \in 1 .. Len(p) : r[i] = p[i]
        /\ \A i \in 1 .. Len(c) : r[Len(p) + i] = c[i]
    <2>1. p \in Bytes
      BY <1>1
    <2> QED
      BY <2>1, ConcatFacts
  <1> HIDE DEF r
  <1>4. /\ Len(a) \in Nat /\ Len(b) \in Nat /\ Len(c) \in Nat
        /\ b \in Seq(Byte) /\ r \in Seq(Byte)
    BY <1>3 DEF Bytes
  <1>5. \A i \in 1 .. Len(a) : r[i] = a[i]
    BY <1>1, <1>3, <1>4
  <1>6. \A i \in 1 .. Len(c) : r[Len(a) + Len(b) + i] = c[i]
    BY <1>1, <1>3
  <1>7. SubSeq(r, Len(a) + 1, Len(a) + Len(b)) = b
    <2> DEFINE q == SubSeq(r, Len(a) + 1, Len(a) + Len(b))
    <2>1. Len(r) = Len(a) + Len(b) + Len(c)
      BY <1>1, <1>3
    <2>2. /\ q \in Seq(Byte) /\ Len(q) = Len(b)
          /\ \A i \in 1 .. Len(b) : q[i] = r[Len(a) + i]
      BY <1>4, <2>1
    <2>3. \A i \in 1 .. Len(b) : r[Len(a) + i] = b[i]
      <3> TAKE i \in 1 .. Len(b)
      <3>1. Len(a) + i \in 1 .. Len(p)
        BY <1>1, <1>4
      <3> QED
        BY <1>1, <1>3, <3>1
    <2> HIDE DEF q
    <2> QED
      BY <1>4, <2>2, <2>3, SeqEqual DEF q
  <1>8. Len(r) = Len(a) + Len(b) + Len(c)
    BY <1>1, <1>3
  <1> QED
    BY <1>2, <1>3, <1>5, <1>6, <1>7, <1>8 DEF IsMiddle

\* A request to send a command holds the command and its callback id.
LEMMA SendDataFacts ==
  ASSUME ReportsAssumption, NEW cmd \in Commands, NEW cb \in Byte
  PROVE  LET frame == MakeSendData(cmd, cb)
         IN /\ frame \in Seq(Byte)
            /\ Command(frame) = cmd
            /\ Decode_Frame(frame) # None
            /\ LET payload == Decode_Frame(frame).payload
               IN payload[Len(payload) - 1] = cb
  <1> DEFINE frame == MakeSendData(cmd, cb)
             front == <<NodeId, Len(cmd)>>
             back == <<cb, 5>>
             payload == Middle(front, cmd, back)
  <1>1. Len(cmd) \in Nat /\ Len(cmd) <= 248 /\ cmd \in Seq(Byte)
    BY DEF Commands
  <1>2. Len(cmd) \in Byte /\ NodeId \in Byte /\ 5 \in Byte /\ SEND_DATA \in Byte
    <2>1. NodeId \in Nat /\ NodeId <= 255
      BY DEF ReportsAssumption
    <2> QED
      BY <1>1, <2>1, SmallBytes DEF SEND_DATA
  <1>3. front \in Seq(Byte) /\ back \in Seq(Byte)
    BY <1>2
  <1>4. Len(front) = 2 /\ front[2] = Len(cmd) /\ Len(back) = 2 /\ back[1] = cb
    OBVIOUS
  <1>5. frame = Encode_Frame(SEND_DATA, payload)
    BY DEF MakeSendData, Middle
  <1> HIDE DEF front, back, frame
  <1>6. /\ payload \in Seq(Byte) /\ Len(payload) = Len(front) + Len(cmd) + Len(back)
        /\ \A i \in 1 .. Len(front) : payload[i] = front[i]
        /\ \A i \in 1 .. Len(back) : payload[Len(front) + Len(cmd) + i] = back[i]
        /\ SubSeq(payload, Len(front) + 1, Len(front) + Len(cmd)) = cmd
    <2>1. front \in Bytes /\ cmd \in Bytes /\ back \in Bytes
      BY <1>1, <1>3 DEF Bytes
    <2>2. IsMiddle(payload, front, cmd, back)
      BY <2>1, MiddleFacts
    <2> HIDE DEF payload
    <2> QED
      BY <2>2 DEF IsMiddle, Bytes
  <1> HIDE DEF payload
  <1>7. /\ payload \in Seq(Byte) /\ Len(payload) = Len(cmd) + 4 /\ payload[2] = Len(cmd)
        /\ payload[Len(cmd) + 3] = cb /\ SubSeq(payload, 3, 2 + Len(cmd)) = cmd
    BY <1>1, <1>4, <1>6
  <1>8. payload \in Payloads
    BY <1>1, <1>7 DEF Payloads
  <1>9. /\ frame \in Seq(Byte) /\ Len(frame) = 5 + Len(payload)
        /\ \A i \in 1 .. Len(payload) : frame[4 + i] = payload[i]
    <2> DEFINE encoded == Encode_Frame(SEND_DATA, payload)
    <2>1. /\ encoded \in Seq(Byte) /\ Len(encoded) = 5 + Len(payload)
          /\ \A i \in 1 .. Len(payload) : encoded[4 + i] = payload[i]
      BY <1>2, <1>8, EncodeFacts
    <2> QED
      BY <1>5, <2>1
  <1>10. Decode_Frame(frame) = [func |-> SEND_DATA, payload |-> payload]
    BY <1>2, <1>5, <1>8, DecodeOfEncode
  <1>11. frame[6] = Len(cmd)
    <2>1. 2 \in 1 .. Len(payload) /\ 4 + 2 = 6
      BY <1>1, <1>7
    <2> QED
      BY <1>7, <1>9, <2>1
  <1>12. Command(frame) = cmd
    <2> DEFINE n == Len(cmd)
               part == SubSeq(frame, 7, 6 + n)
    <2>1. n \in Nat /\ Len(frame) = n + 9 /\ frame \in Seq(Byte)
      BY <1>1, <1>7, <1>9
    <2>2. Command(frame) = part
      BY <1>11 DEF Command
    <2> HIDE DEF n
    <2>3. /\ part \in Seq(Byte) /\ Len(part) = n
          /\ \A i \in 1 .. n : part[i] = frame[6 + i]
      BY <2>1
    <2>4. \A i \in 1 .. Len(cmd) : cmd[i] = payload[2 + i]
      <3>1. \A i \in 1 .. Len(cmd) : SubSeq(payload, 3, 2 + Len(cmd))[i] = payload[2 + i]
        BY <1>1, <1>7
      <3> QED
        BY <1>7, <3>1
    <2>5. \A i \in 1 .. n : part[i] = cmd[i]
      <3> TAKE i \in 1 .. n
      <3>1. 2 + i \in 1 .. Len(payload) /\ 4 + (2 + i) = 6 + i /\ i \in 1 .. Len(cmd)
        BY <1>7, <2>1 DEF n
      <3>2. frame[6 + i] = payload[2 + i]
        BY <1>9, <3>1
      <3> QED
        BY <2>3, <2>4, <3>1, <3>2
    <2>6. n = Len(cmd) /\ cmd \in Seq(Byte)
      BY <1>1 DEF n
    <2> HIDE DEF part
    <2> QED
      BY <2>2, <2>3, <2>5, <2>6, SeqEqual
  <1>13. Decode_Frame(frame) # None
    <2>1. [func |-> SEND_DATA, payload |-> payload] \in [func : Byte, payload : Seq(Byte)]
      BY <1>2, <1>7
    <2> QED
      BY <1>10, <2>1 DEF ReportsAssumption
  <1>14. LET p == Decode_Frame(frame).payload IN p[Len(p) - 1] = cb
    BY <1>1, <1>7, <1>10
  <1> QED
    BY <1>9, <1>12, <1>13, <1>14 DEF frame

\* The payload around a command from the node.
PayloadOf(cmd) == <<0, NodeId, Len(cmd)>> \o cmd \o <<127>>

\* The command in the payload of a report is found again (CommandOf).
LEMMA PayloadFacts ==
  ASSUME ReportsAssumption, NEW cmd \in Commands
  PROVE  PayloadOf(cmd) \in Payloads /\ CommandOf(PayloadOf(cmd)) = cmd
  <1> DEFINE front == <<0, NodeId, Len(cmd)>>
             back == <<127>>
             payload == Middle(front, cmd, back)
  <1>1. Len(cmd) \in Nat /\ 2 <= Len(cmd) /\ Len(cmd) <= 248 /\ cmd \in Seq(Byte)
    BY DEF Commands
  <1>2. Len(cmd) \in Byte /\ NodeId \in Byte /\ 0 \in Byte /\ 127 \in Byte
    <2>1. NodeId \in Nat /\ NodeId <= 255
      BY DEF ReportsAssumption
    <2> QED
      BY <1>1, <2>1, SmallBytes
  <1>3. front \in Seq(Byte) /\ back \in Seq(Byte)
    BY <1>2
  <1>4. Len(front) = 3 /\ front[2] = NodeId /\ front[3] = Len(cmd) /\ Len(back) = 1
    OBVIOUS
  <1>5. PayloadOf(cmd) = payload
    BY DEF PayloadOf, Middle
  <1> HIDE DEF front, back
  <1>6. /\ payload \in Seq(Byte) /\ Len(payload) = Len(front) + Len(cmd) + Len(back)
        /\ \A i \in 1 .. Len(front) : payload[i] = front[i]
        /\ SubSeq(payload, Len(front) + 1, Len(front) + Len(cmd)) = cmd
    <2>1. front \in Bytes /\ cmd \in Bytes /\ back \in Bytes
      BY <1>1, <1>3 DEF Bytes
    <2>2. IsMiddle(payload, front, cmd, back)
      BY <2>1, MiddleFacts
    <2> HIDE DEF payload
    <2> QED
      BY <2>2 DEF IsMiddle, Bytes
  <1> HIDE DEF payload
  <1>7. /\ payload \in Seq(Byte) /\ Len(payload) = Len(cmd) + 4
        /\ payload[2] = NodeId /\ payload[3] = Len(cmd)
        /\ SubSeq(payload, 4, 3 + Len(cmd)) = cmd
    BY <1>4, <1>6
  <1>8. CommandOf(payload) = cmd
    BY <1>1, <1>7 DEF CommandOf
  <1> QED
    BY <1>1, <1>5, <1>7, <1>8 DEF Payloads

\* A command is its class, its id and its parameters.
CommandWith(x, y, rest) == <<x, y>> \o rest

\* Class and command stand before the parameters.
LEMMA CommandFacts ==
  ASSUME NEW x \in Byte, NEW y \in Byte, NEW rest \in Seq(Byte), NEW ep
  PROVE  LET cmd == CommandWith(x, y, rest)
         IN /\ cmd \in Seq(Byte) /\ Len(cmd) = 2 + Len(rest)
            /\ cmd[1] = x /\ cmd[2] = y
            /\ SubSeq(cmd, 3, Len(cmd)) = rest
            /\ Parsed(ep, cmd) = [ep |-> ep, cc |-> x, id |-> y, params |-> rest]
  <1> DEFINE cmd == CommandWith(x, y, rest)
  <1> DEFINE front == <<x, y>>
  <1>1. front \in Seq(Byte)
    OBVIOUS
  <1>2. Len(front) = 2 /\ front[1] = x /\ front[2] = y
    OBVIOUS
  <1>3. cmd = front \o rest
    BY DEF CommandWith
  <1> HIDE DEF front, cmd
  <1>4. /\ cmd \in Seq(Byte) /\ Len(cmd) = Len(front) + Len(rest)
        /\ \A i \in 1 .. Len(front) : cmd[i] = front[i]
        /\ \A i \in 1 .. Len(rest) : cmd[Len(front) + i] = rest[i]
    BY <1>1, <1>3
  <1>5. /\ cmd \in Seq(Byte) /\ Len(cmd) = 2 + Len(rest)
        /\ cmd[1] = x /\ cmd[2] = y
        /\ \A i \in 1 .. Len(rest) : cmd[2 + i] = rest[i]
    BY <1>2, <1>4
  <1>6. SubSeq(cmd, 3, Len(cmd)) = rest
    <2> DEFINE part == SubSeq(cmd, 3, Len(cmd))
    <2>1. /\ part \in Seq(Byte) /\ Len(part) = Len(rest)
          /\ \A i \in 1 .. Len(rest) : part[i] = cmd[2 + i]
      BY <1>5
    <2>2. \A i \in 1 .. Len(rest) : part[i] = rest[i]
      BY <1>5, <2>1
    <2> HIDE DEF part
    <2> QED
      BY <2>1, <2>2, SeqEqual DEF part
  <1> QED
    BY <1>5, <1>6 DEF Parsed, cmd

\* The report in a plain command.
LEMMA PlainFacts ==
  ASSUME NEW x \in Byte, NEW y \in Byte, NEW rest \in Seq(Byte), x # MULTI_CHANNEL
  PROVE  Unwrap(CommandWith(x, y, rest)) = [ep |-> 0, cc |-> x, id |-> y, params |-> rest]
  <1>1. CommandWith(x, y, rest)[1] = x
    BY CommandFacts
  <1>2. Parsed(0, CommandWith(x, y, rest)) = [ep |-> 0, cc |-> x, id |-> y, params |-> rest]
    BY CommandFacts
  <1> QED
    BY <1>1, <1>2 DEF Unwrap, Encapsulated

\* And in one that is encapsulated.
WrappedIn(ep, cmd) == <<MULTI_CHANNEL, 6, ep>> \o cmd

\* An encapsulated command is unwrapped to what it was, and to its endpoint.
LEMMA WrappedFacts ==
  ASSUME NEW x \in Byte, NEW y \in Byte, NEW rest \in Seq(Byte), NEW ep \in Byte
  PROVE  LET cmd == WrappedIn(ep, CommandWith(x, y, rest))
         IN /\ cmd \in Seq(Byte) /\ Len(cmd) = 5 + Len(rest)
            /\ cmd[1] = MULTI_CHANNEL /\ cmd[2] = 6
            /\ Unwrap(cmd) = [ep |-> ep, cc |-> x, id |-> y, params |-> rest]
  <1> DEFINE inner == CommandWith(x, y, rest)
             cmd == WrappedIn(ep, inner)
             front == <<MULTI_CHANNEL, 6, ep>>
  <1>1. /\ inner \in Seq(Byte) /\ Len(inner) = 2 + Len(rest)
        /\ Parsed(ep, inner) = [ep |-> ep, cc |-> x, id |-> y, params |-> rest]
    BY CommandFacts
  <1>2. MULTI_CHANNEL \in Byte /\ 6 \in Byte
    BY DEF MULTI_CHANNEL, Byte
  <1>3. front \in Seq(Byte)
    BY <1>2
  <1>4. Len(front) = 3 /\ front[1] = MULTI_CHANNEL /\ front[2] = 6 /\ front[3] = ep
    OBVIOUS
  <1>5. cmd = front \o inner
    BY DEF WrappedIn
  <1> HIDE DEF front, inner, cmd
  <1>6. /\ cmd \in Seq(Byte) /\ Len(cmd) = Len(front) + Len(inner)
        /\ \A i \in 1 .. Len(front) : cmd[i] = front[i]
        /\ \A i \in 1 .. Len(inner) : cmd[Len(front) + i] = inner[i]
    <2>1. inner \in Seq(Byte)
      BY <1>1
    <2> QED
      BY <1>3, <1>5, <2>1
  <1>7. /\ cmd \in Seq(Byte) /\ Len(cmd) = 3 + Len(inner)
        /\ cmd[1] = MULTI_CHANNEL /\ cmd[2] = 6 /\ cmd[3] = ep
        /\ \A i \in 1 .. Len(inner) : cmd[3 + i] = inner[i]
    BY <1>4, <1>6
  <1>8. SubSeq(cmd, 4, Len(cmd)) = inner
    <2> DEFINE part == SubSeq(cmd, 4, Len(cmd))
    <2>1. /\ part \in Seq(Byte) /\ Len(part) = Len(inner)
          /\ \A i \in 1 .. Len(inner) : part[i] = cmd[3 + i]
      BY <1>1, <1>7
    <2>2. inner \in Seq(Byte) /\ \A i \in 1 .. Len(inner) : part[i] = inner[i]
      BY <1>1, <1>7, <2>1
    <2> HIDE DEF part
    <2> QED
      BY <2>1, <2>2, SeqEqual DEF part
  <1>9. Encapsulated(cmd)
    <2>1. Len(rest) \in Nat
      OBVIOUS
    <2> QED
      BY <1>1, <1>7, <2>1 DEF Encapsulated
  <1>10. Unwrap(cmd) = Parsed(ep, inner)
    BY <1>7, <1>8, <1>9 DEF Unwrap
  <1> QED
    BY <1>1, <1>7, <1>10 DEF cmd, inner

-----------------------------------------------------------------------------
(* The value of a parameter.                                               *)

\* The recursive functions of ReadValue and Signed, element by element.
Reading(v, bytes) ==
  v[0] = 0 /\ \A i \in 1 .. Len(bytes) : v[i] = ShiftIn(v[i - 1], bytes[i])

Meaning(v, bytes) ==
  /\ v[1] = IF bytes[1] >= 128 THEN bytes[1] - 256 ELSE bytes[1]
  /\ \A i \in 2 .. Len(bytes) : v[i] = v[i - 1] * 256 + bytes[i]

\* The value is put together byte by byte (Device.cpp:601-605).
LEMMA ReadValueSteps ==
  ASSUME NEW bytes \in Seq(Byte), Len(bytes) <= 4
  PROVE  \E v : /\ Reading(v, bytes)
                /\ \A size : ReadValue(bytes, size) = SignExtend(v[Len(bytes)], size)
  <1> DEFINE n == Len(bytes)
             Reads(f) == f = [i \in 0 .. n |-> IF i = 0 THEN 0 ELSE ShiftIn(f[i - 1], bytes[i])]
             v == CHOOSE f : Reads(f)
             v1 == ShiftIn(0, bytes[1])
             v2 == ShiftIn(v1, bytes[2])
             v3 == ShiftIn(v2, bytes[3])
             v4 == ShiftIn(v3, bytes[4])
             w == [i \in 0 .. n |-> IF i = 0 THEN 0 ELSE IF i = 1 THEN v1 ELSE
                                    IF i = 2 THEN v2 ELSE IF i = 3 THEN v3 ELSE v4]
  <1>1. n \in Nat /\ n <= 4
    OBVIOUS
  <1>2. Reads(w)
    <2>1. \A i \in 0 .. n : i = 0 \/ i = 1 \/ i = 2 \/ i = 3 \/ i = 4
      BY <1>1
    <2>2. ASSUME NEW i \in 0 .. n, i # 0 PROVE w[i] = ShiftIn(w[i - 1], bytes[i])
      <3> HIDE DEF v1, v2, v3, v4
      <3>1. i - 1 \in 0 .. n
        BY <1>1, <2>2
      <3> QED
        BY <2>1, <2>2, <3>1 DEF v1, v2, v3, v4
    <2>3. w = [i \in 0 .. n |-> IF i = 0 THEN 0 ELSE w[i]]
      OBVIOUS
    <2>4. [i \in 0 .. n |-> IF i = 0 THEN 0 ELSE w[i]]
            = [i \in 0 .. n |-> IF i = 0 THEN 0 ELSE ShiftIn(w[i - 1], bytes[i])]
      <3> HIDE DEF w
      <3> QED
        BY <2>2
    <2> HIDE DEF w
    <2> QED
      BY <2>3, <2>4
  <1>3. Reads(v)
    <2> HIDE DEF w
    <2> QED
      BY <1>2
  <1> HIDE DEF v
  <1>4. v[0] = 0 /\ \A i \in 1 .. n : v[i] = ShiftIn(v[i - 1], bytes[i])
    BY <1>1, <1>3
  <1>5. \A size : ReadValue(bytes, size) = SignExtend(v[n], size)
    BY DEF ReadValue, v
  <1> QED
    BY <1>4, <1>5 DEF Reading

\* What the node means, byte by byte.
LEMMA SignedSteps ==
  ASSUME NEW bytes \in Seq(Byte), 1 <= Len(bytes), Len(bytes) <= 4
  PROVE  \E v : Meaning(v, bytes) /\ Signed(bytes) = v[Len(bytes)]
  <1> DEFINE n == Len(bytes)
             top == IF bytes[1] >= 128 THEN bytes[1] - 256 ELSE bytes[1]
             Means(f) == f = [i \in 1 .. n |-> IF i = 1 THEN top ELSE f[i - 1] * 256 + bytes[i]]
             v == CHOOSE f : Means(f)
             v2 == top * 256 + bytes[2]
             v3 == v2 * 256 + bytes[3]
             v4 == v3 * 256 + bytes[4]
             w == [i \in 1 .. n |-> IF i = 1 THEN top ELSE
                                    IF i = 2 THEN v2 ELSE IF i = 3 THEN v3 ELSE v4]
  <1>1. n \in Nat /\ 1 <= n /\ n <= 4
    OBVIOUS
  <1>2. Means(w)
    <2>1. \A i \in 1 .. n : i = 1 \/ i = 2 \/ i = 3 \/ i = 4
      BY <1>1
    <2>2. ASSUME NEW i \in 1 .. n, i # 1 PROVE w[i] = w[i - 1] * 256 + bytes[i]
      <3> HIDE DEF v2, v3, v4, top
      <3>1. i - 1 \in 1 .. n
        BY <1>1, <2>2
      <3> QED
        BY <2>1, <2>2, <3>1 DEF v2, v3, v4
    <2>3. w = [i \in 1 .. n |-> IF i = 1 THEN top ELSE w[i]]
      OBVIOUS
    <2>4. [i \in 1 .. n |-> IF i = 1 THEN top ELSE w[i]]
            = [i \in 1 .. n |-> IF i = 1 THEN top ELSE w[i - 1] * 256 + bytes[i]]
      <3> HIDE DEF w, top
      <3> QED
        BY <2>2
    <2> HIDE DEF w
    <2> QED
      BY <2>3, <2>4
  <1>3. Means(v)
    <2> HIDE DEF w, Means
    <2> QED
      BY <1>2
  <1> HIDE DEF v
  <1>4. v[1] = top /\ \A i \in 2 .. n : v[i] = v[i - 1] * 256 + bytes[i]
    <2> HIDE DEF top
    <2> QED
      BY <1>1, <1>3
  <1>5. Signed(bytes) = v[n]
    BY DEF Signed, v
  <1> QED
    BY <1>4, <1>5 DEF Meaning

\* What shifting up and down by (4 - size) * 8 bits does (Device.cpp:607-609).
LEMMA SignExtendSizes ==
  ASSUME NEW v
  PROVE  /\ SignExtend(v, 1) = ((v + 128) % 256) - 128
         /\ SignExtend(v, 2) = ((v + 32768) % 65536) - 32768
         /\ SignExtend(v, 4) = v
  BY SMT DEF SignExtend

\* A number of three bytes that is shifted out of 32 bits keeps its sign.
LEMMA ShiftedOut ==
  ASSUME NEW x \in Int, 0 <= x, x < 16777216
  PROVE  ((x + 8388608) % 16777216) - 8388608 = IF x >= 8388608 THEN x - 16777216 ELSE x
  BY SMT

\* The sign of a number.
Top(a) == IF a >= 128 THEN a - 256 ELSE a

\* What bytes mean as a number of one, two and four bytes.
LEMMA SignedNumbers ==
  ASSUME NEW a \in Byte, NEW b \in Byte, NEW c \in Byte, NEW d \in Byte
  PROVE  /\ Top(a) \in Int
         /\ ((a + 128) % 256) - 128 = Top(a)
         /\ ((a * 256 + b + 32768) % 65536) - 32768 = Top(a) * 256 + b
         /\ (((((a * 256 + b) * 256 + c) + 8388608) % 16777216) - 8388608) * 256 + d
               = ((Top(a) * 256 + b) * 256 + c) * 256 + d
  <1> DEFINE x == (a * 256 + b) * 256 + c
             top == IF a >= 128 THEN a - 256 ELSE a
  <1>0. a \in 0 .. 255 /\ b \in 0 .. 255 /\ c \in 0 .. 255 /\ d \in 0 .. 255
    BY DEF Byte
  <1>1. top \in Int /\ ((a + 128) % 256) - 128 = top
    BY <1>0, SMT
  <1>2. ((a * 256 + b + 32768) % 65536) - 32768 = top * 256 + b
    BY <1>0, SMT
  <1>3. x \in Int /\ 0 <= x /\ x < 16777216
    BY <1>0, SMT
  <1>4. x >= 8388608 <=> a >= 128
    BY <1>0, SMT
  <1>5. (top * 256 + b) * 256 + c = IF a >= 128 THEN x - 16777216 ELSE x
    BY <1>0, SMT
  <1>6. ((x + 8388608) % 16777216) - 8388608 = (top * 256 + b) * 256 + c
    <2> HIDE DEF x
    <2> QED
      BY <1>3, <1>4, <1>5, ShiftedOut, SMT
  <1> QED
    BY <1>1, <1>2, <1>6, SMT DEF Top

\* What shifting in byte after byte makes.
LEMMA ShiftIns ==
  ASSUME NEW a \in Byte, NEW b \in Byte, NEW c \in Byte, NEW d \in Byte
  PROVE  /\ Top(a) \in Int /\ (Top(a) * 256 + b) \in Int
         /\ (((Top(a) * 256 + b) * 256 + c) * 256 + d) \in Int
         /\ SignExtend(ShiftIn(0, a), 1) = Top(a)
         /\ SignExtend(ShiftIn(ShiftIn(0, a), b), 2) = Top(a) * 256 + b
         /\ SignExtend(ShiftIn(ShiftIn(ShiftIn(ShiftIn(0, a), b), c), d), 4)
               = ((Top(a) * 256 + b) * 256 + c) * 256 + d
  <1>1. a \in 0 .. 255 /\ b \in 0 .. 255 /\ c \in 0 .. 255 /\ d \in 0 .. 255
    BY DEF Byte
  <1> DEFINE x == (a * 256 + b) * 256 + c
             top == Top(a)
  <1>2. /\ top \in Int
        /\ ((a + 128) % 256) - 128 = top
        /\ ((a * 256 + b + 32768) % 65536) - 32768 = top * 256 + b
        /\ (((x + 8388608) % 16777216) - 8388608) * 256 + d = ((top * 256 + b) * 256 + c) * 256 + d
    BY SignedNumbers, SMT
  <1>3. ShiftIn(0, a) = a
    BY <1>1, SMT DEF ShiftIn
  <1>4. ShiftIn(a, b) = a * 256 + b
    BY <1>1, SMT DEF ShiftIn
  <1>5. ShiftIn(a * 256 + b, c) = x
    BY <1>1, SMT DEF ShiftIn
  <1>6. ShiftIn(x, d) = (((x + 8388608) % 16777216) - 8388608) * 256 + d
    <2> HIDE DEF x
    <2> QED
      BY SMT DEF ShiftIn
  <1> HIDE DEF top, x
  <1>7. (top * 256 + b) \in Int /\ (((top * 256 + b) * 256 + c) * 256 + d) \in Int
    BY <1>1, <1>2, SMT
  <1>8. SignExtend(ShiftIn(0, a), 1) = top
    BY <1>2, <1>3, SignExtendSizes, SMT
  <1>9. SignExtend(ShiftIn(ShiftIn(0, a), b), 2) = top * 256 + b
    BY <1>2, <1>3, <1>4, SignExtendSizes, SMT
  <1>10. SignExtend(ShiftIn(ShiftIn(ShiftIn(ShiftIn(0, a), b), c), d), 4)
           = ((top * 256 + b) * 256 + c) * 256 + d
    BY <1>2, <1>3, <1>4, <1>5, <1>6, SignExtendSizes, SMT
  <1> QED
    BY <1>2, <1>7, <1>8, <1>9, <1>10, SMT DEF top

\* What is read of a parameter of one, two or four bytes is the value it has.
THEOREM ReadValueIsSigned ==
  ASSUME NEW bytes \in Seq(Byte), Len(bytes) \in {1, 2, 4}
  PROVE  ReadValue(bytes, Len(bytes)) = Signed(bytes) /\ Signed(bytes) \in Int
  <1>0. 1 <= Len(bytes) /\ Len(bytes) <= 4
    <2> DEFINE n == Len(bytes)
    <2>1. n = 1 \/ n = 2 \/ n = 4
      OBVIOUS
    <2> HIDE DEF n
    <2>2. 1 <= n /\ n <= 4
      BY <2>1
    <2> QED
      BY <2>2 DEF n
  <1>7. PICK r : /\ Reading(r, bytes)
                 /\ \A size : ReadValue(bytes, size) = SignExtend(r[Len(bytes)], size)
    BY <1>0, ReadValueSteps
  <1>8. PICK s : Meaning(s, bytes) /\ Signed(bytes) = s[Len(bytes)]
    BY <1>0, SignedSteps
  <1>1. /\ r[0] = 0 /\ \A i \in 1 .. Len(bytes) : r[i] = ShiftIn(r[i - 1], bytes[i])
        /\ ReadValue(bytes, Len(bytes)) = SignExtend(r[Len(bytes)], Len(bytes))
    BY <1>7 DEF Reading
  <1>2. /\ s[1] = IF bytes[1] >= 128 THEN bytes[1] - 256 ELSE bytes[1]
        /\ \A i \in 2 .. Len(bytes) : s[i] = s[i - 1] * 256 + bytes[i]
        /\ Signed(bytes) = s[Len(bytes)]
    BY <1>8 DEF Meaning
  <1>6. s[1] = Top(bytes[1])
    BY <1>2 DEF Top
  <1>3. CASE Len(bytes) = 1
    <2>1. bytes[1] \in Byte
      BY <1>3
    <2>2. r[1] = ShiftIn(0, bytes[1])
      BY <1>1, <1>3
    <2>3. ReadValue(bytes, 1) = SignExtend(r[1], 1) /\ Signed(bytes) = s[1]
      BY <1>1, <1>2, <1>3
    <2> QED
      BY <1>3, <1>6, <2>1, <2>2, <2>3, ShiftIns
  <1>4. CASE Len(bytes) = 2
    <2>1. bytes[1] \in Byte /\ bytes[2] \in Byte
      BY <1>4
    <2>2. r[1] = ShiftIn(0, bytes[1]) /\ r[2] = ShiftIn(r[1], bytes[2])
      BY <1>1, <1>4
    <2>3. s[2] = s[1] * 256 + bytes[2]
      BY <1>2, <1>4
    <2>4. ReadValue(bytes, 2) = SignExtend(r[2], 2) /\ Signed(bytes) = s[2]
      BY <1>1, <1>2, <1>4
    <2> QED
      BY <1>4, <1>6, <2>1, <2>2, <2>3, <2>4, ShiftIns
  <1>5. CASE Len(bytes) = 4
    <2>1. bytes[1] \in Byte /\ bytes[2] \in Byte /\ bytes[3] \in Byte /\ bytes[4] \in Byte
      BY <1>5
    <2>2. /\ r[1] = ShiftIn(0, bytes[1]) /\ r[2] = ShiftIn(r[1], bytes[2])
          /\ r[3] = ShiftIn(r[2], bytes[3]) /\ r[4] = ShiftIn(r[3], bytes[4])
      BY <1>1, <1>5
    <2>3. /\ s[2] = s[1] * 256 + bytes[2] /\ s[3] = s[2] * 256 + bytes[3]
          /\ s[4] = s[3] * 256 + bytes[4]
      BY <1>2, <1>5
    <2>4. ReadValue(bytes, 4) = SignExtend(r[4], 4) /\ Signed(bytes) = s[4]
      BY <1>1, <1>2, <1>5
    <2> QED
      BY <1>5, <1>6, <2>1, <2>2, <2>3, <2>4, ShiftIns
  <1> QED
    BY <1>3, <1>4, <1>5

-----------------------------------------------------------------------------
(* Lists of destinations.                                                  *)

\* A list as the node writes it: node ids, then pairs behind the marker.
Written(plain, multi) == plain \o IF multi = <<>> THEN <<>> ELSE <<0>> \o Flat(multi)

\* A list of pairs, written one after the other, is read pair by pair.
LEMMA FlatFacts ==
  ASSUME NEW multi \in Seq(Byte \X Byte)
  PROVE  /\ Flat(multi) \in Seq(Byte) /\ Len(Flat(multi)) = 2 * Len(multi)
         /\ \A i \in 1 .. Len(multi) : <<Flat(multi)[2 * i - 1], Flat(multi)[2 * i]>> = multi[i]
  <1> DEFINE n == Len(multi)
             f == Flat(multi)
  <1>1. n \in Nat /\ 2 * n \in Nat /\ \A i \in 1 .. n : multi[i] \in Byte \X Byte
    OBVIOUS
  <1>2. f = [i \in 1 .. 2 * n |-> IF i % 2 = 1 THEN multi[(i + 1) \div 2][1] ELSE multi[i \div 2][2]]
    BY DEF Flat
  <1> HIDE DEF f
  <1>3. ASSUME NEW i \in 1 .. 2 * n PROVE f[i] \in Byte
    <2>1. CASE i % 2 = 1
      <3>1. (i + 1) \div 2 \in 1 .. n
        BY <1>1, <2>1
      <3>2. multi[(i + 1) \div 2][1] \in Byte
        BY <1>1, <3>1
      <3> QED
        BY <1>2, <2>1, <3>2
    <2>2. CASE i % 2 # 1
      <3>1. i \div 2 \in 1 .. n
        BY <1>1, <2>2
      <3>2. multi[i \div 2][2] \in Byte
        BY <1>1, <3>1
      <3> QED
        BY <1>2, <2>2, <3>2
    <2> QED
      BY <2>1, <2>2
  <1>4. f \in Seq(Byte) /\ Len(f) = 2 * n
    <2>1. f \in [1 .. 2 * n -> Byte]
      BY <1>2, <1>3
    <2> QED
      BY <1>1, <2>1
  <1>5. ASSUME NEW i \in 1 .. n PROVE <<f[2 * i - 1], f[2 * i]>> = multi[i]
    <2>1. /\ 2 * i - 1 \in 1 .. 2 * n /\ (2 * i - 1) % 2 = 1 /\ ((2 * i - 1) + 1) \div 2 = i
          /\ 2 * i \in 1 .. 2 * n /\ (2 * i) % 2 = 0 /\ (2 * i) \div 2 = i
      BY <1>1
    <2>2. f[2 * i - 1] = multi[i][1] /\ f[2 * i] = multi[i][2]
      BY <1>2, <2>1
    <2> QED
      BY <1>1, <2>2
  <1> QED
    BY <1>4, <1>5 DEF f

\* The elements of a list.
LEMMA WrittenFacts ==
  ASSUME NEW plain \in Seq(Byte), NEW multi \in Seq(Byte \X Byte)
  PROVE  LET list == Written(plain, multi)
         IN /\ list \in Seq(Byte)
            /\ \A i \in 1 .. Len(plain) : list[i] = plain[i]
            /\ multi = <<>> => list = plain
            /\ multi # <<>> =>
                 /\ Len(list) = Len(plain) + 1 + 2 * Len(multi)
                 /\ list[Len(plain) + 1] = 0
                 /\ SubSeq(list, Len(plain) + 2, Len(list)) = Flat(multi)
  <1>1. CASE multi = <<>>
    <2>1. Written(plain, multi) = plain
      BY <1>1 DEF Written
    <2> QED
      BY <1>1, <2>1
  <1>2. CASE multi # <<>>
    <2> DEFINE list == Written(plain, multi)
               f == Flat(multi)
               marker == <<0>>
               e == Joined(plain, marker)
    <2>1. list = plain \o (marker \o f)
      BY <1>2 DEF Written
    <2>2. f \in Seq(Byte) /\ Len(f) = 2 * Len(multi)
      BY FlatFacts
    <2>3. marker \in Seq(Byte)
      BY SmallBytes
    <2>4. Len(marker) = 1 /\ marker[1] = 0
      OBVIOUS
    <2> HIDE DEF f, marker, list
    <2>5. list = (e \o f) \o <<>>
      <3>1. plain \o (marker \o f) = (plain \o marker) \o f
        BY <2>2, <2>3, SMTT(60)
      <3>2. (plain \o marker) \o f = ((plain \o marker) \o f) \o <<>>
        BY <2>2, <2>3
      <3> QED
        BY <2>1, <3>1, <3>2 DEF Joined
    <2>6. /\ e \in Bytes /\ Len(e) = Len(plain) + Len(marker)
          /\ \A i \in 1 .. Len(plain) : e[i] = plain[i]
          /\ \A i \in 1 .. Len(marker) : e[Len(plain) + i] = marker[i]
      <3>1. plain \in Bytes /\ marker \in Bytes
        BY <2>3 DEF Bytes
      <3> QED
        BY <3>1, ConcatFacts
    <2> HIDE DEF e
    <2>7. IsMiddle(list, e, f, <<>>)
      <3>1. f \in Bytes /\ <<>> \in Bytes /\ e \in Bytes
        BY <2>2, <2>6 DEF Bytes
      <3>2. list = Middle(e, f, <<>>)
        BY <2>5 DEF Middle
      <3> QED
        BY <3>1, <3>2, MiddleFacts
    <2>8. Len(plain) \in Nat /\ Len(multi) \in Nat /\ Len(e) = Len(plain) + 1
      BY <2>4, <2>6
    <2>9. /\ list \in Seq(Byte) /\ Len(list) = Len(e) + Len(f)
          /\ \A i \in 1 .. Len(e) : list[i] = e[i]
          /\ SubSeq(list, Len(e) + 1, Len(e) + Len(f)) = f
      <3>1. /\ list \in Seq(Byte) /\ Len(list) = Len(e) + Len(f) + Len(<<>>)
            /\ \A i \in 1 .. Len(e) : list[i] = e[i]
            /\ SubSeq(list, Len(e) + 1, Len(e) + Len(f)) = f
        BY <2>7 DEF IsMiddle, Bytes
      <3> QED
        BY <2>2, <2>8, <3>1
    <2>10. \A i \in 1 .. Len(plain) : list[i] = plain[i]
      BY <2>6, <2>8, <2>9
    <2>11. list[Len(plain) + 1] = 0
      BY <2>4, <2>6, <2>8, <2>9
    <2>12. /\ Len(list) = Len(plain) + 1 + 2 * Len(multi)
           /\ SubSeq(list, Len(plain) + 2, Len(list)) = f
      BY <2>2, <2>8, <2>9
    <2> QED
      BY <1>2, <2>9, <2>10, <2>11, <2>12 DEF f, list
  <1> QED
    BY <1>1, <1>2

\* The least element of a set.
LEMMA MinIs ==
  ASSUME NEW D, NEW n \in D, \A x \in D : n <= x, D \subseteq Int
  PROVE  Min(D) = n
  <1> DEFINE m == Min(D)
  <1>1. m = CHOOSE x \in D : \A y \in D : x <= y
    BY DEF Min
  <1>2. m \in D /\ \A y \in D : m <= y
    BY <1>1
  <1> HIDE DEF m
  <1>3. n <= m /\ m <= n /\ n \in Int /\ m \in Int
    BY <1>2
  <1> QED
    BY <1>3 DEF m

\* No node ids are counted behind the marker, and none before it is left out.
LEMMA PlainCountOfWritten ==
  ASSUME NEW plain \in Seq(Byte \ {0}), NEW multi \in Seq(Byte \X Byte), NEW max \in Nat,
         Len(plain) + Len(multi) <= max
  PROVE  LET list == Written(plain, multi)
         IN /\ PlainCount(max, list) = Len(plain)
            /\ FirstPair(max, list) = Len(plain) + IF multi = <<>> THEN 1 ELSE 2
  <1> DEFINE list == Written(plain, multi)
             Zeros == {i - 1 : i \in {k \in 1 .. Len(list) : list[k] = 0}}
             D == {MinOf(max, Len(list))} \cup Zeros
             np == Len(plain)
             nm == Len(multi)
  <1>1. /\ plain \in Seq(Byte) /\ np \in Nat /\ nm \in Nat /\ np + nm <= max
        /\ \A i \in 1 .. np : plain[i] # 0
    OBVIOUS
  <1>2. /\ list \in Seq(Byte)
        /\ \A i \in 1 .. np : list[i] = plain[i]
        /\ multi = <<>> => list = plain
        /\ multi # <<>> => Len(list) = np + 1 + 2 * nm /\ list[np + 1] = 0
    BY <1>1, WrittenFacts
  <1>3. multi # <<>> => nm >= 1
    OBVIOUS
  <1>4. multi = <<>> => nm = 0
    OBVIOUS
  <1> HIDE DEF list, np, nm
  <1>5. Len(list) \in Nat /\ Len(list) = IF multi = <<>> THEN np ELSE np + 1 + 2 * nm
    BY <1>1, <1>2 DEF np
  <1>6. MinOf(max, Len(list)) \in Nat /\ np <= MinOf(max, Len(list))
    BY <1>1, <1>3, <1>5 DEF MinOf
  <1>7. \A x \in Zeros : x \in Int /\ np <= x
    <2> SUFFICES ASSUME NEW k \in 1 .. Len(list), list[k] = 0 PROVE np <= k - 1
      BY <1>5, SMTT(60)
    <2>1. ~(k \in 1 .. np)
      BY <1>1, <1>2
    <2> QED
      BY <1>1, <1>5, <2>1
  <1>8. np \in D
    <2>1. CASE multi = <<>>
      BY <1>1, <1>4, <1>5, <2>1 DEF MinOf
    <2>2. CASE multi # <<>>
      <3>1. np + 1 \in 1 .. Len(list) /\ list[np + 1] = 0 /\ (np + 1) - 1 = np
        BY <1>1, <1>2, <1>3, <1>5, <2>2
      <3>2. np \in Zeros
        BY <3>1
      <3> QED
        BY <3>2
    <2> QED
      BY <2>1, <2>2
  <1>9. D \subseteq Int /\ \A x \in D : np <= x
    BY <1>6, <1>7
  <1>10. PlainCount(max, list) = Min(D)
    BY DEF PlainCount
  <1> HIDE DEF D
  <1>11. PlainCount(max, list) = np
    BY <1>8, <1>9, <1>10, MinIs
  <1>12. CASE multi = <<>>
    <2>1. ~(np < MinOf(max, Len(list)))
      BY <1>1, <1>4, <1>5, <1>12 DEF MinOf
    <2> QED
      BY <1>11, <1>12, <2>1 DEF FirstPair, np, list
  <1>13. CASE multi # <<>>
    <2>1. np < MinOf(max, Len(list))
      BY <1>1, <1>3, <1>5, <1>13 DEF MinOf
    <2> QED
      BY <1>11, <1>13, <2>1 DEF FirstPair, np, list
  <1> QED
    BY <1>12, <1>13

\* The entries read are those written.
LEMMA EntriesOfWritten ==
  ASSUME NEW plain \in Seq(Byte \ {0}), NEW multi \in Seq(Byte \X Byte), NEW max \in Nat,
         Len(plain) + Len(multi) <= max
  PROVE  Entries(max, Written(plain, multi)) = [i \in 1 .. Len(plain) |-> <<plain[i], 0>>] \o multi
  <1> DEFINE list == Written(plain, multi)
             pairs == SubSeq(list, FirstPair(max, list), Len(list))
             read == [i \in 1 .. Len(pairs) \div 2 |-> <<pairs[2 * i - 1], pairs[2 * i]>>]
             np == Len(plain)
             nm == Len(multi)
  <1>1. /\ plain \in Seq(Byte) /\ np \in Nat /\ nm \in Nat
        /\ multi \in [1 .. nm -> Byte \X Byte]
    OBVIOUS
  <1>2. /\ list \in Seq(Byte)
        /\ \A i \in 1 .. np : list[i] = plain[i]
        /\ multi = <<>> => list = plain
        /\ multi # <<>> => SubSeq(list, np + 2, Len(list)) = Flat(multi)
    BY <1>1, WrittenFacts
  <1>3. /\ PlainCount(max, list) = np
        /\ FirstPair(max, list) = np + IF multi = <<>> THEN 1 ELSE 2
    BY PlainCountOfWritten
  <1>4. Entries(max, list) = [i \in 1 .. np |-> <<list[i], 0>>] \o read
    BY <1>3 DEF Entries
  <1>5. [i \in 1 .. np |-> <<list[i], 0>>] = [i \in 1 .. np |-> <<plain[i], 0>>]
    <2> HIDE DEF list, np
    <2> QED
      BY <1>2
  <1>6. read = multi
    <2>1. CASE multi = <<>>
      <3>1. pairs = <<>>
        BY <1>1, <1>2, <1>3, <2>1
      <3>2. Len(pairs) \div 2 = 0
        BY <3>1
      <3> HIDE DEF pairs
      <3> QED
        BY <2>1, <3>2
    <2>2. CASE multi # <<>>
      <3>1. pairs = Flat(multi)
        BY <1>2, <1>3, <2>2
      <3>2. /\ Len(Flat(multi)) = 2 * nm
            /\ \A i \in 1 .. nm : <<Flat(multi)[2 * i - 1], Flat(multi)[2 * i]>> = multi[i]
        BY FlatFacts
      <3> HIDE DEF pairs, nm
      <3>3. Len(pairs) \div 2 = nm
        BY <1>1, <3>1, <3>2
      <3>4. \A i \in 1 .. nm : <<pairs[2 * i - 1], pairs[2 * i]>> = multi[i]
        BY <3>1, <3>2
      <3> QED
        BY <1>1, <3>3, <3>4
    <2> QED
      BY <2>1, <2>2
  <1> HIDE DEF read
  <1> QED
    BY <1>4, <1>5, <1>6 DEF list

\* The destinations of a list that are nodes, and those that are endpoints.
PlainOf(dests) == {d[1] : d \in {e \in dests : e[2] = 0}}
MultiOf(dests) == {e \in dests : e[2] # 0}

\* What the assumption says of the numbers.
LEMMA AssumptionFacts ==
  ASSUME ReportsAssumption
  PROVE  /\ MaxNodes \in Nat /\ 1 <= MaxNodes /\ MaxNodes <= 121
         /\ Targets \subseteq 1 .. 232 /\ Endpoints \subseteq 1 .. 127
  <1>1. MaxNodes \in 1 .. 121
    BY DEF ReportsAssumption
  <1>2. Targets \subseteq 1 .. 232 /\ Endpoints \subseteq 1 .. 127
    BY DEF ReportsAssumption
  <1> QED
    BY <1>1, <1>2

\* There are finitely many bytes.
LEMMA ByteIsFinite == IsFiniteSet(Byte)
  <1> DEFINE n == 255
  <1>1. n \in Int /\ 0 \in Int
    OBVIOUS
  <1> HIDE DEF n
  <1>2. IsFiniteSet(0 .. n)
    BY <1>1, FS_Interval
  <1> QED
    BY <1>2 DEF Byte, n
\* A destination is a node and an endpoint, or 0 for none.
LEMMA DestinationFacts ==
  ASSUME ReportsAssumption
  PROVE  /\ IsFiniteSet(Destinations)
         /\ \A d \in Destinations : /\ d = <<d[1], d[2]>>
                                    /\ d[1] \in Byte \ {0} /\ d[2] \in Byte
                                    /\ d[1] \in Targets
  <1>1. /\ \A n \in Targets : n \in Byte /\ n # 0
        /\ \A n \in Endpoints \cup {0} : n \in Byte
    <2>1. Targets \subseteq 1 .. 232 /\ Endpoints \subseteq 1 .. 127 /\ 1 .. 127 \subseteq 1 .. 232
      BY AssumptionFacts
    <2>2. ASSUME NEW n \in Targets PROVE n \in Byte /\ n # 0
      <3>1. n \in 1 .. 232
        BY <2>1
      <3> QED
        BY <3>1 DEF Byte
    <2>3. ASSUME NEW n \in Endpoints PROVE n \in Byte
      <3>1. n \in 1 .. 127
        BY <2>1
      <3> QED
        BY <3>1 DEF Byte
    <2> QED
      BY <2>2, <2>3, SmallBytes
  <1>2. Targets \in SUBSET Byte /\ Endpoints \cup {0} \in SUBSET Byte
    BY <1>1
  <1>3. IsFiniteSet(Targets) /\ IsFiniteSet(Endpoints \cup {0})
    <2>1. IsFiniteSet(Targets)
      BY <1>2, ByteIsFinite, FS_Subset
    <2> DEFINE ends == Endpoints \cup {0}
    <2> HIDE DEF ends
    <2>2. ends \in SUBSET Byte
      BY <1>2 DEF ends
    <2>3. IsFiniteSet(ends)
      BY <2>2, ByteIsFinite, FS_Subset
    <2> QED
      BY <2>1, <2>3 DEF ends
  <1>4. IsFiniteSet(Destinations)
    BY <1>3, FS_Product DEF Destinations
  <1>5. ASSUME NEW d \in Destinations
        PROVE  d = <<d[1], d[2]>> /\ d[1] \in Byte \ {0} /\ d[2] \in Byte /\ d[1] \in Targets
    <2>1. d = <<d[1], d[2]>> /\ d[1] \in Targets /\ d[2] \in Endpoints \cup {0}
      BY DEF Destinations
    <2>2. d[1] \in Byte /\ d[1] # 0 /\ d[2] \in Byte
      BY <1>1, <2>1
    <2> QED
      BY <2>1, <2>2
  <1> QED
    BY <1>4, <1>5

\* A set of destinations is split into plain ones and those with an endpoint.
LEMMA SplitFacts ==
  ASSUME ReportsAssumption, NEW D \in SUBSET Destinations
  PROVE  /\ IsFiniteSet(PlainOf(D)) /\ IsFiniteSet(MultiOf(D))
         /\ Cardinality(D) \in Nat
         /\ Cardinality(PlainOf(D)) + Cardinality(MultiOf(D)) <= Cardinality(D)
         /\ PlainOf(D) \subseteq Byte \ {0} /\ MultiOf(D) \subseteq Byte \X Byte
  <1> DEFINE P == PlainOf(D)
             M == MultiOf(D)
             N == {e \in D : e[2] = 0}
             f == [d \in N |-> d[1]]
  <1>1. IsFiniteSet(D)
    BY DestinationFacts, FS_Subset
  <1>2. N \in SUBSET D /\ M \in SUBSET D
    BY DEF MultiOf
  <1>3. IsFiniteSet(N) /\ IsFiniteSet(M)
    <2> HIDE DEF N, M
    <2> QED
      BY <1>1, <1>2, FS_Subset
  <1>4. D = N \cup M /\ N \cap M = {}
    BY DEF MultiOf
  <1>5. Cardinality(D) = Cardinality(N) + Cardinality(M) - Cardinality({})
    <2> HIDE DEF N, M
    <2> QED
      BY <1>3, <1>4, FS_Union
  <1>6. Cardinality({}) = 0
    BY FS_EmptySet
  <1>7. f \in Surjection(N, P)
    BY DEF Surjection, PlainOf
  <1>8. IsFiniteSet(P) /\ Cardinality(P) <= Cardinality(N)
    <2> HIDE DEF N, P, f
    <2> QED
      BY <1>3, <1>7, FS_Surjection
  <1>9. /\ Cardinality(N) \in Nat /\ Cardinality(M) \in Nat
        /\ Cardinality(D) \in Nat /\ Cardinality(P) \in Nat
    <2> HIDE DEF N, M, P
    <2> QED
      BY <1>1, <1>3, <1>8, FS_CardinalityType
  <1>10. Cardinality(P) + Cardinality(M) <= Cardinality(D)
    BY <1>5, <1>6, <1>8, <1>9
  <1>11. \A d \in Destinations : d = <<d[1], d[2]>> /\ d[1] \in Byte \ {0} /\ d[2] \in Byte
    BY DestinationFacts, ZenonT(60)
  <1>12. P \subseteq Byte \ {0}
    BY <1>11 DEF PlainOf
  <1>13. M \subseteq Byte \X Byte
    BY <1>11 DEF MultiOf
  <1> QED
    BY <1>3, <1>8, <1>9, <1>10, <1>12, <1>13

\* The list of a set of destinations: it fits a frame.
LEMMA ListOfFacts ==
  ASSUME ReportsAssumption, NEW D \in SUBSET Destinations, Cardinality(D) <= MaxNodes
  PROVE  LET plain == SetToSeq(PlainOf(D))
             multi == SetToSeq(MultiOf(D))
         IN /\ plain \in Seq(Byte \ {0}) /\ multi \in Seq(Byte \X Byte)
            /\ Len(plain) + Len(multi) <= MaxNodes
            /\ ListOf(D) = Written(plain, multi)
            /\ ListOf(D) \in Seq(Byte) /\ Len(ListOf(D)) <= 243
  <1> DEFINE plain == SetToSeq(PlainOf(D))
             multi == SetToSeq(MultiOf(D))
  <1>1. /\ IsFiniteSet(PlainOf(D)) /\ IsFiniteSet(MultiOf(D))
        /\ Cardinality(D) \in Nat
        /\ Cardinality(PlainOf(D)) + Cardinality(MultiOf(D)) <= Cardinality(D)
        /\ PlainOf(D) \subseteq Byte \ {0} /\ MultiOf(D) \subseteq Byte \X Byte
    BY SplitFacts
  <1>2. plain \in Seq(PlainOf(D)) /\ Len(plain) = Cardinality(PlainOf(D))
    BY <1>1, SetToSeqFacts
  <1>3. multi \in Seq(MultiOf(D)) /\ Len(multi) = Cardinality(MultiOf(D))
    BY <1>1, SetToSeqFacts
  <1>4. ListOf(D) = Written(plain, multi)
    BY DEF ListOf, Written, PlainOf, MultiOf
  <1> HIDE DEF plain, multi
  <1>5. plain \in Seq(Byte \ {0}) /\ multi \in Seq(Byte \X Byte)
    BY <1>1, <1>2, <1>3
  <1>6. /\ Len(plain) \in Nat /\ Len(multi) \in Nat /\ MaxNodes \in Nat /\ MaxNodes <= 121
        /\ Len(plain) + Len(multi) <= MaxNodes
    <2>1. MaxNodes \in Nat /\ MaxNodes <= 121
      BY AssumptionFacts
    <2>2. Len(plain) \in Nat /\ Len(multi) \in Nat
      BY <1>2, <1>3
    <2> QED
      BY <1>1, <1>2, <1>3, <2>1, <2>2
  <1>7. plain \in Seq(Byte)
    BY <1>5
  <1> DEFINE list == Written(plain, multi)
  <1>8. /\ list \in Seq(Byte)
        /\ multi = <<>> => list = plain
        /\ multi # <<>> => Len(list) = Len(plain) + 1 + 2 * Len(multi)
    BY <1>5, <1>7, WrittenFacts
  <1> HIDE DEF list
  <1>9. Len(list) <= 243
    <2>1. CASE multi = <<>>
      <3>1. Len(plain) <= 121
        BY <1>6
      <3>2. list = plain
        BY <1>8, <2>1
      <3> QED
        BY <1>6, <3>1, <3>2
    <2>2. CASE multi # <<>>
      BY <1>6, <1>8, <2>2
    <2> QED
      BY <2>1, <2>2
  <1> QED
    <2>1. ListOf(D) \in Seq(Byte) /\ Len(ListOf(D)) <= 243
      BY <1>4, <1>8, <1>9 DEF list
    <2> QED
      BY <1>4, <1>5, <1>6, <2>1 DEF plain, multi

PairLists == Seq(Byte \X Byte)

\* Pair by pair, what two lists make together.
LEMMA PairConcatFacts ==
  ASSUME NEW a \in PairLists, NEW b \in PairLists
  PROVE  /\ Joined(a, b) \in PairLists /\ DOMAIN Joined(a, b) = 1 .. Len(a) + Len(b)
         /\ \A i \in 1 .. Len(a) : Joined(a, b)[i] = a[i]
         /\ \A i \in 1 .. Len(b) : Joined(a, b)[Len(a) + i] = b[i]
  BY DEF Joined, PairLists

\* What is read of a list of destinations is these destinations.
THEOREM EntriesOfList ==
  ASSUME ReportsAssumption, NEW D \in SUBSET Destinations, Cardinality(D) <= MaxNodes
  PROVE  LET entries == Entries(MaxNodes, ListOf(D))
         IN /\ \E n \in Nat : DOMAIN entries = 1 .. n
            /\ \A i \in DOMAIN entries : entries[i] \in D
            /\ \A d \in D : \E i \in DOMAIN entries : entries[i] = d
            /\ \A i, j \in DOMAIN entries : entries[i] = entries[j] => i = j
  <1> DEFINE plain == SetToSeq(PlainOf(D))
             multi == SetToSeq(MultiOf(D))
             np == Len(plain)
             nm == Len(multi)
             front == [i \in 1 .. np |-> <<plain[i], 0>>]
             entries == front \o multi
  <1>1. /\ plain \in Seq(Byte \ {0}) /\ multi \in Seq(Byte \X Byte)
        /\ np + nm <= MaxNodes /\ MaxNodes \in Nat
        /\ ListOf(D) = Written(plain, multi)
    BY ListOfFacts, AssumptionFacts, ZenonT(60)
  <1>2. Entries(MaxNodes, ListOf(D)) = entries
    <2> HIDE DEF plain, multi
    <2> QED
      BY <1>1, EntriesOfWritten, ZenonT(60)
  <1>3. IsFiniteSet(PlainOf(D)) /\ IsFiniteSet(MultiOf(D))
    BY SplitFacts
  <1>4. /\ plain \in Seq(PlainOf(D)) /\ ToSet(plain) = PlainOf(D)
        /\ \A i, j \in 1 .. Len(plain) : plain[i] = plain[j] => i = j
    BY <1>3, SetToSeqFacts
  <1>5. /\ multi \in Seq(MultiOf(D)) /\ ToSet(multi) = MultiOf(D)
        /\ \A i, j \in 1 .. Len(multi) : multi[i] = multi[j] => i = j
    BY <1>3, SetToSeqFacts
  <1> HIDE DEF plain, multi
  <1>6. /\ np \in Nat /\ nm \in Nat
        /\ \A i \in 1 .. np : plain[i] \in PlainOf(D)
        /\ \A i \in 1 .. nm : multi[i] \in MultiOf(D)
    BY <1>4, <1>5
  <1>7. /\ \A x \in PlainOf(D) : \E i \in 1 .. np : plain[i] = x
        /\ \A x \in MultiOf(D) : \E i \in 1 .. nm : multi[i] = x
    <2>1. DOMAIN plain = 1 .. np /\ DOMAIN multi = 1 .. nm
      BY <1>4, <1>5
    <2> QED
      BY <1>4, <1>5, <2>1 DEF ToSet
  <1>8. /\ DOMAIN entries = 1 .. np + nm
        /\ \A i \in 1 .. np : entries[i] = <<plain[i], 0>>
        /\ \A i \in 1 .. nm : entries[np + i] = multi[i]
    <2>1. front \in Seq(Byte \X Byte) /\ Len(front) = np
      <3>1. \A i \in 1 .. np : <<plain[i], 0>> \in Byte \X Byte
        <4>1. \A i \in 1 .. np : plain[i] \in Byte
          BY <1>1
        <4> QED
          BY <4>1, SmallBytes
      <3> QED
        BY <1>6, <3>1
    <2>2. \A i \in 1 .. np : front[i] = <<plain[i], 0>>
      OBVIOUS
    <2>3. front \in PairLists /\ multi \in PairLists
      BY <1>1, <2>1 DEF PairLists
    <2>4. entries = Joined(front, multi)
      BY DEF Joined
    <2> HIDE DEF front, entries
    <2>5. /\ DOMAIN Joined(front, multi) = 1 .. Len(front) + Len(multi)
          /\ \A i \in 1 .. Len(front) : Joined(front, multi)[i] = front[i]
          /\ \A i \in 1 .. Len(multi) : Joined(front, multi)[Len(front) + i] = multi[i]
      BY <2>3, PairConcatFacts
    <2> QED
      BY <2>1, <2>2, <2>4, <2>5
  <1> HIDE DEF entries
  <1>9. \A d \in D : d = <<d[1], d[2]>>
    BY DestinationFacts
  <1>10. \A i \in 1 .. np : <<plain[i], 0>> \in D
    <2> TAKE i \in 1 .. np
    <2>1. PICK d \in D : d[2] = 0 /\ d[1] = plain[i]
      BY <1>6 DEF PlainOf
    <2> QED
      BY <1>9, <2>1
  <1>11. \A i \in 1 .. nm : multi[i] \in D /\ multi[i][2] # 0
    BY <1>6 DEF MultiOf
  <1>12. \A i \in 1 .. np + nm : i \in 1 .. np \/ \E j \in 1 .. nm : i = np + j
    <2> TAKE i \in 1 .. np + nm
    <2>1. CASE i <= np
      BY <1>6, <2>1
    <2>2. CASE i > np
      <3>1. i - np \in 1 .. nm /\ i = np + (i - np)
        BY <1>6, <2>2
      <3> QED
        BY <3>1, ZenonT(60)
    <2> QED
      BY <1>6, <2>1, <2>2
  <1>13. \A i \in 1 .. np + nm : entries[i] \in D
    <2> TAKE i \in 1 .. np + nm
    <2>1. CASE i \in 1 .. np
      <3>1. entries[i] = <<plain[i], 0>>
        BY <1>8, <2>1
      <3> QED
        BY <1>10, <2>1, <3>1
    <2>2. CASE \E j \in 1 .. nm : i = np + j
      BY <1>8, <1>11, <2>2
    <2> QED
      BY <1>12, <2>1, <2>2
  <1>14. \A d \in D : \E i \in 1 .. np + nm : entries[i] = d
    <2> TAKE d \in D
    <2>1. CASE d[2] = 0
      <3>0. d[1] \in PlainOf(D)
        BY <2>1 DEF PlainOf
      <3>1. PICK i \in 1 .. np : plain[i] = d[1]
        BY <1>7, <3>0
      <3>2. entries[i] = d /\ i \in 1 .. np + nm
        <4>1. entries[i] = <<d[1], 0>>
          BY <1>8, <3>1
        <4>2. d = <<d[1], 0>>
          BY <1>9, <2>1
        <4>3. i \in 1 .. np + nm
          BY <1>6
        <4> QED
          BY <4>1, <4>2, <4>3
      <3> QED
        BY <3>2
    <2>2. CASE d[2] # 0
      <3>1. PICK i \in 1 .. nm : multi[i] = d
        BY <1>7, <2>2 DEF MultiOf
      <3>2. entries[np + i] = d /\ np + i \in 1 .. np + nm
        BY <1>6, <1>8, <3>1
      <3> QED
        BY <3>2
    <2> QED
      BY <2>1, <2>2
  <1>15. ASSUME NEW i \in 1 .. np + nm, NEW j \in 1 .. np + nm, entries[i] = entries[j]
         PROVE  i = j
    <2>1. CASE i \in 1 .. np /\ j \in 1 .. np
      <3>1. <<plain[i], 0>> = <<plain[j], 0>>
        BY <1>8, <1>15, <2>1
      <3> QED
        BY <1>4, <2>1, <3>1
    <2>2. CASE i \in 1 .. np /\ \E k \in 1 .. nm : j = np + k
      BY <1>8, <1>11, <1>15, <2>2
    <2>3. CASE j \in 1 .. np /\ \E k \in 1 .. nm : i = np + k
      BY <1>8, <1>11, <1>15, <2>3
    <2>4. CASE (\E k \in 1 .. nm : i = np + k) /\ (\E k \in 1 .. nm : j = np + k)
      BY <1>5, <1>8, <1>15, <2>4
    <2> QED
      BY <1>12, <2>1, <2>2, <2>3, <2>4
  <1>16. \E n \in Nat : DOMAIN entries = 1 .. n
    <2>1. np + nm \in Nat
      BY <1>6
    <2> QED
      BY <1>8, <2>1
  <1>17. \A i, j \in DOMAIN entries : entries[i] = entries[j] => i = j
    BY <1>8, <1>15
  <1> QED
    BY <1>2, <1>8, <1>13, <1>14, <1>16, <1>17, ZenonT(60)

\* Nodes that are bound once.
Distinct(D) == \A d, e \in D : d[1] = e[1] => d = e

\* The members a report leaves behind when nothing is kept.
LEMMA PutOfList ==
  ASSUME ReportsAssumption, NEW D \in SUBSET Destinations, Cardinality(D) <= MaxNodes
  PROVE  LET members == Put({}, Entries(MaxNodes, ListOf(D)))
         IN members \subseteq D /\ (Distinct(D) => members = D)
  <1> DEFINE entries == Entries(MaxNodes, ListOf(D))
             members == Put({}, entries)
  <1>1. /\ \A i \in DOMAIN entries : entries[i] \in D
        /\ \A d \in D : \E i \in DOMAIN entries : entries[i] = d
        /\ \A i, j \in DOMAIN entries : entries[i] = entries[j] => i = j
        /\ DOMAIN entries \subseteq Int
    <2>1. /\ \E n \in Nat : DOMAIN entries = 1 .. n
          /\ \A i \in DOMAIN entries : entries[i] \in D
          /\ \A d \in D : \E i \in DOMAIN entries : entries[i] = d
          /\ \A i, j \in DOMAIN entries : entries[i] = entries[j] => i = j
      BY EntriesOfList
    <2> HIDE DEF entries
    <2> QED
      BY <2>1
  <1> HIDE DEF entries
  <1>2. members = {entries[i] : i \in {k \in DOMAIN entries :
                     \A j \in DOMAIN entries : j > k => entries[j][1] # entries[k][1]}}
    BY DEF Put
  <1>3. members \subseteq D
    BY <1>1, <1>2
  <1>4. ASSUME Distinct(D), NEW d \in D PROVE d \in members
    <2>1. PICK k \in DOMAIN entries : entries[k] = d
      BY <1>1
    <2>2. ASSUME NEW j \in DOMAIN entries, j > k, entries[j][1] = entries[k][1] PROVE FALSE
      <3>1. entries[j] = entries[k]
        BY <1>1, <1>4, <2>2 DEF Distinct
      <3>2. j = k /\ j \in Int /\ k \in Int
        BY <1>1, <3>1
      <3> QED
        BY <2>2, <3>2
    <2> QED
      BY <1>2, <2>1, <2>2
  <1> QED
    BY <1>3, <1>4, ZenonT(60) DEF entries

\* A list of nodes alone.
LEMMA ListOfPlain ==
  ASSUME ReportsAssumption, NEW D \in SUBSET Destinations, \A d \in D : d[2] = 0
  PROVE  ListOf(D) = SetToSeq(PlainOf(D)) /\ ToSet(ListOf(D)) = {d[1] : d \in D}
  <1>1. MultiOf(D) = {} /\ PlainOf(D) = {d[1] : d \in D}
    BY DEF MultiOf, PlainOf
  <1>2. IsFiniteSet(PlainOf(D)) /\ IsFiniteSet(MultiOf(D)) /\ PlainOf(D) \subseteq Byte \ {0}
    BY SplitFacts, ZenonT(60)
  <1> DEFINE plain == SetToSeq(PlainOf(D))
             multi == SetToSeq(MultiOf(D))
  <1>3. plain \in Seq(PlainOf(D)) /\ ToSet(plain) = PlainOf(D)
    BY <1>2, SetToSeqFacts
  <1>4. multi \in Seq(MultiOf(D)) /\ Len(multi) = Cardinality(MultiOf(D))
    BY <1>2, SetToSeqFacts
  <1>5. ListOf(D) = plain \o IF multi = <<>> THEN <<>> ELSE <<0>> \o Flat(multi)
    BY DEF ListOf, PlainOf, MultiOf
  <1> HIDE DEF plain, multi
  <1>6. multi = <<>>
    <2>1. Len(multi) = 0
      BY <1>1, <1>4, FS_EmptySet
    <2> QED
      BY <1>4, <2>1
  <1>7. ListOf(D) = plain
    BY <1>3, <1>5, <1>6
  <1> QED
    BY <1>1, <1>3, <1>7 DEF plain

\* The marker before a pair.
LEMMA MarkedPair == ASSUME NEW x \in Byte, NEW y \in Byte PROVE <<0>> \o <<x, y>> = <<0, x, y>>
  <1> DEFINE a == <<0>>
             b == <<x, y>>
             c == <<0, x, y>>
             j == Joined(a, b)
  <1>1. a \in Bytes /\ b \in Bytes /\ c \in Seq(Byte)
    BY SmallBytes DEF Bytes
  <1>2. Len(a) = 1 /\ Len(b) = 2 /\ Len(c) = 3
    OBVIOUS
  <1>3. a[1] = 0 /\ b[1] = x /\ b[2] = y /\ c[1] = 0 /\ c[2] = x /\ c[3] = y
    OBVIOUS
  <1>4. a \o b = j
    BY DEF Joined
  <1> HIDE DEF a, b, c, j
  <1>5. /\ j \in Seq(Byte) /\ Len(j) = Len(a) + Len(b)
        /\ \A i \in 1 .. Len(a) : j[i] = a[i]
        /\ \A i \in 1 .. Len(b) : j[Len(a) + i] = b[i]
    BY <1>1, ConcatFacts DEF j, Bytes
  <1>6. j[1] = 0 /\ j[1 + 1] = x /\ j[1 + 2] = y
    BY <1>2, <1>3, <1>5
  <1>7. \A i \in 1 .. 3 : j[i] = c[i]
    BY <1>3, <1>6
  <1>8. Len(j) = 3
    BY <1>2, <1>5
  <1> QED
    BY <1>1, <1>2, <1>4, <1>5, <1>7, <1>8, SeqEqual, ZenonT(60) DEF a, b, c

\* The list with one destination.
LEMMA ListOfOne ==
  ASSUME ReportsAssumption, NEW d \in Destinations
  PROVE  ListOf({d}) = IF d[2] = 0 THEN <<d[1]>> ELSE <<0, d[1], d[2]>>
  <1> DEFINE D == {d}
             plain == SetToSeq(PlainOf(D))
             multi == SetToSeq(MultiOf(D))
  <1>0. \A x : IsFiniteSet({x}) /\ Cardinality({x}) = 1
    BY FS_Singleton
  <1>1. IsFiniteSet({}) /\ Cardinality({}) = 0
    BY FS_EmptySet
  <1>2. /\ plain \in Seq(PlainOf(D)) /\ Len(plain) = Cardinality(PlainOf(D))
        /\ multi \in Seq(MultiOf(D)) /\ Len(multi) = Cardinality(MultiOf(D))
    <2>1. D \in SUBSET Destinations
      OBVIOUS
    <2> HIDE DEF D
    <2>2. IsFiniteSet(PlainOf(D)) /\ IsFiniteSet(MultiOf(D))
      BY <2>1, SplitFacts
    <2> QED
      BY <2>2, SetToSeqFacts
  <1>3. ListOf(D) = plain \o IF multi = <<>> THEN <<>> ELSE <<0>> \o Flat(multi)
    BY DEF ListOf, PlainOf, MultiOf
  <1> HIDE DEF plain, multi
  <1>4. CASE d[2] = 0
    <2>1. PlainOf(D) = {d[1]} /\ MultiOf(D) = {}
      BY <1>4 DEF PlainOf, MultiOf
    <2>2. multi = <<>>
      <3>1. Len(multi) = 0
        BY <1>1, <1>2, <2>1, ZenonT(60)
      <3> QED
        BY <1>2, <3>1
    <2>3. plain = <<d[1]>>
      <3>1. plain \in Seq({d[1]}) /\ Len(plain) = 1
        BY <1>0, <1>2, <2>1, ZenonT(60)
      <3> QED
        BY <3>1
    <2> QED
      BY <1>2, <1>3, <1>4, <2>2, <2>3
  <1>5. CASE d[2] # 0
    <2>1. PlainOf(D) = {} /\ MultiOf(D) = {d}
      BY <1>5 DEF PlainOf, MultiOf
    <2>2. plain = <<>>
      <3>1. Len(plain) = 0
        BY <1>1, <1>2, <2>1, ZenonT(60)
      <3> QED
        BY <1>2, <3>1
    <2>3. multi \in Seq({d}) /\ Len(multi) = 1
      BY <1>0, <1>2, <2>1, ZenonT(60)
    <2>4. multi = <<d>>
      BY <2>3
    <2>5. Flat(multi) = <<d[1], d[2]>>
      BY <2>4 DEF Flat
    <2>6. ListOf(D) = <<>> \o (<<0>> \o <<d[1], d[2]>>)
      BY <1>3, <2>2, <2>4, <2>5
    <2>7. <<0>> \o <<d[1], d[2]>> = <<0, d[1], d[2]>>
      <3>1. d[1] \in Byte /\ d[2] \in Byte /\ 0 \in Byte
        BY DestinationFacts, SmallBytes, ZenonT(60)
      <3> QED
        BY <3>1, MarkedPair
    <2>8. <<>> \o <<0, d[1], d[2]>> = <<0, d[1], d[2]>>
      OBVIOUS
    <2> QED
      BY <1>5, <2>6, <2>7, <2>8
  <1> QED
    BY <1>4, <1>5

\* A part of a command, by its elements.
LEMMA PartIs ==
  ASSUME NEW o \in Bytes, NEW m \in Nat \ {0}, NEW n \in Nat, NEW q \in Bytes,
         n <= Len(o), Len(q) = n - m + 1, \A i \in 1 .. Len(q) : q[i] = o[m - 1 + i]
  PROVE  SubSeq(o, m, n) = q
  <1> DEFINE part == SubSeq(o, m, n)
  <1>1. o \in Seq(Byte) /\ q \in Seq(Byte) /\ Len(o) \in Nat /\ Len(q) \in Nat
    BY DEF Bytes
  <1>2. part \in Seq(Byte) /\ Len(part) = Len(q) /\ \A i \in 1 .. Len(q) : part[i] = o[m - 1 + i]
    BY <1>1
  <1> HIDE DEF part
  <1>3. part = q
    BY <1>1, <1>2, SeqEqual
  <1> QED
    BY <1>3 DEF part

\* A list without its first element.
LEMMA RestIs ==
  ASSUME NEW o \in Bytes, NEW q \in Bytes,
         Len(o) >= 1, Len(q) = Len(o) - 1, \A i \in 1 .. Len(q) : q[i] = o[i + 1]
  PROVE  Tail(o) = q
  <1> DEFINE rest == Tail(o)
  <1>1. o \in Seq(Byte) /\ q \in Seq(Byte) /\ Len(o) \in Nat /\ Len(q) \in Nat
    BY DEF Bytes
  <1>2. rest \in Seq(Byte) /\ Len(rest) = Len(q) /\ \A i \in 1 .. Len(q) : rest[i] = o[i + 1]
    BY <1>1
  <1> HIDE DEF rest
  <1>3. rest = q
    BY <1>1, <1>2, SeqEqual
  <1> QED
    BY <1>3 DEF rest

\* The bytes behind the class and the command, of one.
LEMMA BehindTwoOne ==
  ASSUME NEW a \in Byte, NEW x \in Byte, NEW y \in Byte
  PROVE  SubSeq(<<x, y, a>>, 3, 3) = <<a>>
  <1> DEFINE o == <<x, y, a>>
             q == <<a>>
  <1>1. o \in Bytes /\ q \in Bytes
    BY DEF Bytes
  <1>2. Len(o) = 3 /\ Len(q) = 1
    OBVIOUS
  <1>3. /\ o[3] = a /\ q[1] = a
    OBVIOUS
  <1> HIDE DEF o, q
  <1>4. \A i \in 1 .. 1 : q[i] = o[2 + i]
    BY <1>3
  <1>5. SubSeq(o, 3, 3) = q
    <2> DEFINE m == 3
               n == 3
    <2>1. m \in Nat \ {0} /\ n \in Nat
      OBVIOUS
    <2>2. n <= Len(o) /\ Len(q) = n - m + 1
      BY <1>2
    <2>3. \A i \in 1 .. Len(q) : q[i] = o[m - 1 + i]
      BY <1>2, <1>4
    <2> HIDE DEF m, n
    <2>4. SubSeq(o, m, n) = q
      BY <1>1, <2>1, <2>2, <2>3, PartIs
    <2> QED
      BY <2>4 DEF m, n
  <1> QED
    BY <1>5 DEF o, q

\* Of two.
LEMMA BehindTwoTwo ==
  ASSUME NEW a \in Byte, NEW b \in Byte, NEW x \in Byte, NEW y \in Byte
  PROVE  SubSeq(<<x, y, a, b>>, 3, 4) = <<a, b>>
  <1> DEFINE o == <<x, y, a, b>>
             q == <<a, b>>
  <1>1. o \in Bytes /\ q \in Bytes
    BY DEF Bytes
  <1>2. Len(o) = 4 /\ Len(q) = 2
    OBVIOUS
  <1>3. /\ o[3] = a /\ q[1] = a
        /\ o[4] = b /\ q[2] = b
    OBVIOUS
  <1> HIDE DEF o, q
  <1>4. \A i \in 1 .. 2 : q[i] = o[2 + i]
    BY <1>3
  <1>5. SubSeq(o, 3, 4) = q
    <2> DEFINE m == 3
               n == 4
    <2>1. m \in Nat \ {0} /\ n \in Nat
      OBVIOUS
    <2>2. n <= Len(o) /\ Len(q) = n - m + 1
      BY <1>2
    <2>3. \A i \in 1 .. Len(q) : q[i] = o[m - 1 + i]
      BY <1>2, <1>4
    <2> HIDE DEF m, n
    <2>4. SubSeq(o, m, n) = q
      BY <1>1, <2>1, <2>2, <2>3, PartIs
    <2> QED
      BY <2>4 DEF m, n
  <1> QED
    BY <1>5 DEF o, q

\* Of three.
LEMMA BehindTwoThree ==
  ASSUME NEW a \in Byte, NEW b \in Byte, NEW c \in Byte, NEW x \in Byte, NEW y \in Byte
  PROVE  SubSeq(<<x, y, a, b, c>>, 3, 5) = <<a, b, c>>
  <1> DEFINE o == <<x, y, a, b, c>>
             q == <<a, b, c>>
  <1>1. o \in Bytes /\ q \in Bytes
    BY DEF Bytes
  <1>2. Len(o) = 5 /\ Len(q) = 3
    OBVIOUS
  <1>3. /\ o[3] = a /\ q[1] = a
        /\ o[4] = b /\ q[2] = b
        /\ o[5] = c /\ q[3] = c
    OBVIOUS
  <1> HIDE DEF o, q
  <1>4. \A i \in 1 .. 3 : q[i] = o[2 + i]
    BY <1>3
  <1>5. SubSeq(o, 3, 5) = q
    <2> DEFINE m == 3
               n == 5
    <2>1. m \in Nat \ {0} /\ n \in Nat
      OBVIOUS
    <2>2. n <= Len(o) /\ Len(q) = n - m + 1
      BY <1>2
    <2>3. \A i \in 1 .. Len(q) : q[i] = o[m - 1 + i]
      BY <1>2, <1>4
    <2> HIDE DEF m, n
    <2>4. SubSeq(o, m, n) = q
      BY <1>1, <2>1, <2>2, <2>3, PartIs
    <2> QED
      BY <2>4 DEF m, n
  <1> QED
    BY <1>5 DEF o, q

\* Of four.
LEMMA BehindTwoFour ==
  ASSUME NEW a \in Byte, NEW b \in Byte, NEW c \in Byte, NEW d \in Byte, NEW x \in Byte, NEW y \in Byte
  PROVE  SubSeq(<<x, y, a, b, c, d>>, 3, 6) = <<a, b, c, d>>
  <1> DEFINE o == <<x, y, a, b, c, d>>
             q == <<a, b, c, d>>
  <1>1. o \in Bytes /\ q \in Bytes
    BY DEF Bytes
  <1>2. Len(o) = 6 /\ Len(q) = 4
    OBVIOUS
  <1>3. /\ o[3] = a /\ q[1] = a
        /\ o[4] = b /\ q[2] = b
        /\ o[5] = c /\ q[3] = c
        /\ o[6] = d /\ q[4] = d
    OBVIOUS
  <1> HIDE DEF o, q
  <1>4. \A i \in 1 .. 4 : q[i] = o[2 + i]
    BY <1>3
  <1>5. SubSeq(o, 3, 6) = q
    <2> DEFINE m == 3
               n == 6
    <2>1. m \in Nat \ {0} /\ n \in Nat
      OBVIOUS
    <2>2. n <= Len(o) /\ Len(q) = n - m + 1
      BY <1>2
    <2>3. \A i \in 1 .. Len(q) : q[i] = o[m - 1 + i]
      BY <1>2, <1>4
    <2> HIDE DEF m, n
    <2>4. SubSeq(o, m, n) = q
      BY <1>1, <2>1, <2>2, <2>3, PartIs
    <2> QED
      BY <2>4 DEF m, n
  <1> QED
    BY <1>5 DEF o, q

\* The last byte of three.
LEMMA LastOfThree ==
  ASSUME NEW a \in Byte, NEW b \in Byte, NEW c \in Byte
  PROVE  SubSeq(<<a, b, c>>, 3, 3) = <<c>>
  <1> DEFINE o == <<a, b, c>>
             q == <<c>>
  <1>1. o \in Bytes /\ q \in Bytes
    BY DEF Bytes
  <1>2. Len(o) = 3 /\ Len(q) = 1
    OBVIOUS
  <1>3. /\ o[3] = c /\ q[1] = c
    OBVIOUS
  <1> HIDE DEF o, q
  <1>4. \A i \in 1 .. 1 : q[i] = o[2 + i]
    BY <1>3
  <1>5. SubSeq(o, 3, 3) = q
    <2> DEFINE m == 3
               n == 3
    <2>1. m \in Nat \ {0} /\ n \in Nat
      OBVIOUS
    <2>2. n <= Len(o) /\ Len(q) = n - m + 1
      BY <1>2
    <2>3. \A i \in 1 .. Len(q) : q[i] = o[m - 1 + i]
      BY <1>2, <1>4
    <2> HIDE DEF m, n
    <2>4. SubSeq(o, m, n) = q
      BY <1>1, <2>1, <2>2, <2>3, PartIs
    <2> QED
      BY <2>4 DEF m, n
  <1> QED
    BY <1>5 DEF o, q

\* The two in the middle of four.
LEMMA InnerOfFour ==
  ASSUME NEW a \in Byte, NEW b \in Byte, NEW c \in Byte, NEW d \in Byte
  PROVE  SubSeq(<<a, b, c, d>>, 2, 3) = <<b, c>>
  <1> DEFINE o == <<a, b, c, d>>
             q == <<b, c>>
  <1>1. o \in Bytes /\ q \in Bytes
    BY DEF Bytes
  <1>2. Len(o) = 4 /\ Len(q) = 2
    OBVIOUS
  <1>3. /\ o[2] = b /\ q[1] = b
        /\ o[3] = c /\ q[2] = c
    OBVIOUS
  <1> HIDE DEF o, q
  <1>4. \A i \in 1 .. 2 : q[i] = o[1 + i]
    BY <1>3
  <1>5. SubSeq(o, 2, 3) = q
    <2> DEFINE m == 2
               n == 3
    <2>1. m \in Nat \ {0} /\ n \in Nat
      OBVIOUS
    <2>2. n <= Len(o) /\ Len(q) = n - m + 1
      BY <1>2
    <2>3. \A i \in 1 .. Len(q) : q[i] = o[m - 1 + i]
      BY <1>2, <1>4
    <2> HIDE DEF m, n
    <2>4. SubSeq(o, m, n) = q
      BY <1>1, <2>1, <2>2, <2>3, PartIs
    <2> QED
      BY <2>4 DEF m, n
  <1> QED
    BY <1>5 DEF o, q

\* The last byte of two.
LEMMA RestOfTwo ==
  ASSUME NEW a \in Byte, NEW b \in Byte
  PROVE  Tail(<<a, b>>) = <<b>>
  <1> DEFINE o == <<a, b>>
             q == <<b>>
  <1>1. o \in Bytes /\ q \in Bytes
    BY DEF Bytes
  <1>2. Len(o) = 2 /\ Len(q) = 1
    OBVIOUS
  <1>3. /\ o[2] = b /\ q[1] = b
    OBVIOUS
  <1> HIDE DEF o, q
  <1>4. \A i \in 1 .. 1 : q[i] = o[1 + i]
    BY <1>3
  <1>5. Len(o) >= 1 /\ Len(q) = Len(o) - 1 /\ \A i \in 1 .. Len(q) : q[i] = o[i + 1]
    BY <1>2, <1>4
  <1>6. Tail(o) = q
    BY <1>1, <1>5, RestIs
  <1> QED
    BY <1>6 DEF o, q

\* The last three of four.
LEMMA RestOfFour ==
  ASSUME NEW a \in Byte, NEW b \in Byte, NEW c \in Byte, NEW d \in Byte
  PROVE  Tail(<<a, b, c, d>>) = <<b, c, d>>
  <1> DEFINE o == <<a, b, c, d>>
             q == <<b, c, d>>
  <1>1. o \in Bytes /\ q \in Bytes
    BY DEF Bytes
  <1>2. Len(o) = 4 /\ Len(q) = 3
    OBVIOUS
  <1>3. /\ o[2] = b /\ q[1] = b
        /\ o[3] = c /\ q[2] = c
        /\ o[4] = d /\ q[3] = d
    OBVIOUS
  <1> HIDE DEF o, q
  <1>4. \A i \in 1 .. 3 : q[i] = o[1 + i]
    BY <1>3
  <1>5. Len(o) >= 1 /\ Len(q) = Len(o) - 1 /\ \A i \in 1 .. Len(q) : q[i] = o[i + 1]
    BY <1>2, <1>4
  <1>6. Tail(o) = q
    BY <1>1, <1>5, RestIs
  <1> QED
    BY <1>6 DEF o, q
=============================================================================
