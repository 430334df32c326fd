-------------------------- MODULE TokenizerProofs ---------------------------
(***************************************************************************)
(* A word is put into lower case in its own buffer without harm, for any   *)
(* bytes: no letter gets longer (LowerIsNotLonger), so what is written     *)
(* never reaches what is still to be read (LoweringIsInPlace).  Of texts   *)
(* in letters the tokens of the letters are counted (TokensCounted):       *)
(* decoding undoes encoding, so bytes are blanks, spaces and words where   *)
(* the letters are (Decoded, TrimmedInBytes, WordTaken), and the buffer    *)
(* holds the first letters of a word in lower case (CopiedGoesOn).         *)
(***************************************************************************)
EXTENDS Tokenizer, PostingListsProofs

Buffers ==
    /\ lines \in Seq(Seq(Int)) /\ text \in Seq(Int)
    /\ word \in Seq(Int) /\ original \in Seq(Int)
    /\ i \in Nat /\ write_pos \in Nat

BufferInv == Buffers /\ UnreadBytesKept

-----------------------------------------------------------------------------
LEMMA WiderSeq ==
    ASSUME NEW A, NEW B, A \subseteq B, NEW s \in Seq(A)
    PROVE  s \in Seq(B)
<1>1. PICK n \in Nat : s \in [1 .. n -> A]
    BY SeqDef
<1>2. s \in [1 .. n -> B]
    BY <1>1
<1>3. QED
    BY <1>2, SeqDef

LEMMA EncodedLength ==
    ASSUME NEW cp \in Int
    PROVE  /\ EncodeUtf8(cp) \in Seq(Int)
           /\ Len(EncodeUtf8(cp)) <= 4
           /\ cp < 128 => Len(EncodeUtf8(cp)) = 1
           /\ cp < 2048 => Len(EncodeUtf8(cp)) <= 2
           /\ cp < 65536 => Len(EncodeUtf8(cp)) <= 3
<1> DEFINE Continuation(unit) == 128 + ((cp \div unit) % 64)
<1>1. \A unit \in {1, 64, 4096} : Continuation(unit) \in Int
    OBVIOUS
<1>2. \A a, b, c, d \in Int :
         /\ <<a>> \in Seq(Int) /\ Len(<<a>>) = 1
         /\ <<a, b>> \in Seq(Int) /\ Len(<<a, b>>) = 2
         /\ <<a, b, c>> \in Seq(Int) /\ Len(<<a, b, c>>) = 3
         /\ <<a, b, c, d>> \in Seq(Int) /\ Len(<<a, b, c, d>>) = 4
    OBVIOUS
<1>3. << >> \in Seq(Int) /\ Len(<< >>) = 0
    OBVIOUS
<1>4. CASE cp < 128
    BY <1>2, <1>4 DEF EncodeUtf8
<1>5. CASE cp >= 128 /\ cp < 2048
    BY <1>1, <1>2, <1>5 DEF EncodeUtf8
<1>6. CASE cp >= 2048 /\ cp < 65536
    BY <1>1, <1>2, <1>6 DEF EncodeUtf8
<1>7. CASE cp >= 65536 /\ cp < 1114112
    BY <1>1, <1>2, <1>7 DEF EncodeUtf8
<1>8. CASE cp >= 1114112
    BY <1>3, <1>8 DEF EncodeUtf8
<1>9. QED
    BY <1>4, <1>5, <1>6, <1>7, <1>8

LEMMA CodePointBound ==
    ASSUME NEW p \in Seq(Int), p # << >>, DecodedLength(p) > 0
    PROVE  /\ DecodedLength(p) \in 1 .. 4 /\ DecodedLength(p) <= Len(p)
           /\ CodePoint(p, DecodedLength(p)) \in Int
           /\ DecodedLength(p) = 1 => CodePoint(p, 1) < 128
           /\ DecodedLength(p) = 2 => CodePoint(p, 2) < 2048
           /\ DecodedLength(p) = 3 => CodePoint(p, 3) < 65536
<1>1. p[1] \in Int
    OBVIOUS
<1>2. Announced(p[1]) \in 0 .. 4 /\ (Announced(p[1]) = 1 => p[1] < 128)
    BY <1>1 DEF Announced
<1>3. DecodedLength(p) = Announced(p[1]) /\ DecodedLength(p) \in 1 .. 4
      /\ DecodedLength(p) <= Len(p)
    BY <1>2 DEF DecodedLength
<1>4. \A k \in 1 .. 4 : k <= Len(p) => p[k] \in Int
    OBVIOUS
<1>5. CASE DecodedLength(p) = 1
    BY <1>1, <1>2, <1>3, <1>5 DEF CodePoint
<1>6. CASE DecodedLength(p) = 2
    BY <1>3, <1>4, <1>6 DEF CodePoint
<1>7. CASE DecodedLength(p) = 3
  <2>1. p[1] \in Int /\ p[2] \in Int /\ p[3] \in Int
      BY <1>3, <1>4, <1>7
  <2>2. SUFFICES ASSUME NEW a \in Int, NEW b \in Int, NEW c \in Int,
                        a = p[1], b = p[2], c = p[3]
                 PROVE  CodePoint(p, 3) \in Int /\ CodePoint(p, 3) < 65536
      BY <1>3, <1>7, <2>1
  <2>3. CodePoint(p, 3) = 4096 * (a % 16) + 64 * (b % 64) + (c % 64)
      BY <2>2, SMT DEF CodePoint
  <2>4. /\ 4096 * (a % 16) + 64 * (b % 64) + (c % 64) \in Int
        /\ 4096 * (a % 16) + 64 * (b % 64) + (c % 64) < 65536
    <3>1. /\ a % 16 \in Int /\ a % 16 <= 15 /\ b % 64 \in Int /\ b % 64 <= 63
          /\ c % 64 \in Int /\ c % 64 <= 63
        BY SMT
    <3>2. \A x, y, z \in Int : x <= 15 /\ y <= 63 /\ z <= 63 =>
             4096 * x + 64 * y + z \in Int /\ 4096 * x + 64 * y + z < 65536
        BY ONLY SMT
    <3>3. QED
        BY ONLY <3>1, <3>2
  <2>5. QED
      BY ONLY <2>3, <2>4
<1>8. CASE DecodedLength(p) = 4
  <2>1. CodePoint(p, 4) \in Int
    <3>0. p[1] \in Int /\ p[2] \in Int /\ p[3] \in Int /\ p[4] \in Int
        BY <1>3, <1>4, <1>8
    <3>1. SUFFICES ASSUME NEW a \in Int, NEW b \in Int, NEW c \in Int, NEW d \in Int,
                          a = p[1], b = p[2], c = p[3], d = p[4]
                   PROVE  CodePoint(p, 4) \in Int
        BY <3>0
    <3>2. CodePoint(p, 4) = 262144 * (a % 8) + 4096 * (b % 64) + 64 * (c % 64) + (d % 64)
        BY <3>1, SMT DEF CodePoint
    <3>3. 262144 * (a % 8) + 4096 * (b % 64) + 64 * (c % 64) + (d % 64) \in Int
        BY SMT
    <3>4. QED
        BY <3>2, <3>3, SMT
  <2>2. CodePoint(p, DecodedLength(p)) \in Int
      BY <1>8, <2>1
  <2>3. QED
      BY <1>3, <1>8, <2>2
<1>9. QED
    BY <1>3, <1>5, <1>6, <1>7, <1>8

LEMMA DecodedLengthFits ==
    ASSUME NEW p \in Seq(Int), p # << >>
    PROVE  DecodedLength(p) \in 0 .. 4 /\ DecodedLength(p) <= Len(p)
<1>1. p[1] \in Int
    OBVIOUS
<1>2. Announced(p[1]) \in 0 .. 4
    BY <1>1 DEF Announced
<1>3. QED
    BY <1>2 DEF DecodedLength

\* A letter in lower case takes no more bytes than the letter it is made of
\* (ToLowerCodepoint and EncodeUtf8, utils.cpp:69-121).
THEOREM LowerIsNotLonger ==
    ASSUME NEW p \in Seq(Int), p # << >>, DecodedLength(p) > 0
    PROVE  LET bytes == EncodeUtf8(ToLowerCodepoint(CodePoint(p, DecodedLength(p))))
           IN  bytes \in Seq(Int) /\ Len(bytes) <= DecodedLength(p)
<1> DEFINE n == DecodedLength(p)
           cp == CodePoint(p, n)
           low == ToLowerCodepoint(cp)
<1>1. /\ n \in 1 .. 4 /\ cp \in Int
      /\ n = 1 => cp < 128
      /\ n = 2 => cp < 2048
      /\ n = 3 => cp < 65536
    BY CodePointBound
<1> HIDE DEF n, cp
<1>2. /\ low \in Int
      /\ n = 1 => low < 128
      /\ n = 2 => low < 2048
      /\ n = 3 => low < 65536
    BY <1>1 DEF ToLowerCodepoint
<1> HIDE DEF low
<1>3. EncodeUtf8(low) \in Seq(Int) /\ Len(EncodeUtf8(low)) <= n
  <2> DEFINE len == Len(EncodeUtf8(low))
  <2>1. /\ EncodeUtf8(low) \in Seq(Int) /\ len \in Nat /\ len <= 4
        /\ low < 128 => len = 1
        /\ low < 2048 => len <= 2
        /\ low < 65536 => len <= 3
      BY <1>2, EncodedLength
  <2> HIDE DEF len
  <2>2. len <= n
      BY <1>1, <1>2, <2>1, SMT
  <2>3. QED
      BY <2>1, <2>2 DEF len
<1>4. QED
    BY <1>3 DEF n, cp, low

-----------------------------------------------------------------------------
LEMMA SubSeqIsBuffer ==
    ASSUME NEW s \in Seq(Int), NEW first \in 1 .. Len(s) + 1, NEW last \in 0 .. Len(s)
    PROVE  SubSeq(s, first, last) \in Seq(Int)
<1>1. \A k \in first .. last : s[k] \in Int
    OBVIOUS
<1>2. QED
    BY <1>1

LEMMA TrimmedIsBuffer ==
    ASSUME NEW line \in Seq(Int)
    PROVE  Trimmed(line) \in Seq(Int)
<1> DEFINE solid == {k \in DOMAIN line : line[k] \notin Spaces}
<1>1. CASE solid = {}
    BY <1>1 DEF Trimmed
<1>2. CASE solid # {}
  <2>1. solid \subseteq 1 .. Len(line)
      OBVIOUS
  <2>2. Min(solid) \in solid /\ Max(solid) \in solid
    <3>1. solid \subseteq Nat /\ solid \subseteq 0 .. Len(line) /\ Len(line) \in Nat
        BY <2>1
    <3> HIDE DEF solid
    <3>2. QED
        BY <1>2, <3>1, SmallestExists, LargestExists
  <2>3. Min(solid) \in 1 .. Len(line) + 1 /\ Max(solid) \in 0 .. Len(line)
      BY <2>1, <2>2
  <2>4. SubSeq(line, Min(solid), Max(solid)) \in Seq(Int)
    <3> HIDE DEF solid
    <3>1. QED
        BY <2>3, SubSeqIsBuffer
  <2>5. QED
      BY <1>2, <2>4 DEF Trimmed
<1>3. QED
    BY <1>1, <1>2

LEMMA TakeKeepsBuffers ==
    ASSUME NEW bytes \in Seq(Int), NEW use, Take(bytes, use)
    PROVE  /\ word' \in Seq(Int) /\ original' \in Seq(Int)
           /\ i' \in Nat /\ write_pos' \in Nat
           /\ UnreadBytesKept'
BY DEF Take, UnreadBytesKept

-----------------------------------------------------------------------------
(***************************************************************************)
(* Letters in bytes.                                                       *)
(***************************************************************************)
\* The bytes of letters that are no ASCII.
High == {b \in Nat : 128 <= b /\ b < 256}

LEMMA Encoded ==
    ASSUME NEW cp \in CodePoints
    PROVE  /\ EncodeUtf8(cp) \in Seq(Byte) /\ Len(EncodeUtf8(cp)) \in 1 .. 4
           /\ cp < 128 => EncodeUtf8(cp) = <<cp>>
           /\ cp >= 128 => EncodeUtf8(cp) \in Seq(High) /\ EncodeUtf8(cp)[1] >= 194
<1> DEFINE Continuation(unit) == 128 + ((cp \div unit) % 64)
<1>1. cp \in Int /\ 0 <= cp /\ cp < 1114112
  BY SMT DEF CodePoints
<1>2. \A unit \in {1, 64, 4096} : Continuation(unit) \in High
  BY <1>1, SMT DEF High
<1>3. High \subseteq Byte
  BY DEF Byte, High
<1> HIDE DEF Continuation
<1>4. \A a, b, c, d \in High :
         /\ <<a, b>> \in Seq(High) /\ Len(<<a, b>>) = 2 /\ <<a, b>>[1] = a
         /\ <<a, b, c>> \in Seq(High) /\ Len(<<a, b, c>>) = 3 /\ <<a, b, c>>[1] = a
         /\ <<a, b, c, d>> \in Seq(High) /\ Len(<<a, b, c, d>>) = 4 /\ <<a, b, c, d>>[1] = a
  OBVIOUS
<1>5. CASE cp < 128
  <2>1. EncodeUtf8(cp) = <<cp>> /\ cp \in Byte
    BY <1>1, <1>5, SMT DEF EncodeUtf8, Byte
  <2> QED
    BY <1>1, <1>5, <2>1, SMT
<1>6. CASE cp >= 128 /\ cp < 2048
  <2> DEFINE a == 192 + cp \div 64
             b == Continuation(1)
  <2>1. EncodeUtf8(cp) = <<a, b>>
    BY <1>1, <1>6, SMT DEF EncodeUtf8, Continuation
  <2>2. a \in High /\ a >= 194
    BY <1>1, <1>6, SMT DEF High
  <2>3. b \in High
    BY <1>2
  <2> HIDE DEF a, b
  <2>4. EncodeUtf8(cp) \in Seq(High) /\ Len(EncodeUtf8(cp)) = 2 /\ EncodeUtf8(cp)[1] = a
    BY <1>4, <2>1, <2>2, <2>3
  <2> QED
    BY <1>1, <1>3, <1>6, <2>2, <2>4, WiderSeq
<1>7. CASE cp >= 2048 /\ cp < 65536
  <2> DEFINE a == 224 + cp \div 4096
             b == Continuation(64)
             c == Continuation(1)
  <2>1. EncodeUtf8(cp) = <<a, b, c>>
    BY <1>1, <1>7, SMT DEF EncodeUtf8, Continuation
  <2>2. a \in High /\ a >= 194
    BY <1>1, <1>7, SMT DEF High
  <2>3. b \in High /\ c \in High
    BY <1>2
  <2> HIDE DEF a, b, c
  <2>4. EncodeUtf8(cp) \in Seq(High) /\ Len(EncodeUtf8(cp)) = 3 /\ EncodeUtf8(cp)[1] = a
    BY <1>4, <2>1, <2>2, <2>3
  <2> QED
    BY <1>1, <1>3, <1>7, <2>2, <2>4, WiderSeq
<1>8. CASE cp >= 65536
  <2> DEFINE a == 240 + cp \div 262144
             b == Continuation(4096)
             c == Continuation(64)
             d == Continuation(1)
  <2>1. EncodeUtf8(cp) = <<a, b, c, d>>
    BY <1>1, <1>8, SMT DEF EncodeUtf8, Continuation
  <2>2. a \in High /\ a >= 194
    BY <1>1, <1>8, SMT DEF High
  <2>3. b \in High /\ c \in High /\ d \in High
    BY <1>2
  <2> HIDE DEF a, b, c, d
  <2>4. EncodeUtf8(cp) \in Seq(High) /\ Len(EncodeUtf8(cp)) = 4 /\ EncodeUtf8(cp)[1] = a
    BY <1>4, <2>1, <2>2, <2>3
  <2> QED
    BY <1>1, <1>3, <1>8, <2>2, <2>4, WiderSeq
<1> QED
  BY <1>1, <1>5, <1>6, <1>7, <1>8, SMT

\* What EncodeUtf8 writes, DecodeUtf8 reads, whatever follows it.
LEMMA Decoded ==
    ASSUME NEW cp \in CodePoints, NEW rest \in Seq(Byte)
    PROVE  LET n == Len(EncodeUtf8(cp))
               p == EncodeUtf8(cp) \o rest
           IN  DecodedLength(p) = n /\ CodePoint(p, n) = cp
<1> DEFINE e == EncodeUtf8(cp)
           n == Len(e)
           p == e \o rest
<1>1. cp \in Int /\ 0 <= cp /\ cp < 1114112
  BY SMT DEF CodePoints
<1>2. e \in Seq(Byte) /\ n \in 1 .. 4
  BY Encoded
<1>3. /\ Len(p) >= n /\ n \in Nat /\ Len(p) \in Nat
      /\ \A k \in 1 .. n : p[k] = e[k]
  <2> HIDE DEF e
  <2>1. /\ Len(p) = n + Len(rest) /\ Len(rest) \in Nat /\ n \in Nat
        /\ \A k \in 1 .. n + Len(rest) : p[k] = IF k <= n THEN e[k] ELSE rest[k - n]
    BY <1>2, ConcatProperties, LenProperties
  <2> QED
    BY <2>1
<1>4. ASSUME Announced(p[1]) = n, \A k \in 2 .. n : e[k] \in Nat /\ 128 <= e[k] /\ e[k] < 192
      PROVE  DecodedLength(p) = n
  <2>1. p[1] = e[1] /\ n <= Len(p) /\ \A k \in 2 .. n : p[k] = e[k]
    BY <1>2, <1>3
  <2> HIDE DEF e, p
  <2>2. ASSUME NEW k \in 2 .. n PROVE p[k] \in 128 .. 191
    <3>1. p[k] \in Nat /\ 128 <= p[k] /\ p[k] < 192
      BY <1>4, <2>1, <2>2
    <3>2. \A b \in Nat : 128 <= b /\ b < 192 => b \in 128 .. 191
      OBVIOUS
    <3> QED
      BY ONLY <3>1, <3>2, Zenon
  <2> QED
    BY <1>2, <1>4, <2>1, <2>2 DEF DecodedLength
<1> DEFINE Right == DecodedLength(p) = n /\ CodePoint(p, n) = cp
<1> SUFFICES Right
  OBVIOUS
<1> HIDE DEF p
<1>5. ASSUME cp < 128 PROVE Right
  <2>1. e = <<cp>> /\ n = 1
    BY <1>1, <1>5, SMT DEF EncodeUtf8
  <2>2. p[1] = cp
    BY <1>3, <2>1
  <2>3. Announced(p[1]) = 1
    BY <1>5, <2>2 DEF Announced
  <2> QED
    BY <1>4, <2>1, <2>2, <2>3 DEF CodePoint
<1>6. ASSUME cp >= 128 /\ cp < 2048 PROVE Right
  <2>1. e = <<192 + cp \div 64, 128 + ((cp \div 1) % 64)>> /\ n = 2
    BY <1>1, <1>6, SMT DEF EncodeUtf8
  <2>2. p[1] = 192 + cp \div 64 /\ p[2] = 128 + (cp % 64)
    <3>1. cp \div 1 = cp
      BY <1>1, SMT
    <3> QED
      BY <1>3, <2>1, <3>1
  <2> DEFINE q == cp \div 64
             r == cp % 64
  <2>3. q \in 2 .. 31 /\ r \in 0 .. 63 /\ cp = 64 * q + r
    BY <1>1, <1>6, SMT
  <2>4. p[1] = 192 + q /\ p[2] = 128 + r /\ e[2] = 128 + r
    BY <1>3, <2>1, <2>2
  <2> HIDE DEF q, r
  <2>5. (192 + q) % 32 = q /\ (128 + r) % 64 = r
    BY <2>3, SMT
  <2>6. Announced(p[1]) = 2
    BY <2>3, <2>4 DEF Announced
  <2>7. CodePoint(p, 2) = cp
    BY <2>3, <2>4, <2>5, SMT DEF CodePoint
  <2>8. \A k \in 2 .. n : e[k] \in Nat /\ 128 <= e[k] /\ e[k] < 192
    BY <2>1, <2>3, <2>4, SMT
  <2> QED
    BY <1>4, <2>1, <2>6, <2>7, <2>8
<1>7. ASSUME cp >= 2048 /\ cp < 65536 PROVE Right
  <2>1. e = <<224 + cp \div 4096, 128 + ((cp \div 64) % 64), 128 + ((cp \div 1) % 64)>> /\ n = 3
    BY <1>1, <1>7, SMT DEF EncodeUtf8
  <2>2. p[1] = e[1] /\ p[2] = e[2] /\ p[3] = e[3] /\ cp \div 1 = cp
    BY <1>1, <1>3, <2>1, SMT
  <2> DEFINE h == cp \div 64
             q == cp \div 4096
             m == h % 64
             r == cp % 64
  <2>3. /\ h \in Nat /\ q \in 0 .. 15 /\ m \in 0 .. 63 /\ r \in 0 .. 63
        /\ cp = 64 * h + r
    BY <1>1, <1>7, SMT
  <2>4. h = 64 * q + m
    BY <1>1, SMT
  <2>5. e[1] = 224 + q /\ e[2] = 128 + m /\ e[3] = 128 + r
    BY <2>1, <2>2
  <2> HIDE DEF h, q, m, r
  <2>6. (224 + q) % 16 = q /\ (128 + m) % 64 = m /\ (128 + r) % 64 = r
    BY <2>3, SMT
  <2>7. Announced(p[1]) = 3
    BY <2>2, <2>3, <2>5 DEF Announced
  <2>8. CodePoint(p, 3) = 4096 * q + 64 * m + r
    BY <2>2, <2>5, <2>6, SMT DEF CodePoint
  <2>9. 4096 * q + 64 * m + r = cp
    BY <2>1, <2>3, <2>4, SMT
  <2>10. \A k \in 2 .. n : e[k] \in Nat /\ 128 <= e[k] /\ e[k] < 192
    BY <2>1, <2>3, <2>5, SMT
  <2> QED
    BY <1>4, <2>1, <2>7, <2>8, <2>9, <2>10
<1>8. ASSUME cp >= 65536 PROVE Right
  <2>1. /\ e = <<240 + cp \div 262144, 128 + ((cp \div 4096) % 64), 128 + ((cp \div 64) % 64),
                 128 + ((cp \div 1) % 64)>>
        /\ n = 4
    BY <1>1, <1>8, SMT DEF EncodeUtf8
  <2>2. p[1] = e[1] /\ p[2] = e[2] /\ p[3] = e[3] /\ p[4] = e[4] /\ cp \div 1 = cp
    BY <1>1, <1>3, <2>1, SMT
  <2> DEFINE h == cp \div 64
             g == cp \div 4096
             q == cp \div 262144
             l == g % 64
             m == h % 64
             r == cp % 64
  <2>3. /\ h \in Nat /\ g \in Nat /\ q \in 0 .. 4
        /\ l \in 0 .. 63 /\ m \in 0 .. 63 /\ r \in 0 .. 63
        /\ cp = 64 * h + r
    BY <1>1, <1>8, SMT
  <2>4. h = 64 * g + m
    BY <1>1, SMT
  <2>11. g = 64 * q + l
    BY <1>1, SMT
  <2>5. e[1] = 240 + q /\ e[2] = 128 + l /\ e[3] = 128 + m /\ e[4] = 128 + r
    BY <2>1, <2>2
  <2> HIDE DEF h, g, q, l, m, r
  <2>6. (240 + q) % 8 = q /\ (128 + l) % 64 = l /\ (128 + m) % 64 = m /\ (128 + r) % 64 = r
    BY <2>3, SMT
  <2>7. Announced(p[1]) = 4
    BY <2>2, <2>3, <2>5 DEF Announced
  <2>8. CodePoint(p, 4) = 262144 * q + 4096 * l + 64 * m + r
    BY <2>2, <2>5, <2>6, SMT DEF CodePoint
  <2>9. 262144 * q + 4096 * l + 64 * m + r = cp
    BY <2>3, <2>4, <2>11, SMT
  <2>10. \A k \in 2 .. n : e[k] \in Nat /\ 128 <= e[k] /\ e[k] < 192
    BY <2>1, <2>3, <2>5, SMT
  <2> QED
    BY <1>4, <2>1, <2>7, <2>8, <2>9, <2>10
<1> HIDE DEF Right
<1> QED
  BY <1>1, <1>5, <1>6, <1>7, <1>8, SMT

Encoding(A) == [l \in A |-> EncodeUtf8(l)]

LEMMA FirstAndRest ==
    ASSUME NEW T, NEW s \in Seq(T), s # << >>
    PROVE  \E x \in T : \E r \in Seq(T) : s = <<x>> \o r /\ Len(r) + 1 = Len(s)
<1>1. Len(s) \in Nat /\ Len(s) # 0
  BY LenProperties, EmptySeq
<1>2. Len(s) \in 1 .. Len(s) /\ 1 \in 1 .. Len(s)
  BY <1>1
<1>3. SubSeq(s, 1, Len(s)) = <<s[1]>> \o SubSeq(s, 1 + 1, Len(s)) /\ SubSeq(s, 1, Len(s)) = s
  BY <1>2, SubSeqRecursiveFirst, SubSeqFull
<1>4. Tail(s) = SubSeq(s, 2, Len(s)) /\ Tail(s) \in Seq(T) /\ Len(Tail(s)) = Len(s) - 1
  BY TailIsSubSeq, HeadTailProperties
<1>5. s = <<s[1]>> \o Tail(s) /\ Len(Tail(s)) + 1 = Len(s) /\ s[1] \in T
  BY <1>1, <1>2, <1>3, <1>4, ElementOfSeq
<1> QED
  BY <1>4, <1>5

\* What two sequences put together begin and end with.
LEMMA BothParts ==
    ASSUME NEW T, NEW s \in Seq(T), NEW t \in Seq(T)
    PROVE  /\ SubSeq(s \o t, 1, Len(s)) = s
           /\ SubSeq(s \o t, Len(s) + 1, Len(s \o t)) = t
<1> DEFINE u == s \o t
           m == Len(s)
           n == Len(t)
<1>1. /\ m \in Nat /\ n \in Nat /\ u \in Seq(T) /\ Len(u) = m + n
      /\ \A k \in 1 .. m + n : u[k] = IF k <= m THEN s[k] ELSE t[k - m]
      /\ \A k \in 1 .. m + n : u[k] \in T
  <2>1. u \in Seq(T) /\ Len(u) = m + n
    BY ConcatProperties
  <2>2. \A k \in 1 .. m + n : u[k] \in T
    BY <2>1, ElementOfSeq
  <2> QED
    BY <2>1, <2>2, ConcatProperties, LenProperties
<1>0. s \in Seq(T) /\ t \in Seq(T) /\ m = Len(s) /\ n = Len(t)
  OBVIOUS
<1> HIDE DEF u, m, n
<1>2. SubSeq(u, 1, m) = s
  <2> DEFINE v == SubSeq(u, 1, m)
  <2>1. 1 \in Int /\ m \in Int /\ \A k \in 1 .. m : u[k] \in T /\ u[k] = s[k]
    BY <1>1
  <2>2. v \in Seq(T) /\ Len(v) = (IF 1 <= m THEN m - 1 + 1 ELSE 0)
        /\ \A k \in 1 .. m - 1 + 1 : v[k] = u[1 + k - 1]
    BY <2>1, SubSeqProperties
  <2> HIDE DEF v
  <2>3. Len(v) = m /\ \A k \in 1 .. m : v[k] = s[k]
    BY <1>1, <2>1, <2>2
  <2>4. v = s
    BY <1>0, <2>2, <2>3, SeqEqual
  <2> QED
    BY <2>4 DEF v
<1>3. SubSeq(u, m + 1, m + n) = t
  <2> DEFINE v == SubSeq(u, m + 1, m + n)
  <2>1. /\ m + 1 \in Int /\ m + n \in Int /\ \A k \in m + 1 .. m + n : u[k] \in T
        /\ \A k \in 1 .. n : u[m + k] = t[k]
    <3>1. ASSUME NEW k \in 1 .. n PROVE u[m + k] = t[k]
      <4>1. m + k \in 1 .. m + n /\ ~(m + k <= m) /\ (m + k) - m = k
        BY <1>1
      <4> QED
        BY <1>1, <4>1
    <3> QED
      BY <1>1, <3>1
  <2>2. v \in Seq(T) /\ Len(v) = (IF m + 1 <= m + n THEN (m + n) - (m + 1) + 1 ELSE 0)
        /\ \A k \in 1 .. (m + n) - (m + 1) + 1 : v[k] = u[(m + 1) + k - 1]
    BY <2>1, SubSeqProperties
  <2> HIDE DEF v
  <2>3. Len(v) = n /\ \A k \in 1 .. n : v[k] = t[k]
    <3>1. (m + n) - (m + 1) + 1 = n /\ (IF m + 1 <= m + n THEN (m + n) - (m + 1) + 1 ELSE 0) = n
      BY <1>1
    <3>2. ASSUME NEW k \in 1 .. n PROVE v[k] = t[k]
      <4>1. (m + 1) + k - 1 = m + k
        BY <1>1
      <4> QED
        BY <2>1, <2>2, <3>1, <4>1
    <3> QED
      BY <2>2, <3>1, <3>2
  <2>4. v = t
    BY <1>0, <2>2, <2>3, SeqEqual
  <2> QED
    BY <2>4 DEF v
<1> QED
  BY <1>1, <1>2, <1>3 DEF u, m, n

LEMMA Utf8Concat ==
    ASSUME NEW A, NEW B, Encoding(A) \in [A -> Seq(B)], NEW s \in Seq(A), NEW t \in Seq(A)
    PROVE  Utf8(s) \in Seq(B) /\ Utf8(s \o t) = Utf8(s) \o Utf8(t)
<1> DEFINE parts(x) == [n \in DOMAIN x |-> EncodeUtf8(x[n])]
<1>0. \A l \in A : EncodeUtf8(l) \in Seq(B)
  <2>1. \A l \in A : Encoding(A)[l] = EncodeUtf8(l)
    BY DEF Encoding
  <2>2. \A l \in A : Encoding(A)[l] \in Seq(B)
    OBVIOUS
  <2> QED
    BY ONLY <2>1, <2>2
<1>1. ASSUME NEW x \in Seq(A)
      PROVE  /\ parts(x) \in Seq(Seq(B)) /\ Len(parts(x)) = Len(x)
             /\ \A n \in 1 .. Len(x) : parts(x)[n] = EncodeUtf8(x[n])
  <2>1. Len(x) \in Nat /\ DOMAIN x = 1 .. Len(x) /\ \A n \in 1 .. Len(x) : x[n] \in A
    BY LenProperties, ElementOfSeq
  <2>2. parts(x) \in [1 .. Len(x) -> Seq(B)] /\ \A n \in 1 .. Len(x) : parts(x)[n] = EncodeUtf8(x[n])
    BY <1>0, <2>1
  <2> HIDE DEF parts
  <2> QED
    BY <2>1, <2>2, FunctionIsSeq
<1>2. s \o t \in Seq(A) /\ Len(s \o t) = Len(s) + Len(t) /\ Len(s) \in Nat /\ Len(t) \in Nat
      /\ \A k \in 1 .. Len(s) + Len(t) : (s \o t)[k] = IF k <= Len(s) THEN s[k] ELSE t[k - Len(s)]
  BY ConcatProperties, LenProperties
<1>3. \A x : Utf8(x) = FlattenSeq(parts(x))
  BY DEF Utf8
<1> HIDE DEF parts
<1>4. parts(s \o t) = parts(s) \o parts(t)
  <2> DEFINE p == parts(s)
             q == parts(t)
             r == parts(s \o t)
             m == Len(s)
             n == Len(t)
  <2>1. /\ p \in Seq(Seq(B)) /\ Len(p) = m /\ q \in Seq(Seq(B)) /\ Len(q) = n
        /\ r \in Seq(Seq(B)) /\ Len(r) = m + n
        /\ \A k \in 1 .. m + n : r[k] = EncodeUtf8((s \o t)[k])
        /\ \A k \in 1 .. m : p[k] = EncodeUtf8(s[k])
        /\ \A k \in 1 .. n : q[k] = EncodeUtf8(t[k])
    BY <1>1, <1>2
  <2>2. m \in Nat /\ n \in Nat
        /\ \A k \in 1 .. m + n : (s \o t)[k] = IF k <= m THEN s[k] ELSE t[k - m]
    BY <1>2
  <2> HIDE DEF p, q, r, m, n
  <2>3. /\ p \o q \in Seq(Seq(B)) /\ Len(p \o q) = m + n
        /\ \A k \in 1 .. m + n : (p \o q)[k] = IF k <= m THEN p[k] ELSE q[k - m]
    BY <2>1, ConcatProperties
  <2>4. ASSUME NEW k \in 1 .. m + n PROVE r[k] = (p \o q)[k]
    <3>1. CASE k <= m
      <4>1. k \in 1 .. m
        BY <2>2, <3>1
      <4>2. (s \o t)[k] = s[k]
        BY <2>2, <3>1
      <4>3. r[k] = EncodeUtf8(s[k])
        BY <2>1, <4>2
      <4>4. (p \o q)[k] = p[k]
        BY <2>3, <3>1
      <4> QED
        BY <2>1, <4>1, <4>3, <4>4
    <3>2. CASE ~(k <= m)
      <4>1. k - m \in 1 .. n
        BY <2>2, <3>2
      <4>2. (s \o t)[k] = t[k - m]
        BY <2>2, <3>2
      <4>3. r[k] = EncodeUtf8(t[k - m])
        BY <2>1, <4>2
      <4>4. (p \o q)[k] = q[k - m]
        BY <2>3, <3>2
      <4> QED
        BY <2>1, <4>1, <4>3, <4>4
    <3> QED
      BY <3>1, <3>2
  <2>5. r = p \o q
    BY <2>1, <2>3, <2>4, SeqEqual
  <2> QED
    BY <2>5 DEF p, q, r
<1>5. << >> \in Seq(B)
  BY EmptySeq
<1>6. FlattenSeq(parts(s)) \in Seq(B)
  BY <1>1, <1>5, FlattenAppend
<1>7. FlattenSeq(parts(s) \o parts(t)) = FlattenSeq(parts(s)) \o FlattenSeq(parts(t))
  BY <1>1, FlattenConcat
<1> QED
  BY <1>3, <1>4, <1>6, <1>7

LEMMA Utf8One ==
    ASSUME NEW cp \in CodePoints
    PROVE  Utf8(<<cp>>) = EncodeUtf8(cp) /\ Utf8(<< >>) = << >>
<1> DEFINE e == EncodeUtf8(cp)
<1>1. e \in Seq(Byte)
  BY Encoded
<1>2. /\ [n \in DOMAIN <<cp>> |-> EncodeUtf8(<<cp>>[n])] = <<e>>
      /\ [n \in DOMAIN << >> |-> EncodeUtf8(<< >>[n])] = << >>
  <2>1. DOMAIN <<cp>> = 1 .. 1 /\ <<cp>>[1] = cp /\ DOMAIN << >> = {}
    BY EmptySeq
  <2>2. \A n \in 1 .. 1 : n = 1
    OBVIOUS
  <2>3. DOMAIN <<e>> = 1 .. 1 /\ <<e>>[1] = e
    OBVIOUS
  <2>4. [n \in DOMAIN <<cp>> |-> EncodeUtf8(<<cp>>[n])] = <<e>>
    BY <2>1, <2>2, <2>3
  <2>5. [n \in DOMAIN << >> |-> EncodeUtf8(<< >>[n])] = << >>
    BY <2>1
  <2> QED
    BY <2>4, <2>5
<1>3. Utf8(<<cp>>) = FlattenSeq(<<e>>) /\ Utf8(<< >>) = FlattenSeq(<< >>)
  BY <1>2 DEF Utf8
<1> HIDE DEF e
<1>4. FlattenSeq(<< >>) = << >>
  BY DEF FlattenSeq
<1>5. << >> \in Seq(Seq(Byte)) /\ << >> \in Seq(Byte) /\ Append(<< >>, e) = <<e>>
  BY <1>1, EmptySeq
<1>6. FlattenSeq(Append(<< >>, e)) = FlattenSeq(<< >>) \o e
  BY <1>1, <1>5, FlattenAppend
<1>7. << >> \o e = e
  BY <1>1, ConcatEmptySeq
<1> QED
  BY <1>3, <1>4, <1>5, <1>6, <1>7 DEF e

LEMMA InBytesOne ==
    ASSUME NEW x \in Letter
    PROVE  /\ x \in CodePoints /\ Utf8(<<x>>) = EncodeUtf8(x)
           /\ EncodeUtf8(x) \in Seq(Byte) /\ Len(EncodeUtf8(x)) \in 1 .. 4
           /\ Len(EncodeUtf8(x)) \in Nat /\ 1 <= Len(EncodeUtf8(x))
<1>1. x \in CodePoints
  BY GivenAssumption DEF Letter
<1>2. \A n \in 1 .. 4 : n \in Nat /\ 1 <= n
  OBVIOUS
<1> QED
  BY <1>1, <1>2, Utf8One, Encoded

LEMMA InBytesParts ==
    ASSUME NEW s \in Seq(Letter), NEW t \in Seq(Letter)
    PROVE  /\ Utf8(s) \in Seq(Byte) /\ Utf8(s \o t) = Utf8(s) \o Utf8(t)
           /\ s = << >> <=> Utf8(s) = << >>
<1>1. Encoding(Letter) \in [Letter -> Seq(Byte)]
  BY InBytesOne DEF Encoding
<1>2. \A a, b \in Seq(Letter) : Utf8(a) \in Seq(Byte) /\ Utf8(a \o b) = Utf8(a) \o Utf8(b)
  BY <1>1, Utf8Concat
<1>3. ASSUME s # << >> PROVE Utf8(s) # << >>
  <2>1. PICK x \in Letter : \E r \in Seq(Letter) : s = <<x>> \o r
    BY <1>3, FirstAndRest
  <2>2. PICK r \in Seq(Letter) : s = <<x>> \o r
    BY <2>1
  <2> DEFINE e == EncodeUtf8(x)
             w == Utf8(r)
  <2>3. <<x>> \in Seq(Letter) /\ Utf8(<<x>>) = e /\ e \in Seq(Byte) /\ Len(e) \in 1 .. 4
    BY InBytesOne
  <2>4. Utf8(s) = e \o w /\ w \in Seq(Byte)
    BY <1>2, <2>2, <2>3
  <2> HIDE DEF e, w
  <2>5. Len(e) # 0
    <3>1. \A n \in 1 .. 4 : n # 0
      OBVIOUS
    <3> QED
      BY ONLY <2>3, <3>1
  <2>6. e # << >>
    BY <2>3, <2>5, EmptySeq
  <2> QED
    BY <2>3, <2>4, <2>6, ConcatEqualIffEmpty
<1>4. Utf8(<< >>) = << >>
  <2>1. 0 \in CodePoints
    BY SMT DEF CodePoints
  <2> QED
    BY <2>1, Utf8One
<1> QED
  BY <1>2, <1>3, <1>4

\* No two texts are the same bytes.
LEMMA Utf8Injective ==
    ASSUME NEW s \in Seq(Letter), NEW t \in Seq(Letter), Utf8(s) = Utf8(t)
    PROVE  s = t
<1> DEFINE Same(a) == \A b \in Seq(Letter) : Utf8(a) = Utf8(b) => a = b
           G == {n \in Nat : \A a \in Seq(Letter) : Len(a) = n => Same(a)}
<1>1. 0 \in G
  <2>1. ASSUME NEW a \in Seq(Letter), Len(a) = 0 PROVE Same(a)
    <3>1. a = << >>
      BY <2>1, EmptySeq
    <3> QED
      BY <3>1, InBytesParts
  <2> QED
    BY <2>1
<1>2. ASSUME NEW n \in Nat, n \in G PROVE n + 1 \in G
  <2>1. ASSUME NEW a \in Seq(Letter), Len(a) = n + 1,
               NEW b \in Seq(Letter), Utf8(a) = Utf8(b)
        PROVE  a = b
    <3>1. a # << >> /\ b # << >>
      <4>1. Len(a) # 0
        BY <2>1
      <4>2. a # << >>
        BY <4>1, EmptySeq
      <4> QED
        BY <2>1, <4>2, InBytesParts
    <3>2. PICK x \in Letter : \E r \in Seq(Letter) : a = <<x>> \o r /\ Len(r) + 1 = Len(a)
      BY <3>1, FirstAndRest
    <3>3. PICK r \in Seq(Letter) : a = <<x>> \o r /\ Len(r) + 1 = Len(a)
      BY <3>2
    <3>4. PICK y \in Letter : \E q \in Seq(Letter) : b = <<y>> \o q
      BY <3>1, FirstAndRest
    <3>5. PICK q \in Seq(Letter) : b = <<y>> \o q
      BY <3>4
    <3>6. /\ x \in CodePoints /\ Utf8(a) = EncodeUtf8(x) \o Utf8(r) /\ Utf8(r) \in Seq(Byte)
          /\ y \in CodePoints /\ Utf8(b) = EncodeUtf8(y) \o Utf8(q) /\ Utf8(q) \in Seq(Byte)
          /\ EncodeUtf8(x) \in Seq(Byte)
      <4>1. <<x>> \in Seq(Letter) /\ <<y>> \in Seq(Letter)
        OBVIOUS
      <4>2. /\ Utf8(<<x>>) = EncodeUtf8(x) /\ x \in CodePoints /\ EncodeUtf8(x) \in Seq(Byte)
            /\ Utf8(<<y>>) = EncodeUtf8(y) /\ y \in CodePoints
        BY InBytesOne
      <4>3. Utf8(<<x>> \o r) = Utf8(<<x>>) \o Utf8(r) /\ Utf8(r) \in Seq(Byte)
        BY <4>1, InBytesParts
      <4>4. Utf8(<<y>> \o q) = Utf8(<<y>>) \o Utf8(q) /\ Utf8(q) \in Seq(Byte)
        BY <4>1, InBytesParts
      <4> QED
        BY ONLY <3>3, <3>5, <4>2, <4>3, <4>4
    <3>7. x = y
      <4> DEFINE p == Utf8(a)
      <4>1. /\ DecodedLength(p) = Len(EncodeUtf8(x)) /\ CodePoint(p, Len(EncodeUtf8(x))) = x
        BY <3>6, Decoded
      <4>2. /\ DecodedLength(p) = Len(EncodeUtf8(y)) /\ CodePoint(p, Len(EncodeUtf8(y))) = y
        <5>1. p = EncodeUtf8(y) \o Utf8(q)
          BY <2>1, <3>6
        <5> HIDE DEF p
        <5> QED
          BY <3>6, <5>1, Decoded
      <4> QED
        BY <4>1, <4>2
    <3>8. Utf8(r) = Utf8(q)
      BY <2>1, <3>6, <3>7, ConcatSimplifications
    <3>9. r = q
      <4>1. Len(r) \in Nat
        BY LenProperties
      <4>2. Len(r) = n
        BY <2>1, <3>3, <4>1
      <4> QED
        BY <1>2, <3>8, <4>2
    <3> QED
      BY <3>3, <3>5, <3>7, <3>9
  <2> QED
    BY <2>1
<1> HIDE DEF G
<1>3. Len(s) \in G
  BY <1>1, <1>2, FromZero, LenProperties
<1> QED
  BY <1>3 DEF G

-----------------------------------------------------------------------------
(***************************************************************************)
(* Tokens and their bag.                                                   *)
(***************************************************************************)
BagOf(s) == [k \in ToSet(s) |-> Cardinality({n \in DOMAIN s : s[n] = k})]
PlacesOf(s, k) == {n \in DOMAIN s : s[n] = k}

LEMMA BagOfMore ==
    ASSUME NEW T, NEW s \in Seq(T), NEW x \in T
    PROVE  BagOf(Append(s, x)) = Counts!BagAdd(BagOf(s), x)
<1> DEFINE a == Append(s, x)
           N == Len(s)
<1>1. N \in Nat /\ DOMAIN s = 1 .. N
  BY LenProperties
<1>2. /\ DOMAIN a = 1 .. N + 1 /\ a[N + 1] = x
      /\ \A n \in 1 .. N : a[n] = s[n]
  <2>1. a \in Seq(T) /\ Len(a) = N + 1
    BY AppendProperties
  <2>2. DOMAIN a = 1 .. N + 1
    BY <2>1, LenProperties
  <2> QED
    BY <2>2, AppendProperties
<1> HIDE DEF a
<1>3. /\ 1 .. N + 1 = 1 .. N \union {N + 1} /\ N + 1 \notin 1 .. N /\ N + 1 \in 1 .. N + 1
      /\ IsFiniteSet(1 .. N)
  BY <1>1, SizeOfInterval
<1> HIDE DEF N
<1>4. /\ PlacesOf(a, x) = PlacesOf(s, x) \union {N + 1} /\ N + 1 \notin PlacesOf(s, x)
      /\ \A k : k # x => PlacesOf(a, k) = PlacesOf(s, k)
  BY <1>1, <1>2, <1>3 DEF PlacesOf
<1>5. ToSet(a) = ToSet(s) \union {x}
  BY <1>1, <1>2, <1>3 DEF ToSet
<1>6. IsFiniteSet(PlacesOf(s, x)) /\ Cardinality(PlacesOf(s, x)) \in Nat
  <2>1. PlacesOf(s, x) \in SUBSET (1 .. N)
    BY <1>1 DEF PlacesOf
  <2>2. IsFiniteSet(PlacesOf(s, x))
    BY ONLY <1>3, <2>1, FS_Subset
  <2> QED
    BY ONLY <2>2, FS_CardinalityType
<1>7. Cardinality(PlacesOf(a, x)) = Cardinality(PlacesOf(s, x)) + 1
  <2>1. Cardinality(PlacesOf(s, x) \union {N + 1}) = Cardinality(PlacesOf(s, x)) + 1
    BY ONLY <1>4, <1>6, FS_AddElement
  <2> QED
    BY <1>4, <2>1
<1>8. x \notin ToSet(s) => Cardinality(PlacesOf(s, x)) = 0
  <2>1. x \notin ToSet(s) => PlacesOf(s, x) = {}
    BY DEF ToSet, PlacesOf
  <2> QED
    BY <2>1, FS_EmptySet
<1>9. \A u : BagOf(u) = [k \in ToSet(u) |-> Cardinality(PlacesOf(u, k))]
  BY DEF BagOf, PlacesOf
<1>10. BagOf(a) = [k \in ToSet(s) \union {x} |->
                     IF k = x THEN Cardinality(PlacesOf(s, x)) + 1 ELSE Cardinality(PlacesOf(s, k))]
  BY <1>4, <1>5, <1>7, <1>9
<1>11. /\ DOMAIN BagOf(s) = ToSet(s)
       /\ \A k \in ToSet(s) : BagOf(s)[k] = Cardinality(PlacesOf(s, k))
  BY <1>9
<1>12. CASE x \in ToSet(s)
  <2>1. Counts!BagAdd(BagOf(s), x) =
          [k \in ToSet(s) |-> IF k = x THEN Cardinality(PlacesOf(s, x)) + 1 ELSE Cardinality(PlacesOf(s, k))]
    BY <1>11, <1>12 DEF Counts!BagAdd
  <2>2. ToSet(s) \union {x} = ToSet(s)
    BY <1>12
  <2> QED
    BY <1>10, <2>1, <2>2 DEF a
<1>13. CASE x \notin ToSet(s)
  <2>1. Counts!BagAdd(BagOf(s), x) =
          [k \in ToSet(s) \union {x} |-> IF k = x THEN 1 ELSE Cardinality(PlacesOf(s, k))]
    BY <1>11, <1>13 DEF Counts!BagAdd
  <2>2. Cardinality(PlacesOf(s, x)) + 1 = 1
    BY <1>8, <1>13
  <2> QED
    BY <1>10, <2>1, <2>2 DEF a
<1> QED
  BY <1>12, <1>13

LEMMA BagOfNothing == BagOf(<< >>) = EmptyBag
<1>1. ToSet(<< >>) = {}
  BY EmptySeq DEF ToSet
<1> QED
  BY <1>1 DEF BagOf, EmptyBag, SetToBag

NormalizedWord(w) == InLetters!Normalized(w)
Short(w) == InLetters!Size(w) <= MaxWordLength

\* The tokens of some words, and the keys under which they are counted.
TokensOf(words) ==
    InOrder([n \in {m \in DOMAIN words : Short(words[m])} |-> NormalizedWord(words[n])],
            Len(words))
KeptOf(words) == OnlyFrom(TokensOf(words), Seq(Letter) \ StopKeys)
KeysOf(words) == [n \in DOMAIN KeptOf(words) |-> Utf8(KeptOf(words)[n])]

LEMMA LoweredWord ==
    ASSUME LowersAsTheCode, NEW w \in Seq(Letter)
    PROVE  /\ InLetters!Lowered(w) \in Seq(Letter) /\ Len(InLetters!Lowered(w)) = Len(w)
           /\ \A n \in 1 .. Len(w) : InLetters!Lowered(w)[n] = ToLowerCodepoint(w[n])
<1> DEFINE low == [n \in DOMAIN w |-> Lower[w[n]]]
<1>1. InLetters!Lowered(w) = low
  BY DEF InLetters!Lowered
<1>2. Len(w) \in Nat /\ DOMAIN w = 1 .. Len(w) /\ \A n \in 1 .. Len(w) : w[n] \in Letter
  BY LenProperties, ElementOfSeq
<1>3. /\ low \in [1 .. Len(w) -> Letter]
      /\ \A n \in 1 .. Len(w) : low[n] = ToLowerCodepoint(w[n])
  BY <1>2 DEF LowersAsTheCode
<1> HIDE DEF low
<1> QED
  BY <1>1, <1>2, <1>3, FunctionIsSeq

LEMMA NormalizedIsWord ==
    ASSUME LowersAsTheCode, StemsLetters, NEW w \in Seq(Letter)
    PROVE  /\ NormalizedWord(w) \in Seq(Letter)
           /\ w # << >> => NormalizedWord(w) # << >>
<1> DEFINE low == InLetters!Lowered(w)
<1>1. low \in Seq(Letter) /\ Len(low) = Len(w)
  BY LoweredWord
<1>2. w # << >> => low # << >>
  BY <1>1, EmptySeq
<1>3. NormalizedWord(w) = IF Stem(low) = << >> THEN low ELSE Stem(low)
  BY DEF NormalizedWord, InLetters!Normalized
<1> HIDE DEF low
<1>4. Stem(low) \in Seq(Letter)
  BY <1>1 DEF StemsLetters, StemsAs
<1> QED
  BY <1>1, <1>2, <1>3, <1>4

LEMMA TokensOfMore ==
    ASSUME LowersAsTheCode, StemsLetters,
           NEW words \in Seq(Seq(Letter)), NEW w \in Seq(Letter)
    PROVE  /\ TokensOf(words) \in Seq(Seq(Letter))
           /\ TokensOf(Append(words, w)) =
                 IF Short(w) THEN Append(TokensOf(words), NormalizedWord(w)) ELSE TokensOf(words)
<1> DEFINE longer == Append(words, w)
           N == Len(words)
           value(s) == [n \in {m \in DOMAIN s : Short(s[m])} |-> NormalizedWord(s[n])]
<1>1. N \in Nat /\ DOMAIN words = 1 .. N /\ \A n \in 1 .. N : words[n] \in Seq(Letter)
  BY LenProperties, ElementOfSeq
<1>2. /\ Len(longer) = N + 1 /\ DOMAIN longer = 1 .. N + 1 /\ longer[N + 1] = w
      /\ \A n \in 1 .. N : longer[n] = words[n]
  <2>1. longer \in Seq(Seq(Letter)) /\ Len(longer) = N + 1
    BY AppendProperties
  <2>2. DOMAIN longer = 1 .. N + 1
    BY <2>1, LenProperties
  <2> QED
    BY <2>1, <2>2, AppendProperties
<1> HIDE DEF longer, N
<1>3. \A n \in 1 .. N : n \in 1 .. N + 1
  BY <1>1
<1>4. N + 1 \in 1 .. N + 1
  BY <1>1
<1>5. /\ DOMAIN value(words) = {m \in 1 .. N : Short(words[m])}
      /\ \A n \in DOMAIN value(words) : value(words)[n] = NormalizedWord(words[n])
      /\ DOMAIN value(longer) = {m \in 1 .. N + 1 : Short(longer[m])}
      /\ \A n \in DOMAIN value(longer) : value(longer)[n] = NormalizedWord(longer[n])
  BY <1>1, <1>2
<1>6. TokensOf(words) = InOrder(value(words), N) /\ TokensOf(longer) = InOrder(value(longer), N + 1)
  BY <1>2 DEF TokensOf, N
<1> HIDE DEF value
<1>7. \A n \in 1 .. N : /\ n \in DOMAIN value(words) <=> n \in DOMAIN value(longer)
                        /\ n \in DOMAIN value(words) => value(words)[n] = value(longer)[n]
  BY <1>2, <1>3, <1>5
<1>8. InOrder(value(words), N) = InOrder(value(longer), N)
  BY <1>1, <1>7, InOrderAgrees
<1>9. InOrder(value(longer), N + 1) = IF N + 1 \in DOMAIN value(longer)
                                      THEN Append(InOrder(value(longer), N), value(longer)[N + 1])
                                      ELSE InOrder(value(longer), N)
  BY <1>1, InOrderNext
<1>10. /\ N + 1 \in DOMAIN value(longer) <=> Short(w)
       /\ Short(w) => value(longer)[N + 1] = NormalizedWord(w)
  BY <1>2, <1>4, <1>5
<1>11. InOrder(value(words), N) \in Seq(Seq(Letter))
  <2>1. DOMAIN value(words) \subseteq 1 .. N
    BY <1>5
  <2>2. \A n \in DOMAIN value(words) : value(words)[n] \in Seq(Letter)
    BY <1>1, <1>5, NormalizedIsWord
  <2> QED
    BY <1>1, <2>1, <2>2, InOrderLists
<1> QED
  BY <1>6, <1>8, <1>9, <1>10, <1>11 DEF longer

LEMMA TokensOfNothing == TokensOf(<< >>) = << >>
<1> DEFINE value == [n \in {m \in DOMAIN << >> : Short(<< >>[m])} |-> NormalizedWord(<< >>[n])]
<1>1. TokensOf(<< >>) = InOrder(value, 0)
  BY EmptySeq DEF TokensOf
<1> HIDE DEF value
<1> QED
  BY <1>1, InOrderNext

\* The keys of some words and of one more.
LEMMA KeysOfMore ==
    ASSUME LowersAsTheCode, StemsLetters,
           NEW words \in Seq(Seq(Letter)), NEW w \in Seq(Letter)
    PROVE  /\ KeysOf(words) \in Seq(Seq(Byte))
           /\ KeysOf(Append(words, w)) =
                 IF Short(w) /\ NormalizedWord(w) \notin StopKeys
                 THEN Append(KeysOf(words), Utf8(NormalizedWord(w))) ELSE KeysOf(words)
<1> DEFINE S == Seq(Letter) \ StopKeys
           u == NormalizedWord(w)
           Bytes(s) == [n \in DOMAIN s |-> Utf8(s[n])]
<1>1. /\ TokensOf(words) \in Seq(Seq(Letter)) /\ u \in Seq(Letter)
      /\ TokensOf(Append(words, w)) = IF Short(w) THEN Append(TokensOf(words), u) ELSE TokensOf(words)
  BY TokensOfMore, NormalizedIsWord
<1> HIDE DEF u
<1>2. /\ \A s : KeptOf(s) = OnlyFrom(TokensOf(s), S) /\ KeysOf(s) = Bytes(KeptOf(s))
      /\ u \in S <=> u \notin StopKeys
  BY <1>1 DEF KeptOf, KeysOf
<1> HIDE DEF S
<1>3. OnlyFrom(TokensOf(words), S) \in Seq(Seq(Letter))
  <2>1. OnlyFrom(TokensOf(words), S) \in Seq(Seq(Letter) \cap S)
    BY <1>1, OnlyFromIsList
  <2> QED
    BY <2>1, WiderSeq
<1>4. OnlyFrom(Append(TokensOf(words), u), S) =
         IF u \in S THEN Append(OnlyFrom(TokensOf(words), S), u) ELSE OnlyFrom(TokensOf(words), S)
  BY <1>1, OnlyFromNext
<1>5. ASSUME NEW s \in Seq(Seq(Letter))
      PROVE  /\ Bytes(s) \in Seq(Seq(Byte)) /\ Bytes(Append(s, u)) = Append(Bytes(s), Utf8(u))
  <2>1. Len(s) \in Nat /\ DOMAIN s = 1 .. Len(s) /\ \A n \in 1 .. Len(s) : s[n] \in Seq(Letter)
    BY LenProperties, ElementOfSeq
  <2>2. \A n \in 1 .. Len(s) : Utf8(s[n]) \in Seq(Byte)
    BY <2>1, InBytesParts
  <2>3. Bytes(s) \in [1 .. Len(s) -> Seq(Byte)]
    BY <2>1, <2>2
  <2>4. Bytes(s) \in Seq(Seq(Byte)) /\ Len(Bytes(s)) = Len(s)
    BY <2>1, <2>3, FunctionIsSeq
  <2>5. Append(s, u) = [n \in 1 .. Len(s) + 1 |-> IF n = Len(s) + 1 THEN u ELSE s[n]]
    BY AppendIsFunction
  <2>6. \A n \in 1 .. Len(s) + 1 : n # Len(s) + 1 => n \in 1 .. Len(s)
    BY <2>1
  <2>7. Append(Bytes(s), Utf8(u)) =
           [n \in 1 .. Len(s) + 1 |-> IF n = Len(s) + 1 THEN Utf8(u) ELSE Bytes(s)[n]]
    <3> HIDE DEF Bytes
    <3> QED
      BY <2>4, AppendIsFunction
  <2>8. \A n \in 1 .. Len(s) : Bytes(s)[n] = Utf8(s[n])
    BY <2>1
  <2>9. Bytes(Append(s, u)) =
           [n \in 1 .. Len(s) + 1 |-> IF n = Len(s) + 1 THEN Utf8(u) ELSE Bytes(s)[n]]
    BY <2>5, <2>6, <2>8
  <2> QED
    BY <2>4, <2>7, <2>9
<1> HIDE DEF Bytes
<1> QED
  BY <1>1, <1>2, <1>3, <1>4, <1>5 DEF u

LEMMA KeysOfNothing == KeysOf(<< >>) = << >>
<1>1. KeptOf(<< >>) = << >>
  BY TokensOfNothing, OnlyFromNothing DEF KeptOf
<1> QED
  BY <1>1, EmptySeq DEF KeysOf

\* The size of a word in bytes.
LEMMA SizeInBytes ==
    ASSUME NEW w \in Seq(Letter)
    PROVE  InLetters!Size(w) = Len(Utf8(w))
<1> DEFINE Width == [l \in DOMAIN Lower |-> Len(EncodeUtf8(l))]
           widths(s) == [n \in DOMAIN s |-> Width[s[n]]]
           G == {k \in Nat : k <= Len(w) =>
                    SumFunction(widths(SubSeq(w, 1, k))) = Len(Utf8(SubSeq(w, 1, k)))}
<1>1. \A s : InLetters!Size(s) = SumFunction(widths(s))
  <2>1. \A g : InLetters!SumFunction(g) = SumFunction(g)
    BY DEF SumFunction, InLetters!SumFunction, SumFunctionOnSet, InLetters!SumFunctionOnSet,
           FoldFunctionOnSet, InLetters!FoldFunctionOnSet, MapThenFoldSet, InLetters!MapThenFoldSet
  <2> QED
    BY <2>1 DEF InLetters!Size
<1>2. \A l \in Letter : Width[l] = Len(EncodeUtf8(l)) /\ Width[l] \in Nat
  <2>1. \A l \in Letter : Len(EncodeUtf8(l)) \in Nat
    BY InBytesOne
  <2> QED
    BY <2>1 DEF Letter
<1> HIDE DEF Width
<1>3. ASSUME NEW s \in Seq(Letter), NEW x \in Letter
      PROVE  SumFunction(widths(Append(s, x))) = SumFunction(widths(s)) + Len(EncodeUtf8(x))
  <2> DEFINE a == Append(s, x)
             N == Len(s)
             g == widths(a)
  <2>1. N \in Nat /\ DOMAIN s = 1 .. N /\ \A n \in 1 .. N : s[n] \in Letter
    BY LenProperties, ElementOfSeq
  <2>2. /\ DOMAIN a = 1 .. N + 1 /\ a[N + 1] = x
        /\ \A n \in 1 .. N : a[n] = s[n]
    <3>1. a \in Seq(Letter) /\ Len(a) = N + 1
      BY AppendProperties
    <3>2. DOMAIN a = 1 .. N + 1
      BY <3>1, LenProperties
    <3> QED
      BY <3>2, AppendProperties
  <2> HIDE DEF a, N
  <2>3. /\ 1 .. N + 1 = 1 .. N \union {N + 1} /\ N + 1 \notin 1 .. N /\ N + 1 \in 1 .. N + 1
        /\ (1 .. N + 1) \ {N + 1} = 1 .. N
    BY <2>1
  <2>4. \A n \in 1 .. N + 1 : a[n] \in Letter
    BY <2>1, <2>2, <2>3
  <2>5. DOMAIN g = 1 .. N + 1 /\ \A n \in 1 .. N + 1 : g[n] = Width[a[n]] /\ g[n] \in Int
    BY <1>2, <2>2, <2>4
  <2>6. g[N + 1] = Len(EncodeUtf8(x))
    BY <1>2, <2>2, <2>3, <2>5
  <2>7. [n \in DOMAIN g \ {N + 1} |-> g[n]] = widths(s)
    BY <2>1, <2>2, <2>3, <2>5
  <2> HIDE DEF g, widths
  <2>8. IsFiniteSet(DOMAIN g)
    BY <2>1, <2>5, SizeOfInterval
  <2>9. SumFunction(g) = g[N + 1] + SumFunction(widths(s))
    <3>1. SumFunction(g) = g[N + 1] + SumFunction([n \in DOMAIN g \ {N + 1} |-> g[n]])
      BY ONLY <2>3, <2>5, <2>8, SumTakes
    <3> QED
      BY <2>7, <3>1
  <2>10. SumFunction(widths(s)) \in Int
    <3>1. /\ DOMAIN widths(s) = 1 .. N /\ \A n \in 1 .. N : widths(s)[n] \in Int
      BY <1>2, <2>1 DEF widths
    <3> QED
      BY <2>1, <3>1, SizeOfInterval, SumIsInt
  <2>11. Len(EncodeUtf8(x)) \in Int
    BY <1>2
  <2> QED
    BY <2>6, <2>9, <2>10, <2>11 DEF g, a
<1>4. /\ Len(w) \in Nat /\ SubSeq(w, 1, 0) = << >> /\ SubSeq(w, 1, Len(w)) = w
      /\ \A k \in Nat : k + 1 <= Len(w) =>
            /\ SubSeq(w, 1, k) \in Seq(Letter) /\ w[k + 1] \in Letter
            /\ SubSeq(w, 1, k + 1) = Append(SubSeq(w, 1, k), w[k + 1])
  <2>1. Len(w) \in Nat
    BY LenProperties
  <2>2. \A k \in Nat : k + 1 <= Len(w) => k <= Len(w)
    BY <2>1
  <2> QED
    BY <2>1, <2>2, PrefixByPrefix
<1>5. 0 \in G
  <2>1. DOMAIN widths(<< >>) = {}
    BY EmptySeq
  <2> HIDE DEF widths
  <2>2. SumFunction(widths(<< >>)) = 0
    BY <2>1, SumOfNothing
  <2>3. Len(Utf8(<< >>)) = 0
    BY InBytesParts, EmptySeq
  <2> QED
    BY <1>4, <2>2, <2>3
<1> HIDE DEF widths
<1>6. ASSUME NEW k \in Nat, k \in G PROVE k + 1 \in G
  <2>1. ASSUME k + 1 <= Len(w)
        PROVE  SumFunction(widths(SubSeq(w, 1, k + 1))) = Len(Utf8(SubSeq(w, 1, k + 1)))
    <3> DEFINE s == SubSeq(w, 1, k)
               x == w[k + 1]
    <3>1. s \in Seq(Letter) /\ x \in Letter /\ SubSeq(w, 1, k + 1) = Append(s, x)
      BY <1>4, <2>1
    <3>2. SumFunction(widths(s)) = Len(Utf8(s))
      <4>1. k <= Len(w)
        BY <1>4, <2>1
      <4> QED
        BY <1>6, <4>1
    <3> HIDE DEF s, x
    <3>3. Append(s, x) = s \o <<x>> /\ <<x>> \in Seq(Letter)
      BY <3>1, AppendIsConcat
    <3>4. Utf8(Append(s, x)) = Utf8(s) \o EncodeUtf8(x) /\ Utf8(s) \in Seq(Byte)
          /\ EncodeUtf8(x) \in Seq(Byte)
      <4>1. Utf8(<<x>>) = EncodeUtf8(x) /\ EncodeUtf8(x) \in Seq(Byte)
        BY <3>1, InBytesOne
      <4>2. Utf8(s \o <<x>>) = Utf8(s) \o Utf8(<<x>>) /\ Utf8(s) \in Seq(Byte)
        BY <3>1, <3>3, InBytesParts
      <4> QED
        BY <3>3, <4>1, <4>2
    <3>5. Len(Utf8(Append(s, x))) = Len(Utf8(s)) + Len(EncodeUtf8(x))
      BY <3>4, ConcatProperties
    <3> QED
      BY <1>3, <3>1, <3>2, <3>5
  <2> QED
    BY <2>1
<1> HIDE DEF G
<1>7. Len(w) \in G
  BY <1>4, <1>5, <1>6, FromZero
<1>8. SumFunction(widths(SubSeq(w, 1, Len(w)))) = Len(Utf8(SubSeq(w, 1, Len(w))))
  BY <1>4, <1>7 DEF G
<1> QED
  BY <1>1, <1>4, <1>8

-----------------------------------------------------------------------------
(***************************************************************************)
(* Spaces and blanks in bytes.                                             *)
(***************************************************************************)
LEMMA BytesOfLetter ==
    ASSUME NEW x \in Letter
    PROVE  /\ x \in Nat /\ Len(EncodeUtf8(x)) \in Nat /\ 1 <= Len(EncodeUtf8(x))
           /\ x < 128 => EncodeUtf8(x) = <<x>> /\ x \in Byte
           /\ ~(x < 128) => EncodeUtf8(x) \in Seq(High) /\ EncodeUtf8(x)[1] >= 194
<1>1. x \in CodePoints
  BY InBytesOne
<1>2. x \in Nat
  BY <1>1 DEF CodePoints
<1>3. x < 128 => x \in Byte
  BY <1>2 DEF Byte
<1>4. ~(x < 128) <=> x >= 128
  BY <1>2
<1> QED
  BY <1>1, <1>2, <1>3, <1>4, Encoded, InBytesOne

\* Bytes of letters that are no ASCII are no spaces.
LEMMA HighIsSolid ==
    /\ High \subseteq Byte /\ 32 \notin High
    /\ \A b \in High : b \notin Spaces /\ b # 35
BY DEF High, Byte, Spaces

LEMMA SpaceBytes ==
    ASSUME NEW a \in Seq(Letter \cap Spaces)
    PROVE  Utf8(a) \in Seq(Byte \cap Spaces)
<1> DEFINE A == Letter \cap Spaces
           B == Byte \cap Spaces
<1>1. ASSUME NEW x \in A PROVE EncodeUtf8(x) \in Seq(B)
  <2>1. x \in Letter /\ x \in Spaces
    OBVIOUS
  <2>2. x < 128
    BY <2>1 DEF Spaces
  <2>3. EncodeUtf8(x) = <<x>> /\ x \in B
    BY <2>1, <2>2, BytesOfLetter
  <2> HIDE DEF B
  <2> QED
    BY <2>3
<1>2. Encoding(A) \in [A -> Seq(B)]
  BY <1>1 DEF Encoding
<1> HIDE DEF A, B
<1>3. a \in Seq(A)
  BY DEF A
<1>4. Utf8(a) \in Seq(B)
  BY <1>2, <1>3, Utf8Concat
<1> QED
  BY <1>4 DEF B

LEMMA NoBlankBytes ==
    ASSUME NEW a \in Seq(Letter \ {32})
    PROVE  Utf8(a) \in Seq(Byte \ {32})
<1> DEFINE A == Letter \ {32}
           B == Byte \ {32}
<1>1. ASSUME NEW x \in A PROVE EncodeUtf8(x) \in Seq(B)
  <2>1. x \in Letter /\ x # 32
    OBVIOUS
  <2>2. CASE x < 128
    <3>1. EncodeUtf8(x) = <<x>> /\ x \in B
      BY <2>1, <2>2, BytesOfLetter
    <3> HIDE DEF B
    <3> QED
      BY <3>1
  <2>3. CASE ~(x < 128)
    <3>1. EncodeUtf8(x) \in Seq(High)
      BY <2>1, <2>3, BytesOfLetter
    <3>2. High \subseteq B
      BY HighIsSolid
    <3> HIDE DEF B
    <3> QED
      BY <3>1, <3>2, WiderSeq
  <2> QED
    BY <2>2, <2>3
<1>2. Encoding(A) \in [A -> Seq(B)]
  BY <1>1 DEF Encoding
<1> HIDE DEF A, B
<1>3. a \in Seq(A)
  BY DEF A
<1>4. Utf8(a) \in Seq(B)
  BY <1>2, <1>3, Utf8Concat
<1> QED
  BY <1>4 DEF B

LEMMA FirstByte ==
    ASSUME NEW m \in Seq(Letter), m # << >>
    PROVE  /\ m[1] \in Letter /\ Utf8(m)[1] = EncodeUtf8(m[1])[1]
           /\ Utf8(m) \in Seq(Byte) /\ Utf8(m) # << >>
<1>1. PICK x \in Letter : \E r \in Seq(Letter) : m = <<x>> \o r /\ Len(r) + 1 = Len(m)
  BY FirstAndRest
<1>2. PICK r \in Seq(Letter) : m = <<x>> \o r
  BY <1>1
<1> DEFINE e == EncodeUtf8(x)
           w == Utf8(r)
<1>3. <<x>> \in Seq(Letter) /\ Utf8(<<x>>) = e /\ e \in Seq(Byte)
      /\ Len(e) \in Nat /\ 1 <= Len(e)
  BY InBytesOne
<1>4. Utf8(m) = e \o w /\ w \in Seq(Byte) /\ Utf8(m) \in Seq(Byte) /\ Utf8(m) # << >>
  <2>1. Utf8(<<x>> \o r) = Utf8(<<x>>) \o Utf8(r) /\ Utf8(r) \in Seq(Byte)
    BY <1>3, InBytesParts
  <2>2. Utf8(m) \in Seq(Byte) /\ Utf8(m) # << >>
    BY InBytesParts
  <2> QED
    BY <1>2, <1>3, <2>1, <2>2
<1> HIDE DEF e, w
<1>5. m[1] = x
  <2>1. <<x>> \in Seq(Letter) /\ Len(<<x>>) = 1 /\ <<x>>[1] = x
    OBVIOUS
  <2>2. \A k \in 1 .. 1 + Len(r) : (<<x>> \o r)[k] = IF k <= 1 THEN <<x>>[k] ELSE r[k - 1]
    BY <2>1, ConcatProperties
  <2>3. 1 \in 1 .. 1 + Len(r)
    <3>1. Len(r) \in Nat
      BY LenProperties
    <3> QED
      BY ONLY <3>1
  <2> QED
    BY <1>2, <2>1, <2>2, <2>3
<1>6. (e \o w)[1] = e[1]
  <2>1. \A k \in 1 .. Len(e) + Len(w) : (e \o w)[k] = IF k <= Len(e) THEN e[k] ELSE w[k - Len(e)]
    BY <1>3, <1>4, ConcatProperties
  <2>2. 1 \in 1 .. Len(e) + Len(w) /\ 1 <= Len(e)
    <3>1. Len(w) \in Nat
      BY <1>4, LenProperties
    <3> QED
      BY ONLY <1>3, <3>1
  <2> QED
    BY <2>1, <2>2
<1> QED
  BY <1>4, <1>5, <1>6 DEF e

LEMMA LastByte ==
    ASSUME NEW m \in Seq(Letter), m # << >>
    PROVE  LET u == Utf8(m)
               e == EncodeUtf8(m[Len(m)])
           IN  m[Len(m)] \in Letter /\ u[Len(u)] = e[Len(e)]
<1>1. PICK r \in Seq(Letter), x \in Letter : m = Append(r, x)
  BY SequenceEmptyOrAppend
<1> DEFINE e == EncodeUtf8(x)
           w == Utf8(r)
<1>2. <<x>> \in Seq(Letter) /\ Utf8(<<x>>) = e /\ e \in Seq(Byte)
      /\ Len(e) \in Nat /\ 1 <= Len(e)
  BY InBytesOne
<1>3. Utf8(m) = w \o e /\ w \in Seq(Byte)
  <2>1. m = r \o <<x>>
    BY <1>1, AppendIsConcat
  <2> QED
    BY <1>2, <2>1, InBytesParts
<1>4. m[Len(m)] = x
  <2>1. Len(m) = Len(r) + 1 /\ m[Len(r) + 1] = x
    BY <1>1, AppendProperties
  <2> QED
    BY <2>1
<1> HIDE DEF e, w
<1>5. Len(w \o e) = Len(w) + Len(e) /\ (w \o e)[Len(w) + Len(e)] = e[Len(e)]
  <2>1. /\ Len(w \o e) = Len(w) + Len(e)
        /\ \A k \in 1 .. Len(w) + Len(e) : (w \o e)[k] = IF k <= Len(w) THEN w[k] ELSE e[k - Len(w)]
    BY <1>2, <1>3, ConcatProperties
  <2> DEFINE k == Len(w) + Len(e)
  <2>2. k \in 1 .. Len(w) + Len(e) /\ ~(k <= Len(w)) /\ k - Len(w) = Len(e)
    <3>1. Len(w) \in Nat
      BY <1>3, LenProperties
    <3> QED
      BY ONLY <1>2, <3>1
  <2> QED
    BY <2>1, <2>2
<1> QED
  BY <1>3, <1>4, <1>5 DEF e

\* A letter that is no space begins and ends with bytes that are none.
LEMMA SolidBytes ==
    ASSUME NEW x \in Letter
    PROVE  LET e == EncodeUtf8(x)
           IN  /\ x \notin Spaces => e[1] \notin Spaces /\ e[Len(e)] \notin Spaces
               /\ e[1] = 35 <=> x = 35
<1> DEFINE e == EncodeUtf8(x)
<1>1. CASE x < 128
  <2>1. e = <<x>>
    BY <1>1, BytesOfLetter
  <2> HIDE DEF e
  <2>2. e[1] = x /\ e[Len(e)] = x
    BY <2>1
  <2> QED
    BY <2>2 DEF e
<1>2. CASE ~(x < 128)
  <2>1. e \in Seq(High) /\ Len(e) \in Nat /\ 1 <= Len(e)
    BY <1>2, BytesOfLetter
  <2> HIDE DEF e
  <2>2. e[1] \in High /\ e[Len(e)] \in High
    <3>1. 1 \in 1 .. Len(e) /\ Len(e) \in 1 .. Len(e)
      BY ONLY <2>1
    <3> QED
      BY <2>1, <3>1, ElementOfSeq
  <2>3. x # 35
    BY <1>2
  <2> QED
    BY <2>2, <2>3, HighIsSolid DEF e
<1> QED
  BY <1>1, <1>2

LEMMA TrimmedOfSpaces ==
    ASSUME NEW T, NEW line \in Seq(T \cap Spaces)
    PROVE  Trimmed(line) = << >>
<1>1. DOMAIN line = 1 .. Len(line) /\ \A k \in 1 .. Len(line) : line[k] \in Spaces
  <2> DEFINE A == T \cap Spaces
  <2>1. \A k \in 1 .. Len(line) : line[k] \in A
    <3> HIDE DEF A
    <3>1. line \in Seq(A)
      BY DEF A
    <3> QED
      BY <3>1, ElementOfSeq
  <2> QED
    BY <2>1, LenProperties
<1> QED
  BY <1>1 DEF Trimmed

LEMMA TrimmedOfParts ==
    ASSUME NEW T, NEW a \in Seq(T \cap Spaces), NEW m \in Seq(T), NEW b \in Seq(T \cap Spaces),
           m # << >>, m[1] \notin Spaces, m[Len(m)] \notin Spaces
    PROVE  Trimmed(a \o (m \o b)) = m
<1> DEFINE A == Len(a)
           M == Len(m)
           B == Len(b)
           tail == m \o b
           line == a \o tail
           solid == {k \in DOMAIN line : line[k] \notin Spaces}
<1>1. /\ a \in Seq(T) /\ b \in Seq(T) /\ A \in Nat /\ M \in Nat /\ M # 0 /\ B \in Nat
      /\ \A k \in 1 .. A : a[k] \in Spaces
      /\ \A k \in 1 .. B : b[k] \in Spaces
  <2>0. T \cap Spaces \subseteq T
    OBVIOUS
  <2> DEFINE S == T \cap Spaces
  <2>1. a \in Seq(S) /\ b \in Seq(S) /\ S \subseteq T /\ S \subseteq Spaces
    OBVIOUS
  <2> HIDE DEF S
  <2>2. a \in Seq(T) /\ b \in Seq(T)
    BY <2>1, WiderSeq
  <2>3. (\A k \in 1 .. A : a[k] \in S) /\ (\A k \in 1 .. B : b[k] \in S)
    BY <2>1, ElementOfSeq
  <2>4. A \in Nat /\ M \in Nat /\ M # 0 /\ B \in Nat
    BY <2>2, LenProperties, EmptySeq
  <2> QED
    BY <2>1, <2>2, <2>3, <2>4
<1>2. /\ tail \in Seq(T) /\ Len(tail) = M + B
      /\ \A k \in 1 .. M + B : tail[k] = IF k <= M THEN m[k] ELSE b[k - M]
  BY <1>1, ConcatProperties
<1>3. /\ line \in Seq(T) /\ Len(line) = A + (M + B)
      /\ \A k \in 1 .. A + (M + B) : line[k] = IF k <= A THEN a[k] ELSE tail[k - A]
  <2> HIDE DEF tail
  <2>1. /\ line \in Seq(T) /\ Len(line) = Len(a) + Len(tail)
        /\ \A k \in 1 .. Len(a) + Len(tail) : line[k] = IF k <= Len(a) THEN a[k] ELSE tail[k - Len(a)]
    <3>1. a \in Seq(T) /\ tail \in Seq(T)
      BY <1>1, <1>2
    <3> QED
      BY ONLY <3>1, ConcatProperties
  <2> QED
    BY <1>2, <2>1
<1>4. DOMAIN line = 1 .. A + (M + B)
  BY <1>3, LenProperties
<1>5. SubSeq(tail, 1, M) = m
  BY <1>1, BothParts
<1>6. SubSeq(line, A + 1, A + (M + B)) = tail
  <2> HIDE DEF tail
  <2> QED
    BY <1>1, <1>2, <1>3, BothParts
<1>0. m[1] \notin Spaces /\ m[M] \notin Spaces
  OBVIOUS
<1> HIDE DEF A, M, B, tail, line
<1>7. line[A + 1] \notin Spaces /\ A + 1 \in 1 .. A + (M + B)
  <2>1. /\ A + 1 \in 1 .. A + (M + B) /\ ~(A + 1 <= A) /\ (A + 1) - A = 1
        /\ 1 \in 1 .. M + B /\ 1 <= M
    BY ONLY <1>1
  <2> QED
    BY <1>0, <1>2, <1>3, <2>1
<1>8. line[A + M] \notin Spaces /\ A + M \in 1 .. A + (M + B)
  <2>1. /\ A + M \in 1 .. A + (M + B) /\ ~(A + M <= A) /\ (A + M) - A = M
        /\ M \in 1 .. M + B /\ M <= M
    BY ONLY <1>1
  <2> QED
    BY <1>0, <1>2, <1>3, <2>1
<1>9. ASSUME NEW k \in 1 .. A + (M + B), line[k] \notin Spaces
      PROVE  A + 1 <= k /\ k <= A + M
  <2>1. CASE k <= A
    <3>1. k \in 1 .. A
      BY ONLY <1>1, <1>9, <2>1
    <3> QED
      BY <1>1, <1>3, <1>9, <2>1, <3>1
  <2>2. CASE k > A + M
    <3> DEFINE j == k - A
               l == j - M
    <3>1. /\ ~(k <= A) /\ j \in 1 .. M + B /\ ~(j <= M) /\ l \in 1 .. B
      BY ONLY <1>1, <1>9, <2>2
    <3>2. line[k] = tail[j]
      BY <1>3, <1>9, <3>1
    <3>3. tail[j] = b[l]
      <4> HIDE DEF j
      <4> QED
        BY <1>2, <3>1
    <3> HIDE DEF l
    <3> QED
      BY <1>1, <1>9, <3>1, <3>2, <3>3
  <2>3. k \in Int /\ A \in Int /\ M \in Int
    BY <1>1
  <2> QED
    BY <2>1, <2>2, <2>3
<1>10. /\ solid \subseteq Nat /\ solid \subseteq 0 .. A + (M + B)
       /\ A + 1 \in solid /\ A + M \in solid
       /\ A + (M + B) \in Nat
  BY <1>1, <1>4, <1>7, <1>8
<1>11. \A k \in solid : A + 1 <= k /\ k <= A + M
  BY <1>4, <1>9
<1>12. Trimmed(line) = IF solid = {} THEN << >> ELSE SubSeq(line, Min(solid), Max(solid))
  BY DEF Trimmed
<1> HIDE DEF solid
<1>13. Min(solid) \in solid /\ (\A k \in solid : Min(solid) <= k)
       /\ Max(solid) \in solid /\ (\A k \in solid : Max(solid) >= k)
  BY <1>10, SmallestExists, LargestExists
<1>14. Min(solid) = A + 1 /\ Max(solid) = A + M
  <2> DEFINE lo == Min(solid)
             hi == Max(solid)
  <2>1. /\ lo \in Nat /\ hi \in Nat /\ lo <= A + 1 /\ hi >= A + M
        /\ A + 1 <= lo /\ hi <= A + M
    BY <1>10, <1>11, <1>13
  <2> HIDE DEF lo, hi
  <2>2. lo = A + 1 /\ hi = A + M
    BY ONLY <1>1, <2>1
  <2> QED
    BY <2>2 DEF lo, hi
<1>15. SubSeq(line, A + 1, A + M) = m
  <2>1. A + 1 \in A + 1 .. A + (M + B) /\ A + M \in A + 1 .. A + (M + B)
        /\ (A + 1) - A = 1 /\ (A + M) - A = M
    BY ONLY <1>1
  <2>2. line = a \o tail /\ A = Len(a) /\ Len(tail) = M + B /\ tail \in Seq(T)
    BY <1>2 DEF line, A
  <2>3. SubSeq(a \o tail, A + 1, A + M) = SubSeq(tail, (A + 1) - A, (A + M) - A)
    BY <1>1, <2>1, <2>2, SubSeqOfConcat2
  <2> QED
    BY <1>5, <2>1, <2>2, <2>3
<1> QED
  BY <1>10, <1>12, <1>14, <1>15 DEF line, tail

LEMMA TrimmedSplits ==
    ASSUME NEW T, NEW line \in Seq(T)
    PROVE  \/ line \in Seq(T \cap Spaces)
           \/ \E a, b \in Seq(T \cap Spaces) : \E m \in Seq(T) :
                 /\ line = a \o (m \o b) /\ m # << >>
                 /\ m[1] \notin Spaces /\ m[Len(m)] \notin Spaces
<1> DEFINE S == T \cap Spaces
           N == Len(line)
           solid == {k \in 1 .. N : line[k] \notin Spaces}
<1>1. N \in Nat /\ DOMAIN line = 1 .. N /\ line \in [1 .. N -> T] /\ \A k \in 1 .. N : line[k] \in T
  BY LenProperties, ElementOfSeq
<1>2. CASE solid = {}
  <2>1. \A k \in 1 .. N : line[k] \in S
    BY <1>1, <1>2
  <2> HIDE DEF S, N
  <2>2. line \in [1 .. N -> S]
    BY <1>1, <2>1
  <2>3. line \in Seq(S)
    BY <1>1, <2>2, FunctionIsSeq
  <2> QED
    BY <2>3 DEF S
<1>3. CASE solid # {}
  <2> DEFINE lo == Min(solid)
             hi == Max(solid)
             a == SubSeq(line, 1, lo - 1)
             m == SubSeq(line, lo, hi)
             b == SubSeq(line, hi + 1, N)
  <2>1. solid \subseteq Nat /\ solid \subseteq 0 .. N
    BY <1>1
  <2>2. /\ lo \in solid /\ hi \in solid
        /\ \A k \in solid : lo <= k /\ k <= hi
    <3> HIDE DEF solid
    <3> QED
      BY <1>1, <1>3, <2>1, SmallestExists, LargestExists
  <2>3. lo \in 1 .. N /\ hi \in 1 .. N /\ lo <= hi /\ line[lo] \notin Spaces /\ line[hi] \notin Spaces
    BY <2>2
  <2>4. \A k \in 1 .. N : k < lo \/ hi < k => line[k] \in S
    <3>1. ASSUME NEW k \in 1 .. N, k < lo \/ hi < k PROVE k \notin solid
      BY <1>1, <2>2, <2>3, <3>1
    <3> QED
      BY <1>1, <3>1
  <2> HIDE DEF N, solid, lo, hi, S
  <2>5. /\ lo \in 1 .. N + 1 /\ lo - 1 \in 1 - 1 .. N /\ N \in lo - 1 .. N
        /\ 1 \in 1 .. N + 1 /\ hi \in lo - 1 .. N /\ N \in hi .. N
        /\ lo \in Int /\ hi \in Int /\ N \in Int /\ (lo - 1) + 1 = lo
        /\ lo - 1 \in Int /\ hi + 1 \in Int
    BY ONLY <1>1, <2>3
  <2>6. a \o SubSeq(line, lo, N) = line /\ m \o b = SubSeq(line, lo, N)
    <3>1. SubSeq(line, 1, lo - 1) \o SubSeq(line, (lo - 1) + 1, N) = SubSeq(line, 1, N)
      BY <2>5, ConcatAdjacentSubSeq DEF N
    <3>2. SubSeq(line, lo, hi) \o SubSeq(line, hi + 1, N) = SubSeq(line, lo, N)
      BY <2>5, ConcatAdjacentSubSeq DEF N
    <3>3. SubSeq(line, 1, N) = line
      BY SubSeqFull DEF N
    <3> QED
      BY <2>5, <3>1, <3>2, <3>3
  <2>7. a \in Seq(S)
    <3>1. \A k \in 1 .. lo - 1 : line[k] \in S
      <4>1. \A k \in 1 .. lo - 1 : k \in 1 .. N /\ k < lo
        BY ONLY <1>1, <2>3
      <4> QED
        BY <2>4, <4>1
    <3> QED
      BY <2>5, <3>1, SubSeqProperties
  <2>8. b \in Seq(S)
    <3>1. \A k \in hi + 1 .. N : line[k] \in S
      <4>1. \A k \in hi + 1 .. N : k \in 1 .. N /\ hi < k
        BY ONLY <1>1, <2>3
      <4> QED
        BY <2>4, <4>1
    <3> QED
      BY <2>5, <3>1, SubSeqProperties
  <2>9. m \in Seq(T) /\ Len(m) = hi - lo + 1 /\ \A k \in 1 .. hi - lo + 1 : m[k] = line[lo + k - 1]
    <3>1. \A k \in lo .. hi : line[k] \in T
      <4>1. \A k \in lo .. hi : k \in 1 .. N
        BY ONLY <1>1, <2>3
      <4> QED
        BY <1>1, <4>1
    <3> QED
      BY <2>3, <2>5, <3>1, SubSeqProperties
  <2> HIDE DEF a, m, b
  <2>10. m # << >> /\ m[1] = line[lo] /\ m[Len(m)] = line[hi]
    <3> DEFINE n == Len(m)
    <3>1. n = hi - lo + 1
      BY <2>9
    <3> HIDE DEF n
    <3>2. /\ 1 \in 1 .. hi - lo + 1 /\ n \in 1 .. hi - lo + 1 /\ n # 0
          /\ lo + 1 - 1 = lo /\ lo + n - 1 = hi
      BY ONLY <2>3, <3>1
    <3>3. m[1] = line[lo] /\ m[n] = line[hi]
      BY <2>9, <3>2
    <3> QED
      BY <3>2, <3>3, EmptySeq DEF n
  <2>11. line = a \o (m \o b)
    BY <2>6
  <2>12. \E p, q \in Seq(S) : \E r \in Seq(T) :
            /\ line = p \o (r \o q) /\ r # << >>
            /\ r[1] \notin Spaces /\ r[Len(r)] \notin Spaces
    BY <2>3, <2>7, <2>8, <2>9, <2>10, <2>11
  <2> QED
    BY <2>12 DEF S
<1> QED
  BY <1>2, <1>3

\* A line trimmed in bytes is the line trimmed in letters.
LEMMA TrimmedInBytes ==
    ASSUME NEW line \in Seq(Letter)
    PROVE  /\ Trimmed(line) \in Seq(Letter) /\ Trimmed(Utf8(line)) = Utf8(Trimmed(line))
           /\ IsStopWord(Utf8(line)) <=> IsStopWord(line)
<1>1. CASE line \in Seq(Letter \cap Spaces)
  <2>1. Trimmed(line) = << >>
    BY <1>1, TrimmedOfSpaces
  <2>2. Utf8(line) \in Seq(Byte \cap Spaces)
    BY <1>1, SpaceBytes
  <2>3. Trimmed(Utf8(line)) = << >>
    BY <2>2, TrimmedOfSpaces
  <2>4. Utf8(<< >>) = << >> /\ << >> \in Seq(Letter)
    BY InBytesParts, EmptySeq
  <2> QED
    BY <2>1, <2>3, <2>4 DEF IsStopWord
<1>2. ASSUME NEW a \in Seq(Letter \cap Spaces), NEW b \in Seq(Letter \cap Spaces),
             NEW m \in Seq(Letter), line = a \o (m \o b), m # << >>,
             m[1] \notin Spaces, m[Len(m)] \notin Spaces
      PROVE  /\ Trimmed(line) \in Seq(Letter) /\ Trimmed(Utf8(line)) = Utf8(Trimmed(line))
             /\ IsStopWord(Utf8(line)) <=> IsStopWord(line)
  <2>1. Trimmed(line) = m
    BY <1>2, TrimmedOfParts
  <2>2. a \in Seq(Letter) /\ b \in Seq(Letter) /\ m \o b \in Seq(Letter)
    <3>1. Letter \cap Spaces \subseteq Letter
      OBVIOUS
    <3>2. a \in Seq(Letter) /\ b \in Seq(Letter)
      BY <3>1, WiderSeq
    <3> QED
      BY <3>2, ConcatProperties
  <2> DEFINE p == Utf8(a)
             q == Utf8(b)
             u == Utf8(m)
  <2>3. Utf8(line) = p \o (u \o q)
    <3>1. Utf8(a \o (m \o b)) = p \o Utf8(m \o b)
      BY <2>2, InBytesParts
    <3>2. Utf8(m \o b) = u \o q
      BY <2>2, InBytesParts
    <3> QED
      BY <1>2, <3>1, <3>2
  <2>4. p \in Seq(Byte \cap Spaces) /\ q \in Seq(Byte \cap Spaces)
    BY SpaceBytes
  <2>5. /\ u \in Seq(Byte) /\ u # << >> /\ u[1] \notin Spaces /\ u[Len(u)] \notin Spaces
        /\ u[1] = 35 <=> m[1] = 35
    <3> DEFINE first == EncodeUtf8(m[1])
               last == EncodeUtf8(m[Len(m)])
    <3>1. m[1] \in Letter /\ u[1] = first[1] /\ u \in Seq(Byte) /\ u # << >>
      BY <1>2, FirstByte
    <3>2. m[Len(m)] \in Letter /\ u[Len(u)] = last[Len(last)]
      BY <1>2, LastByte
    <3>3. first[1] \notin Spaces /\ (first[1] = 35 <=> m[1] = 35)
      BY <1>2, <3>1, SolidBytes
    <3>4. last[Len(last)] \notin Spaces
      BY <1>2, <3>2, SolidBytes
    <3> QED
      BY <3>1, <3>2, <3>3, <3>4
  <2> HIDE DEF p, q
  <2>6. Trimmed(p \o (u \o q)) = u
    <3> HIDE DEF u
    <3> QED
      BY ONLY <2>4, <2>5, TrimmedOfParts
  <2> QED
    BY <1>2, <2>1, <2>3, <2>5, <2>6 DEF IsStopWord
<1>3. \/ line \in Seq(Letter \cap Spaces)
      \/ \E a, b \in Seq(Letter \cap Spaces) : \E m \in Seq(Letter) :
            /\ line = a \o (m \o b) /\ m # << >>
            /\ m[1] \notin Spaces /\ m[Len(m)] \notin Spaces
  BY TrimmedSplits
<1> QED
  BY ONLY <1>1, <1>2, <1>3

-----------------------------------------------------------------------------
(***************************************************************************)
(* The words of a text, one after another.                                 *)
(***************************************************************************)
Split(s) == RunsBetween(s, 32)

LEMMA SplitNothing == Split(<< >>) = << >>
<1> DEFINE value == [e \in RunEnds(<< >>, 32) |-> SubSeq(<< >>, RunStart(<< >>, 32, e), e)]
<1>1. << >> \in Seq(Letter) /\ Len(<< >>) = 0
  BY EmptySeq
<1>2. RunsBetween(<< >>, 32) = InOrder(value, Len(<< >>))
  BY <1>1, RunsByEnds
<1> HIDE DEF value
<1> QED
  BY <1>1, <1>2, InOrderNext DEF Split

LEMMA Associative ==
    /\ \A u, v, w \in Seq(Letter) : (u \o v) \o w = u \o (v \o w)
    /\ \A u, v, w \in Seq(Byte) : (u \o v) \o w = u \o (v \o w)
    /\ \A u, v, w \in Seq(Seq(Letter)) : (u \o v) \o w = u \o (v \o w)
<1>1. \A u, v, w \in Seq(Letter) : (u \o v) \o w = u \o (v \o w)
  BY ConcatAssociative
<1>2. \A u, v, w \in Seq(Byte) : (u \o v) \o w = u \o (v \o w)
  BY ConcatAssociative
<1>3. \A u, v, w \in Seq(Seq(Letter)) : (u \o v) \o w = u \o (v \o w)
  <2> DEFINE T == Seq(Letter)
  <2> HIDE DEF T
  <2>1. \A u, v, w \in Seq(T) : (u \o v) \o w = u \o (v \o w)
    BY ConcatAssociative
  <2> QED
    BY <2>1 DEF T
<1> QED
  BY <1>1, <1>2, <1>3

\* The letters up to the first blank, and those behind it.
LEMMA FirstGap ==
    ASSUME NEW rest \in Seq(Letter)
    PROVE  \E a \in Seq(Letter \ {32}) :
              \/ rest = a
              \/ 32 \in Letter /\ \E c \in Seq(Letter) : rest = a \o (<<32>> \o c)
<1> DEFINE A == Letter \ {32}
           Gap(s) == \E a \in Seq(A) :
                        \/ s = a
                        \/ 32 \in Letter /\ \E c \in Seq(Letter) : s = a \o (<<32>> \o c)
           G == {n \in Nat : \A s \in Seq(Letter) : Len(s) = n => Gap(s)}
<1>1. A \subseteq Letter
  OBVIOUS
<1>2. \A x \in Letter : x # 32 => x \in A
  OBVIOUS
<1> HIDE DEF A
<1>3. 0 \in G
  <2>1. \A s \in Seq(Letter) : Len(s) = 0 => s = << >>
    BY EmptySeq
  <2>2. Gap(<< >>)
    BY EmptySeq
  <2> QED
    BY <2>1, <2>2
<1>4. ASSUME NEW n \in Nat, n \in G PROVE n + 1 \in G
  <2>1. ASSUME NEW s \in Seq(Letter), Len(s) = n + 1 PROVE Gap(s)
    <3>1. s # << >>
      BY <2>1, EmptySeq
    <3>2. PICK x \in Letter : \E r \in Seq(Letter) : s = <<x>> \o r /\ Len(r) + 1 = Len(s)
      BY <3>1, FirstAndRest
    <3>3. PICK r \in Seq(Letter) : s = <<x>> \o r /\ Len(r) + 1 = Len(s)
      BY <3>2
    <3>4. CASE x = 32
      <4>1. <<32>> \in Seq(Letter) /\ << >> \in Seq(A)
        BY <3>4, EmptySeq
      <4>2. <<32>> \o r \in Seq(Letter)
        BY <4>1, ConcatProperties
      <4>3. s = << >> \o (<<32>> \o r)
        BY <3>3, <3>4, <4>2, ConcatEmptySeq
      <4> QED
        BY <3>4, <4>1, <4>3
    <3>5. CASE x # 32
      <4>1. Len(r) = n
        <5>1. Len(r) \in Nat
          BY LenProperties
        <5> QED
          BY ONLY <2>1, <3>3, <5>1, n \in Nat
      <4>2. Gap(r)
        BY <1>4, <4>1
      <4>3. PICK a \in Seq(A) :
               \/ r = a
               \/ 32 \in Letter /\ \E c \in Seq(Letter) : r = a \o (<<32>> \o c)
        BY <4>2
      <4> DEFINE b == <<x>> \o a
      <4>4. <<x>> \in Seq(A) /\ <<x>> \in Seq(Letter)
        BY <1>2, <3>5
      <4>5. b \in Seq(A)
        BY <4>4, ConcatProperties
      <4>6. CASE r = a
        BY <3>3, <4>5, <4>6
      <4>7. CASE 32 \in Letter /\ \E c \in Seq(Letter) : r = a \o (<<32>> \o c)
        <5>1. PICK c \in Seq(Letter) : r = a \o (<<32>> \o c)
          BY <4>7
        <5>2. <<32>> \in Seq(Letter)
          BY <4>7
        <5>3. <<32>> \o c \in Seq(Letter) /\ a \in Seq(Letter)
          BY <1>1, <5>2, WiderSeq, ConcatProperties
        <5>4. <<x>> \o (a \o (<<32>> \o c)) = b \o (<<32>> \o c)
          <6> DEFINE first == <<x>>
                     last == <<32>> \o c
          <6>1. first \in Seq(Letter) /\ a \in Seq(Letter) /\ last \in Seq(Letter)
            BY <4>4, <5>3
          <6> HIDE DEF first, last
          <6>2. (first \o a) \o last = first \o (a \o last)
            BY ONLY <6>1, Associative
          <6> QED
            BY <6>2 DEF first, last
        <5> HIDE DEF b
        <5> QED
          BY <3>3, <4>5, <4>7, <5>1, <5>4
      <4> QED
        BY <4>3, <4>6, <4>7
    <3> QED
      BY <3>4, <3>5
  <2> HIDE DEF Gap
  <2> QED
    BY <2>1
<1> HIDE DEF G
<1>5. Len(rest) \in G
  BY <1>3, <1>4, FromZero, LenProperties
<1>6. Gap(rest)
  BY <1>5 DEF G
<1> QED
  BY <1>6 DEF A

BlanksOf(p) == {k \in DOMAIN p : p[k] = 32}
EndOfWord(p) == Min(BlanksOf(p) \union {Len(p) + 1})

\* NextWord takes the bytes before the first blank, and leaves those behind it.
LEMMA GapTaken ==
    ASSUME NEW a \in Seq(Byte \ {32})
    PROVE  /\ SubSeq(a, 1, EndOfWord(a) - 1) = a
           /\ SubSeq(a, EndOfWord(a) + 1, Len(a)) = << >>
           /\ \A c \in Seq(Byte) :
                 LET p == a \o (<<32>> \o c)
                 IN  /\ SubSeq(p, 1, EndOfWord(p) - 1) = a
                     /\ SubSeq(p, EndOfWord(p) + 1, Len(p)) = c
<1> DEFINE S == Byte \ {32}
           n == Len(a)
<1>1. /\ a \in Seq(Byte) /\ n \in Nat /\ DOMAIN a = 1 .. n
      /\ \A k \in 1 .. n : a[k] # 32
  <2>1. a \in Seq(S) /\ S \subseteq Byte /\ \A x \in S : x # 32
    OBVIOUS
  <2> HIDE DEF S
  <2>2. a \in Seq(Byte) /\ \A k \in 1 .. n : a[k] \in S
    BY <2>1, WiderSeq, ElementOfSeq
  <2> QED
    BY <2>1, <2>2, LenProperties
<1>2. /\ SubSeq(a, 1, EndOfWord(a) - 1) = a
      /\ SubSeq(a, EndOfWord(a) + 1, Len(a)) = << >>
  <2>1. EndOfWord(a) = n + 1
    <3> DEFINE ends == {n + 1}
    <3>1. BlanksOf(a) \union {n + 1} = ends
      BY <1>1 DEF BlanksOf
    <3>2. ends \subseteq Nat /\ ends # {} /\ \A k \in ends : k = n + 1
      BY <1>1
    <3> HIDE DEF ends
    <3>3. Min(ends) \in ends
      BY <3>2, SmallestExists
    <3> QED
      BY <3>1, <3>2, <3>3 DEF EndOfWord
  <2>2. (n + 1) - 1 = n /\ (n + 1) + 1 \in Int /\ n \in Int /\ n < (n + 1) + 1
    BY <1>1
  <2>3. SubSeq(a, 1, n) = a
    BY <1>1, SubSeqFull
  <2>4. SubSeq(a, (n + 1) + 1, n) = << >>
    BY <2>2, SubSeqEmpty
  <2> QED
    BY <2>1, <2>2, <2>3, <2>4
<1>3. ASSUME NEW c \in Seq(Byte)
      PROVE  LET p == a \o (<<32>> \o c)
             IN  /\ SubSeq(p, 1, EndOfWord(p) - 1) = a
                 /\ SubSeq(p, EndOfWord(p) + 1, Len(p)) = c
  <2> DEFINE gap == <<32>>
             tail == gap \o c
             head == a \o gap
             p == a \o tail
             m == Len(c)
  <2>1. gap \in Seq(Byte) /\ Len(gap) = 1 /\ gap[1] = 32
    BY SMT DEF Byte
  <2> HIDE DEF gap
  <2>2. /\ tail \in Seq(Byte) /\ Len(tail) = 1 + m /\ m \in Nat
        /\ \A k \in 1 .. 1 + m : tail[k] = IF k <= 1 THEN gap[k] ELSE c[k - 1]
    <3>1. tail \in Seq(Byte) /\ Len(tail) = Len(gap) + Len(c) /\ Len(c) \in Nat
      BY <2>1, ConcatProperties, LenProperties
    <3>2. \A k \in 1 .. Len(gap) + Len(c) : tail[k] = IF k <= Len(gap) THEN gap[k] ELSE c[k - Len(gap)]
      BY <2>1, ConcatProperties
    <3> QED
      BY <2>1, <3>1, <3>2
  <2>3. head \in Seq(Byte) /\ Len(head) = n + 1 /\ p = head \o c
    <3>1. head \in Seq(Byte) /\ Len(head) = Len(a) + Len(gap)
      BY <1>1, <2>1, ConcatProperties
    <3>2. (a \o gap) \o c = a \o (gap \o c)
      <4>1. a \in Seq(Byte) /\ gap \in Seq(Byte) /\ c \in Seq(Byte)
        BY <1>1, <2>1
      <4> QED
        BY ONLY <4>1, Associative
    <3> QED
      BY <2>1, <3>1, <3>2
  <2>4. /\ p \in Seq(Byte) /\ Len(p) = n + (1 + m)
        /\ \A k \in 1 .. n + (1 + m) : p[k] = IF k <= n THEN a[k] ELSE tail[k - n]
    <3> HIDE DEF tail
    <3>1. /\ p \in Seq(Byte) /\ Len(p) = Len(a) + Len(tail)
          /\ \A k \in 1 .. Len(a) + Len(tail) : p[k] = IF k <= Len(a) THEN a[k] ELSE tail[k - Len(a)]
      BY <1>1, <2>2, ConcatProperties
    <3> QED
      BY <2>2, <3>1
  <2>5. DOMAIN p = 1 .. n + (1 + m)
    BY <2>4, LenProperties
  <2>6. SubSeq(p, 1, n) = a
    <3> HIDE DEF tail
    <3> QED
      BY <1>1, <2>2, BothParts
  <2>7. SubSeq(p, (n + 1) + 1, Len(p)) = c
    <3> HIDE DEF head, p
    <3>1. SubSeq(head \o c, Len(head) + 1, Len(head \o c)) = c
      BY <2>3, BothParts
    <3> QED
      BY <2>3, <3>1
  <2>8. EndOfWord(p) = n + 1
    <3> DEFINE ends == BlanksOf(p) \union {Len(p) + 1}
               least == Min(ends)
    <3> HIDE DEF tail, head, p, m, n
    <3>1. n + 1 \in 1 .. n + (1 + m) /\ ~(n + 1 <= n) /\ (n + 1) - n = 1 /\ 1 \in 1 .. 1 + m /\ 1 <= 1
      BY ONLY <1>1, <2>2
    <3>2. p[n + 1] = 32
      BY <2>1, <2>2, <2>4, <3>1
    <3>3. n + 1 \in ends
      BY <2>5, <3>1, <3>2 DEF BlanksOf
    <3>4. ends \subseteq Nat /\ ends # {}
      BY <1>1, <2>2, <2>4, <2>5, <3>3 DEF BlanksOf
    <3>5. \A k \in ends : ~(k <= n)
      <4>1. ASSUME NEW k \in 1 .. n + (1 + m), p[k] = 32, k <= n PROVE FALSE
        <5>1. k \in 1 .. n
          BY ONLY <1>1, <4>1
        <5> QED
          BY <1>1, <2>4, <4>1, <5>1
      <4>2. ~(Len(p) + 1 <= n)
        BY ONLY <1>1, <2>2, <2>4
      <4> QED
        BY <2>5, <4>1, <4>2 DEF BlanksOf
    <3> HIDE DEF ends
    <3>6. least \in ends /\ \A k \in ends : least <= k
      BY <3>4, SmallestExists
    <3>7. least \in Nat /\ least <= n + 1 /\ ~(least <= n)
      BY <3>3, <3>4, <3>5, <3>6
    <3> HIDE DEF least
    <3>8. least = n + 1
      BY ONLY <1>1, <3>7
    <3> QED
      BY <3>8 DEF least, ends, EndOfWord
  <2>9. (n + 1) - 1 = n
    BY <1>1
  <2>10. SubSeq(p, 1, EndOfWord(p) - 1) = a /\ SubSeq(p, EndOfWord(p) + 1, Len(p)) = c
    <3> HIDE DEF p
    <3> QED
      BY <2>6, <2>7, <2>8, <2>9
  <2> QED
    BY <2>10 DEF gap
<1> QED
  BY <1>2, <1>3

\* What NextWord takes, in letters.
LEMMA WordTaken ==
    ASSUME NEW rest \in Seq(Letter), text = Utf8(rest), NextWord
    PROVE  \E a, c \in Seq(Letter) :
              /\ Split(rest) = (IF a = << >> THEN << >> ELSE <<a>>) \o Split(c)
              /\ text' = Utf8(c)
              /\ IF a # << >> /\ Short(a) THEN Take(Utf8(a), "token")
                 ELSE UNCHANGED <<pc, word, original, i, write_pos>>
<1> DEFINE next == SubSeq(text, 1, EndOfWord(text) - 1)
           Taken(a) == IF a # << >> /\ Short(a) THEN Take(Utf8(a), "token")
                       ELSE UNCHANGED <<pc, word, original, i, write_pos>>
           First(a) == IF a = << >> THEN << >> ELSE <<a>>
<1>1. /\ text' = SubSeq(text, EndOfWord(text) + 1, Len(text))
      /\ IF next # << >> /\ Len(next) <= MaxWordLength THEN Take(next, "token")
         ELSE UNCHANGED <<pc, word, original, i, write_pos>>
  BY DEF NextWord, EndOfWord, BlanksOf
<1>2. PICK a \in Seq(Letter \ {32}) :
         \/ rest = a
         \/ 32 \in Letter /\ \E c \in Seq(Letter) : rest = a \o (<<32>> \o c)
  BY FirstGap
<1> DEFINE u == Utf8(a)
<1>3. a \in Seq(Letter) /\ u \in Seq(Byte \ {32}) /\ u \in Seq(Byte) /\ (a = << >> <=> u = << >>)
  <2>1. Letter \ {32} \subseteq Letter
    OBVIOUS
  <2>2. a \in Seq(Letter)
    BY <2>1, WiderSeq
  <2> QED
    BY <2>2, NoBlankBytes, InBytesParts
<1>4. ASSUME next = u PROVE Taken(a)
  <2>1. Short(a) <=> Len(u) <= MaxWordLength
    BY <1>3, SizeInBytes DEF Short
  <2> HIDE DEF next, u
  <2>2. a # << >> <=> next # << >>
    BY <1>3, <1>4
  <2> QED
    BY <1>1, <1>4, <2>1, <2>2 DEF u
<1>5. Split(a) = First(a)
  <2>1. CASE a = << >>
    BY <2>1, SplitNothing
  <2>2. CASE a # << >>
    <3> DEFINE A == Letter \ {32}
    <3>1. \A x \in A : x # 32
      OBVIOUS
    <3> HIDE DEF A
    <3>2. \A k \in 1 .. Len(a) : a[k] # 32
      <4>1. a \in Seq(A)
        BY DEF A
      <4> QED
        BY <3>1, <4>1, ElementOfSeq
    <3>3. RunsBetween(a, 32) = <<a>>
      BY <1>3, <2>2, <3>2, OneRun
    <3> QED
      BY <2>2, <3>3 DEF Split
  <2> QED
    BY <2>1, <2>2
<1>6. First(a) \in Seq(Seq(Letter))
  BY <1>3, EmptySeq
<1> HIDE DEF next, Taken, First
<1>7. CASE rest = a
  <2>1. text = u
    BY <1>7
  <2>2. next = u /\ text' = << >>
    <3> HIDE DEF u
    <3> QED
      BY <1>1, <1>3, <2>1, GapTaken DEF next
  <2>3. << >> \in Seq(Letter) /\ Utf8(<< >>) = << >>
    BY EmptySeq, InBytesParts
  <2>4. Split(rest) = First(a) \o Split(<< >>)
    BY <1>5, <1>6, <1>7, SplitNothing, ConcatEmptySeq
  <2>5. Taken(a)
    BY <1>4, <2>2
  <2>6. \E c \in Seq(Letter) : Split(rest) = First(a) \o Split(c) /\ text' = Utf8(c) /\ Taken(a)
    BY <2>2, <2>3, <2>4, <2>5
  <2> QED
    BY <1>3, <2>6 DEF First, Taken
<1>8. CASE 32 \in Letter /\ \E c \in Seq(Letter) : rest = a \o (<<32>> \o c)
  <2>1. PICK c \in Seq(Letter) : rest = a \o (<<32>> \o c)
    BY <1>8
  <2> DEFINE v == Utf8(c)
  <2>2. v \in Seq(Byte)
    BY InBytesParts
  <2>3. text = u \o (<<32>> \o v)
    <3>1. <<32>> \in Seq(Letter)
      BY <1>8
    <3>2. <<32>> \o c \in Seq(Letter)
      BY <3>1, ConcatProperties
    <3>3. Utf8(<<32>>) = EncodeUtf8(32)
      BY <1>8, InBytesOne
    <3>4. EncodeUtf8(32) = <<32>>
      BY <1>8, BytesOfLetter
    <3>5. Utf8(<<32>> \o c) = Utf8(<<32>>) \o v
      BY <3>1, InBytesParts
    <3>6. Utf8(a \o (<<32>> \o c)) = u \o Utf8(<<32>> \o c)
      BY <1>3, <3>2, InBytesParts
    <3> QED
      BY <2>1, <3>3, <3>4, <3>5, <3>6
  <2> HIDE DEF v
  <2>4. next = u /\ text' = v
    <3> HIDE DEF u
    <3>1. LET p == u \o (<<32>> \o v)
          IN  SubSeq(p, 1, EndOfWord(p) - 1) = u /\ SubSeq(p, EndOfWord(p) + 1, Len(p)) = v
      <4>1. u \in Seq(Byte \ {32})
        BY <1>3
      <4> QED
        BY ONLY <2>2, <4>1, GapTaken
    <3> QED
      BY <1>1, <2>3, <3>1 DEF next
  <2>5. Split(rest) = First(a) \o Split(c)
    <3>1. RunsBetween(a \o (<<32>> \o c), 32) = RunsBetween(a, 32) \o RunsBetween(c, 32)
      <4>1. ASSUME NEW gap \in Letter
            PROVE  RunsBetween(a \o (<<gap>> \o c), gap) = RunsBetween(a, gap) \o RunsBetween(c, gap)
        <5>1. a \in Seq(Letter) /\ c \in Seq(Letter)
          BY <1>3
        <5> QED
          BY <5>1, RunsSideBySide
      <4> QED
        BY <1>8, <4>1
    <3> QED
      BY <1>5, <2>1, <3>1 DEF Split
  <2>6. Taken(a)
    BY <1>4, <2>4
  <2>7. Split(rest) = First(a) \o Split(c) /\ text' = Utf8(c) /\ Taken(a)
    BY <2>4, <2>5, <2>6 DEF v
  <2> QED
    BY <1>3, <2>7 DEF First, Taken
<1> QED
  BY <1>2, <1>7, <1>8


LEMMA WordsOfLetters ==
    ASSUME NEW s \in Seq(Letter)
    PROVE  Split(s) \in Seq(Seq(Letter))
<1> DEFINE n == Len(s)
           value == [e \in RunEnds(s, 32) |-> SubSeq(s, RunStart(s, 32, e), e)]
<1>1. n \in Nat /\ DOMAIN s = 1 .. n /\ \A k \in 1 .. n : s[k] \in Letter
  BY LenProperties, ElementOfSeq
<1>2. Split(s) = InOrder(value, n)
  BY RunsByEnds DEF Split
<1> HIDE DEF n
<1>6. \A e \in RunEnds(s, 32) : RunAt(s, 32, RunStart(s, 32, e), e)
  <2>1. ASSUME NEW gap PROVE \A e \in RunEnds(s, gap) : RunAt(s, gap, RunStart(s, gap, e), e)
    BY RunOf
  <2> QED
    BY <2>1
<1>3. ASSUME NEW e \in RunEnds(s, 32)
      PROVE  e \in 1 .. n /\ SubSeq(s, RunStart(s, 32, e), e) \in Seq(Letter)
  <2> DEFINE b == RunStart(s, 32, e)
  <2>1. RunAt(s, 32, b, e)
    BY <1>3, <1>6
  <2>2. b \in 1 .. e /\ e \in 1 .. n
    <3>1. b \in 1 .. e
      BY <2>1 DEF RunAt
    <3>2. e \in 1 .. n
      BY <1>1, <1>3 DEF RunEnds
    <3> QED
      BY <3>1, <3>2
  <2> HIDE DEF b
  <2>3. b \in Int /\ e \in Int /\ \A k \in b .. e : k \in 1 .. n
    BY ONLY <1>1, <2>2
  <2>4. \A k \in b .. e : s[k] \in Letter
    BY <1>1, <2>3
  <2>5. SubSeq(s, b, e) \in Seq(Letter)
    BY <2>3, <2>4, SubSeqProperties
  <2> QED
    BY <2>2, <2>5 DEF b
<1>4. DOMAIN value \subseteq 1 .. n /\ \A k \in DOMAIN value : value[k] \in Seq(Letter)
  BY <1>3
<1> HIDE DEF value
<1>5. InOrder(value, n) \in Seq(Seq(Letter))
  BY <1>1, <1>4, InOrderLists
<1> QED
  BY <1>2, <1>5

LEMMA InBytesOfList ==
    ASSUME NEW s \in Seq(Seq(Letter))
    PROVE  /\ InBytes(s) \in Seq(Seq(Byte)) /\ Len(InBytes(s)) = Len(s)
           /\ \A k \in 1 .. Len(s) : InBytes(s)[k] = Utf8(s[k])
<1>1. Len(s) \in Nat /\ DOMAIN s = 1 .. Len(s) /\ \A k \in 1 .. Len(s) : s[k] \in Seq(Letter)
  BY LenProperties, ElementOfSeq
<1>2. \A k \in 1 .. Len(s) : Utf8(s[k]) \in Seq(Byte)
  BY <1>1, InBytesParts
<1>3. /\ InBytes(s) \in [1 .. Len(s) -> Seq(Byte)]
      /\ \A k \in 1 .. Len(s) : InBytes(s)[k] = Utf8(s[k])
  BY <1>1, <1>2 DEF InBytes
<1> QED
  BY <1>1, <1>3, FunctionIsSeq

LEMMA GivenInLetters ==
    ASSUME Init
    PROVE  /\ letters \in Seq(Letter) /\ stop_list \in Seq(Seq(Letter))
           /\ text = Utf8(letters)
           /\ \/ lines = InBytes(stop_list)
              \/ letters = << >> /\ lines \in {<<raw>> : raw \in RawLines}
<1>1. << >> \in Seq(Letter) /\ << >> \in Seq(Seq(Letter))
  BY EmptySeq
<1>2. /\ \A x \in Texts : x \in Seq(Letter)
      /\ \A list \in StopLists : list \in Seq(Seq(Letter))
  BY GivenAssumption DEF Letter
<1> QED
  BY <1>1, <1>2 DEF Init

-----------------------------------------------------------------------------
LEMMA InitBuffers == Init => BufferInv
<1> SUFFICES ASSUME Init PROVE BufferInv
    OBVIOUS
<1>1. \A s \in Seq(Byte) : s \in Seq(Int)
  <2>1. Byte \subseteq Int
      BY DEF Byte
  <2>2. QED
      BY <2>1, WiderSeq
<1>2. \A s \in Seq(Seq(Byte)) : s \in Seq(Seq(Int))
  <2>1. Seq(Byte) \subseteq Seq(Int)
      BY <1>1
  <2>2. QED
      BY <2>1, WiderSeq
<1>3. text \in Seq(Int)
    BY <1>1, GivenInLetters, InBytesParts
<1>4. lines \in Seq(Seq(Int))
  <2>1. CASE lines = InBytes(stop_list)
      BY <1>2, <2>1, GivenInLetters, InBytesOfList
  <2>2. CASE lines \in {<<raw>> : raw \in RawLines}
    <3>1. PICK raw \in RawLines : lines = <<raw>>
        BY <2>2
    <3>2. raw \in Seq(Int)
        BY <1>1, GivenAssumption
    <3>3. QED
        BY <3>1, <3>2
  <2>3. QED
      BY <2>1, <2>2, GivenInLetters
<1>5. QED
    BY <1>3, <1>4 DEF Init, BufferInv, Buffers, UnreadBytesKept

LEMMA NextLineKeeps == BufferInv /\ NextLine => BufferInv'
<1> SUFFICES ASSUME BufferInv, NextLine PROVE BufferInv'
    OBVIOUS
<1>1. Head(lines) \in Seq(Int) /\ lines' \in Seq(Seq(Int)) /\ text' \in Seq(Int)
    BY DEF BufferInv, Buffers, NextLine
<1>2. CASE Take(Trimmed(Head(lines)), "stop_word")
    BY <1>1, <1>2, TrimmedIsBuffer, TakeKeepsBuffers DEF BufferInv, Buffers
<1>3. CASE UNCHANGED <<pc, word, original, i, write_pos>>
    BY <1>1, <1>3 DEF BufferInv, Buffers, UnreadBytesKept
<1>4. QED
    BY <1>2, <1>3 DEF NextLine

LEMMA NextWordKeeps == BufferInv /\ NextWord => BufferInv'
<1> SUFFICES ASSUME BufferInv, NextWord PROVE BufferInv'
    OBVIOUS
<1> DEFINE blanks == {k \in DOMAIN text : text[k] = 32}
           ends == blanks \union {Len(text) + 1}
           end == Min(ends)
           next == SubSeq(text, 1, end - 1)
<1>1. text \in Seq(Int) /\ lines' \in Seq(Seq(Int))
    BY DEF BufferInv, Buffers, NextWord
<1>2. end \in 1 .. Len(text) + 1
  <2>1. ends \subseteq 1 .. Len(text) + 1 /\ ends # {} /\ ends \subseteq Nat
      BY <1>1
  <2> HIDE DEF ends
  <2>2. QED
      BY <2>1, SmallestExists
<1> HIDE DEF end
<1>3. next \in Seq(Int) /\ SubSeq(text, end + 1, Len(text)) \in Seq(Int)
  <2>1. next \in Seq(Int)
      BY <1>1, <1>2, SubSeqIsBuffer
  <2>2. \A k \in end + 1 .. Len(text) : text[k] \in Int
      BY <1>1, <1>2
  <2>3. SubSeq(text, end + 1, Len(text)) \in Seq(Int)
      BY <1>1, <1>2, <2>2
  <2>4. QED
      BY <2>1, <2>3
<1>4. text' = SubSeq(text, end + 1, Len(text))
      /\ (Take(next, "token") \/ UNCHANGED <<pc, word, original, i, write_pos>>)
    BY DEF NextWord, end
<1> HIDE DEF next
<1>5. CASE Take(next, "token")
    BY <1>1, <1>3, <1>4, <1>5, TakeKeepsBuffers DEF BufferInv, Buffers
<1>6. CASE UNCHANGED <<pc, word, original, i, write_pos>>
    BY <1>1, <1>3, <1>4, <1>6 DEF BufferInv, Buffers, UnreadBytesKept
<1>7. QED
    BY <1>4, <1>5, <1>6

LEMMA LowerLetterKeeps == BufferInv /\ LowerLetter => BufferInv'
<1> SUFFICES ASSUME BufferInv, LowerLetter PROVE BufferInv'
    OBVIOUS
<1> DEFINE n == DecodedLength(Rest)
           bytes == IF n = 0 THEN <<Rest[1]>>
                    ELSE EncodeUtf8(ToLowerCodepoint(CodePoint(Rest, n)))
           step == IF n = 0 THEN 1 ELSE n
<1>1. /\ word \in Seq(Int) /\ i \in Nat /\ write_pos \in Nat
      /\ i < Len(word) /\ write_pos <= i /\ Len(word) = Len(original)
      /\ \A k \in i + 1 .. Len(word) : word[k] = original[k]
    BY DEF BufferInv, Buffers, UnreadBytesKept, LowerLetter
<1>2. Rest \in Seq(Int) /\ Len(Rest) = Len(word) - i /\ Rest # << >>
  <2>1. \A k \in i + 1 .. Len(word) : word[k] \in Int
      BY <1>1
  <2>2. i + 1 \in Int /\ Len(word) \in Int /\ i + 1 <= Len(word)
      BY <1>1
  <2>3. /\ SubSeq(word, i + 1, Len(word)) \in Seq(Int)
        /\ Len(SubSeq(word, i + 1, Len(word)))
             = IF i + 1 <= Len(word) THEN Len(word) - (i + 1) + 1 ELSE 0
      BY <2>1, <2>2, SubSeqProperties
  <2>4. Rest \in Seq(Int) /\ Len(Rest) = Len(word) - i
      BY <1>1, <2>2, <2>3 DEF Rest
  <2> HIDE DEF Rest
  <2>5. QED
      BY <1>1, <2>4
<1>3. bytes \in Seq(Int) /\ Len(bytes) <= step /\ step \in Nat /\ i + step <= Len(word)
  <2>1. CASE n = 0
      BY <1>1, <1>2, <2>1
  <2>2. CASE n # 0
    <3>1. n \in 1 .. Len(Rest)
        BY <1>2, <2>2, DecodedLengthFits
    <3>2. bytes \in Seq(Int) /\ Len(bytes) <= n
        BY <1>2, <2>2, <3>1, LowerIsNotLonger
    <3> HIDE DEF bytes, n
    <3>3. QED
        BY <1>1, <1>2, <2>2, <3>1, <3>2, SMT
  <2>3. QED
      BY <2>1, <2>2
<1>4. /\ word' = Overwritten(word, write_pos, bytes)
      /\ write_pos' = write_pos + Len(bytes) /\ i' = i + step
      /\ original' = original /\ lines' = lines /\ text' = text
    BY DEF LowerLetter
<1> HIDE DEF bytes, step, n
<1>5. word' \in Seq(Int) /\ Len(word') = Len(word)
  <2>1. \A k \in 1 .. Len(word) :
           (IF k \in write_pos + 1 .. write_pos + Len(bytes)
            THEN bytes[k - write_pos] ELSE word[k]) \in Int
    <3>1. TAKE k \in 1 .. Len(word)
    <3>2. k \in write_pos + 1 .. write_pos + Len(bytes) => k - write_pos \in 1 .. Len(bytes)
        BY <1>1, <1>3
    <3>3. \A m \in 1 .. Len(bytes) : bytes[m] \in Int
        BY <1>3
    <3>4. word[k] \in Int
        BY <1>1
    <3>5. QED
        BY <3>2, <3>3, <3>4
  <2>2. word' \in [1 .. Len(word) -> Int] /\ Len(word) \in Nat
      BY <1>1, <1>4, <2>1 DEF Overwritten
  <2>3. QED
      BY ONLY <2>2, FunctionIsSeq
<1>6. \A k \in i + step + 1 .. Len(word) : word'[k] = word[k]
    BY <1>1, <1>3, <1>4 DEF Overwritten
<1>7. write_pos' <= i' /\ i' <= Len(word') /\ i' \in Nat /\ write_pos' \in Nat
    BY <1>1, <1>3, <1>4, <1>5
<1>8. \A k \in i' + 1 .. Len(word') : word'[k] = original'[k]
    BY <1>1, <1>3, <1>4, <1>5, <1>6
<1>9. Buffers'
    BY <1>4, <1>5, <1>7 DEF BufferInv, Buffers
<1>10. Len(word') = Len(original')
    BY <1>1, <1>4, <1>5
<1>11. QED
    BY <1>7, <1>8, <1>9, <1>10 DEF BufferInv, UnreadBytesKept

\* Lower case is written into the buffer it is read from, and no byte is
\* changed before it has been read, whatever the texts, the stop words and the
\* bytes of the stop word file (ToLowerUtf8, utils.cpp:129-155).
THEOREM LoweringIsInPlace == Spec => []UnreadBytesKept
<1>1. Init => BufferInv
    BY InitBuffers
<1>2. BufferInv /\ [Next]_vars => BufferInv'
  <2> SUFFICES ASSUME BufferInv, [Next]_vars PROVE BufferInv'
      OBVIOUS
  <2>1. CASE NextLine
      BY <2>1, NextLineKeeps
  <2>2. CASE NextWord
      BY <2>2, NextWordKeeps
  <2>3. CASE LowerLetter
      BY <2>3, LowerLetterKeeps
  <2>4. CASE AddStopWord \/ CountToken \/ Finish \/ UNCHANGED vars
      BY <2>4 DEF AddStopWord, CountToken, Finish, vars, BufferInv, Buffers, UnreadBytesKept
  <2>5. QED
      BY <2>1, <2>2, <2>3, <2>4 DEF Next
<1>3. BufferInv => UnreadBytesKept
    BY DEF BufferInv
<1>4. QED
    BY <1>1, <1>2, <1>3, PTL DEF Spec

-----------------------------------------------------------------------------
(***************************************************************************)
(* A word in its buffer.                                                   *)
(***************************************************************************)
LEMMA OverwrittenBehind ==
    ASSUME NEW T, NEW s \in Seq(T), NEW at \in Nat, NEW bytes \in Seq(T),
           at + Len(bytes) <= Len(s)
    PROVE  SubSeq(Overwritten(s, at, bytes), 1, at + Len(bytes)) = SubSeq(s, 1, at) \o bytes
<1> DEFINE m == Len(bytes)
           n == Len(s)
           new == Overwritten(s, at, bytes)
           behind == SubSeq(s, 1, at)
           left == SubSeq(new, 1, at + m)
<1>1. /\ m \in Nat /\ n \in Nat /\ DOMAIN s = 1 .. n /\ at + m <= n
      /\ (\A k \in 1 .. n : s[k] \in T) /\ (\A k \in 1 .. m : bytes[k] \in T)
  BY LenProperties, ElementOfSeq
<1>2. \A k \in 1 .. n : new[k] = IF k \in at + 1 .. at + m THEN bytes[k - at] ELSE s[k]
  BY <1>1 DEF Overwritten
<1> HIDE DEF m, n, new
<1>3. /\ \A k \in 1 .. at : k \in 1 .. n /\ k \notin at + 1 .. at + m
      /\ \A k \in 1 .. at + m : k \in 1 .. n /\ (~(k <= at) => k \in at + 1 .. at + m /\ k - at \in 1 .. m)
                                /\ (k <= at => k \in 1 .. at)
      /\ at + m \in Nat /\ at \in Int /\ at + m \in Int
  BY ONLY <1>1, at \in Nat
<1>4. \A k \in 1 .. at + m : new[k] = (IF k <= at THEN s[k] ELSE bytes[k - at]) /\ new[k] \in T
  <2>1. ASSUME NEW k \in 1 .. at + m
        PROVE  new[k] = (IF k <= at THEN s[k] ELSE bytes[k - at]) /\ new[k] \in T
    <3>1. CASE k <= at
      BY <1>1, <1>2, <1>3, <3>1
    <3>2. CASE ~(k <= at)
      BY <1>1, <1>2, <1>3, <3>2
    <3> QED
      BY <3>1, <3>2
  <2> QED
    BY <2>1
<1>5. /\ left \in Seq(T) /\ Len(left) = (IF 1 <= at + m THEN (at + m) - 1 + 1 ELSE 0)
      /\ \A k \in 1 .. (at + m) - 1 + 1 : left[k] = new[1 + k - 1]
  BY <1>3, <1>4, SubSeqProperties
<1>6. /\ behind \in Seq(T) /\ Len(behind) = (IF 1 <= at THEN at - 1 + 1 ELSE 0)
      /\ \A k \in 1 .. at - 1 + 1 : behind[k] = s[1 + k - 1]
  BY <1>1, <1>3, SubSeqProperties
<1> HIDE DEF left, behind
<1>7. Len(left) = at + m /\ \A k \in 1 .. at + m : left[k] = new[k]
  BY <1>3, <1>5
<1>8. Len(behind) = at /\ \A k \in 1 .. at : behind[k] = s[k]
  <2>1. (IF 1 <= at THEN at - 1 + 1 ELSE 0) = at /\ at - 1 + 1 = at
    OBVIOUS
  <2>2. \A k \in 1 .. at : 1 + k - 1 = k
    OBVIOUS
  <2> QED
    BY ONLY <1>6, <2>1, <2>2
<1>9. /\ behind \o bytes \in Seq(T) /\ Len(behind \o bytes) = at + m
      /\ \A k \in 1 .. at + m : (behind \o bytes)[k] = IF k <= at THEN behind[k] ELSE bytes[k - at]
  <2>1. /\ behind \o bytes \in Seq(T) /\ Len(behind \o bytes) = Len(behind) + Len(bytes)
        /\ \A k \in 1 .. Len(behind) + Len(bytes) :
              (behind \o bytes)[k] = IF k <= Len(behind) THEN behind[k] ELSE bytes[k - Len(behind)]
    BY <1>6, ConcatProperties
  <2> QED
    BY <1>8, <2>1 DEF m
<1>10. ASSUME NEW k \in 1 .. at + m PROVE left[k] = (behind \o bytes)[k]
  <2>1. left[k] = IF k <= at THEN s[k] ELSE bytes[k - at]
    BY <1>4, <1>7
  <2>2. (behind \o bytes)[k] = IF k <= at THEN behind[k] ELSE bytes[k - at]
    BY <1>9
  <2>3. k <= at => behind[k] = s[k]
    BY <1>3, <1>8
  <2> QED
    BY ONLY <2>1, <2>2, <2>3
<1>11. left = behind \o bytes
  BY <1>5, <1>7, <1>9, <1>10, SeqEqual
<1> QED
  BY <1>11 DEF left, behind, m, new

LowerOf(w) == InLetters!Lowered(w)

\* The word u is in the buffer, its first letters already in lower case.
CopiedUpTo(u, done, left) ==
    /\ u = done \o left /\ i = Len(Utf8(done))
    /\ write_pos = Len(Utf8(LowerOf(done)))
    /\ SubSeq(word, 1, write_pos) = Utf8(LowerOf(done))

Copied(u) ==
    /\ original = Utf8(u)
    /\ \E done, left \in Seq(Letter) : CopiedUpTo(u, done, left)

LEMMA LowerOfMore ==
    ASSUME LowersAsTheCode, NEW w \in Seq(Letter), NEW x \in Letter
    PROVE  /\ LowerOf(w) \in Seq(Letter) /\ ToLowerCodepoint(x) \in Letter
           /\ LowerOf(w \o <<x>>) = LowerOf(w) \o <<ToLowerCodepoint(x)>>
           /\ LowerOf(<< >>) = << >>
<1> DEFINE y == ToLowerCodepoint(x)
           low == LowerOf(w)
           more == LowerOf(w \o <<x>>)
           n == Len(w)
<1>1. <<x>> \in Seq(Letter) /\ y \in Letter /\ <<y>> \in Seq(Letter)
      /\ Len(<<x>>) = 1 /\ <<x>>[1] = x /\ Len(<<y>>) = 1 /\ <<y>>[1] = y
  BY DEF LowersAsTheCode
<1>2. /\ w \o <<x>> \in Seq(Letter) /\ Len(w \o <<x>>) = n + 1 /\ n \in Nat
      /\ \A k \in 1 .. n + 1 : (w \o <<x>>)[k] = IF k <= n THEN w[k] ELSE <<x>>[k - n]
  BY <1>1, ConcatProperties, LenProperties
<1>3. /\ low \in Seq(Letter) /\ Len(low) = n
      /\ \A k \in 1 .. n : low[k] = ToLowerCodepoint(w[k])
  BY LoweredWord DEF LowerOf
<1>4. /\ more \in Seq(Letter) /\ Len(more) = n + 1
      /\ \A k \in 1 .. n + 1 : more[k] = ToLowerCodepoint((w \o <<x>>)[k])
  BY <1>2, LoweredWord DEF LowerOf
<1>5. LowerOf(<< >>) = << >>
  <2>1. LowerOf(<< >>) \in Seq(Letter) /\ Len(LowerOf(<< >>)) = 0
    BY LoweredWord, EmptySeq DEF LowerOf
  <2> QED
    BY <2>1, EmptySeq
<1> HIDE DEF y, low, more, n
<1>6. /\ low \o <<y>> \in Seq(Letter) /\ Len(low \o <<y>>) = n + 1
      /\ \A k \in 1 .. n + 1 : (low \o <<y>>)[k] = IF k <= n THEN low[k] ELSE <<y>>[k - n]
  BY <1>1, <1>3, ConcatProperties
<1>7. ASSUME NEW k \in 1 .. n + 1 PROVE more[k] = (low \o <<y>>)[k]
  <2>1. CASE k <= n
    <3>1. k \in 1 .. n
      BY ONLY <1>2, <1>7, <2>1
    <3>2. (w \o <<x>>)[k] = w[k]
      BY <1>2, <2>1
    <3>3. more[k] = ToLowerCodepoint(w[k])
      BY <1>4, <3>2
    <3> QED
      BY <1>3, <1>6, <2>1, <3>1, <3>3
  <2>2. CASE ~(k <= n)
    <3>1. k - n = 1
      BY ONLY <1>2, <1>7, <2>2
    <3>2. (w \o <<x>>)[k] = x
      BY <1>1, <1>2, <2>2, <3>1
    <3>3. more[k] = y
      BY <1>4, <3>2 DEF y
    <3>4. (low \o <<y>>)[k] = y
      BY <1>1, <1>6, <2>2, <3>1
    <3> QED
      BY <3>3, <3>4
  <2> QED
    BY <2>1, <2>2
<1>8. more = low \o <<y>>
  BY <1>4, <1>6, <1>7, SeqEqual
<1> QED
  BY <1>1, <1>3, <1>5, <1>8 DEF y, low, more

LEMMA TakenIsCopied ==
    ASSUME LowersAsTheCode, NEW u \in Seq(Letter), NEW use, Take(Utf8(u), use)
    PROVE  Copied(u)'
<1> DEFINE b == Utf8(u)
<1>1. word' = b /\ original' = b /\ i' = 0 /\ write_pos' = 0
  BY DEF Take
<1>2. << >> \in Seq(Letter) /\ << >> \o u = u /\ Utf8(<< >>) = << >> /\ Len(<< >>) = 0
  BY EmptySeq, ConcatEmptySeq, InBytesParts
<1>3. LowerOf(<< >>) = << >>
  <2>1. LowerOf(<< >>) \in Seq(Letter) /\ Len(LowerOf(<< >>)) = 0
    BY LoweredWord, EmptySeq DEF LowerOf
  <2> QED
    BY <2>1, EmptySeq
<1>4. SubSeq(b, 1, 0) = << >>
  BY SubSeqEmpty
<1> HIDE DEF b
<1>5. CopiedUpTo(u, << >>, u)'
  BY <1>1, <1>2, <1>3, <1>4 DEF CopiedUpTo
<1> QED
  BY <1>1, <1>2, <1>5 DEF Copied, b

\* One letter more is read, and written in lower case.
LEMMA CopiedGoesOn ==
    ASSUME LowersAsTheCode, BufferInv, NEW u \in Seq(Letter), Copied(u), LowerLetter
    PROVE  Copied(u)'
<1>1. PICK done \in Seq(Letter), left \in Seq(Letter) : CopiedUpTo(u, done, left)
  BY DEF Copied
<1> DEFINE read == Utf8(done)
           more == Utf8(left)
           low == Utf8(LowerOf(done))
<1>2. /\ original = read \o more /\ read \in Seq(Byte) /\ more \in Seq(Byte)
      /\ i = Len(read) /\ write_pos = Len(low) /\ SubSeq(word, 1, write_pos) = low
  BY <1>1, InBytesParts DEF CopiedUpTo, Copied
<1>3. /\ word \in Seq(Int) /\ original \in Seq(Int) /\ i \in Nat /\ write_pos \in Nat
      /\ i < Len(word) /\ Len(word) = Len(original)
      /\ \A k \in i + 1 .. Len(word) : word[k] = original[k]
  BY DEF BufferInv, Buffers, UnreadBytesKept, LowerLetter
<1> HIDE DEF read, more, low
<1>4. Rest = more
  <2>1. Rest = SubSeq(original, i + 1, Len(original))
    <3> DEFINE p == SubSeq(word, i + 1, Len(word))
               q == SubSeq(original, i + 1, Len(word))
               n == Len(word)
    <3>1. n \in Nat /\ (\A k \in 1 .. n : word[k] \in Int) /\ (\A k \in 1 .. n : original[k] \in Int)
      BY <1>3, LenProperties, ElementOfSeq
    <3> HIDE DEF n
    <3>2. \A k \in i + 1 .. n : k \in 1 .. n
      BY ONLY <1>3, <3>1
    <3>3. i + 1 \in Int /\ n \in Int /\ n - (i + 1) + 1 \in Nat
          /\ \A k \in 1 .. n - (i + 1) + 1 : (i + 1) + k - 1 \in i + 1 .. n
      <4>1. i < n
        BY <1>3 DEF n
      <4> QED
        BY ONLY <1>3, <3>1, <4>1
    <3>4. /\ p \in Seq(Int) /\ Len(p) = (IF i + 1 <= n THEN n - (i + 1) + 1 ELSE 0)
          /\ \A k \in 1 .. n - (i + 1) + 1 : p[k] = word[(i + 1) + k - 1]
      <4>1. \A k \in i + 1 .. n : word[k] \in Int
        BY <3>1, <3>2
      <4> QED
        BY ONLY <3>3, <4>1, SubSeqProperties DEF n
    <3>5. /\ q \in Seq(Int) /\ Len(q) = (IF i + 1 <= n THEN n - (i + 1) + 1 ELSE 0)
          /\ \A k \in 1 .. n - (i + 1) + 1 : q[k] = original[(i + 1) + k - 1]
      <4>1. \A k \in i + 1 .. n : original[k] \in Int
        BY <3>1, <3>2
      <4> QED
        BY ONLY <3>3, <4>1, SubSeqProperties DEF n
    <3> HIDE DEF p, q
    <3>6. \A k \in 1 .. n - (i + 1) + 1 : p[k] = q[k]
      <4>1. \A k \in i + 1 .. n : word[k] = original[k]
        BY <1>3 DEF n
      <4> QED
        BY <3>3, <3>4, <3>5, <4>1
    <3>7. Len(p) = Len(q) /\ \A k \in 1 .. Len(p) : k \in 1 .. n - (i + 1) + 1
      BY <3>3, <3>4, <3>5
    <3>8. p = q
      BY <3>4, <3>5, <3>6, <3>7, SeqEqual
    <3> QED
      BY <1>3, <3>8 DEF p, q, Rest
  <2>2. SubSeq(read \o more, Len(read) + 1, Len(read \o more)) = more
    BY <1>2, BothParts
  <2> QED
    BY <1>2, <2>1, <2>2
<1>5. left # << >>
  <2>1. ASSUME left = << >> PROVE FALSE
    <3>1. more = << >>
      BY <2>1, InBytesParts DEF more
    <3>2. original = read
      BY <1>2, <3>1, ConcatEmptySeq
    <3> QED
      BY <1>2, <1>3, <3>2
  <2> QED
    BY <2>1
<1>6. PICK x \in Letter : \E r \in Seq(Letter) : left = <<x>> \o r
  BY <1>5, FirstAndRest
<1>7. PICK r \in Seq(Letter) : left = <<x>> \o r
  BY <1>6
<1> DEFINE e == EncodeUtf8(x)
           n == Len(e)
           y == ToLowerCodepoint(x)
           f == EncodeUtf8(y)
<1>8. /\ x \in CodePoints /\ e \in Seq(Byte) /\ n \in Nat /\ 1 <= n
      /\ <<x>> \in Seq(Letter) /\ Utf8(<<x>>) = e
  BY InBytesOne
<1>9. y \in Letter /\ <<y>> \in Seq(Letter) /\ f \in Seq(Byte) /\ Utf8(<<y>>) = f
  <2>1. y \in Letter
    BY DEF LowersAsTheCode
  <2> HIDE DEF y
  <2> QED
    BY <2>1, InBytesOne
<1>10. Rest = e \o Utf8(r) /\ Utf8(r) \in Seq(Byte)
  <2>1. Utf8(<<x>> \o r) = Utf8(<<x>>) \o Utf8(r) /\ Utf8(r) \in Seq(Byte)
    BY <1>8, InBytesParts
  <2> QED
    BY <1>4, <1>7, <1>8, <2>1 DEF more
<1>11. DecodedLength(Rest) = n /\ CodePoint(Rest, n) = x
  <2> HIDE DEF e, n
  <2> DEFINE rest == Utf8(r)
  <2>1. rest \in Seq(Byte) /\ Rest = e \o rest
    BY <1>10
  <2> HIDE DEF rest
  <2>2. DecodedLength(e \o rest) = n /\ CodePoint(e \o rest, n) = x
    BY <1>8, <2>1, Decoded DEF e, n
  <2> QED
    BY <2>1, <2>2
<1> HIDE DEF e, n, y, f
<1>12. /\ word' = Overwritten(word, write_pos, f) /\ write_pos' = write_pos + Len(f)
       /\ i' = i + n /\ original' = original
  <2>1. n # 0
    BY <1>8
  <2> QED
    BY <1>11, <2>1 DEF LowerLetter, y, f
<1>13. done \o <<x>> \in Seq(Letter) /\ u = (done \o <<x>>) \o r
  <2>1. (done \o <<x>>) \o r = done \o (<<x>> \o r) /\ done \o <<x>> \in Seq(Letter)
    BY <1>8, ConcatAssociative, ConcatProperties
  <2> QED
    BY <1>1, <1>7, <2>1 DEF CopiedUpTo
<1>14. i' = Len(Utf8(done \o <<x>>))
  <2>1. Utf8(done \o <<x>>) = read \o e
    BY <1>8, InBytesParts DEF read
  <2>2. Len(read \o e) = Len(read) + Len(e)
    BY <1>2, <1>8, ConcatProperties
  <2> QED
    BY <1>2, <1>12, <2>1, <2>2 DEF n
<1>15. Utf8(LowerOf(done \o <<x>>)) = low \o f /\ low \in Seq(Byte)
  <2>1. LowerOf(done) \in Seq(Letter) /\ LowerOf(done \o <<x>>) = LowerOf(done) \o <<y>>
    BY LowerOfMore DEF y
  <2> QED
    BY <1>9, <2>1, InBytesParts DEF low
<1>16. write_pos' = Len(low \o f)
  <2>1. Len(low \o f) = Len(low) + Len(f)
    BY <1>9, <1>15, ConcatProperties
  <2> QED
    BY <1>2, <1>12, <2>1
<1>17. SubSeq(word', 1, write_pos') = low \o f
  <2>1. BufferInv'
    BY LowerLetterKeeps
  <2>2. write_pos' <= Len(word) /\ Len(f) \in Nat
    <3>1. write_pos' <= i' /\ i' <= Len(word') /\ Len(word') = Len(original') /\ i' \in Nat /\ write_pos' \in Nat
      BY <2>1 DEF BufferInv, Buffers, UnreadBytesKept
    <3>2. Len(word) \in Nat /\ Len(f) \in Nat
      BY <1>3, <1>9, LenProperties
    <3>3. Len(word') = Len(word)
      BY <1>3, <1>12, <3>1
    <3> QED
      BY ONLY <3>1, <3>2, <3>3
  <2>3. f \in Seq(Int)
    <3>1. Byte \subseteq Int
      BY DEF Byte
    <3> QED
      BY <1>9, <3>1, WiderSeq
  <2>4. SubSeq(Overwritten(word, write_pos, f), 1, write_pos + Len(f)) = SubSeq(word, 1, write_pos) \o f
    BY <1>3, <1>12, <2>2, <2>3, OverwrittenBehind
  <2> QED
    BY <1>2, <1>12, <2>4
<1>18. CopiedUpTo(u, done \o <<x>>, r)'
  BY <1>13, <1>14, <1>15, <1>16, <1>17 DEF CopiedUpTo
<1> QED
  BY <1>12, <1>13, <1>18 DEF Copied

\* At the end of the buffer the key is that of the word's letters.
LEMMA CopiedToTheEnd ==
    ASSUME LowersAsTheCode, StemsLetters, BufferInv, NEW u \in Seq(Letter), Copied(u),
           i = Len(word)
    PROVE  Key = Utf8(NormalizedWord(u))
<1>1. PICK done \in Seq(Letter), left \in Seq(Letter) : CopiedUpTo(u, done, left)
  BY DEF Copied
<1>2. left = << >>
  <2> DEFINE read == Utf8(done)
             more == Utf8(left)
  <2>1. original = read \o more /\ read \in Seq(Byte) /\ more \in Seq(Byte) /\ i = Len(read)
    BY <1>1, InBytesParts DEF CopiedUpTo, Copied
  <2>2. Len(original) = Len(read)
    BY <2>1 DEF BufferInv, UnreadBytesKept
  <2> HIDE DEF read, more
  <2>3. Len(original) = Len(read) + Len(more) /\ Len(read) \in Nat /\ Len(more) \in Nat
    BY <2>1, ConcatProperties, LenProperties
  <2>4. Len(more) = 0
    BY ONLY <2>2, <2>3
  <2>5. more = << >>
    BY <2>1, <2>4, EmptySeq
  <2> QED
    BY <2>5, InBytesParts DEF more
<1>3. u = done
  BY <1>1, <1>2, ConcatEmptySeq DEF CopiedUpTo
<1> DEFINE low == LowerOf(u)
<1>4. Lowered = Utf8(low)
  BY <1>1, <1>3 DEF CopiedUpTo, Lowered
<1>5. low \in Seq(Letter)
  BY LoweredWord DEF LowerOf
<1>6. NormalizedWord(u) = IF Stem(low) = << >> THEN low ELSE Stem(low)
  BY DEF NormalizedWord, InLetters!Normalized, LowerOf
<1> HIDE DEF low
<1>7. Stem(low) \in Seq(Letter) /\ StemBytes(Utf8(low)) = Utf8(Stem(low))
  BY <1>5 DEF StemsLetters, StemsAs
<1>8. Stem(low) = << >> <=> Utf8(Stem(low)) = << >>
  BY <1>7, InBytesParts
<1> QED
  BY <1>4, <1>6, <1>7, <1>8 DEF Key

-----------------------------------------------------------------------------
(***************************************************************************)
(* What has been read and counted.                                         *)
(***************************************************************************)
\* The keys of some lines.
KeysOfLines(list) ==
    {Utf8(NormalizedWord(Trimmed(line))) : line \in {l \in ToSet(list) : IsStopWord(l)}}

\* The lines before left are read; the last of them may be in the buffer.
ReadUpTo(done, left) ==
    /\ stop_list = done \o left /\ lines = InBytes(left)
    /\ pc # "stop_word" => stop_words = KeysOfLines(done)
    /\ pc = "stop_word" =>
          \E before \in Seq(Seq(Letter)), line \in Seq(Letter) :
             /\ done = Append(before, line) /\ stop_words = KeysOfLines(before)
             /\ IsStopWord(line) /\ Copied(Trimmed(line))

LinesRead == \E done, left \in Seq(Seq(Letter)) : ReadUpTo(done, left)

\* The words before rest are counted; the last of them may be in the buffer.
CountedUpTo(done, rest) ==
    /\ Split(letters) = done \o Split(rest) /\ text = Utf8(rest)
    /\ pc # "token" => out = BagOf(KeysOf(done))
    /\ pc = "token" =>
          \E before \in Seq(Seq(Letter)), w \in Seq(Letter) :
             /\ done = Append(before, w) /\ out = BagOf(KeysOf(before))
             /\ w # << >> /\ Short(w) /\ Copied(w)

WordsTaken == \E done \in Seq(Seq(Letter)), rest \in Seq(Letter) : CountedUpTo(done, rest)

TokensInv ==
    /\ BufferInv
    /\ letters \in Seq(Letter) /\ stop_list \in Seq(Seq(Letter))
    /\ letters = << >> \/ LinesRead
    /\ pc = "token" => lines = << >>
    /\ pc = "done" => text = << >>
    /\ WordsTaken

LEMMA InBytesOfMore ==
    ASSUME NEW l \in Seq(Letter), NEW r \in Seq(Seq(Letter))
    PROVE  /\ InBytes(r) \in Seq(Seq(Byte)) /\ InBytes(<<l>> \o r) # << >>
           /\ Head(InBytes(<<l>> \o r)) = Utf8(l) /\ Tail(InBytes(<<l>> \o r)) = InBytes(r)
<1> DEFINE list == <<l>> \o r
           n == Len(r)
           u == InBytes(list)
           v == InBytes(r)
<1>2. <<l>> \in Seq(Seq(Letter)) /\ Len(<<l>>) = 1 /\ <<l>>[1] = l
  OBVIOUS
<1>3. /\ list \in Seq(Seq(Letter)) /\ Len(list) = 1 + n /\ n \in Nat
      /\ \A k \in 1 .. 1 + n : list[k] = IF k <= 1 THEN <<l>>[k] ELSE r[k - 1]
  BY <1>2, ConcatProperties, LenProperties
<1>4. /\ v \in Seq(Seq(Byte)) /\ Len(v) = n
      /\ \A k \in 1 .. n : v[k] = Utf8(r[k])
  BY InBytesOfList
<1> HIDE DEF list
<1>5. /\ u \in Seq(Seq(Byte)) /\ Len(u) = 1 + n
      /\ \A k \in 1 .. 1 + n : u[k] = Utf8(list[k])
  BY <1>3, InBytesOfList
<1> HIDE DEF u, v, n
<1>6. u # << >>
  <2>1. 1 + n # 0
    BY <1>3
  <2> QED
    BY <1>5, <2>1, EmptySeq
<1>7. Head(u) = Utf8(l)
  <2>1. Head(u) = u[1]
    BY <1>5, <1>6
  <2>2. 1 \in 1 .. 1 + n /\ 1 <= 1
    BY ONLY <1>3
  <2> QED
    BY <1>2, <1>3, <1>5, <2>1, <2>2
<1>8. Tail(u) = v
  <2>1. /\ Tail(u) \in Seq(Seq(Byte)) /\ Len(Tail(u)) = Len(u) - 1
        /\ \A k \in 1 .. Len(Tail(u)) : Tail(u)[k] = u[k + 1]
    BY <1>5, <1>6, HeadTailProperties
  <2>2. (1 + n) - 1 = n /\ \A k \in 1 .. n : k + 1 \in 1 .. 1 + n /\ ~(k + 1 <= 1) /\ (k + 1) - 1 = k
    BY ONLY <1>3
  <2>3. Len(Tail(u)) = n
    BY <1>5, <2>1, <2>2
  <2>4. ASSUME NEW k \in 1 .. n PROVE Tail(u)[k] = v[k]
    <3>1. Tail(u)[k] = u[k + 1]
      BY <2>1, <2>3
    <3>2. u[k + 1] = Utf8(list[k + 1]) /\ list[k + 1] = r[k]
      BY <1>3, <1>5, <2>2
    <3> QED
      BY <1>4, <3>1, <3>2
  <2> QED
    BY <1>4, <2>1, <2>3, <2>4, SeqEqual
<1> QED
  BY <1>4, <1>6, <1>7, <1>8 DEF u, v, list

LEMMA KeysOfMoreLines ==
    ASSUME NEW list \in Seq(Seq(Letter)), NEW line \in Seq(Letter)
    PROVE  /\ IsStopWord(line) =>
                 KeysOfLines(Append(list, line)) =
                    KeysOfLines(list) \union {Utf8(NormalizedWord(Trimmed(line)))}
           /\ ~IsStopWord(line) => KeysOfLines(Append(list, line)) = KeysOfLines(list)
           /\ KeysOfLines(<< >>) = {}
<1>1. ToSet(Append(list, line)) = ToSet(list) \union {line}
  <2> DEFINE a == Append(list, line)
             n == Len(list)
  <2>1. /\ a \in Seq(Seq(Letter)) /\ Len(a) = n + 1 /\ a[n + 1] = line
        /\ \A k \in 1 .. n : a[k] = list[k]
    BY AppendProperties
  <2>2. n \in Nat /\ DOMAIN list = 1 .. n
    BY LenProperties
  <2>3. DOMAIN a = 1 .. n + 1
    BY <2>1, LenProperties
  <2> HIDE DEF a, n
  <2>4. 1 .. n + 1 = 1 .. n \union {n + 1}
    BY <2>2
  <2> QED
    BY <2>1, <2>2, <2>3, <2>4 DEF ToSet, a
<1>2. ToSet(<< >>) = {}
  BY EmptySeq DEF ToSet
<1> QED
  BY <1>1, <1>2 DEF KeysOfLines

\* A word in bytes is dropped when its letters' key is that of a line.
LEMMA DroppedKeys ==
    ASSUME LowersAsTheCode, StemsLetters, stop_list \in Seq(Seq(Letter)), NEW u \in Seq(Letter)
    PROVE  Utf8(u) \in KeysOfLines(stop_list) <=> u \in StopKeys
<1> DEFINE L == {l \in ToSet(stop_list) : IsStopWord(l)}
<1>1. \A l \in L : l \in Seq(Letter)
  <2>1. \A k \in DOMAIN stop_list : stop_list[k] \in Seq(Letter)
    BY LenProperties, ElementOfSeq
  <2> QED
    BY <2>1 DEF ToSet
<1>2. StopKeys = {NormalizedWord(Trimmed(line)) : line \in L}
  BY DEF StopKeys, NormalizedWord
<1>3. KeysOfLines(stop_list) = {Utf8(NormalizedWord(Trimmed(line))) : line \in L}
  BY DEF KeysOfLines
<1> HIDE DEF L
<1>4. \A l \in L : NormalizedWord(Trimmed(l)) \in Seq(Letter)
  BY <1>1, TrimmedInBytes, NormalizedIsWord
<1>5. ASSUME u \in StopKeys PROVE Utf8(u) \in KeysOfLines(stop_list)
  BY <1>2, <1>3, <1>5
<1>6. ASSUME Utf8(u) \in KeysOfLines(stop_list) PROVE u \in StopKeys
  <2>1. PICK l \in L : Utf8(u) = Utf8(NormalizedWord(Trimmed(l)))
    BY <1>3, <1>6
  <2>2. u = NormalizedWord(Trimmed(l))
    BY <1>4, <2>1, Utf8Injective
  <2> QED
    BY <1>2, <2>2
<1> QED
  BY <1>5, <1>6

LEMMA InitTokens ==
    ASSUME LowersAsTheCode, StemsLetters, Init
    PROVE  TokensInv
<1>1. letters \in Seq(Letter) /\ stop_list \in Seq(Seq(Letter)) /\ BufferInv
  BY GivenInLetters, InitBuffers
<1>2. << >> \in Seq(Seq(Letter)) /\ << >> \o stop_list = stop_list
  BY <1>1, EmptySeq, ConcatEmptySeq
<1>3. letters = << >> \/ LinesRead
  <2>1. ASSUME lines = InBytes(stop_list) PROVE LinesRead
    <3>1. KeysOfLines(<< >>) = {}
      BY <1>2, EmptySeq, KeysOfMoreLines
    <3>2. ReadUpTo(<< >>, stop_list)
      BY <1>2, <2>1, <3>1 DEF ReadUpTo, Init
    <3> QED
      BY <1>1, <1>2, <3>2 DEF LinesRead
  <2> QED
    BY <2>1, GivenInLetters
<1>4. WordsTaken
  <2>1. BagOf(KeysOf(<< >>)) = EmptyBag
    BY KeysOfNothing, BagOfNothing
  <2>2. << >> \o Split(letters) = Split(letters)
    <3>1. Split(letters) \in Seq(Seq(Letter))
      BY <1>1, WordsOfLetters
    <3> QED
      BY <3>1, ConcatEmptySeq
  <2>3. CountedUpTo(<< >>, letters)
    BY <2>1, <2>2 DEF CountedUpTo, Init
  <2> QED
    BY <1>1, <1>2, <2>3 DEF WordsTaken
<1> QED
  BY <1>1, <1>3, <1>4 DEF TokensInv, Init

LEMMA LinesKept ==
    ASSUME letters = << >> \/ LinesRead, pc # "stop_word", pc' # "stop_word",
           UNCHANGED <<lines, stop_words, given>>
    PROVE  letters' = << >> \/ LinesRead'
<1>1. letters' = letters /\ stop_list' = stop_list /\ lines' = lines /\ stop_words' = stop_words
  BY DEF given
<1>2. ASSUME LinesRead PROVE LinesRead'
  <2>1. PICK done \in Seq(Seq(Letter)), left \in Seq(Seq(Letter)) : ReadUpTo(done, left)
    BY <1>2 DEF LinesRead
  <2>2. ReadUpTo(done, left)'
    BY <1>1, <2>1 DEF ReadUpTo
  <2> QED
    BY <2>2 DEF LinesRead
<1> QED
  BY <1>1, <1>2

LEMMA KeysStay ==
    ASSUME UNCHANGED given, NEW words
    PROVE  KeysOf(words)' = KeysOf(words) /\ letters' = letters /\ stop_list' = stop_list
BY DEF given, KeysOf, KeptOf, StopKeys

LEMMA WordsKept ==
    ASSUME WordsTaken, pc # "token", pc' # "token", UNCHANGED <<text, out, given>>
    PROVE  WordsTaken'
<1>1. PICK done \in Seq(Seq(Letter)), rest \in Seq(Letter) : CountedUpTo(done, rest)
  BY DEF WordsTaken
<1>2. KeysOf(done)' = KeysOf(done) /\ letters' = letters /\ text' = text /\ out' = out
  BY KeysStay
<1>3. CountedUpTo(done, rest)'
  BY <1>1, <1>2 DEF CountedUpTo
<1> QED
  BY <1>3 DEF WordsTaken

LEMMA NextLineCounts ==
    ASSUME LowersAsTheCode, StemsLetters, TokensInv, NextLine
    PROVE  TokensInv'
<1>1. /\ pc = "read" /\ lines # << >> /\ lines' = Tail(lines)
      /\ UNCHANGED <<text, stop_words, out, given>>
      /\ IF IsStopWord(Head(lines)) THEN Take(Trimmed(Head(lines)), "stop_word")
         ELSE UNCHANGED <<pc, word, original, i, write_pos>>
  BY DEF NextLine
<1>2. letters' = letters /\ stop_list' = stop_list /\ stop_words' = stop_words
  BY <1>1 DEF given
<1>3. pc' \in {"read", "stop_word"}
  BY <1>1 DEF Take
<1>4. WordsTaken'
  BY <1>1, <1>3, WordsKept DEF TokensInv
<1>5. ASSUME LinesRead PROVE LinesRead'
  <2>1. PICK done \in Seq(Seq(Letter)), left \in Seq(Seq(Letter)) : ReadUpTo(done, left)
    BY <1>5 DEF LinesRead
  <2>2. /\ stop_list = done \o left /\ lines = InBytes(left) /\ stop_words = KeysOfLines(done)
    BY <1>1, <2>1 DEF ReadUpTo
  <2>3. left # << >>
    <3>1. << >> \in Seq(Seq(Letter)) /\ Len(<< >>) = 0
      BY EmptySeq
    <3>2. InBytes(<< >>) \in Seq(Seq(Byte)) /\ Len(InBytes(<< >>)) = 0
      BY <3>1, InBytesOfList
    <3>3. InBytes(<< >>) = << >>
      BY <3>2, EmptySeq
    <3> QED
      BY <1>1, <2>2, <3>3
  <2>4. PICK l \in Seq(Letter) : \E r \in Seq(Seq(Letter)) : left = <<l>> \o r
    <3> DEFINE T == Seq(Letter)
    <3>1. left \in Seq(T)
      BY <2>1
    <3> HIDE DEF T
    <3>2. \E l \in T : \E r \in Seq(T) : left = <<l>> \o r
      BY <2>3, <3>1, FirstAndRest
    <3> QED
      BY <3>2 DEF T
  <2>5. PICK r \in Seq(Seq(Letter)) : left = <<l>> \o r
    BY <2>4
  <2> DEFINE more == Append(done, l)
  <2>6. more \in Seq(Seq(Letter)) /\ stop_list = more \o r
    <3>1. <<l>> \in Seq(Seq(Letter))
      OBVIOUS
    <3>2. more = done \o <<l>> /\ more \in Seq(Seq(Letter))
      BY AppendIsConcat, AppendProperties
    <3>3. (done \o <<l>>) \o r = done \o (<<l>> \o r)
      BY <3>1, ConcatAssociative
    <3> QED
      BY <2>2, <2>5, <3>2, <3>3
  <2>7. Head(lines) = Utf8(l) /\ lines' = InBytes(r)
    BY <1>1, <2>2, <2>5, InBytesOfMore
  <2>8. Trimmed(l) \in Seq(Letter) /\ Trimmed(Utf8(l)) = Utf8(Trimmed(l))
        /\ (IsStopWord(Utf8(l)) <=> IsStopWord(l))
    BY TrimmedInBytes
  <2>9. CASE IsStopWord(l)
    <3>1. Take(Utf8(Trimmed(l)), "stop_word")
      BY <1>1, <2>7, <2>8, <2>9
    <3>2. Copied(Trimmed(l))'
      BY <2>8, <3>1, TakenIsCopied
    <3>3. pc' = "stop_word"
      BY <3>1 DEF Take
    <3> HIDE DEF more
    <3>4. ReadUpTo(more, r)'
      <4>1. more = Append(done, l) /\ stop_words' = KeysOfLines(done)
        BY <1>2, <2>2 DEF more
      <4> QED
        BY <1>2, <2>6, <2>7, <2>9, <3>2, <3>3, <4>1 DEF ReadUpTo
    <3> QED
      BY <2>6, <3>4 DEF LinesRead
  <2>10. CASE ~IsStopWord(l)
    <3>1. pc' = "read"
      BY <1>1, <2>7, <2>8, <2>10
    <3>2. stop_words' = KeysOfLines(more)
      BY <1>2, <2>2, <2>10, KeysOfMoreLines
    <3> HIDE DEF more
    <3>3. ReadUpTo(more, r)'
      BY <1>2, <2>6, <2>7, <3>1, <3>2 DEF ReadUpTo
    <3> QED
      BY <2>6, <3>3 DEF LinesRead
  <2> QED
    BY <2>9, <2>10
<1>6. BufferInv'
  BY NextLineKeeps DEF TokensInv
<1> QED
  BY <1>2, <1>3, <1>4, <1>5, <1>6 DEF TokensInv

LEMMA NextWordCounts ==
    ASSUME LowersAsTheCode, StemsLetters, TokensInv, NextWord
    PROVE  TokensInv'
<1>1. /\ pc = "read" /\ lines = << >> /\ UNCHANGED <<lines, stop_words, out, given>>
  BY DEF NextWord
<1>2. PICK done \in Seq(Seq(Letter)), rest \in Seq(Letter) : CountedUpTo(done, rest)
  BY DEF TokensInv, WordsTaken
<1>3. /\ Split(letters) = done \o Split(rest) /\ text = Utf8(rest) /\ out = BagOf(KeysOf(done))
  BY <1>1, <1>2 DEF CountedUpTo
<1>4. PICK a \in Seq(Letter), c \in Seq(Letter) :
         /\ Split(rest) = (IF a = << >> THEN << >> ELSE <<a>>) \o Split(c)
         /\ text' = Utf8(c)
         /\ IF a # << >> /\ Short(a) THEN Take(Utf8(a), "token")
            ELSE UNCHANGED <<pc, word, original, i, write_pos>>
  BY <1>3, WordTaken
<1>5. pc' \in {"read", "token"}
  BY <1>1, <1>4 DEF Take
<1>6. /\ letters' = letters /\ stop_list' = stop_list /\ lines' = << >> /\ out' = out
      /\ \A words : KeysOf(words)' = KeysOf(words)
  BY <1>1, KeysStay
<1>7. letters' = << >> \/ LinesRead'
  BY <1>1, <1>5, LinesKept DEF TokensInv
<1>8. Split(c) \in Seq(Seq(Letter))
  BY WordsOfLetters
<1>9. WordsTaken'
  <2>1. CASE a = << >>
    <3>1. Split(rest) = Split(c)
      BY <1>4, <1>8, <2>1, ConcatEmptySeq
    <3>2. pc' = "read"
      BY <1>1, <1>4, <2>1
    <3>3. CountedUpTo(done, c)'
      BY <1>3, <1>4, <1>6, <3>1, <3>2 DEF CountedUpTo
    <3> QED
      BY <3>3 DEF WordsTaken
  <2>2. CASE a # << >>
    <3> DEFINE more == Append(done, a)
    <3>1. more \in Seq(Seq(Letter)) /\ Split(letters) = more \o Split(c)
      <4>1. <<a>> \in Seq(Seq(Letter))
        OBVIOUS
      <4>2. more = done \o <<a>> /\ more \in Seq(Seq(Letter))
        BY AppendIsConcat, AppendProperties
      <4>3. (done \o <<a>>) \o Split(c) = done \o (<<a>> \o Split(c))
        BY <1>8, <4>1, Associative
      <4>4. Split(rest) = <<a>> \o Split(c)
        BY <1>4, <2>2
      <4> QED
        BY <1>3, <4>2, <4>3, <4>4
    <3>2. CASE Short(a)
      <4>1. Take(Utf8(a), "token")
        BY <1>4, <2>2, <3>2
      <4>2. Copied(a)' /\ pc' = "token"
        BY <4>1, TakenIsCopied DEF Take
      <4>3. more = Append(done, a)
        OBVIOUS
      <4> HIDE DEF more
      <4>4. CountedUpTo(more, c)'
        BY <1>3, <1>4, <1>6, <2>2, <3>1, <3>2, <4>2, <4>3 DEF CountedUpTo
      <4> QED
        BY <3>1, <4>4 DEF WordsTaken
    <3>3. CASE ~Short(a)
      <4>1. KeysOf(more) = KeysOf(done)
        BY <3>3, KeysOfMore
      <4>2. pc' = "read"
        BY <1>1, <1>4, <3>3
      <4> HIDE DEF more
      <4>3. CountedUpTo(more, c)'
        BY <1>3, <1>4, <1>6, <3>1, <4>1, <4>2 DEF CountedUpTo
      <4> QED
        BY <3>1, <4>3 DEF WordsTaken
    <3> QED
      BY <3>2, <3>3
  <2> QED
    BY <2>1, <2>2
<1>10. BufferInv'
  BY NextWordKeeps DEF TokensInv
<1> QED
  BY <1>5, <1>6, <1>7, <1>9, <1>10 DEF TokensInv

LEMMA LowerLetterCounts ==
    ASSUME LowersAsTheCode, StemsLetters, TokensInv, LowerLetter
    PROVE  TokensInv'
<1>1. /\ pc \in {"stop_word", "token"} /\ UNCHANGED <<pc, lines, text, stop_words, out, given>>
  BY DEF LowerLetter
<1>2. /\ letters' = letters /\ stop_list' = stop_list /\ lines' = lines /\ out' = out
      /\ stop_words' = stop_words /\ pc' = pc /\ text' = text
      /\ \A words : KeysOf(words)' = KeysOf(words)
  BY <1>1, KeysStay
<1>3. ASSUME NEW u \in Seq(Letter), Copied(u) PROVE Copied(u)'
  BY <1>3, CopiedGoesOn DEF TokensInv
<1>4. ASSUME LinesRead PROVE LinesRead'
  <2>1. PICK done \in Seq(Seq(Letter)), left \in Seq(Seq(Letter)) : ReadUpTo(done, left)
    BY <1>4 DEF LinesRead
  <2>2. CASE pc = "stop_word"
    <3>1. PICK before \in Seq(Seq(Letter)), line \in Seq(Letter) :
             /\ done = Append(before, line) /\ stop_words = KeysOfLines(before)
             /\ IsStopWord(line) /\ Copied(Trimmed(line))
      BY <2>1, <2>2 DEF ReadUpTo
    <3>2. Copied(Trimmed(line))'
      BY <1>3, <3>1, TrimmedInBytes
    <3>3. ReadUpTo(done, left)'
      BY <1>2, <2>1, <2>2, <3>1, <3>2 DEF ReadUpTo
    <3> QED
      BY <3>3 DEF LinesRead
  <2>3. CASE pc # "stop_word"
    <3>1. ReadUpTo(done, left)'
      BY <1>2, <2>1, <2>3 DEF ReadUpTo
    <3> QED
      BY <3>1 DEF LinesRead
  <2> QED
    BY <2>2, <2>3
<1>5. WordsTaken'
  <2>1. PICK done \in Seq(Seq(Letter)), rest \in Seq(Letter) : CountedUpTo(done, rest)
    BY DEF TokensInv, WordsTaken
  <2>2. CASE pc = "token"
    <3>1. PICK before \in Seq(Seq(Letter)), w \in Seq(Letter) :
             /\ done = Append(before, w) /\ out = BagOf(KeysOf(before))
             /\ w # << >> /\ Short(w) /\ Copied(w)
      BY <2>1, <2>2 DEF CountedUpTo
    <3>2. Copied(w)'
      BY <1>3, <3>1
    <3>3. CountedUpTo(done, rest)'
      BY <1>2, <2>1, <2>2, <3>1, <3>2 DEF CountedUpTo
    <3> QED
      BY <3>3 DEF WordsTaken
  <2>3. CASE pc # "token"
    <3>1. CountedUpTo(done, rest)'
      BY <1>2, <2>1, <2>3 DEF CountedUpTo
    <3> QED
      BY <3>1 DEF WordsTaken
  <2> QED
    BY <2>2, <2>3
<1>6. BufferInv'
  BY LowerLetterKeeps DEF TokensInv
<1> QED
  BY <1>2, <1>4, <1>5, <1>6 DEF TokensInv

LEMMA AddStopWordCounts ==
    ASSUME LowersAsTheCode, StemsLetters, TokensInv, AddStopWord
    PROVE  TokensInv'
<1>1. /\ pc = "stop_word" /\ i = Len(word) /\ pc' = "read"
      /\ stop_words' = stop_words \union ({Key} \ {<< >>})
      /\ UNCHANGED <<lines, text, word, i, write_pos, out, given, original>>
  BY DEF AddStopWord
<1>2. letters' = letters /\ stop_list' = stop_list /\ lines' = lines
  BY <1>1 DEF given
<1>3. ASSUME LinesRead PROVE LinesRead'
  <2>1. PICK done \in Seq(Seq(Letter)), left \in Seq(Seq(Letter)) : ReadUpTo(done, left)
    BY <1>3 DEF LinesRead
  <2>2. PICK before \in Seq(Seq(Letter)), line \in Seq(Letter) :
           /\ done = Append(before, line) /\ stop_words = KeysOfLines(before)
           /\ IsStopWord(line) /\ Copied(Trimmed(line))
    BY <1>1, <2>1 DEF ReadUpTo
  <2> DEFINE u == Trimmed(line)
             v == NormalizedWord(u)
  <2>3. u \in Seq(Letter) /\ u # << >>
    BY <2>2, TrimmedInBytes DEF IsStopWord
  <2>4. Copied(u)
    BY <2>2
  <2> HIDE DEF u
  <2>5. v \in Seq(Letter) /\ v # << >>
    BY <2>3, NormalizedIsWord
  <2>6. Key = Utf8(v)
    BY <1>1, <2>3, <2>4, CopiedToTheEnd DEF TokensInv
  <2> HIDE DEF v
  <2>7. Utf8(v) # << >>
    BY <2>5, InBytesParts
  <2>8. stop_words' = KeysOfLines(before) \union {Utf8(v)}
    BY <1>1, <2>2, <2>6, <2>7
  <2>9. stop_words' = KeysOfLines(done)
    BY <2>2, <2>8, KeysOfMoreLines DEF u, v
  <2>10. ReadUpTo(done, left)'
    BY <1>1, <1>2, <2>1, <2>9 DEF ReadUpTo
  <2> QED
    BY <2>10 DEF LinesRead
<1>4. WordsTaken'
  BY <1>1, WordsKept DEF TokensInv
<1>5. BufferInv'
  BY <1>1 DEF TokensInv, BufferInv, Buffers, UnreadBytesKept
<1> QED
  BY <1>1, <1>2, <1>3, <1>4, <1>5 DEF TokensInv

LEMMA CountTokenCounts ==
    ASSUME LowersAsTheCode, StemsLetters, TokensInv, CountToken
    PROVE  TokensInv'
<1>1. /\ pc = "token" /\ i = Len(word) /\ pc' = "read" /\ lines = << >>
      /\ out' = IF Key = << >> \/ Key \in stop_words THEN out ELSE Counts!BagAdd(out, Key)
      /\ UNCHANGED <<lines, text, word, i, write_pos, stop_words, given, original>>
  BY DEF CountToken, TokensInv
<1>2. /\ letters' = letters /\ stop_list' = stop_list /\ lines' = lines /\ text' = text
      /\ \A words : KeysOf(words)' = KeysOf(words)
  BY <1>1, KeysStay
<1>3. PICK done \in Seq(Seq(Letter)), rest \in Seq(Letter) : CountedUpTo(done, rest)
  BY DEF TokensInv, WordsTaken
<1>4. PICK before \in Seq(Seq(Letter)), w \in Seq(Letter) :
         /\ done = Append(before, w) /\ out = BagOf(KeysOf(before))
         /\ w # << >> /\ Short(w) /\ Copied(w)
  BY <1>1, <1>3 DEF CountedUpTo
\* There is a word, so the text is one that came with a list of stop words.
<1>5. LinesRead
  <2>1. ASSUME letters = << >> PROVE FALSE
    <3>1. done \o Split(rest) = << >>
      BY <1>3, <2>1, SplitNothing DEF CountedUpTo
    <3>2. Split(rest) \in Seq(Seq(Letter))
      BY WordsOfLetters
    <3> DEFINE s == Split(rest)
    <3>3. s \in Seq(Seq(Letter)) /\ Len(s) \in Nat
      BY <3>2, LenProperties
    <3> HIDE DEF s
    <3>4. Len(done) = Len(before) + 1 /\ Len(before) \in Nat
      BY <1>4, AppendProperties, LenProperties
    <3>5. Len(done \o s) = Len(done) + Len(s)
      BY <3>3, ConcatProperties
    <3>6. Len(done \o s) = 0
      BY <3>1, EmptySeq DEF s
    <3> QED
      BY ONLY <3>3, <3>4, <3>5, <3>6
  <2> QED
    BY <2>1 DEF TokensInv
<1>6. stop_words = KeysOfLines(stop_list)
  <2>1. PICK d \in Seq(Seq(Letter)), left \in Seq(Seq(Letter)) : ReadUpTo(d, left)
    BY <1>5 DEF LinesRead
  <2>2. stop_list = d \o left /\ InBytes(left) = << >> /\ stop_words = KeysOfLines(d)
    BY <1>1, <2>1 DEF ReadUpTo
  <2>3. Len(left) = 0
    <3>1. Len(InBytes(left)) = Len(left)
      BY InBytesOfList
    <3> QED
      BY <2>2, <3>1, EmptySeq
  <2>4. left = << >>
    BY <2>3, EmptySeq
  <2> QED
    BY <2>2, <2>4, ConcatEmptySeq
<1> DEFINE v == NormalizedWord(w)
<1>7. v \in Seq(Letter) /\ v # << >>
  BY <1>4, NormalizedIsWord
<1>8. Key = Utf8(v)
  BY <1>1, <1>4, CopiedToTheEnd DEF TokensInv
<1>9. KeysOf(done) = IF v \notin StopKeys THEN Append(KeysOf(before), Utf8(v)) ELSE KeysOf(before)
  BY <1>4, KeysOfMore
<1> HIDE DEF v
<1>10. Utf8(v) # << >> /\ Utf8(v) \in Seq(Byte)
  BY <1>7, InBytesParts
<1>11. Key \in stop_words <=> v \in StopKeys
  BY <1>6, <1>7, <1>8, DroppedKeys DEF TokensInv
<1>12. out' = BagOf(KeysOf(done))
  <2>1. CASE v \in StopKeys
    BY <1>1, <1>4, <1>9, <1>11, <2>1
  <2>2. CASE v \notin StopKeys
    <3>1. KeysOf(before) \in Seq(Seq(Byte))
      BY KeysOfMore
    <3>2. BagOf(Append(KeysOf(before), Utf8(v))) = Counts!BagAdd(BagOf(KeysOf(before)), Utf8(v))
      BY <1>10, <3>1, BagOfMore
    <3> QED
      BY <1>1, <1>4, <1>8, <1>9, <1>10, <1>11, <2>2, <3>2
  <2> QED
    BY <2>1, <2>2
<1>13. CountedUpTo(done, rest)'
  BY <1>1, <1>2, <1>3, <1>12 DEF CountedUpTo
<1>14. WordsTaken'
  BY <1>13 DEF WordsTaken
<1>15. letters' = << >> \/ LinesRead'
  BY <1>1, LinesKept DEF TokensInv
<1>16. BufferInv'
  BY <1>1 DEF TokensInv, BufferInv, Buffers, UnreadBytesKept
<1> QED
  BY <1>1, <1>2, <1>14, <1>15, <1>16 DEF TokensInv

LEMMA FinishCounts ==
    ASSUME TokensInv, Finish
    PROVE  TokensInv'
<1>1. /\ pc = "read" /\ lines = << >> /\ text = << >> /\ pc' = "done"
      /\ UNCHANGED <<lines, text, word, i, write_pos, stop_words, out, given, original>>
  BY DEF Finish
<1>2. letters' = letters /\ stop_list' = stop_list
  BY <1>1 DEF given
<1>3. letters' = << >> \/ LinesRead'
  BY <1>1, LinesKept DEF TokensInv
<1>4. WordsTaken'
  BY <1>1, WordsKept DEF TokensInv
<1>5. BufferInv'
  BY <1>1 DEF TokensInv, BufferInv, Buffers, UnreadBytesKept
<1> QED
  BY <1>1, <1>2, <1>3, <1>4, <1>5 DEF TokensInv

LEMMA StutterCounts ==
    ASSUME TokensInv, UNCHANGED vars
    PROVE  TokensInv'
<1>1. /\ pc' = pc /\ lines' = lines /\ text' = text /\ word' = word /\ i' = i
      /\ write_pos' = write_pos /\ stop_words' = stop_words /\ out' = out
      /\ letters' = letters /\ stop_list' = stop_list /\ original' = original
      /\ \A words : KeysOf(words)' = KeysOf(words)
  BY KeysStay DEF vars, given
<1>2. \A u : Copied(u)' <=> Copied(u)
  BY <1>1 DEF Copied, CopiedUpTo
<1>3. LinesRead' <=> LinesRead
  BY <1>1, <1>2 DEF LinesRead, ReadUpTo
<1>4. WordsTaken' <=> WordsTaken
  BY <1>1, <1>2 DEF WordsTaken, CountedUpTo
<1>5. BufferInv'
  BY <1>1 DEF TokensInv, BufferInv, Buffers, UnreadBytesKept
<1> QED
  BY <1>1, <1>3, <1>4, <1>5 DEF TokensInv

\* The tokens that CountsTheTokens speaks of are those of the split text.
LEMMA TokensOfText ==
    ASSUME NEW w \in Seq(Letter)
    PROVE  InLetters!Tokens(w) = TokensOf(Split(w))
<1>1. InLetters!SplitWords(w) = Split(w)
  BY DEF InLetters!SplitWords, InLetters!RunsBetween, InLetters!InOrder,
         Split, RunsBetween, InOrder
<1> DEFINE words == Split(w)
           kept == {n \in {m \in DOMAIN words : Short(words[m])} : NormalizedWord(words[n]) \notin {}}
           short == {m \in DOMAIN words : Short(words[m])}
<1>2. kept = short
  OBVIOUS
<1>3. InLetters!Tokens(w) = InLetters!InOrder([n \in kept |-> NormalizedWord(words[n])], Len(words))
  BY <1>1 DEF InLetters!Tokens, Short, NormalizedWord
<1>4. TokensOf(words) = InOrder([n \in short |-> NormalizedWord(words[n])], Len(words))
  BY DEF TokensOf
<1> HIDE DEF kept, short
<1>5. \A value, n : InLetters!InOrder(value, n) = InOrder(value, n)
  BY DEF InLetters!InOrder, InOrder
<1> QED
  BY <1>2, <1>3, <1>4, <1>5

LEMMA CountedWhenDone ==
    ASSUME LowersAsTheCode, StemsLetters, TokensInv
    PROVE  CountsTheTokens
<1> SUFFICES ASSUME pc = "done"
             PROVE  LET all == InLetters!Tokens(letters)
                        tokens == OnlyFrom(all, ToSet(all) \ StopKeys)
                        keys == [n \in DOMAIN tokens |-> Utf8(tokens[n])]
                    IN  out = [k \in ToSet(keys) |-> Cardinality({n \in DOMAIN keys : keys[n] = k})]
  BY DEF CountsTheTokens
<1> DEFINE all == InLetters!Tokens(letters)
           tokens == OnlyFrom(all, ToSet(all) \ StopKeys)
           keys == [n \in DOMAIN tokens |-> Utf8(tokens[n])]
           words == Split(letters)
<1>1. out = BagOf(KeysOf(words)) /\ words \in Seq(Seq(Letter)) /\ letters \in Seq(Letter)
  <2>1. PICK done \in Seq(Seq(Letter)), rest \in Seq(Letter) : CountedUpTo(done, rest)
    BY DEF TokensInv, WordsTaken
  <2>2. /\ words = done \o Split(rest) /\ Utf8(rest) = << >> /\ out = BagOf(KeysOf(done))
    BY <2>1 DEF CountedUpTo, TokensInv
  <2>3. rest = << >>
    BY <2>2, InBytesParts
  <2>4. words = done
    BY <2>2, <2>3, SplitNothing, ConcatEmptySeq
  <2> QED
    BY <2>2, <2>4 DEF TokensInv
<1>2. all = TokensOf(words) /\ all \in Seq(Seq(Letter))
  <2>1. TokensOf(words) \in Seq(Seq(Letter))
    <3> HIDE DEF words
    <3>1. << >> \in Seq(Letter)
      BY EmptySeq
    <3> QED
      BY <1>1, <3>1, TokensOfMore
  <2> QED
    BY <1>1, <2>1, TokensOfText
<1> HIDE DEF all, words
<1>3. tokens = KeptOf(words)
  <2>1. \A n \in DOMAIN all : all[n] \in Seq(Letter) /\ all[n] \in ToSet(all)
    <3>1. \A n \in DOMAIN all : all[n] \in Seq(Letter)
      BY <1>2, LenProperties, ElementOfSeq
    <3> QED
      BY <3>1 DEF ToSet
  <2>2. {n \in DOMAIN all : all[n] \in ToSet(all) \ StopKeys}
           = {n \in DOMAIN all : all[n] \in Seq(Letter) \ StopKeys}
    BY <2>1
  <2>3. tokens = OnlyFrom(all, Seq(Letter) \ StopKeys)
    BY <2>2 DEF OnlyFrom
  <2> QED
    BY <1>2, <2>3 DEF KeptOf
<1> HIDE DEF tokens
<1>4. keys = KeysOf(words)
  BY <1>3 DEF KeysOf
<1> HIDE DEF keys
<1>5. out = BagOf(keys)
  BY <1>1, <1>4
<1>6. out = [k \in ToSet(keys) |-> Cardinality({n \in DOMAIN keys : keys[n] = k})]
  BY <1>5 DEF BagOf
<1> QED
  BY <1>6 DEF keys, tokens, all

\* The tokens of a text are counted as its letters have them, whatever the
\* text, the list of stop words, the letters, the stemmer and the bound on the
\* length of a word, when Lower says of each letter what the code does with
\* it and the stemmer makes of a word in bytes the bytes of what it makes of
\* its letters: neither the bytes, nor the buffer a word is put into lower
\* case in, nor the separate loading of the stop words show (tokenize,
\* tokenizer.cpp:8-37; LoadStopWordsSet, stop_words.cpp:62-107).
THEOREM TokensCounted ==
    ASSUME LowersAsTheCode, StemsLetters
    PROVE  Spec => []CountsTheTokens
<1>1. Init => TokensInv
  BY InitTokens
<1>2. TokensInv /\ [Next]_vars => TokensInv'
  <2> SUFFICES ASSUME TokensInv, [Next]_vars PROVE TokensInv'
    OBVIOUS
  <2>1. CASE NextLine
    BY <2>1, NextLineCounts
  <2>2. CASE NextWord
    BY <2>2, NextWordCounts
  <2>3. CASE LowerLetter
    BY <2>3, LowerLetterCounts
  <2>4. CASE AddStopWord
    BY <2>4, AddStopWordCounts
  <2>5. CASE CountToken
    BY <2>5, CountTokenCounts
  <2>6. CASE Finish
    BY <2>6, FinishCounts
  <2>7. CASE UNCHANGED vars
    BY <2>7, StutterCounts
  <2> QED
    BY <2>1, <2>2, <2>3, <2>4, <2>5, <2>6, <2>7 DEF Next
<1>3. TokensInv => CountsTheTokens
  BY CountedWhenDone
<1> QED
  BY <1>1, <1>2, <1>3, PTL DEF Spec

=============================================================================
