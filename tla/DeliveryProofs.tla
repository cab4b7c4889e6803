---------------------------- MODULE DeliveryProofs ----------------------------
(***************************************************************************)
(* Proofs about CallbackId and Delivery: for every set of bytes and of     *)
(* texts that are tried, and every set of requests as RequestsAssumption   *)
(* describes them, whatever the number and order of their headers and      *)
(* buffers.                                                                *)
(***************************************************************************)
EXTENDS Delivery, SequenceTheorems, WellFoundedInduction, TLAPS

-----------------------------------------------------------------------------
(* Base64: groups of three bytes and of four characters                    *)

Byte == 0..255
Sextet == 0..63

\* A digit beyond the end is zero, so every digit is one.
LEMMA DigitType ==
    ASSUME NEW S, 0 \in S, NEW s \in Seq(S), NEW k \in Int
    PROVE  /\ Digit(s, k) \in S
           /\ k \notin 1..Len(s) => Digit(s, k) = 0
           /\ k \in 1..Len(s) => Digit(s, k) = s[k]
BY DEF Digit

\* The powers that are used.
LEMMA Powers ==
    /\ TwoTo[0] = 1 /\ TwoTo[2] = 4 /\ TwoTo[4] = 16 /\ TwoTo[6] = 64
    /\ TwoTo[8] = 256 /\ TwoTo[10] = 1024
BY DEF TwoTo

\* Where the groups begin.
LEMMA Offsets ==
    ASSUME NEW g \in Nat
    PROVE  /\ ((4 * g + 1 - 1) * 6) \div 8 + 1 = 3 * g + 1 /\ ((4 * g + 1 - 1) * 6) % 8 = 0
           /\ ((4 * g + 2 - 1) * 6) \div 8 + 1 = 3 * g + 1 /\ ((4 * g + 2 - 1) * 6) % 8 = 6
           /\ ((4 * g + 3 - 1) * 6) \div 8 + 1 = 3 * g + 2 /\ ((4 * g + 3 - 1) * 6) % 8 = 4
           /\ ((4 * g + 4 - 1) * 6) \div 8 + 1 = 3 * g + 3 /\ ((4 * g + 4 - 1) * 6) % 8 = 2
           /\ ((3 * g + 1 - 1) * 8) \div 6 + 1 = 4 * g + 1 /\ ((3 * g + 1 - 1) * 8) % 6 = 0
           /\ ((3 * g + 2 - 1) * 8) \div 6 + 1 = 4 * g + 2 /\ ((3 * g + 2 - 1) * 8) % 6 = 2
           /\ ((3 * g + 3 - 1) * 8) \div 6 + 1 = 4 * g + 3 /\ ((3 * g + 3 - 1) * 8) % 6 = 4
OBVIOUS

\* The four characters that three bytes are written as.
LEMMA EncodedGroup ==
    ASSUME NEW s \in Seq(Byte), NEW g \in Nat
    PROVE  LET b1 == Digit(s, 3 * g + 1)
               b2 == Digit(s, 3 * g + 2)
               b3 == Digit(s, 3 * g + 3)
           IN  /\ Regroup(s, 8, 6, 4 * g + 1) = b1 \div 4
               /\ Regroup(s, 8, 6, 4 * g + 2) = (b1 % 4) * 16 + b2 \div 16
               /\ Regroup(s, 8, 6, 4 * g + 3) = (b2 % 16) * 4 + b3 \div 64
               /\ Regroup(s, 8, 6, 4 * g + 4) = b3 % 64
<1> DEFINE b1 == Digit(s, 3 * g + 1)
           b2 == Digit(s, 3 * g + 2)
           b3 == Digit(s, 3 * g + 3)
           b4 == Digit(s, 3 * g + 4)
<1>1. b1 \in Byte /\ b2 \in Byte /\ b3 \in Byte /\ b4 \in Byte
    <2>1. 0 \in Byte  BY DEF Byte
    <2> QED  BY <2>1, DigitType
<1>2. Regroup(s, 8, 6, 4 * g + 1) = ((b1 * 256 + b2) \div 1024) % 64
    BY Offsets, Powers DEF Regroup
<1>3. Regroup(s, 8, 6, 4 * g + 2) = ((b1 * 256 + b2) \div 16) % 64
    BY Offsets, Powers DEF Regroup
<1>4. Regroup(s, 8, 6, 4 * g + 3) = ((b2 * 256 + b3) \div 64) % 64
    BY Offsets, Powers DEF Regroup
<1>5. Regroup(s, 8, 6, 4 * g + 4) = ((b3 * 256 + b4) \div 256) % 64
    BY Offsets, Powers DEF Regroup
<1> HIDE DEF b1, b2, b3, b4
<1>6. ((b1 * 256 + b2) \div 1024) % 64 = b1 \div 4
    BY <1>1 DEF Byte
<1>7. ((b1 * 256 + b2) \div 16) % 64 = (b1 % 4) * 16 + b2 \div 16
    BY <1>1 DEF Byte
<1>8. ((b2 * 256 + b3) \div 64) % 64 = (b2 % 16) * 4 + b3 \div 64
    BY <1>1 DEF Byte
<1>9. ((b3 * 256 + b4) \div 256) % 64 = b3 % 64
    BY <1>1 DEF Byte
<1> QED  BY <1>2, <1>3, <1>4, <1>5, <1>6, <1>7, <1>8, <1>9 DEF b1, b2, b3

\* The three bytes that four characters are read as.
LEMMA DecodedGroup ==
    ASSUME NEW t \in Seq(Sextet), NEW g \in Nat
    PROVE  LET c1 == Digit(t, 4 * g + 1)
               c2 == Digit(t, 4 * g + 2)
               c3 == Digit(t, 4 * g + 3)
               c4 == Digit(t, 4 * g + 4)
           IN  /\ Regroup(t, 6, 8, 3 * g + 1) = c1 * 4 + c2 \div 16
               /\ Regroup(t, 6, 8, 3 * g + 2) = (c2 % 16) * 16 + c3 \div 4
               /\ Regroup(t, 6, 8, 3 * g + 3) = (c3 % 4) * 64 + c4
<1> DEFINE c1 == Digit(t, 4 * g + 1)
           c2 == Digit(t, 4 * g + 2)
           c3 == Digit(t, 4 * g + 3)
           c4 == Digit(t, 4 * g + 4)
<1>1. c1 \in Sextet /\ c2 \in Sextet /\ c3 \in Sextet /\ c4 \in Sextet
    <2>1. 0 \in Sextet  BY DEF Sextet
    <2> QED  BY <2>1, DigitType
<1>2. Regroup(t, 6, 8, 3 * g + 1) = ((c1 * 64 + c2) \div 16) % 256
    BY Offsets, Powers DEF Regroup
<1>3. Regroup(t, 6, 8, 3 * g + 2) = ((c2 * 64 + c3) \div 4) % 256
    BY Offsets, Powers DEF Regroup
<1>4. Regroup(t, 6, 8, 3 * g + 3) = ((c3 * 64 + c4) \div 1) % 256
    BY Offsets, Powers DEF Regroup
<1> HIDE DEF c1, c2, c3, c4
<1>5. /\ ((c1 * 64 + c2) \div 16) % 256 = c1 * 4 + c2 \div 16
      /\ ((c2 * 64 + c3) \div 4) % 256 = (c2 % 16) * 16 + c3 \div 4
      /\ ((c3 * 64 + c4) \div 1) % 256 = (c3 % 4) * 64 + c4
    BY <1>1 DEF Sextet
<1> QED  BY <1>2, <1>3, <1>4, <1>5 DEF c1, c2, c3, c4

-----------------------------------------------------------------------------
(* Base64: what is written is what is read                                 *)

\* The lengths: no text has one character too many, and the bytes of a text
\* are as many as it was made from.
LEMMA Lengths ==
    ASSUME NEW n \in Nat
    PROVE  LET m == (8 * n + 5) \div 6
           IN  /\ m \in Nat /\ m % 4 # 1 /\ (6 * m) \div 8 = n
               /\ n <= 8 => m <= 11
               /\ n > 0 => m > 0
OBVIOUS

\* A text is characters of the alphabet, which stand for six bits.
LEMMA EncodedText ==
    ASSUME NEW s \in Seq(Byte)
    PROVE  /\ Base64Encode(s) \in Seq(Sextet)
           /\ Len(Base64Encode(s)) = (8 * Len(s) + 5) \div 6
<1> DEFINE m == (8 * Len(s) + 5) \div 6
<1>1. m \in Nat
    BY LenProperties, Lengths
<1>2. ASSUME NEW k \in 1..m PROVE Regroup(s, 8, 6, k) \in Sextet
    <2> DEFINE first == (k - 1) * 6
               i     == first \div 8 + 1
               x     == Digit(s, i)
               y     == Digit(s, i + 1)
               pair  == x * 256 + y
               shift == TwoTo[(2 * 8 - (first % 8)) - 6]
    <2>1. first \in Nat /\ i \in Nat /\ first % 8 \in {0, 2, 4, 6}
        BY <1>1
    <2>2. x \in 0..255 /\ y \in 0..255
        <3>1. 0 \in Byte  BY DEF Byte
        <3>2. x \in Byte /\ y \in Byte
            BY <2>1, <3>1, DigitType
        <3> QED  BY <3>2 DEF Byte
    <2>3. shift \in {4, 16, 64, 256, 1024}
        BY <2>1, Powers
    <2> HIDE DEF first, i, shift, x, y
    <2>4. pair \in Nat
        BY <2>2
    <2> HIDE DEF pair
    <2>5. pair \div shift \in Nat
        BY <2>3, <2>4
    <2>6. \A q \in Nat : q % 64 \in 0..63
        OBVIOUS
    <2>7. (pair \div shift) % 64 \in 0..63
        BY <2>5, <2>6
    <2>8. TwoTo[8] = 256 /\ TwoTo[6] = 64
        BY Powers
    <2>9. Regroup(s, 8, 6, k) = (pair \div shift) % 64
        BY <2>8 DEF Regroup, first, i, pair, shift, x, y
    <2> QED  BY <2>7, <2>9 DEF Sextet
<1> HIDE DEF m
<1>3. Base64Encode(s) = [k \in 1..m |-> Regroup(s, 8, 6, k)]
    BY DEF Base64Encode, m
<1>4. Base64Encode(s) \in [1..m -> Sextet]
    BY <1>2, <1>3
<1> QED
    BY <1>1, <1>4 DEF m

\* The same for bytes.
LEMMA DecodedBytes ==
    ASSUME NEW t \in Seq(Sextet)
    PROVE  /\ Base64Decode(t) \in Seq(Byte)
           /\ Len(Base64Decode(t)) = (6 * Len(t)) \div 8
<1> DEFINE n == (6 * Len(t)) \div 8
<1>1. n \in Nat
    BY LenProperties
<1>2. ASSUME NEW k \in 1..n PROVE Regroup(t, 6, 8, k) \in Byte
    <2> DEFINE first == (k - 1) * 8
               i     == first \div 6 + 1
               x     == Digit(t, i)
               y     == Digit(t, i + 1)
               pair  == x * 64 + y
               shift == TwoTo[(2 * 6 - (first % 6)) - 8]
    <2>1. first \in Nat /\ i \in Nat /\ first % 6 \in {0, 2, 4}
        BY <1>1
    <2>2. x \in 0..63 /\ y \in 0..63
        <3>1. 0 \in Sextet  BY DEF Sextet
        <3>2. x \in Sextet /\ y \in Sextet
            BY <2>1, <3>1, DigitType
        <3> QED  BY <3>2 DEF Sextet
    <2>3. shift \in {1, 4, 16}
        BY <2>1, Powers
    <2> HIDE DEF first, i, shift, x, y
    <2>4. pair \in Nat
        BY <2>2
    <2> HIDE DEF pair
    <2>5. pair \div shift \in Nat
        BY <2>3, <2>4
    <2>6. \A q \in Nat : q % 256 \in 0..255
        OBVIOUS
    <2>7. (pair \div shift) % 256 \in 0..255
        BY <2>5, <2>6
    <2>8. TwoTo[6] = 64 /\ TwoTo[8] = 256
        BY Powers
    <2>9. Regroup(t, 6, 8, k) = (pair \div shift) % 256
        BY <2>8 DEF Regroup, first, i, pair, shift, x, y
    <2> QED  BY <2>7, <2>9 DEF Byte
<1> HIDE DEF n
<1>3. Base64Decode(t) = [k \in 1..n |-> Regroup(t, 6, 8, k)]
    BY DEF Base64Decode, n
<1>4. Base64Decode(t) \in [1..n -> Byte]
    BY <1>2, <1>3
<1> QED
    BY <1>1, <1>4 DEF n

\* The characters of a text are those that its length has room for, and
\* each group of them is written from three bytes.
LEMMA EncodedDigits ==
    ASSUME NEW s \in Seq(Byte), NEW g \in Nat
    PROVE  LET t  == Base64Encode(s)
               m  == (8 * Len(s) + 5) \div 6
               b1 == Digit(s, 3 * g + 1)
               b2 == Digit(s, 3 * g + 2)
               b3 == Digit(s, 3 * g + 3)
           IN  /\ 4 * g + 1 <= m => Digit(t, 4 * g + 1) = b1 \div 4
               /\ 4 * g + 2 <= m => Digit(t, 4 * g + 2) = (b1 % 4) * 16 + b2 \div 16
               /\ 4 * g + 3 <= m => Digit(t, 4 * g + 3) = (b2 % 16) * 4 + b3 \div 64
               /\ 4 * g + 4 <= m => Digit(t, 4 * g + 4) = b3 % 64
<1> DEFINE t == Base64Encode(s)
           m == (8 * Len(s) + 5) \div 6
<1>1. m \in Nat
    BY LenProperties, Lengths
<1>2. t = [k \in 1..m |-> Regroup(s, 8, 6, k)]
    BY DEF Base64Encode
<1> HIDE DEF t, m
<1>3. \A k \in 1..m : Digit(t, k) = Regroup(s, 8, 6, k)
    BY <1>2 DEF Digit
<1>4. /\ 4 * g + 1 <= m => 4 * g + 1 \in 1..m
      /\ 4 * g + 2 <= m => 4 * g + 2 \in 1..m
      /\ 4 * g + 3 <= m => 4 * g + 3 \in 1..m
      /\ 4 * g + 4 <= m => 4 * g + 4 \in 1..m
    BY <1>1
<1> QED
    BY <1>3, <1>4, EncodedGroup DEF t, m

\* The same for bytes.
LEMMA DecodedDigits ==
    ASSUME NEW t \in Seq(Sextet), NEW g \in Nat
    PROVE  LET s  == Base64Decode(t)
               n  == (6 * Len(t)) \div 8
               c1 == Digit(t, 4 * g + 1)
               c2 == Digit(t, 4 * g + 2)
               c3 == Digit(t, 4 * g + 3)
               c4 == Digit(t, 4 * g + 4)
           IN  /\ 3 * g + 1 <= n => Digit(s, 3 * g + 1) = c1 * 4 + c2 \div 16
               /\ 3 * g + 2 <= n => Digit(s, 3 * g + 2) = (c2 % 16) * 16 + c3 \div 4
               /\ 3 * g + 3 <= n => Digit(s, 3 * g + 3) = (c3 % 4) * 64 + c4
<1> DEFINE s == Base64Decode(t)
           n == (6 * Len(t)) \div 8
<1>1. n \in Nat
    BY LenProperties
<1>2. s = [k \in 1..n |-> Regroup(t, 6, 8, k)]
    BY DEF Base64Decode
<1> HIDE DEF s, n
<1>3. \A k \in 1..n : Digit(s, k) = Regroup(t, 6, 8, k)
    BY <1>2 DEF Digit
<1>4. /\ 3 * g + 1 <= n => 3 * g + 1 \in 1..n
      /\ 3 * g + 2 <= n => 3 * g + 2 \in 1..n
      /\ 3 * g + 3 <= n => 3 * g + 3 \in 1..n
    BY <1>1
<1> QED
    BY <1>3, <1>4, DecodedGroup DEF s, n

\* What is written of bytes is read back as they were.
LEMMA DecodeOfEncode ==
    ASSUME NEW s \in Seq(Byte)
    PROVE  Base64Decode(Base64Encode(s)) = s
<1> DEFINE n == Len(s)
           t == Base64Encode(s)
           m == (8 * n + 5) \div 6
           r == Base64Decode(t)
<1>1. n \in Nat /\ m \in Nat /\ (6 * m) \div 8 = n
    BY LenProperties, Lengths
<1>2. t \in Seq(Sextet) /\ Len(t) = m
    BY EncodedText
<1>3. r \in Seq(Byte) /\ Len(r) = n
    BY <1>1, <1>2, DecodedBytes
<1>4. ASSUME NEW k \in 1..n PROVE r[k] = s[k]
    <2>1. PICK g \in Nat : k = 3 * g + 1 \/ k = 3 * g + 2 \/ k = 3 * g + 3
        <3>1. (k - 1) \div 3 \in Nat
            BY <1>1
        <3> QED  BY <1>1, <3>1
    <2> DEFINE b1 == Digit(s, 3 * g + 1)
               b2 == Digit(s, 3 * g + 2)
               b3 == Digit(s, 3 * g + 3)
    <2>2. b1 \in 0..255 /\ b2 \in 0..255 /\ b3 \in 0..255
        <3>1. 0 \in Byte  BY DEF Byte
        <3>2. b1 \in Byte /\ b2 \in Byte /\ b3 \in Byte
            BY <3>1, DigitType
        <3> QED  BY <3>2 DEF Byte
    <2>3. /\ k = 3 * g + 1 => 4 * g + 2 <= m
          /\ k = 3 * g + 2 => 4 * g + 3 <= m
          /\ k = 3 * g + 3 => 4 * g + 4 <= m
        BY <1>1
    <2>4. s[k] = Digit(s, k) /\ r[k] = Digit(r, k)
        BY <1>3 DEF Digit
    <2> DEFINE c1 == Digit(t, 4 * g + 1)
               c2 == Digit(t, 4 * g + 2)
               c3 == Digit(t, 4 * g + 3)
               c4 == Digit(t, 4 * g + 4)
    <2>5. /\ 4 * g + 1 <= m => c1 = b1 \div 4
          /\ 4 * g + 2 <= m => c2 = (b1 % 4) * 16 + b2 \div 16
          /\ 4 * g + 3 <= m => c3 = (b2 % 16) * 4 + b3 \div 64
          /\ 4 * g + 4 <= m => c4 = b3 % 64
        BY EncodedDigits
    <2>6. /\ 3 * g + 1 <= n => Digit(r, 3 * g + 1) = c1 * 4 + c2 \div 16
          /\ 3 * g + 2 <= n => Digit(r, 3 * g + 2) = (c2 % 16) * 16 + c3 \div 4
          /\ 3 * g + 3 <= n => Digit(r, 3 * g + 3) = (c3 % 4) * 64 + c4
        BY <1>1, <1>2, DecodedDigits
    <2> HIDE DEF n, t, m, r, c1, c2, c3, c4
    <2>7. CASE k = 3 * g + 1
        <3>1. Digit(r, k) = (b1 \div 4) * 4 + ((b1 % 4) * 16 + b2 \div 16) \div 16
            BY <1>1, <2>3, <2>5, <2>6, <2>7
        <3> HIDE DEF b1, b2, b3
        <3>2. (b1 \div 4) * 4 + ((b1 % 4) * 16 + b2 \div 16) \div 16 = b1
            BY <2>2
        <3> QED  BY <2>4, <2>7, <3>1, <3>2 DEF b1
    <2>8. CASE k = 3 * g + 2
        <3>1. Digit(r, k) = (((b1 % 4) * 16 + b2 \div 16) % 16) * 16
                                + ((b2 % 16) * 4 + b3 \div 64) \div 4
            BY <1>1, <2>3, <2>5, <2>6, <2>8
        <3> HIDE DEF b1, b2, b3
        <3>2. (((b1 % 4) * 16 + b2 \div 16) % 16) * 16
                  + ((b2 % 16) * 4 + b3 \div 64) \div 4 = b2
            BY <2>2
        <3> QED  BY <2>4, <2>8, <3>1, <3>2 DEF b2
    <2>9. CASE k = 3 * g + 3
        <3>1. Digit(r, k) = (((b2 % 16) * 4 + b3 \div 64) % 4) * 64 + (b3 % 64)
            BY <1>1, <2>3, <2>5, <2>6, <2>9
        <3> HIDE DEF b1, b2, b3
        <3>2. (((b2 % 16) * 4 + b3 \div 64) % 4) * 64 + (b3 % 64) = b3
            BY <2>2
        <3> QED  BY <2>4, <2>9, <3>1, <3>2 DEF b3
    <2> QED  BY <2>1, <2>7, <2>8, <2>9
<1> HIDE DEF n, t, m, r
<1> QED
    BY <1>3, <1>4, SeqEqual DEF n, t, r

\* What is written is what a reader accepts: characters of the alphabet, a
\* possible length, and no bits beyond the last byte.
LEMMA EncodeIsValid ==
    ASSUME NEW s \in Seq(Byte)
    PROVE  Base64Valid(Base64Encode(s))
<1> DEFINE n == Len(s)
           t == Base64Encode(s)
           m == (8 * n + 5) \div 6
<1>1. n \in Nat /\ m \in Nat /\ m % 4 # 1
    BY LenProperties, Lengths
<1>2. t \in Seq(Sextet) /\ Len(t) = m
    BY EncodedText
<1>3. Other \notin {t[k] : k \in DOMAIN t}
    <2>1. \A k \in DOMAIN t : t[k] \in Sextet
        BY <1>2, LenProperties
    <2>2. Other \notin Sextet
        BY CallbackAssumption DEF Sextet
    <2> HIDE DEF t
    <2> QED  BY <2>1, <2>2
<1>4. ASSUME t # <<>> PROVE t[m] % TwoTo[(6 * m) % 8] = 0
    <2>1. PICK g \in Nat : n = 3 * g + 1 \/ n = 3 * g + 2 \/ n = 3 * g + 3
        <3>1. n # 0
            <4>1. n = 0 => m = 0
                OBVIOUS
            <4> HIDE DEF t, m
            <4> QED  BY <1>2, <1>4, <4>1, EmptySeq
        <3>2. (n - 1) \div 3 \in Nat
            BY <1>1, <3>1
        <3> QED  BY <1>1, <3>1, <3>2
    <2> DEFINE b1 == Digit(s, 3 * g + 1)
               b2 == Digit(s, 3 * g + 2)
               b3 == Digit(s, 3 * g + 3)
    <2>2. b1 \in 0..255 /\ b2 \in 0..255 /\ b3 \in 0..255
        <3>1. 0 \in Byte  BY DEF Byte
        <3>2. b1 \in Byte /\ b2 \in Byte /\ b3 \in Byte
            BY <3>1, DigitType
        <3> QED  BY <3>2 DEF Byte
    <2>3. /\ n < 3 * g + 2 => b2 = 0
          /\ n < 3 * g + 3 => b3 = 0
        BY <1>1 DEF Digit
    <2>4. /\ n = 3 * g + 1 => m = 4 * g + 2 /\ (6 * m) % 8 = 4
          /\ n = 3 * g + 2 => m = 4 * g + 3 /\ (6 * m) % 8 = 2
          /\ n = 3 * g + 3 => m = 4 * g + 4 /\ (6 * m) % 8 = 0
        BY <1>1
    <2>5. m \in 1..m
        BY <2>1, <2>4
    <2>6. t[m] = Digit(t, m)
        BY <1>2, <2>5 DEF Digit
    <2>7. /\ 4 * g + 2 <= m => Digit(t, 4 * g + 2) = (b1 % 4) * 16 + b2 \div 16
          /\ 4 * g + 3 <= m => Digit(t, 4 * g + 3) = (b2 % 16) * 4 + b3 \div 64
          /\ 4 * g + 4 <= m => Digit(t, 4 * g + 4) = b3 % 64
        BY EncodedDigits
    <2>8. /\ Digit(t, 4 * g + 2) \in Sextet
          /\ Digit(t, 4 * g + 3) \in Sextet
          /\ Digit(t, 4 * g + 4) \in Sextet
        <3>1. 0 \in Sextet  BY DEF Sextet
        <3> QED  BY <1>2, <3>1, DigitType
    <2> HIDE DEF n, t, m, b1, b2, b3
    <2>9. CASE n = 3 * g + 1
        <3>1. t[m] = (b1 % 4) * 16 + 0 \div 16
            BY <2>3, <2>4, <2>6, <2>7, <2>9
        <3>2. ((b1 % 4) * 16 + 0 \div 16) % 16 = 0
            BY <2>2
        <3> QED  BY <2>4, <2>9, <3>1, <3>2, Powers
    <2>10. CASE n = 3 * g + 2
        <3>1. t[m] = (b2 % 16) * 4 + 0 \div 64
            BY <2>3, <2>4, <2>6, <2>7, <2>10
        <3>2. ((b2 % 16) * 4 + 0 \div 64) % 4 = 0
            BY <2>2
        <3> QED  BY <2>4, <2>10, <3>1, <3>2, Powers
    <2>11. CASE n = 3 * g + 3
        <3>1. t[m] \in 0..63
            BY <2>4, <2>6, <2>8, <2>11 DEF Sextet
        <3>2. \A q \in 0..63 : q % 1 = 0
            OBVIOUS
        <3>3. t[m] % 1 = 0
            BY <3>1, <3>2
        <3> QED  BY <2>4, <2>11, <3>3, Powers
    <2> QED  BY <2>1, <2>9, <2>10, <2>11
<1> HIDE DEF n, t, m
<1> QED
    BY <1>1, <1>2, <1>3, <1>4 DEF Base64Valid, t

\* A text that a reader accepts is the one that its bytes are written as.
LEMMA EncodeOfDecode ==
    ASSUME NEW t \in Seq(Sextet), Base64Valid(t)
    PROVE  Base64Encode(Base64Decode(t)) = t
<1> DEFINE m == Len(t)
           s == Base64Decode(t)
           n == (6 * m) \div 8
           r == Base64Encode(s)
<1>1. m \in Nat /\ n \in Nat /\ m % 4 # 1
    BY LenProperties DEF Base64Valid
<1>2. m = (8 * n + 5) \div 6
    BY <1>1
<1>3. s \in Seq(Byte) /\ Len(s) = n
    BY DecodedBytes
<1>4. r \in Seq(Sextet) /\ Len(r) = m
    BY <1>2, <1>3, EncodedText
<1>5. ASSUME NEW k \in 1..m PROVE r[k] = t[k]
    <2>1. PICK g \in Nat : \/ k = 4 * g + 1 \/ k = 4 * g + 2
                           \/ k = 4 * g + 3 \/ k = 4 * g + 4
        <3>1. (k - 1) \div 4 \in Nat
            BY <1>1
        <3> QED  BY <1>1, <3>1
    <2> DEFINE c1 == Digit(t, 4 * g + 1)
               c2 == Digit(t, 4 * g + 2)
               c3 == Digit(t, 4 * g + 3)
               c4 == Digit(t, 4 * g + 4)
               b1 == Digit(s, 3 * g + 1)
               b2 == Digit(s, 3 * g + 2)
               b3 == Digit(s, 3 * g + 3)
    <2>2. c1 \in 0..63 /\ c2 \in 0..63 /\ c3 \in 0..63 /\ c4 \in 0..63
        <3>1. 0 \in Sextet  BY DEF Sextet
        <3>2. c1 \in Sextet /\ c2 \in Sextet /\ c3 \in Sextet /\ c4 \in Sextet
            BY <3>1, DigitType
        <3> QED  BY <3>2 DEF Sextet
    <2>3. t[k] = Digit(t, k) /\ r[k] = Digit(r, k)
        BY <1>4 DEF Digit
    <2>4. /\ 4 * g + 1 <= m => Digit(r, 4 * g + 1) = b1 \div 4
          /\ 4 * g + 2 <= m => Digit(r, 4 * g + 2) = (b1 % 4) * 16 + b2 \div 16
          /\ 4 * g + 3 <= m => Digit(r, 4 * g + 3) = (b2 % 16) * 4 + b3 \div 64
          /\ 4 * g + 4 <= m => Digit(r, 4 * g + 4) = b3 % 64
        BY <1>2, <1>3, EncodedDigits
    <2>5. /\ 3 * g + 1 <= n => b1 = c1 * 4 + c2 \div 16
          /\ 3 * g + 2 <= n => b2 = (c2 % 16) * 16 + c3 \div 4
          /\ 3 * g + 3 <= n => b3 = (c3 % 4) * 64 + c4
        BY DecodedDigits
    <2>6. /\ ~(3 * g + 2 <= n) => b2 = 0
          /\ ~(3 * g + 3 <= n) => b3 = 0
        BY <1>1, <1>3 DEF Digit
    <2>7. /\ k = 4 * g + 1 => 3 * g + 1 <= n
          /\ k = 4 * g + 2 => 3 * g + 1 <= n /\ (3 * g + 2 <= n \/ m = 4 * g + 2)
          /\ k = 4 * g + 3 => 3 * g + 2 <= n /\ (3 * g + 3 <= n \/ m = 4 * g + 3)
          /\ k = 4 * g + 4 => 3 * g + 3 <= n
        BY <1>1
    <2>8. /\ m = 4 * g + 2 => c2 % 16 = 0
          /\ m = 4 * g + 3 => c3 % 4 = 0
        <3>1. /\ m = 4 * g + 2 => (6 * m) % 8 = 4 /\ m \in 1..m
              /\ m = 4 * g + 3 => (6 * m) % 8 = 2 /\ m \in 1..m
            BY <1>1
        <3>2. m > 0 => t # <<>>
            BY EmptySeq
        <3>3. m > 0 => t[m] % TwoTo[(6 * m) % 8] = 0
            BY <3>2 DEF Base64Valid
        <3>4. CASE m = 4 * g + 2
            <4>1. t[m] % 16 = 0
                BY <1>1, <3>1, <3>3, <3>4, Powers
            <4>2. c2 = t[m]
                BY <1>1, <3>1, <3>4 DEF Digit
            <4> QED  BY <1>1, <3>4, <4>1, <4>2
        <3>5. CASE m = 4 * g + 3
            <4>1. t[m] % 4 = 0
                BY <1>1, <3>1, <3>3, <3>5, Powers
            <4>2. c3 = t[m]
                BY <1>1, <3>1, <3>5 DEF Digit
            <4> QED  BY <1>1, <3>5, <4>1, <4>2
        <3> QED  BY <3>4, <3>5
    <2> HIDE DEF n, m, s, r, b1, b2, b3, c1, c2, c3, c4
    <2>9. CASE k = 4 * g + 1
        <3>1. r[k] = (c1 * 4 + c2 \div 16) \div 4
            BY <1>1, <2>3, <2>4, <2>5, <2>7, <2>9
        <3>2. (c1 * 4 + c2 \div 16) \div 4 = c1
            BY <2>2
        <3> QED  BY <2>3, <2>9, <3>1, <3>2 DEF c1
    <2>10. CASE k = 4 * g + 2
        <3>1. r[k] = (b1 % 4) * 16 + b2 \div 16
            BY <1>1, <2>3, <2>4, <2>10
        <3>2. b1 = c1 * 4 + c2 \div 16
            BY <2>5, <2>7, <2>10
        <3>3. CASE 3 * g + 2 <= n
            <4>1. ((c1 * 4 + c2 \div 16) % 4) * 16 + ((c2 % 16) * 16 + c3 \div 4) \div 16 = c2
                BY <2>2
            <4> QED  BY <2>3, <2>5, <2>10, <3>1, <3>2, <3>3, <4>1 DEF c2
        <3>4. CASE ~(3 * g + 2 <= n)
            <4>1. c2 % 16 = 0 => ((c1 * 4 + c2 \div 16) % 4) * 16 + 0 \div 16 = c2
                BY <2>2
            <4> QED  BY <2>3, <2>6, <2>7, <2>8, <2>10, <3>1, <3>2, <3>4, <4>1 DEF c2
        <3> QED  BY <3>3, <3>4
    <2>11. CASE k = 4 * g + 3
        <3>1. r[k] = (b2 % 16) * 4 + b3 \div 64
            BY <1>1, <2>3, <2>4, <2>11
        <3>2. b2 = (c2 % 16) * 16 + c3 \div 4
            BY <2>5, <2>7, <2>11
        <3>3. CASE 3 * g + 3 <= n
            <4>1. (((c2 % 16) * 16 + c3 \div 4) % 16) * 4 + ((c3 % 4) * 64 + c4) \div 64 = c3
                BY <2>2
            <4> QED  BY <2>3, <2>5, <2>11, <3>1, <3>2, <3>3, <4>1 DEF c3
        <3>4. CASE ~(3 * g + 3 <= n)
            <4>1. c3 % 4 = 0 => (((c2 % 16) * 16 + c3 \div 4) % 16) * 4 + 0 \div 64 = c3
                BY <2>2
            <4> QED  BY <2>3, <2>6, <2>7, <2>8, <2>11, <3>1, <3>2, <3>4, <4>1 DEF c3
        <3> QED  BY <3>3, <3>4
    <2>12. CASE k = 4 * g + 4
        <3>1. r[k] = ((c3 % 4) * 64 + c4) % 64
            BY <1>1, <2>3, <2>4, <2>5, <2>7, <2>12
        <3>2. ((c3 % 4) * 64 + c4) % 64 = c4
            BY <2>2
        <3> QED  BY <2>3, <2>12, <3>1, <3>2 DEF c4
    <2> QED  BY <2>1, <2>9, <2>10, <2>11, <2>12
<1> HIDE DEF n, m, r
<1> QED
    BY <1>4, <1>5, SeqEqual DEF m, r

-----------------------------------------------------------------------------
(* Callbacks                                                               *)

\* An id has eight bytes: it is never the answer of decode to a bad text.
LEMMA IdIsNotNone ==
    ASSUME NEW S, NEW id8 \in [1..8 -> S]
    PROVE  id8 # None /\ id8 \in Seq(S) /\ Len(id8) = 8
<1>1. id8 \in Seq(S)
    BY SeqDef
<1>2. Len(id8) \in Nat /\ 1..8 = 1..Len(id8)
    BY <1>1, LenProperties
<1>3. Len(id8) = 8
    <2>1. 8 \in 1..Len(id8) /\ Len(id8) \in 1..8
        BY <1>2
    <2> QED  BY <2>1
<1>4. id8 # None
    <2>1. \A s : Len(s) = 8 => s # <<>>
        BY EmptySeq
    <2> QED  BY <1>3, <2>1 DEF None
<1> QED  BY <1>1, <1>3, <1>4

\* The first bytes of an id.
LEMMA FirstBytes ==
    ASSUME NEW S, NEW id8 \in [1..8 -> S], NEW n \in 0..8
    PROVE  /\ SubSeq(id8, 1, n) \in Seq(S) /\ Len(SubSeq(id8, 1, n)) = n
           /\ \A k \in 1..n : SubSeq(id8, 1, n)[k] = id8[k]
<1>1. \A k \in 1..n : id8[k] \in S
    OBVIOUS
<1> QED  BY <1>1, SubSeqProperties

\* An id is cut before its last zero byte.
LEMMA CutAtLastZero ==
    ASSUME NEW id8 \in [1..8 -> Byte]
    PROVE  \E end \in 0..8 :
              /\ encode(id8) = Base64Encode(SubSeq(id8, 1, end))
              /\ \A k \in 1..8 :
                    end < k <=> \E z \in 1..k : /\ id8[z] = 0
                                                /\ \A y \in (z + 1)..8 : id8[y] # 0
<1> DEFINE zeroes == {k \in 1..8 : id8[k] = 0}
           end    == IF zeroes = {} THEN 8 ELSE Max(zeroes) - 1
<1>1. CASE zeroes = {}
    <2>1. WITNESS 8 \in 0..8
    <2> QED  BY <1>1 DEF encode
<1>2. CASE zeroes # {}
    <2>1. \E x \in zeroes : \A y \in zeroes : x >= y
        <3>1. \A k \in 1..8 : k = 1 \/ k = 2 \/ k = 3 \/ k = 4 \/ k = 5 \/ k = 6 \/ k = 7 \/ k = 8
            OBVIOUS
        <3>2. PICK x \in 1..8 : x \in zeroes /\ \A y \in (x + 1)..8 : y \notin zeroes
            BY <1>2, <3>1
        <3> QED  BY <3>2
    <2> DEFINE m == Max(zeroes)
    <2>2. m \in zeroes /\ \A y \in zeroes : m >= y
        BY <2>1 DEF Max
    <2> HIDE DEF m
    <2>3. m - 1 \in 0..8
        BY <2>2
    <2>4. encode(id8) = Base64Encode(SubSeq(id8, 1, m - 1))
        BY <1>2 DEF encode, m
    <2>5. ASSUME NEW k \in 1..8
          PROVE  m - 1 < k <=> \E z \in 1..k : /\ id8[z] = 0
                                               /\ \A y \in (z + 1)..8 : id8[y] # 0
        BY <2>2
    <2> WITNESS m - 1 \in 0..8
    <2> QED  BY <2>4, <2>5
<1> QED  BY <1>1, <1>2

\* What decode makes of a text that is as encode writes it.
LEMMA DecodeOfText ==
    ASSUME NEW s \in Seq(Byte), Len(s) <= 8
    PROVE  decode(Base64Encode(s)) = [k \in 1..8 |-> Digit(s, k)]
<1>1. Len(s) \in Nat
    BY LenProperties
<1>2. Len(Base64Encode(s)) \in Nat /\ Len(Base64Encode(s)) <= 11
    BY <1>1, EncodedText, Lengths
<1> QED  BY <1>1, <1>2, EncodeIsValid, DecodeOfEncode DEF decode

\* Every id's callback leads to an id, the same up to the last zero byte
\* and zero from there on.
LEMMA OwnTextDecodes ==
    ASSUME NEW id8 \in [1..8 -> Byte]
    PROVE  /\ encode(id8) \in Seq(Sextet)
           /\ decode(encode(id8)) \in [1..8 -> Byte]
           /\ \A k \in 1..8 :
                 decode(encode(id8))[k] =
                     IF \E z \in 1..k : id8[z] = 0 /\ \A y \in (z + 1)..8 : id8[y] # 0
                     THEN 0 ELSE id8[k]
<1>1. PICK end \in 0..8 :
         /\ encode(id8) = Base64Encode(SubSeq(id8, 1, end))
         /\ \A k \in 1..8 :
               end < k <=> \E z \in 1..k : /\ id8[z] = 0
                                           /\ \A y \in (z + 1)..8 : id8[y] # 0
    BY CutAtLastZero
<1> DEFINE s == SubSeq(id8, 1, end)
<1>2. s \in Seq(Byte) /\ Len(s) = end /\ \A k \in 1..end : s[k] = id8[k]
    BY FirstBytes
<1> HIDE DEF s
<1>3. decode(encode(id8)) = [k \in 1..8 |-> Digit(s, k)]
    <2>1. encode(id8) = Base64Encode(s)
        BY <1>1 DEF s
    <2>2. Len(s) <= 8
        BY <1>2
    <2> QED  BY <1>2, <2>1, <2>2, DecodeOfText
<1>4. 0 \in Byte
    BY DEF Byte
<1>5. \A k \in 1..8 : /\ Digit(s, k) \in Byte
                      /\ Digit(s, k) = IF end < k THEN 0 ELSE id8[k]
    BY <1>2, <1>4, DigitType
<1>6. encode(id8) \in Seq(Sextet)
    BY <1>1, <1>2, EncodedText DEF s
<1> QED  BY <1>1, <1>3, <1>5, <1>6

\* Where the comment in `encode` is right (see RoundTrip): the callback of an
\* id leads back to it if and only if its most significant byte is zero or
\* none of its bytes is.
THEOREM RoundTripsExactly ==
    ASSUME NEW id8 \in [1..8 -> Byte]
    PROVE  decode(encode(id8)) = id8 <=> id8[8] = 0 \/ \A k \in 1..8 : id8[k] # 0
<1> DEFINE back == decode(encode(id8))
           Cleared(k) == \E z \in 1..k : id8[z] = 0 /\ \A y \in (z + 1)..8 : id8[y] # 0
<1>1. /\ back \in [1..8 -> Byte]
      /\ \A k \in 1..8 : back[k] = IF Cleared(k) THEN 0 ELSE id8[k]
    BY OwnTextDecodes
<1> HIDE DEF back
<1>2. back = id8 <=> \A k \in 1..8 : Cleared(k) => id8[k] = 0
    <2> HIDE DEF Cleared
    <2> QED  BY <1>1
<1>3. ASSUME id8[8] = 0, NEW k \in 1..8, Cleared(k) PROVE id8[k] = 0
    <2>1. PICK z \in 1..k : id8[z] = 0 /\ \A y \in (z + 1)..8 : id8[y] # 0
        BY <1>3
    <2>2. z = 8
        BY <1>3, <2>1
    <2> QED  BY <1>3, <2>2
<1>4. ASSUME \A k \in 1..8 : id8[k] # 0, NEW k \in 1..8 PROVE ~Cleared(k)
    BY <1>4
<1>5. ASSUME NEW k \in 1..8, id8[k] = 0, id8[8] # 0,
             \A j \in 1..8 : Cleared(j) => id8[j] = 0
      PROVE  FALSE
    <2>1. PICK z \in 1..8 : id8[z] = 0 /\ \A y \in (z + 1)..8 : id8[y] # 0
        <3>1. \A j \in 1..8 : j = 1 \/ j = 2 \/ j = 3 \/ j = 4 \/ j = 5 \/ j = 6 \/ j = 7 \/ j = 8
            OBVIOUS
        <3> QED  BY <1>5, <3>1
    <2>2. Cleared(8)
        BY <2>1
    <2> HIDE DEF Cleared
    <2> QED  BY <1>5, <2>2
<1> HIDE DEF Cleared
<1>6. back = id8 => id8[8] = 0 \/ \A k \in 1..8 : id8[k] # 0
    BY <1>2, <1>5
<1>7. id8[8] = 0 \/ (\A k \in 1..8 : id8[k] # 0) => back = id8
    BY <1>2, <1>3, <1>4
<1> QED  BY <1>6, <1>7 DEF back

\* An accepted text is the encoding of the bytes that it is decoded to, and
\* the rest of the id is zero.
LEMMA AcceptedText ==
    ASSUME NEW t \in Seq(Sextet \cup {Other}), decode(t) # None
    PROVE  /\ decode(t) \in [1..8 -> Byte]
           /\ \E n \in 0..8 : /\ t = Base64Encode(SubSeq(decode(t), 1, n))
                              /\ \A k \in (n + 1)..8 : decode(t)[k] = 0
<1> DEFINE s == Base64Decode(t)
           n == Len(s)
<1>1. Base64Valid(t) /\ ~(n > 8) /\ decode(t) = [k \in 1..8 |-> Digit(s, k)]
    BY DEF decode
<1>2. t \in Seq(Sextet)
    <2>1. \A k \in 1..Len(t) : t[k] \in Sextet
        BY <1>1, LenProperties DEF Base64Valid
    <2>2. t \in [1..Len(t) -> Sextet] /\ Len(t) \in Nat
        BY <2>1, LenProperties
    <2> QED  BY <2>2
<1>3. s \in Seq(Byte) /\ n \in 0..8
    <2>1. s \in Seq(Byte)
        BY <1>2, DecodedBytes
    <2> HIDE DEF s
    <2>2. n \in Nat /\ ~(n > 8)
        BY <1>1, <2>1, LenProperties
    <2> HIDE DEF n
    <2> QED  BY <2>1, <2>2
<1>4. 0 \in Byte
    BY DEF Byte
<1> HIDE DEF s
<1>5. \A k \in 1..8 : /\ Digit(s, k) \in Byte
                      /\ k \in 1..n => Digit(s, k) = s[k]
                      /\ k \notin 1..n => Digit(s, k) = 0
    BY <1>3, <1>4, DigitType
<1>6. decode(t) \in [1..8 -> Byte]
    BY <1>1, <1>5
<1>7. SubSeq(decode(t), 1, n) = s
    <2> DEFINE r == SubSeq(decode(t), 1, n)
    <2>1. r \in Seq(Byte) /\ Len(r) = n /\ \A k \in 1..n : r[k] = decode(t)[k]
        BY <1>3, <1>6, FirstBytes
    <2>2. \A k \in 1..n : r[k] = s[k]
        BY <1>1, <1>3, <1>5, <2>1
    <2> HIDE DEF r, n
    <2>3. Len(s) = n
        BY DEF n
    <2> QED  BY <1>3, <2>1, <2>2, <2>3, SeqEqual DEF r
<1>8. t = Base64Encode(SubSeq(decode(t), 1, n))
    BY <1>1, <1>2, <1>7, EncodeOfDecode DEF s
<1>9. \A k \in (n + 1)..8 : decode(t)[k] = 0
    BY <1>1, <1>3, <1>5
<1> HIDE DEF n
<1> QED  BY <1>3, <1>6, <1>8, <1>9

\* What the text and the id that it leads to are, wherever a request is.
CallbackInv ==
    /\ stage \in {"make", "route", "done"}
    /\ id = None => stage # "make" /\ text \in SampleTexts
    /\ id # None => id \in Ids /\ (stage # "make" => text = encode(id))
    /\ routed = IF stage = "done" THEN decode(text) ELSE None

\* An id of the samples has eight bytes.
LEMMA IdsAreBytes ==
    ASSUME NEW id8 \in Ids
    PROVE  id8 \in [1..8 -> Byte] /\ id8 # None
<1>1. id8 \in [1..8 -> Byte]
    <2>1. SampleBytes \subseteq Byte
        BY CallbackAssumption DEF Byte
    <2> QED  BY <2>1 DEF Ids
<1> QED  BY <1>1, IdIsNotNone

\* A path is a text.
LEMMA TextType ==
    ASSUME CallbackInv, stage # "make"
    PROVE  text \in Seq(Sextet \cup {Other})
<1>1. CASE id = None
    <2>1. SampleTexts \subseteq Seq(Sextet \cup {Other})
        BY CallbackAssumption DEF Sextet
    <2> QED  BY <1>1, <2>1 DEF CallbackInv
<1>2. CASE id # None
    <2>1. text \in Seq(Sextet)
        BY <1>2, IdsAreBytes, OwnTextDecodes DEF CallbackInv
    <2> QED  BY <2>1, SeqMonotonic
<1> QED  BY <1>1, <1>2

\* Both ways of a request begin so.
LEMMA CallbackInit ==
    ASSUME Init
    PROVE  CallbackInv
<1>1. CASE id \in Ids /\ text = <<>> /\ stage = "make"
    BY <1>1, IdsAreBytes DEF Init, CallbackInv
<1>2. CASE id = None /\ text \in SampleTexts /\ stage = "route"
    BY <1>2 DEF Init, CallbackInv
<1> QED  BY <1>1, <1>2 DEF Init

\* Every step keeps it.
LEMMA CallbackStep ==
    ASSUME CallbackInv, [Next]_vars
    PROVE  CallbackInv'
<1>1. CASE MakeCallback
    BY <1>1 DEF MakeCallback, CallbackInv
<1>2. CASE Route
    BY <1>2 DEF Route, CallbackInv
<1>3. CASE UNCHANGED vars
    BY <1>3 DEF vars, CallbackInv
<1> QED  BY <1>1, <1>2, <1>3 DEF Next

\* The invariant of the behaviours of CallbackId.
LEMMA CallbackInvariance == Spec => []CallbackInv
<1> QED  BY CallbackInit, CallbackStep, PTL DEF Spec

\* Service::call routes as callback_id.rs says: all that comes after the id
\* is known leaves it alone, so what holds of CallbackId holds of Delivery.
LEMMA DeliveryRoutes == DeliverySpec => Spec
<1>1. DeliveryInit => Init
    BY DEF DeliveryInit
<1>2. [DeliveryNext]_<<vars, delivery_vars>> => [Next]_vars
    BY DEF DeliveryNext, Next
<1> QED  BY <1>1, <1>2, PTL DEF DeliverySpec, Spec

\* encode and decode (callback_id.rs): the callback that is made for an id
\* leads to that id with everything from its last zero byte on cleared.
THEOREM ClearsFromLastZero == DeliverySpec => []ClearedFromLastZero
<1>1. CallbackInv => ClearedFromLastZero
    <2>1. ASSUME CallbackInv, MadeHere
          PROVE  \A k \in 1..8 :
                    routed[k] = IF \E z \in 1..k : id[z] = 0 /\ \A y \in (z + 1)..8 : id[y] # 0
                                THEN 0 ELSE id[k]
        <3>1. id \in [1..8 -> Byte] /\ routed = decode(encode(id))
            BY <2>1, IdsAreBytes DEF CallbackInv, MadeHere
        <3> QED  BY <3>1, OwnTextDecodes
    <2> QED  BY <2>1 DEF ClearedFromLastZero
<1> QED  BY <1>1, CallbackInvariance, DeliveryRoutes, PTL

\* decode (callback_id.rs) and the strictness of base64: whatever text is
\* requested, if it is accepted then it is what the bytes of the id are
\* written as, so that texts of one id differ in its trailing zeroes only.
THEOREM AcceptsCanonicalTexts == DeliverySpec => []AcceptedTextIsCanonical
<1>1. CallbackInv => AcceptedTextIsCanonical
    <2>1. ASSUME CallbackInv, Routed
          PROVE  \E n \in 0..8 : /\ text = Base64Encode(SubSeq(routed, 1, n))
                                 /\ \A k \in (n + 1)..8 : routed[k] = 0
        <3>1. routed = decode(text) /\ decode(text) # None
            BY <2>1 DEF CallbackInv, Routed
        <3>2. text \in Seq(Sextet \cup {Other})
            BY <2>1, TextType DEF Routed
        <3> QED  BY <3>1, <3>2, AcceptedText
    <2> QED  BY <2>1 DEF AcceptedTextIsCanonical
<1> QED  BY <1>1, CallbackInvariance, DeliveryRoutes, PTL

-----------------------------------------------------------------------------
(* Loops over a sequence                                                   *)

\* Induction up to n, for what can be said as membership of a set.
LEMMA UpTo ==
    ASSUME NEW n \in Nat, NEW P, 0 \in P, \A m \in 0..(n - 1) : m \in P => m + 1 \in P
    PROVE  \A m \in 0..n : m \in P
<1> DEFINE bad == {m \in 0..n : m \notin P}
           R == {p \in Nat \X Nat : p[1] < p[2]}
<1>1. SUFFICES ASSUME bad # {} PROVE FALSE
    OBVIOUS
<1>2. IsWellFoundedOn(R, Nat)
    BY NatLessThanWellFounded DEF OpToRel
<1>3. PICK e \in bad : \A f \in bad : ~(<<f, e>> \in R)
    <2>1. bad \subseteq Nat
        OBVIOUS
    <2> HIDE DEF R, bad
    <2> QED  BY <1>1, <1>2, <2>1, WFMin
<1>4. e # 0 /\ e \in 0..n /\ e - 1 \in 0..(n - 1) /\ e \notin P
    OBVIOUS
<1>5. <<e - 1, e>> \in R
    BY <1>4
<1>6. e - 1 \in P
    <2> HIDE DEF R
    <2> QED  BY <1>3, <1>4, <1>5
<1> QED  BY <1>4, <1>6

\* f[k] is the value of a variable, base before a loop of n rounds, after
\* round k, which makes step[<<k, x>>] of x.
IsLoop(f, n, S, base, step) ==
    /\ f \in [0..n -> S]
    /\ f[0] = base
    /\ \A k \in 1..n : f[k] = step[<<k, f[k - 1]>>]

\* A loop has a value after each of its rounds.
LEMMA LoopExists ==
    ASSUME NEW n \in Nat, NEW S, NEW base \in S, NEW step \in [(1..n) \X S -> S]
    PROVE  \E f : IsLoop(f, n, S, base, step)
<1> DEFINE Good(m, f) == f[0] = base /\ \A k \in 1..m : f[k] = step[<<k, f[k - 1]>>]
           P == {m \in 0..n : \E f \in [0..m -> S] : Good(m, f)}
<1>1. 0 \in P
    <2> DEFINE f == [k \in 0..0 |-> base]
    <2>1. f \in [0..0 -> S] /\ Good(0, f)
        OBVIOUS
    <2>2. 0 \in 0..n
        OBVIOUS
    <2> HIDE DEF f, Good
    <2> QED  BY <2>1, <2>2
<1>2. ASSUME NEW m \in 0..(n - 1), m \in P PROVE m + 1 \in P
    <2>1. PICK f \in [0..m -> S] : Good(m, f)
        BY <1>2
    <2> DEFINE g == [k \in 0..(m + 1) |-> IF k = m + 1 THEN step[<<m + 1, f[m]>>] ELSE f[k]]
    <2>2. <<m + 1, f[m]>> \in (1..n) \X S
        BY <2>1
    <2>3. g \in [0..(m + 1) -> S]
        BY <2>1, <2>2
    <2>4. g[0] = base
        BY <2>1
    <2>5. ASSUME NEW k \in 1..(m + 1) PROVE g[k] = step[<<k, g[k - 1]>>]
        <3>1. CASE k = m + 1
            <4>1. g[k] = step[<<m + 1, f[m]>>] /\ g[k - 1] = f[m]
                BY <3>1
            <4> QED  BY <3>1, <4>1
        <3>2. CASE k # m + 1
            <4>1. k \in 1..m /\ g[k] = f[k] /\ g[k - 1] = f[k - 1]
                BY <3>2
            <4> QED  BY <2>1, <4>1
        <3> QED  BY <3>1, <3>2
    <2> HIDE DEF g
    <2>6. Good(m + 1, g)
        BY <2>4, <2>5
    <2> QED  BY <2>3, <2>6
<1> HIDE DEF P
<1>3. n \in P
    BY <1>1, <1>2, UpTo
<1> QED  BY <1>3 DEF P, IsLoop

\* The loop over the headers, as a function of the rounds.
Taken(headers) ==
    LET taken[k \in 0..Len(headers)] ==
            IF k = 0 THEN Absent
            ELSE LET sig == SignatureParse(headers[k])
                 IN  IF /\ sig # Absent
                        /\ taken[k - 1] # Absent => is_preferable_to(sig, taken[k - 1])
                     THEN sig ELSE taken[k - 1]
    IN  taken

\* What a round makes of the signature that was taken so far.
LEMMA TakenRounds ==
    ASSUME NEW headers, Len(headers) \in Nat
    PROVE  /\ TakeSignature(headers) = Taken(headers)[Len(headers)]
           /\ Taken(headers)[0] = Absent
           /\ \A k \in 1..Len(headers) :
                 Taken(headers)[k] =
                     LET sig == SignatureParse(headers[k])
                         prev == Taken(headers)[k - 1]
                     IN  IF sig # Absent /\ (prev # Absent => is_preferable_to(sig, prev))
                         THEN sig ELSE prev
<1> DEFINE n == Len(headers)
           parsed(k) == SignatureParse(headers[k])
           S == {Absent} \cup {parsed(k) : k \in 1..n}
           Round(k, prev) ==
               IF parsed(k) # Absent /\ (prev # Absent => is_preferable_to(parsed(k), prev))
               THEN parsed(k) ELSE prev
           step == [p \in (1..n) \X S |-> Round(p[1], p[2])]
           loop(f) == [k \in 0..n |-> IF k = 0 THEN Absent ELSE Round(k, f[k - 1])]
<1>1. \A k \in 1..n, prev \in S : Round(k, prev) \in S
    OBVIOUS
<1>2. step \in [(1..n) \X S -> S]
    BY <1>1
<1>3. PICK f : IsLoop(f, n, S, Absent, step)
    <2> HIDE DEF n, S, step
    <2>1. Absent \in S
        BY DEF S
    <2>2. n \in Nat
        BY DEF n
    <2> QED  BY <1>2, <2>1, <2>2, LoopExists
<1>4. f = loop(f)
    <2>1. \A k \in 1..n : k \in 0..n /\ k # 0 /\ k - 1 \in 0..n
        OBVIOUS
    <2>2. f \in [0..n -> S] /\ f[0] = Absent /\ \A k \in 1..n : f[k] = step[<<k, f[k - 1]>>]
        BY <1>3 DEF IsLoop
    <2>3. \A k \in 1..n : f[k] = Round(k, f[k - 1])
        BY <2>1, <2>2
    <2> HIDE DEF Round, S
    <2> QED  BY <2>1, <2>2, <2>3
<1>5. Taken(headers) = CHOOSE t : t = loop(t)
    BY DEF Taken
<1>6. Taken(headers) = loop(Taken(headers))
    <2> HIDE DEF loop
    <2> QED  BY <1>4, <1>5
<1>7. \A k \in 1..n : k \in 0..n /\ k # 0
    OBVIOUS
<1>8. TakeSignature(headers) = Taken(headers)[n]
    BY DEF TakeSignature, Taken
<1> QED  BY <1>6, <1>7, <1>8

\* Signature::parse: a signature is the digest of its header, by the method
\* that the header names.
LEMMA ParsedSignature ==
    ASSUME NEW header, SignatureParse(header) # Absent
    PROVE  /\ SignatureParse(header) = header.digest
           /\ header.name \in Methods /\ header.digest.method = header.name
           /\ discriminant[header.name] \in Nat
BY DEF SignatureParse, Methods, discriminant

\* The first m headers have no signature, or sig is one of a strongest method
\* among them.
StrongestOf(sig, headers, m) ==
    LET formed == {k \in 1..m : SignatureParse(headers[k]) # Absent}
    IN  \/ sig = Absent /\ formed = {}
        \/ \E k \in formed :
              /\ sig = SignatureParse(headers[k])
              /\ \A j \in formed : discriminant[headers[j].name] <= discriminant[headers[k].name]

\* The loop in Service::call takes a signature of a strongest method,
\* whatever the order of the headers.
LEMMA TakesStrongest ==
    ASSUME NEW headers, Len(headers) \in Nat
    PROVE  StrongestOf(TakeSignature(headers), headers, Len(headers))
<1> DEFINE n == Len(headers)
           taken == Taken(headers)
           P == {m \in 0..n : StrongestOf(taken[m], headers, m)}
<1>1. 0 \in P
    BY TakenRounds DEF StrongestOf
<1>2. ASSUME NEW m \in 0..(n - 1), m \in P PROVE m + 1 \in P
    <2> DEFINE sig == SignatureParse(headers[m + 1])
               prev == taken[m]
               formed == {k \in 1..m : SignatureParse(headers[k]) # Absent}
               formed2 == {k \in 1..(m + 1) : SignatureParse(headers[k]) # Absent}
    <2>1. taken[m + 1] = IF sig # Absent /\ (prev # Absent => is_preferable_to(sig, prev))
                         THEN sig ELSE prev
        <3>1. m + 1 \in 1..n /\ (m + 1) - 1 = m
            OBVIOUS
        <3> QED  BY <3>1, TakenRounds
    <2>2. formed2 = IF sig # Absent THEN formed \cup {m + 1} ELSE formed
        OBVIOUS
    <2>3. \/ prev = Absent /\ formed = {}
          \/ \E k \in formed :
                /\ prev = SignatureParse(headers[k])
                /\ \A j \in formed :
                      discriminant[headers[j].name] <= discriminant[headers[k].name]
        BY <1>2 DEF StrongestOf
    <2>4. \A k \in formed2 :
             /\ SignatureParse(headers[k]) # Absent
             /\ SignatureParse(headers[k]).method = headers[k].name
             /\ discriminant[headers[k].name] \in Nat
        BY ParsedSignature
    <2>5. sig # Absent => m + 1 \in formed2
        OBVIOUS
    <2> HIDE DEF taken, sig, formed, formed2
    <2>6. \/ taken[m + 1] = Absent /\ formed2 = {}
          \/ \E k \in formed2 :
                /\ taken[m + 1] = SignatureParse(headers[k])
                /\ \A j \in formed2 :
                      discriminant[headers[j].name] <= discriminant[headers[k].name]
        <3>1. CASE sig = Absent
            BY <2>1, <2>2, <2>3, <3>1
        <3>2. CASE sig # Absent /\ prev = Absent
            <4>1. formed2 = {m + 1} /\ taken[m + 1] = sig
                <5>1. formed = {}
                    BY <2>2, <2>3, <2>4, <3>2
                <5> QED  BY <2>1, <2>2, <3>2, <5>1
            <4> QED  BY <2>4, <4>1 DEF sig
        <3>3. CASE sig # Absent /\ prev # Absent
            <4>1. PICK k \in formed :
                     /\ prev = SignatureParse(headers[k])
                     /\ \A j \in formed :
                           discriminant[headers[j].name] <= discriminant[headers[k].name]
                BY <2>3, <3>3
            <4>2. k \in formed2 /\ m + 1 \in formed2
                BY <2>2, <3>3
            <4>3. /\ sig.method = headers[m + 1].name /\ prev.method = headers[k].name
                  /\ discriminant[headers[m + 1].name] \in Nat
                  /\ discriminant[headers[k].name] \in Nat
                BY <2>4, <4>1, <4>2 DEF sig
            <4>4. CASE is_preferable_to(sig, prev)
                <5>1. discriminant[headers[k].name] <= discriminant[headers[m + 1].name]
                    BY <4>3, <4>4 DEF is_preferable_to
                <5>2. \A j \in formed2 :
                         discriminant[headers[j].name] <= discriminant[headers[m + 1].name]
                    BY <2>2, <2>4, <3>3, <4>1, <4>3, <5>1
                <5> QED  BY <2>1, <3>3, <4>2, <4>4, <5>2 DEF sig
            <4>5. CASE ~is_preferable_to(sig, prev)
                <5>1. discriminant[headers[m + 1].name] <= discriminant[headers[k].name]
                    BY <4>3, <4>5 DEF is_preferable_to
                <5>2. \A j \in formed2 :
                         discriminant[headers[j].name] <= discriminant[headers[k].name]
                    BY <2>2, <3>3, <4>1, <5>1
                <5> QED  BY <2>1, <3>3, <4>1, <4>2, <4>5, <5>2
            <4> QED  BY <4>4, <4>5
        <3> QED  BY <3>1, <3>2, <3>3
    <2> QED  BY <2>6 DEF StrongestOf, formed2
<1>3. n \in P
    <2> HIDE DEF n, P
    <2>1. n \in Nat /\ n \in 0..n
        BY DEF n
    <2> QED  BY <1>1, <1>2, <2>1, UpTo
<1> QED  BY <1>3, TakenRounds DEF P

\* The chunks of the first i buffers, as FlattenSeq puts them together.
Flattened(bufs) ==
    LET flatten[i \in 1..Len(bufs)] ==
            IF i = 1 THEN bufs[i] ELSE flatten[i - 1] \o bufs[i]
    IN  flatten

FirstBufs(bufs, i) == IF i = 0 THEN <<>> ELSE Flattened(bufs)[i]

\* They grow by one buffer at a time, to all of the body.
LEMMA FlattenRounds ==
    ASSUME NEW S, NEW bufs \in Seq(Seq(S))
    PROVE  /\ FirstBufs(bufs, 0) = <<>>
           /\ \A i \in 1..Len(bufs) : /\ FirstBufs(bufs, i - 1) \in Seq(S)
                                      /\ FirstBufs(bufs, i) = FirstBufs(bufs, i - 1) \o bufs[i]
           /\ FirstBufs(bufs, Len(bufs)) = FlattenSeq(bufs)
<1> DEFINE n == Len(bufs)
           step == [p \in (1..n) \X Seq(S) |-> p[2] \o bufs[p[1]]]
           loop(f) == [i \in 1..n |-> IF i = 1 THEN bufs[i] ELSE f[i - 1] \o bufs[i]]
<1>1. n \in Nat /\ \A i \in 1..n : bufs[i] \in Seq(S)
    BY LenProperties
<1>2. step \in [(1..n) \X Seq(S) -> Seq(S)]
    BY <1>1, ConcatProperties
<1>3. PICK f : IsLoop(f, n, Seq(S), <<>>, step)
    <2>1. <<>> \in Seq(S)
        BY EmptySeq
    <2> HIDE DEF n, step
    <2> QED  BY <1>1, <1>2, <2>1, LoopExists
<1>4. /\ f \in [0..n -> Seq(S)] /\ f[0] = <<>>
      /\ \A i \in 1..n : f[i] = f[i - 1] \o bufs[i]
    <2>1. f \in [0..n -> Seq(S)] /\ f[0] = <<>> /\ \A i \in 1..n : f[i] = step[<<i, f[i - 1]>>]
        BY <1>3 DEF IsLoop
    <2>2. \A i \in 1..n : i - 1 \in 0..n
        BY <1>1
    <2> QED  BY <2>1, <2>2
<1>5. n > 0 => f[1] = bufs[1]
    <2>1. n > 0 => 1 \in 1..n /\ 1 - 1 = 0
        BY <1>1
    <2>2. n > 0 => f[1] = <<>> \o bufs[1] /\ bufs[1] \in Seq(S)
        BY <1>1, <1>4, <2>1
    <2> QED  BY <2>2, ConcatEmptySeq
<1> DEFINE g == [i \in 1..n |-> f[i]]
<1>6. g = loop(g)
    <2>1. \A i \in 1..n : i # 1 => i - 1 \in 1..n
        BY <1>1
    <2>2. \A i \in 1..n : g[i] = IF i = 1 THEN bufs[i] ELSE g[i - 1] \o bufs[i]
        <3> HIDE DEF n
        <3> SUFFICES ASSUME NEW i \in 1..n
                     PROVE  g[i] = IF i = 1 THEN bufs[i] ELSE g[i - 1] \o bufs[i]
            OBVIOUS
        <3>1. CASE i = 1
            BY <1>1, <1>5, <3>1
        <3>2. CASE i # 1
            <4>1. g[i] = f[i] /\ g[i - 1] = f[i - 1]
                BY <2>1, <3>2
            <4> QED  BY <1>4, <3>2, <4>1
        <3> QED  BY <3>1, <3>2
    <2> HIDE DEF n
    <2> QED  BY <2>2
<1>7. Flattened(bufs) = CHOOSE t : t = loop(t)
    BY DEF Flattened
<1>8. Flattened(bufs) = loop(Flattened(bufs))
    <2> HIDE DEF loop, g
    <2> QED  BY <1>6, <1>7
<1> DEFINE F == Flattened(bufs)
<1>9. \A i \in 1..n : F[i] = IF i = 1 THEN bufs[i] ELSE F[i - 1] \o bufs[i]
    <2> HIDE DEF n, F
    <2> QED  BY <1>8 DEF F
<1> HIDE DEF F
<1> DEFINE P == {m \in 0..n : m > 0 => F[m] = f[m]}
<1>10. \A m \in 0..n : m \in P
    <2>1. 0 \in P
        BY <1>1
    <2>2. ASSUME NEW m \in 0..(n - 1), m \in P PROVE m + 1 \in P
        <3>1. m + 1 \in 1..n /\ (m + 1) - 1 = m
            BY <1>1
        <3>2. F[m + 1] = IF m = 0 THEN bufs[1] ELSE F[m] \o bufs[m + 1]
            BY <1>9, <3>1
        <3>3. f[m + 1] = f[m] \o bufs[m + 1]
            BY <1>4, <3>1
        <3>4. m = 0 => f[m + 1] = bufs[1]
            BY <1>5, <3>1
        <3>5. F[m + 1] = f[m + 1]
            <4>1. m # 0 => F[m] = f[m]
                BY <2>2
            <4> QED  BY <3>2, <3>3, <3>4, <4>1
        <3>6. m + 1 \in 0..n
            BY <3>1
        <3> QED  BY <3>5, <3>6
    <2> HIDE DEF P, n
    <2> QED  BY <1>1, <2>1, <2>2, UpTo
<1>11. \A m \in 0..n : FirstBufs(bufs, m) = f[m]
    BY <1>1, <1>4, <1>10 DEF FirstBufs, F
<1>12. FirstBufs(bufs, n) = FlattenSeq(bufs)
    <2>1. CASE n = 0
        <3>1. bufs = <<>>
            BY <2>1, EmptySeq
        <3> QED  BY <2>1, <3>1 DEF FirstBufs, FlattenSeq
    <2>2. CASE n # 0
        BY <2>2 DEF FirstBufs, FlattenSeq, Flattened
    <2> QED  BY <2>1, <2>2
<1>13. \A i \in 1..n : i - 1 \in 0..n /\ i \in 0..n
    BY <1>1
<1> QED  BY <1>4, <1>11, <1>12, <1>13 DEF FirstBufs

-----------------------------------------------------------------------------
(* What holds of a delivery                                                *)

\* The request is one for the callback; the table does not hold None.
RequestInv ==
    /\ request \in Requests(IF id # None THEN id ELSE decode(text))
    /\ callback \in {<<1>>, <<1, Slash>>} /\ maker \in {"service", "command"}
    /\ None \notin rows

\* Before there is a Content, a request is as it came, or it is answered,
\* and then for a reason: a path that is none of the service's, which is not
\* decoded; no subscription; or no signature.
AnswerInv ==
    /\ stage # "done" =>
          \/ at = "called"
          \/ at = "answered" /\ stage = "route" /\ response = "NOT_FOUND" /\ ~Stripped
    /\ at = "answered" => \/ response = "error"
                          \/ routed \notin rows
                          \/ TakeSignature(request.headers) = Absent
    /\ at \in {"called", "answered"} => delivered = <<>> /\ errors = {}

\* The consumer has got the buffers that are not unread.
ProgressInv ==
    \E i \in 0..Len(request.body.bufs) :
        /\ unread = SubSeq(request.body.bufs, i + 1, Len(request.body.bufs))
        /\ delivered = FirstBufs(request.body.bufs, i)

\* The right signature of some chunks, by a method.
Right(method, chunks) ==
    [method |-> method, secret |-> gen_secret(routed), over |-> chunks]

\* The verifier of a Content has the signature that was taken and the mac, by
\* its method and with the subscription's secret, of what was delivered; only
\* a verification starts it anew.  A mismatch is reported for a signature
\* that is wrong, or after an error of the body.
VerifierInv ==
    at \notin {"called", "answered"} =>
        LET sig == TakeSignature(request.headers)
        IN  /\ routed \in rows /\ sig # Absent
            /\ verifier = [signature |-> sig, mac |-> Right(sig.method, verifier.mac.over)]
            /\ at \notin {"complete", "printed"} /\ "SignatureMismatch" \notin errors =>
                  verifier.mac.over = delivered
            /\ at \in {"complete", "printed"} =>
                  /\ sig.secret = gen_secret(routed)
                  /\ "SignatureMismatch" \notin errors => sig.over = delivered
            /\ at = "printed" => errors = {}
            /\ "SignatureMismatch" \in errors =>
                  "Body" \in errors \/ sig # Right(sig.method, AllChunks)

DeliveryInv == CallbackInv /\ RequestInv /\ AnswerInv /\ ProgressInv /\ VerifierInv

\* What RequestsAssumption says of the request at hand.
LEMMA RequestFacts ==
    ASSUME CallbackInv, RequestInv
    PROVE  /\ request.body.bufs \in Seq(Seq(Chunk))
           /\ Len(request.headers) \in Nat
           /\ DOMAIN request.headers = 1..Len(request.headers)
           /\ \A k \in DOMAIN request.headers :
                 request.headers[k].digest \in
                     [method : Methods,
                      secret : {gen_secret(IF id # None THEN id ELSE decode(text)), None},
                      over   : Seq(Chunk)] \cup {Absent}
<1>1. (IF id # None THEN id ELSE decode(text)) \in Ids \cup {decode(t) : t \in SampleTexts}
    BY DEF CallbackInv
<1> QED  BY <1>1, RequestsAssumption DEF RequestInv

\* A request begins so.
LEMMA DeliveryInvInit ==
    ASSUME DeliveryInit
    PROVE  DeliveryInv
<1>1. CallbackInv
    BY CallbackInit DEF DeliveryInit
<1>2. RequestInv
    <2>1. CASE id # None
        <3>1. id \in [1..8 -> Byte] /\ id # None
            BY <1>1, <2>1, IdsAreBytes DEF CallbackInv
        <3>2. decode(encode(id)) # None
            BY <3>1, OwnTextDecodes, IdIsNotNone
        <3> QED  BY <2>1, <3>2 DEF DeliveryInit, RequestInv
    <2>2. CASE id = None
        BY <2>2 DEF DeliveryInit, RequestInv
    <2> QED  BY <2>1, <2>2
<1>3. AnswerInv
    BY DEF DeliveryInit, AnswerInv
<1>4. ProgressInv
    <2> DEFINE bufs == request.body.bufs
    <2>1. bufs \in Seq(Seq(Chunk)) /\ Len(bufs) \in Nat
        BY <1>1, <1>2, RequestFacts, LenProperties
    <2>2. SubSeq(bufs, 1, Len(bufs)) = bufs
        BY <2>1, SubSeqFull
    <2>3. unread = bufs /\ delivered = <<>>
        BY DEF DeliveryInit
    <2>4. /\ 0 \in 0..Len(bufs)
          /\ unread = SubSeq(bufs, 0 + 1, Len(bufs)) /\ delivered = FirstBufs(bufs, 0)
        BY <2>1, <2>2, <2>3 DEF FirstBufs
    <2> QED  BY <2>4 DEF ProgressInv
<1>5. VerifierInv
    BY DEF DeliveryInit, VerifierInv
<1> QED  BY <1>1, <1>2, <1>3, <1>4, <1>5 DEF DeliveryInv

\* The path of a callback that is made with the prefix of the service lies
\* below it.
LEMMA OwnPathIsStripped ==
    ASSUME RequestInv, NEW S, text \in Seq(S),
           maker = "service" \/ callback[Len(callback)] = Slash
    PROVE  Stripped
<1> DEFINE p == prepare_callback_prefix(callback)
           U == S \cup {1, Slash}
<1>1. Path = p \o text
    BY DEF Path, prepare_callback_prefix
<1>2. p \in Seq(U)
    <2>1. callback \in Seq(U)
        <3>1. 1 \in U /\ Slash \in U
            OBVIOUS
        <3> HIDE DEF U
        <3>2. <<1>> \in Seq(U) /\ <<1, Slash>> \in Seq(U)
            BY <3>1
        <3> QED  BY <3>2 DEF RequestInv
    <2>2. Append(callback, Slash) \in Seq(U)
        BY <2>1, AppendProperties
    <2> QED  BY <2>1, <2>2 DEF prepare_callback_prefix
<1>3. text \in Seq(U)
    BY SeqMonotonic
<1> HIDE DEF p, U
<1>4. /\ Len(p) \in Nat /\ Len(text) \in Nat
      /\ Len(p \o text) = Len(p) + Len(text)
    BY <1>2, <1>3, ConcatProperties, LenProperties
<1>5. SubSeq(p \o text, 1, Len(p)) = p /\ SubSeq(p, 1, Len(p)) = p
    BY <1>2, <1>3, SubSeqOfConcat1, SubSeqFull, ConcatSimplifications
<1> QED  BY <1>1, <1>4, <1>5 DEF Stripped, IsPrefix, p

\* No step changes what came with the request, nor what it came for.
LEMMA FixedParts ==
    ASSUME CallbackInv, [DeliveryNext]_<<vars, delivery_vars>>
    PROVE  /\ UNCHANGED <<callback, maker, request, rows, id>>
           /\ id = None => UNCHANGED text
<1>1. CASE MakeCallback /\ UNCHANGED delivery_vars
    BY <1>1 DEF MakeCallback, delivery_vars, CallbackInv
<1>2. CASE Stripped /\ Route /\ UNCHANGED delivery_vars
    BY <1>2 DEF Route, delivery_vars
<1>3. CASE UNCHANGED vars /\ UNCHANGED delivery_vars
    BY <1>3 DEF vars, delivery_vars
<1>4. CASE UNCHANGED vars /\ (\/ RefusePrefix \/ RefusePath \/ DatabaseFails
                              \/ IgnoreUnsigned \/ RefuseGone)
    BY <1>4 DEF vars, RefusePrefix, RefusePath, DatabaseFails, IgnoreUnsigned, RefuseGone, Answer
<1>5. CASE UNCHANGED vars /\ (\/ SendUpdate \/ DropUnsupported \/ Read \/ PollBuf \/ PollBroken
                              \/ PollEnd \/ PollAgain \/ PrintFeed)
    BY <1>5 DEF vars, SendUpdate, DropUnsupported, Read, PollBuf, PollBroken, PollEnd, PollAgain,
                PrintFeed
<1> QED  BY <1>1, <1>2, <1>3, <1>4, <1>5 DEF DeliveryNext

\* So what is known of it stays.
LEMMA RequestStep ==
    ASSUME CallbackInv, RequestInv, [DeliveryNext]_<<vars, delivery_vars>>
    PROVE  RequestInv'
<1>1. UNCHANGED <<callback, maker, request, rows, id>> /\ (id = None => UNCHANGED text)
    BY FixedParts
<1> QED  BY <1>1 DEF RequestInv

\* A request is answered for one of the reasons of AnswerInv.
LEMMA AnswerStep ==
    ASSUME CallbackInv, RequestInv, AnswerInv, [DeliveryNext]_<<vars, delivery_vars>>
    PROVE  AnswerInv'
<1>1. CASE MakeCallback /\ UNCHANGED delivery_vars
    BY <1>1 DEF MakeCallback, delivery_vars, content, AnswerInv
<1>2. CASE Stripped /\ Route /\ UNCHANGED delivery_vars
    BY <1>2 DEF Route, delivery_vars, content, AnswerInv
<1>3. CASE UNCHANGED vars /\ UNCHANGED delivery_vars
    BY <1>3 DEF vars, delivery_vars, content, AnswerInv, Stripped, Path
<1>4. CASE UNCHANGED vars /\ RefusePrefix
    <2>1. routed = None /\ None \notin rows
        BY <1>4 DEF RefusePrefix, CallbackInv, RequestInv
    <2> QED  BY <1>4, <2>1 DEF vars, RefusePrefix, Answer, content, AnswerInv, Stripped, Path
<1>5. CASE UNCHANGED vars /\ (RefusePath \/ DatabaseFails \/ IgnoreUnsigned \/ RefuseGone)
    BY <1>5 DEF vars, RefusePath, DatabaseFails, IgnoreUnsigned, RefuseGone, Called, Answer,
                content, AnswerInv, RequestInv
<1>6. CASE UNCHANGED vars /\ SendUpdate
    BY <1>6 DEF vars, SendUpdate, Called, AnswerInv
<1>7. CASE UNCHANGED vars /\ (\/ DropUnsupported \/ Read \/ PollBuf \/ PollBroken \/ PollEnd
                              \/ PollAgain \/ PrintFeed)
    BY <1>7 DEF vars, DropUnsupported, Read, PollBuf, PollBroken, PollEnd, PollAgain, PrintFeed,
                AnswerInv
<1> QED  BY <1>1, <1>2, <1>3, <1>4, <1>5, <1>6, <1>7 DEF DeliveryNext

\* A buffer that is read is the next one.
LEMMA ProgressStep ==
    ASSUME CallbackInv, RequestInv, ProgressInv, [DeliveryNext]_<<vars, delivery_vars>>
    PROVE  ProgressInv'
<1>1. request' = request
    BY FixedParts
<1>2. CASE UNCHANGED <<unread, delivered>>
    BY <1>1, <1>2 DEF ProgressInv
<1>3. CASE PollBuf
    <2> DEFINE bufs == request.body.bufs
               n == Len(bufs)
    <2>1. bufs \in Seq(Seq(Chunk)) /\ n \in Nat
        BY RequestFacts, LenProperties
    <2>2. PICK i \in 0..n : unread = SubSeq(bufs, i + 1, n) /\ delivered = FirstBufs(bufs, i)
        BY DEF ProgressInv
    <2>3. /\ unread # <<>> /\ unread' = Tail(unread)
          /\ delivered' = delivered \o Head(unread)
        BY <1>3 DEF PollBuf
    <2> HIDE DEF bufs
    <2>4. i + 1 \in 1..n
        BY <2>1, <2>2, <2>3, SubSeqEmpty
    <2>5. Head(unread) = bufs[i + 1] /\ Tail(unread) = SubSeq(bufs, i + 2, n)
        BY <2>1, <2>2, <2>4, HeadTailOfSubSeq
    <2>6. FirstBufs(bufs, i + 1) = FirstBufs(bufs, i) \o bufs[i + 1]
        <3>1. FirstBufs(bufs, i + 1) = FirstBufs(bufs, (i + 1) - 1) \o bufs[i + 1]
            BY <2>1, <2>4, FlattenRounds
        <3>2. (i + 1) - 1 = i
            BY <2>1
        <3> QED  BY <3>1, <3>2
    <2>7. /\ i + 1 \in 0..n /\ unread' = SubSeq(bufs, (i + 1) + 1, n)
          /\ delivered' = FirstBufs(bufs, i + 1)
        <3>1. i + 1 \in 0..n /\ (i + 1) + 1 = i + 2
            BY <2>1, <2>4
        <3>2. unread' = SubSeq(bufs, (i + 1) + 1, n)
            BY <2>3, <2>5, <3>1
        <3>3. delivered' = FirstBufs(bufs, i + 1)
            BY <2>2, <2>3, <2>5, <2>6
        <3> QED  BY <3>1, <3>2, <3>3
    <2> QED  BY <1>1, <2>7 DEF ProgressInv, bufs
<1>4. UNCHANGED <<unread, delivered>> \/ PollBuf
    BY DEF DeliveryNext, delivery_vars, content, RefusePrefix, RefusePath, DatabaseFails,
           IgnoreUnsigned, RefuseGone, Answer, SendUpdate, DropUnsupported, Read, PollBroken,
           PollEnd, PollAgain, PrintFeed
<1> QED  BY <1>2, <1>3, <1>4

\* An update takes the bytes after those before, and nothing else changes.
LEMMA UpdatedVerifier ==
    ASSUME NEW v, NEW buf,
           v = [signature |-> v.signature,
                mac |-> [method |-> v.mac.method, secret |-> v.mac.secret, over |-> v.mac.over]]
    PROVE  VerifierUpdate(v, buf) =
              [signature |-> v.signature,
               mac |-> [method |-> v.mac.method, secret |-> v.mac.secret,
                        over |-> v.mac.over \o buf]]
<1> DEFINE s == v.signature
           m == v.mac.method
           k == v.mac.secret
           o == v.mac.over
           r == o \o buf
<1>1. VerifierUpdate(v, buf) = [v EXCEPT !.mac.over = r]
    BY DEF VerifierUpdate
<1>2. v = [signature |-> s, mac |-> [method |-> m, secret |-> k, over |-> o]]
    OBVIOUS
<1> HIDE DEF s, m, k, o, r
<1>3. [v EXCEPT !.mac.over = r] =
         [signature |-> s, mac |-> [method |-> m, secret |-> k, over |-> r]]
    BY <1>2
<1> QED  BY <1>1, <1>3 DEF s, m, k, o, r

\* The signature is kept, and the mac is of what was delivered.
LEMMA VerifierStep ==
    ASSUME DeliveryInv, [DeliveryNext]_<<vars, delivery_vars>>
    PROVE  VerifierInv'
<1> DEFINE sig == TakeSignature(request.headers)
<1> USE DEF DeliveryInv
<1>1. /\ request' = request /\ rows' = rows /\ TakeSignature(request.headers)' = sig
      /\ AllChunks' = AllChunks
    <2>1. request' = request /\ rows' = rows
        BY FixedParts
    <2> QED  BY <2>1 DEF AllChunks
<1> HIDE DEF sig
<1>2. CASE MakeCallback /\ UNCHANGED delivery_vars
    BY <1>2 DEF MakeCallback, delivery_vars, AnswerInv, VerifierInv
<1>3. CASE Stripped /\ Route /\ UNCHANGED delivery_vars
    BY <1>3 DEF Route, delivery_vars, AnswerInv, VerifierInv
<1>4. CASE UNCHANGED vars /\ UNCHANGED delivery_vars
    BY <1>4 DEF vars, delivery_vars, content, VerifierInv, Right, AllChunks
<1>5. CASE UNCHANGED vars /\ (\/ RefusePrefix \/ RefusePath \/ DatabaseFails
                              \/ IgnoreUnsigned \/ RefuseGone)
    BY <1>5 DEF RefusePrefix, RefusePath, DatabaseFails, IgnoreUnsigned, RefuseGone, Answer,
                VerifierInv
<1>6. ASSUME UNCHANGED vars, \A chunks, method : Right(method, chunks)' = Right(method, chunks),
             at \notin {"called", "answered"}
      PROVE  /\ routed' \in rows' /\ sig # Absent
             /\ verifier = [signature |-> sig, mac |-> Right(sig.method, verifier.mac.over)]
             /\ gen_secret(routed)' = gen_secret(routed)
    BY <1>1, <1>6 DEF vars, VerifierInv, sig, gen_secret
<1>7. UNCHANGED vars => \A chunks, method : Right(method, chunks)' = Right(method, chunks)
    BY DEF vars, Right, gen_secret
<1> DEFINE Kept ==
        /\ at' \notin {"complete", "printed"} /\ "SignatureMismatch" \notin errors' =>
              verifier'.mac.over = delivered'
        /\ at' \in {"complete", "printed"} =>
              /\ sig.secret = gen_secret(routed)
              /\ "SignatureMismatch" \notin errors' => sig.over = delivered'
        /\ at' = "printed" => errors' = {}
        /\ "SignatureMismatch" \in errors' =>
              "Body" \in errors' \/ sig # Right(sig.method, AllChunks)
<1>8. ASSUME UNCHANGED vars, at \notin {"called", "answered"}, Kept,
             verifier' = [signature |-> sig, mac |-> Right(sig.method, verifier'.mac.over)]
      PROVE  VerifierInv'
    BY <1>1, <1>6, <1>7, <1>8 DEF VerifierInv
<1>9. CASE UNCHANGED vars /\ SendUpdate
    <2>1. /\ at' \in {"queued", "unheard"} /\ routed' \in rows' /\ sig # Absent
          /\ verifier' = verify_with(sig, gen_secret(routed))
          /\ delivered' = <<>> /\ errors' = {}
        BY <1>1, <1>9 DEF vars, SendUpdate, Called, AnswerInv, sig
    <2>2. /\ verify_with(sig, gen_secret(routed)).mac.over = <<>>
          /\ verify_with(sig, gen_secret(routed)) =
                [signature |-> sig, mac |-> Right(sig.method, <<>>)]
        BY DEF verify_with, Right
    <2> QED  BY <1>1, <1>7, <1>9, <2>1, <2>2 DEF VerifierInv
<1>10. CASE UNCHANGED vars /\ (DropUnsupported \/ Read \/ PollAgain)
    <2>1. /\ UNCHANGED <<verifier, delivered, errors>>
          /\ at \in {"queued", "error"} /\ at' \in {"dropped", "reading"}
        BY <1>10 DEF DropUnsupported, Read, PollAgain, content
    <2>2. Kept /\ verifier' = [signature |-> sig, mac |-> Right(sig.method, verifier'.mac.over)]
        BY <1>6, <1>7, <1>10, <2>1 DEF VerifierInv, sig
    <2> QED  BY <1>8, <1>10, <2>1, <2>2
<1>11. CASE UNCHANGED vars /\ PollBuf
    <2>1. /\ verifier' = VerifierUpdate(verifier, Head(unread))
          /\ delivered' = delivered \o Head(unread)
          /\ at = "reading" /\ at' = at /\ errors' = errors
        BY <1>11 DEF PollBuf
    <2>2. verifier = [signature |-> sig, mac |-> Right(sig.method, verifier.mac.over)]
        BY <1>6, <1>7, <1>11, <2>1
    <2>3. /\ verifier'.mac.over = verifier.mac.over \o Head(unread)
          /\ verifier' = [signature |-> sig, mac |-> Right(sig.method, verifier'.mac.over)]
        <3> DEFINE read == verifier.mac.over
                   buf == Head(unread)
        <3>1. verifier = [signature |-> sig, mac |-> Right(sig.method, read)]
            BY <2>2
        <3> HIDE DEF read, buf
        <3>2. VerifierUpdate(verifier, buf) =
                 [signature |-> sig, mac |-> Right(sig.method, read \o buf)]
            <4>1. /\ verifier.signature = sig /\ verifier.mac.method = sig.method
                  /\ verifier.mac.secret = gen_secret(routed) /\ verifier.mac.over = read
                BY <3>1 DEF Right
            <4>2. verifier = [signature |-> verifier.signature,
                              mac |-> [method |-> verifier.mac.method,
                                       secret |-> verifier.mac.secret,
                                       over   |-> verifier.mac.over]]
                BY <3>1, <4>1 DEF Right
            <4> QED  BY <4>1, <4>2, UpdatedVerifier DEF Right
        <3>3. verifier' = [signature |-> sig, mac |-> Right(sig.method, read \o buf)]
            BY <2>1, <3>2 DEF buf
        <3>4. verifier'.mac.over = read \o buf
            BY <3>3 DEF Right
        <3> QED  BY <3>3, <3>4 DEF read, buf
    <2>4. Kept
        BY <2>1, <2>3 DEF VerifierInv, sig
    <2> QED  BY <1>8, <1>11, <2>1, <2>3, <2>4
<1>12. CASE UNCHANGED vars /\ PollBroken
    <2>1. /\ at = "reading" /\ at' = "error" /\ errors' = {"Body"} /\ errors = {}
          /\ UNCHANGED <<verifier, delivered>>
        BY <1>12 DEF PollBroken
    <2>2. Kept /\ verifier' = [signature |-> sig, mac |-> Right(sig.method, verifier'.mac.over)]
        BY <1>6, <1>7, <1>12, <2>1 DEF VerifierInv, sig
    <2> QED  BY <1>8, <1>12, <2>1, <2>2
<1>13. CASE UNCHANGED vars /\ PollEnd
    <2>1. /\ at = "reading" /\ unread = <<>> /\ verifier' = Reset(verifier)
          /\ delivered' = delivered
          /\ \/ Matches(verifier) /\ at' = "complete" /\ errors' = errors
             \/ ~Matches(verifier) /\ at' = "error"
                /\ errors' = errors \cup {"SignatureMismatch"}
        BY <1>13 DEF PollEnd
    <2>2. verifier = [signature |-> sig, mac |-> Right(sig.method, verifier.mac.over)]
        BY <1>6, <1>7, <1>13, <2>1
    <2>3. verifier' = [signature |-> sig, mac |-> Right(sig.method, verifier'.mac.over)]
        BY <2>1, <2>2 DEF Reset, Right
    <2>4. Matches(verifier) <=> sig = Right(sig.method, verifier.mac.over)
        BY <2>2 DEF Matches
    <2>5. /\ "SignatureMismatch" \notin errors => verifier.mac.over = delivered
          /\ "SignatureMismatch" \in errors =>
                "Body" \in errors \/ sig # Right(sig.method, AllChunks)
        BY <2>1 DEF VerifierInv, sig
    <2>6. delivered = AllChunks
        <3> DEFINE bufs == request.body.bufs
                   n == Len(bufs)
        <3>1. bufs \in Seq(Seq(Chunk)) /\ n \in Nat
            BY RequestFacts, LenProperties
        <3>2. PICK i \in 0..n : unread = SubSeq(bufs, i + 1, n) /\ delivered = FirstBufs(bufs, i)
            BY DEF ProgressInv
        <3> HIDE DEF bufs
        <3>3. i = n
            <4>1. Len(SubSeq(bufs, i + 1, n)) = 0
                BY <2>1, <3>2, EmptySeq
            <4>2. \A k \in (i + 1)..n : bufs[k] \in Seq(Chunk)
                BY <3>1, LenProperties
            <4>3. i + 1 <= n => n - (i + 1) + 1 = 0
                BY <3>1, <4>1, <4>2, SubSeqProperties
            <4> QED  BY <3>1, <4>3
        <3> QED  BY <3>1, <3>2, <3>3, FlattenRounds DEF AllChunks, bufs
    <2>7. CASE Matches(verifier)
        <3>1. sig.secret = gen_secret(routed) /\ sig.over = verifier.mac.over
            BY <2>4, <2>7 DEF Right
        <3>2. Kept
            BY <2>1, <2>5, <2>7, <3>1
        <3> QED  BY <1>8, <1>13, <2>1, <2>3, <3>2
    <2>8. CASE ~Matches(verifier)
        <3>1. "Body" \in errors \/ sig # Right(sig.method, AllChunks)
            BY <2>4, <2>5, <2>6, <2>8
        <3>2. Kept
            BY <2>1, <2>8, <3>1
        <3> QED  BY <1>8, <1>13, <2>1, <2>3, <3>2
    <2> QED  BY <2>7, <2>8
<1>14. CASE UNCHANGED vars /\ PrintFeed
    <2>1. /\ at = "complete" /\ at' = "printed" /\ errors = {}
          /\ UNCHANGED <<verifier, delivered, errors>>
        BY <1>14 DEF PrintFeed, content
    <2>2. Kept /\ verifier' = [signature |-> sig, mac |-> Right(sig.method, verifier'.mac.over)]
        BY <1>6, <1>7, <1>14, <2>1 DEF VerifierInv, sig
    <2> QED  BY <1>8, <1>14, <2>1, <2>2
<1> QED
    BY <1>2, <1>3, <1>4, <1>5, <1>9, <1>10, <1>11, <1>12, <1>13, <1>14 DEF DeliveryNext

\* Every step keeps the invariant.
LEMMA DeliveryInvStep ==
    ASSUME DeliveryInv, [DeliveryNext]_<<vars, delivery_vars>>
    PROVE  DeliveryInv'
<1>1. CallbackInv'
    <2>1. [Next]_vars
        BY DEF DeliveryNext, Next
    <2> QED  BY <2>1, CallbackStep DEF DeliveryInv
<1> QED
    BY <1>1, RequestStep, AnswerStep, ProgressStep, VerifierStep DEF DeliveryInv

\* So it always holds.
LEMMA DeliveryInvariance == DeliverySpec => []DeliveryInv
<1> QED  BY DeliveryInvInit, DeliveryInvStep, PTL DEF DeliverySpec

-----------------------------------------------------------------------------
(* Theorems                                                                *)

\* The signature that was taken is the digest of a header.
LEMMA TakenHeader ==
    ASSUME CallbackInv, RequestInv, TakeSignature(request.headers) # Absent
    PROVE  \E k \in DOMAIN request.headers :
              /\ Strongest(k)
              /\ request.headers[k].digest = TakeSignature(request.headers)
              /\ request.headers[k].digest # Absent
              /\ request.headers[k].name = request.headers[k].digest.method
<1> DEFINE headers == request.headers
<1>1. Len(headers) \in Nat /\ DOMAIN headers = 1..Len(headers)
    BY RequestFacts
<1>2. StrongestOf(TakeSignature(headers), headers, Len(headers))
    BY <1>1, TakesStrongest
<1>3. PICK k \in 1..Len(headers) :
         /\ SignatureParse(headers[k]) # Absent
         /\ TakeSignature(headers) = SignatureParse(headers[k])
         /\ \A j \in 1..Len(headers) :
               SignatureParse(headers[j]) # Absent =>
                   discriminant[headers[j].name] <= discriminant[headers[k].name]
    BY <1>2 DEF StrongestOf
<1>4. Strongest(k)
    BY <1>1, <1>3 DEF Strongest
<1>5. headers[k].digest = SignatureParse(headers[k]) /\ headers[k].digest.method = headers[k].name
    BY <1>3, ParsedSignature
<1> QED  BY <1>1, <1>3, <1>4, <1>5

\* hub.rs:202 and Service::call: the service knows its way from every
\* callback that the subscriber hands out, for every id, with or without
\* zero bytes.
THEOREM KnowsOwnCallbacks == DeliverySpec => []OwnCallbackAccepted
<1> DEFINE Prefixed ==
        at = "answered" /\ response = "NOT_FOUND" /\ id # None =>
            maker = "command" /\ callback[Len(callback)] # Slash
<1>1. DeliveryInv => (id # None /\ stage = "done" => routed # None)
    <2> SUFFICES ASSUME CallbackInv, id # None, stage = "done" PROVE routed # None
        BY DEF DeliveryInv
    <2>1. id \in [1..8 -> Byte] /\ routed = decode(encode(id))
        BY IdsAreBytes DEF CallbackInv
    <2> QED  BY <2>1, OwnTextDecodes, IdIsNotNone
<1>2. DeliveryInit => Prefixed
    BY DEF DeliveryInit
<1>3. DeliveryInv /\ Prefixed /\ [DeliveryNext]_<<vars, delivery_vars>> => Prefixed'
    <2> SUFFICES ASSUME DeliveryInv, Prefixed, [DeliveryNext]_<<vars, delivery_vars>>
                 PROVE  Prefixed'
        OBVIOUS
    <2>1. UNCHANGED <<callback, maker, id>>
        BY FixedParts DEF DeliveryInv
    <2>2. CASE UNCHANGED <<at, response>>
        BY <2>1, <2>2
    <2>3. CASE RefusePrefix
        <3>1. ASSUME id # None PROVE maker = "command" /\ callback[Len(callback)] # Slash
            <4>1. text \in Seq(Sextet \cup {Other})
                BY <2>3, TextType DEF DeliveryInv, RefusePrefix
            <4>2. ~Stripped /\ maker \in {"service", "command"}
                BY <2>3 DEF RefusePrefix, DeliveryInv, RequestInv
            <4> QED  BY <4>1, <4>2, OwnPathIsStripped DEF DeliveryInv
        <3> QED  BY <2>1, <3>1
    <2>4. CASE RefusePath
        <3>1. id = None
            BY <1>1, <2>4 DEF RefusePath, Called
        <3> QED  BY <2>1, <3>1
    <2>5. CASE \/ DatabaseFails \/ IgnoreUnsigned \/ RefuseGone \/ SendUpdate
               \/ DropUnsupported \/ Read \/ PollBuf \/ PollBroken \/ PollEnd \/ PollAgain
               \/ PrintFeed
        BY <2>5 DEF DatabaseFails, IgnoreUnsigned, RefuseGone, Answer, SendUpdate,
                    DropUnsupported, Read, PollBuf, PollBroken, PollEnd, PollAgain, PrintFeed
    <2>6. UNCHANGED <<at, response>> \/ ~UNCHANGED delivery_vars
        BY DEF delivery_vars
    <2> QED  BY <2>2, <2>3, <2>4, <2>5, <2>6 DEF DeliveryNext, delivery_vars
<1>4. DeliveryInv /\ Prefixed => OwnCallbackAccepted
    <2> SUFFICES ASSUME DeliveryInv, Prefixed, id # None, at = "answered"
                 PROVE  response = "GONE" => routed # None
        BY DEF OwnCallbackAccepted
    <2> QED  BY <1>1 DEF DeliveryInv, AnswerInv
<1> HIDE DEF Prefixed
<1> QED  BY <1>2, <1>3, <1>4, DeliveryInvariance, PTL DEF DeliverySpec

\* Content::poll_data (content.rs:68): what is read to its end without an
\* error is signed with the secret of the subscription that it is given out
\* for, whatever headers came with it and however the body was cut up.
THEOREM CompletesSigned == DeliverySpec => []CompleteIsSigned
<1>1. DeliveryInv => CompleteIsSigned
    <2> SUFFICES ASSUME DeliveryInv, at \in {"complete", "printed"},
                        ~("SignatureMismatch" \in errors /\ at = "complete")
                 PROVE  \E k \in DOMAIN request.headers :
                           SignsFor(request.headers[k], routed, delivered)
        BY DEF CompleteIsSigned
    <2> DEFINE sig == TakeSignature(request.headers)
    <2>1. sig # Absent /\ sig.secret = gen_secret(routed) /\ sig.over = delivered
        BY DEF DeliveryInv, VerifierInv
    <2>2. PICK k \in DOMAIN request.headers :
             /\ request.headers[k].digest = sig
             /\ request.headers[k].digest # Absent
             /\ request.headers[k].name = request.headers[k].digest.method
        BY <2>1, TakenHeader DEF DeliveryInv
    <2> QED  BY <2>1, <2>2 DEF SignsFor
<1> QED  BY <1>1, DeliveryInvariance, PTL

\* Service::call (service.rs:184): the signature that is taken is of a
\* strongest method, so weaker or malformed headers beside the right ones,
\* in any order, never cost an update.
THEOREM DeliversSigned == DeliverySpec => []SignedIsDelivered
<1>1. DeliveryInv => SignedIsDelivered
    <2> SUFFICES ASSUME DeliveryInv, routed \in rows,
                        \E k \in DOMAIN request.headers : Strongest(k),
                        \A k \in DOMAIN request.headers :
                            Strongest(k) => SignsFor(request.headers[k], routed, AllChunks)
                 PROVE  /\ at = "answered" => response = "error"
                        /\ "SignatureMismatch" \in errors => "Body" \in errors
        BY DEF SignedIsDelivered
    <2> DEFINE sig == TakeSignature(request.headers)
               headers == request.headers
    <2>1. sig # Absent
        <3>1. Len(headers) \in Nat /\ DOMAIN headers = 1..Len(headers)
            BY RequestFacts DEF DeliveryInv
        <3>2. StrongestOf(sig, headers, Len(headers))
            BY <3>1, TakesStrongest
        <3>3. PICK k \in DOMAIN headers : SignatureParse(headers[k]) # Absent
            BY DEF Strongest
        <3> QED  BY <3>1, <3>2, <3>3 DEF StrongestOf
    <2>2. PICK k \in DOMAIN headers : Strongest(k) /\ headers[k].digest = sig
        BY <2>1, TakenHeader DEF DeliveryInv
    <2>3. SignsFor(headers[k], routed, AllChunks)
        BY <2>2
    <2>4. PICK secrets : sig \in [method : Methods, secret : secrets, over : Seq(Chunk)]
        <3>1. headers[k].digest # Absent
            BY <2>3 DEF SignsFor
        <3> QED  BY <2>2, <3>1, RequestFacts DEF DeliveryInv
    <2>5. sig = Right(sig.method, AllChunks)
        BY <2>2, <2>3, <2>4 DEF SignsFor, Right
    <2>6. at = "answered" => response = "error"
        BY <2>1 DEF DeliveryInv, AnswerInv
    <2>7. "SignatureMismatch" \in errors => "Body" \in errors
        BY <2>5 DEF DeliveryInv, AnswerInv, VerifierInv
    <2> QED  BY <2>6, <2>7
<1> QED  BY <1>1, DeliveryInvariance, PTL

\* service.rs:198: the secret tells subscriptions apart, even if the callback
\* of one leads to another: what is complete was meant for the subscription
\* that it is given out for.
THEOREM AttributesRightly == DeliverySpec => []NotMisattributed
<1>1. DeliveryInv => NotMisattributed
    <2> SUFFICES ASSUME DeliveryInv, at \in {"complete", "printed"}, id # None
                 PROVE  routed = id
        BY DEF NotMisattributed
    <2> DEFINE sig == TakeSignature(request.headers)
    <2>1. sig # Absent /\ sig.secret = gen_secret(routed) /\ routed \in rows
        BY DEF DeliveryInv, VerifierInv
    <2>2. PICK k \in DOMAIN request.headers :
             request.headers[k].digest = sig /\ request.headers[k].digest # Absent
        BY <2>1, TakenHeader DEF DeliveryInv
    <2>3. sig.secret \in {gen_secret(id), None}
        BY <2>2, RequestFacts DEF DeliveryInv
    <2>4. routed # None
        BY <2>1 DEF DeliveryInv, RequestInv
    <2> QED  BY <2>1, <2>3, <2>4 DEF gen_secret
<1> QED  BY <1>1, DeliveryInvariance, PTL

=============================================================================
