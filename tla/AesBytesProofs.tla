--------------------------- MODULE AesBytesProofs ---------------------------
(***************************************************************************)
(* What the byte operations of class AES do to every byte.  The exclusive  *)
(* or is taken bit by bit; all that follows about multiply and the factors *)
(* rests on it being a group in which every byte undoes itself, and on     *)
(* multiply respecting it.  So does the product of the field, and what     *)
(* respects the exclusive or is known from the bytes with one bit: that is *)
(* how the factors are seen to be products.                                *)
(***************************************************************************)
EXTENDS GaloisField, FiniteSetTheorems, WellFoundedInduction, TLAPS

BitNumber == 0 .. 7

-----------------------------------------------------------------------------
(* Exclusive or *)

\* The bit numbers, one by one.
LEMMA BitNumbers ==
  /\ \A n \in BitNumber : n \in {0, 1, 2, 3, 4, 5, 6, 7}
  /\ \A n \in 0 .. 3 : n \in {0, 1, 2, 3}
  BY DEF BitNumber

\* NibbleXor adds the bits of two nibbles without carry.
LEMMA NibbleXorBits ==
  ASSUME NEW a \in 0 .. 15, NEW b \in 0 .. 15
  PROVE  /\ NibbleXor[a][b] \in 0 .. 15
         /\ \A n \in 0 .. 3 : Bit(NibbleXor[a][b], n) = (Bit(a, n) + Bit(b, n)) % 2
<1>1. NibbleXor[a][b] =
        1 * ((Bit(a, 0) + Bit(b, 0)) % 2) + 2 * ((Bit(a, 1) + Bit(b, 1)) % 2)
        + 4 * ((Bit(a, 2) + Bit(b, 2)) % 2) + 8 * ((Bit(a, 3) + Bit(b, 3)) % 2)
  BY DEF NibbleXor, Bit
<1> QED
  BY <1>1, BitNumbers DEF Bit

\* Xor adds the bits of two bytes without carry.
LEMMA XorBits ==
  ASSUME NEW a \in Byte, NEW b \in Byte
  PROVE  /\ Xor(a, b) \in Byte
         /\ \A n \in BitNumber : Bit(Xor(a, b), n) = (Bit(a, n) + Bit(b, n)) % 2
<1> DEFINE high == NibbleXor[a \div 16][b \div 16]
           low == NibbleXor[a % 16][b % 16]
<1>1. /\ a \div 16 \in 0 .. 15 /\ b \div 16 \in 0 .. 15
      /\ a % 16 \in 0 .. 15 /\ b % 16 \in 0 .. 15
  BY DEF Byte
<1>2. /\ high \in 0 .. 15 /\ low \in 0 .. 15
      /\ \A n \in 0 .. 3 : /\ Bit(high, n) = (Bit(a \div 16, n) + Bit(b \div 16, n)) % 2
                           /\ Bit(low, n) = (Bit(a % 16, n) + Bit(b % 16, n)) % 2
  BY <1>1, NibbleXorBits
<1>3. Xor(a, b) = 16 * high + low
  <2>1. a \div 256 = 0 /\ a % 256 = a
    BY DEF Byte
  <2> QED
    BY <1>2, <2>1 DEF Xor
<1> HIDE DEF high, low
<1>4. 16 * high + low \in Byte
  BY <1>2 DEF Byte
<1>5. \A n \in 0 .. 3 : /\ Bit(16 * high + low, n) = Bit(low, n)
                        /\ Bit(16 * high + low, n + 4) = Bit(high, n)
  <2>1. high \in 0 .. 15 /\ low \in 0 .. 15
    BY <1>2
  <2>2. /\ Bit(16 * high + low, 0) = Bit(low, 0) /\ Bit(16 * high + low, 1) = Bit(low, 1)
        /\ Bit(16 * high + low, 2) = Bit(low, 2) /\ Bit(16 * high + low, 3) = Bit(low, 3)
    BY <2>1, SMTT(20) DEF Bit
  <2>3. /\ Bit(16 * high + low, 4) = Bit(high, 0) /\ Bit(16 * high + low, 5) = Bit(high, 1)
        /\ Bit(16 * high + low, 6) = Bit(high, 2) /\ Bit(16 * high + low, 7) = Bit(high, 3)
    BY <2>1, SMTT(20) DEF Bit
  <2> QED
    BY <2>2, <2>3, BitNumbers
<1>6. \A c \in Byte : \A n \in 0 .. 3 : /\ Bit(c % 16, n) = Bit(c, n)
                                        /\ Bit(c \div 16, n) = Bit(c, n + 4)
  <2> TAKE c \in Byte
  <2>1. /\ Bit(c % 16, 0) = Bit(c, 0) /\ Bit(c % 16, 1) = Bit(c, 1)
        /\ Bit(c % 16, 2) = Bit(c, 2) /\ Bit(c % 16, 3) = Bit(c, 3)
    BY SMTT(20) DEF Bit, Byte
  <2>2. /\ Bit(c \div 16, 0) = Bit(c, 4) /\ Bit(c \div 16, 1) = Bit(c, 5)
        /\ Bit(c \div 16, 2) = Bit(c, 6) /\ Bit(c \div 16, 3) = Bit(c, 7)
    BY SMTT(20) DEF Bit, Byte
  <2> QED
    BY <2>1, <2>2, BitNumbers
<1>7. \A n \in 0 .. 3 : /\ Bit(16 * high + low, n) = (Bit(a, n) + Bit(b, n)) % 2
                        /\ Bit(16 * high + low, n + 4) = (Bit(a, n + 4) + Bit(b, n + 4)) % 2
  BY <1>2, <1>5, <1>6
<1>8. \A n \in BitNumber : n \in 0 .. 3 \/ \E k \in 0 .. 3 : n = k + 4
  <2> TAKE n \in BitNumber
  <2>1. n \in 0 .. 3 \/ (n - 4 \in 0 .. 3 /\ n = (n - 4) + 4)
    BY DEF BitNumber
  <2> QED
    BY <2>1
<1> QED
  BY <1>3, <1>4, <1>7, <1>8

\* A byte is its bits.
LEMMA ByteIsItsBits ==
  ASSUME NEW a \in Byte
  PROVE  /\ \A n \in BitNumber : Bit(a, n) \in {0, 1}
         /\ a = Bit(a, 0) + 2 * Bit(a, 1) + 4 * Bit(a, 2) + 8 * Bit(a, 3)
                + 16 * Bit(a, 4) + 32 * Bit(a, 5) + 64 * Bit(a, 6) + 128 * Bit(a, 7)
<1>1. \A n \in {0, 1, 2, 3, 4, 5, 6, 7} : Bit(a, n) \in {0, 1}
  BY DEF Bit, Byte
<1>2. \A n \in BitNumber : Bit(a, n) \in {0, 1}
  BY <1>1, BitNumbers
<1>3. a = Bit(a, 0) + 2 * Bit(a, 1) + 4 * Bit(a, 2) + 8 * Bit(a, 3)
          + 16 * Bit(a, 4) + 32 * Bit(a, 5) + 64 * Bit(a, 6) + 128 * Bit(a, 7)
  BY DEF Bit, Byte
<1> QED
  BY <1>2, <1>3

\* Bytes with the same bits are the same.
LEMMA SameBits ==
  ASSUME NEW a \in Byte, NEW b \in Byte, \A n \in BitNumber : Bit(a, n) = Bit(b, n)
  PROVE  a = b
<1>1. {0, 1, 2, 3, 4, 5, 6, 7} \subseteq BitNumber
  BY DEF BitNumber
<1>2. /\ Bit(a, 0) = Bit(b, 0) /\ Bit(a, 1) = Bit(b, 1) /\ Bit(a, 2) = Bit(b, 2)
      /\ Bit(a, 3) = Bit(b, 3) /\ Bit(a, 4) = Bit(b, 4) /\ Bit(a, 5) = Bit(b, 5)
      /\ Bit(a, 6) = Bit(b, 6) /\ Bit(a, 7) = Bit(b, 7)
  BY <1>1
<1> QED
  BY <1>2, ByteIsItsBits

\* The order of the operands is of no account, ...
LEMMA XorCommutes ==
  ASSUME NEW a \in Byte, NEW b \in Byte
  PROVE  Xor(a, b) = Xor(b, a)
<1>1. \A n \in BitNumber : Bit(Xor(a, b), n) = Bit(Xor(b, a), n)
  BY XorBits, ByteIsItsBits
<1> QED
  BY <1>1, XorBits, SameBits

\* ... nor is the order of the operations.
LEMMA XorAssociates ==
  ASSUME NEW a \in Byte, NEW b \in Byte, NEW c \in Byte
  PROVE  Xor(Xor(a, b), c) = Xor(a, Xor(b, c))
<1>1. Xor(a, b) \in Byte /\ Xor(b, c) \in Byte
  BY XorBits
<1>2. ASSUME NEW n \in BitNumber
      PROVE  Bit(Xor(Xor(a, b), c), n) = Bit(Xor(a, Xor(b, c)), n)
  <2>1. Bit(a, n) \in {0, 1} /\ Bit(b, n) \in {0, 1} /\ Bit(c, n) \in {0, 1}
    BY ByteIsItsBits
  <2>2. Bit(Xor(Xor(a, b), c), n) = (((Bit(a, n) + Bit(b, n)) % 2) + Bit(c, n)) % 2
    BY <1>1, XorBits
  <2>3. Bit(Xor(a, Xor(b, c)), n) = (Bit(a, n) + ((Bit(b, n) + Bit(c, n)) % 2)) % 2
    BY <1>1, XorBits
  <2> QED
    BY <2>1, <2>2, <2>3
<1> QED
  BY <1>1, <1>2, XorBits, SameBits

\* Zero changes nothing, and a byte takes itself away.
LEMMA XorCancels ==
  ASSUME NEW a \in Byte
  PROVE  Xor(a, 0) = a /\ Xor(0, a) = a /\ Xor(a, a) = 0
<1>1. 0 \in Byte /\ \A n \in BitNumber : Bit(0, n) = 0
  <2>1. /\ Bit(0, 0) = 0 /\ Bit(0, 1) = 0 /\ Bit(0, 2) = 0 /\ Bit(0, 3) = 0
        /\ Bit(0, 4) = 0 /\ Bit(0, 5) = 0 /\ Bit(0, 6) = 0 /\ Bit(0, 7) = 0
    BY DEF Bit
  <2> QED
    BY <2>1, BitNumbers DEF Byte
<1>2. \A n \in BitNumber : /\ Bit(a, n) \in {0, 1}
                           /\ Bit(Xor(a, 0), n) = Bit(a, n)
                           /\ Bit(Xor(0, a), n) = Bit(a, n)
                           /\ Bit(Xor(a, a), n) = Bit(0, n)
  BY <1>1, XorBits, ByteIsItsBits
<1> QED
  BY <1>1, <1>2, XorBits, SameBits

\* What is added twice is gone: how _addRoundKey undoes itself.
LEMMA XorTwice ==
  ASSUME NEW a \in Byte, NEW b \in Byte
  PROVE  Xor(Xor(a, b), b) = a
  BY XorAssociates, XorCancels

\* In a sum of four the two in the middle can change places.
LEMMA XorExchange ==
  ASSUME NEW a \in Byte, NEW b \in Byte, NEW c \in Byte, NEW d \in Byte
  PROVE  Xor(Xor(a, b), Xor(c, d)) = Xor(Xor(a, c), Xor(b, d))
<1>1. Xor(a, b) \in Byte /\ Xor(a, c) \in Byte /\ Xor(c, d) \in Byte /\ Xor(b, d) \in Byte
  BY XorBits
<1>2. Xor(Xor(a, b), Xor(c, d)) = Xor(a, Xor(b, Xor(c, d)))
  BY <1>1, XorAssociates
<1>3. Xor(b, Xor(c, d)) = Xor(Xor(b, c), d)
  BY XorAssociates
<1>4. Xor(b, c) = Xor(c, b)
  BY XorCommutes
<1>5. Xor(Xor(c, b), d) = Xor(c, Xor(b, d))
  BY XorAssociates
<1>6. Xor(a, Xor(c, Xor(b, d))) = Xor(Xor(a, c), Xor(b, d))
  BY <1>1, XorAssociates
<1> QED
  BY <1>2, <1>3, <1>4, <1>5, <1>6

(* The sum of four, as _mixColumns and _invMixColumns form it.             *)
Sum4(a, b, c, d) == Xor(Xor(a, b), Xor(c, d))

\* The sum of four bytes is a byte.
LEMMA SumIsByte ==
  ASSUME NEW a \in Byte, NEW b \in Byte, NEW c \in Byte, NEW d \in Byte
  PROVE  Sum4(a, b, c, d) \in Byte
  BY XorBits DEF Sum4

\* The sum may start at any of the four.
LEMMA SumRotates ==
  ASSUME NEW a \in Byte, NEW b \in Byte, NEW c \in Byte, NEW d \in Byte
  PROVE  Sum4(a, b, c, d) = Sum4(b, c, d, a)
<1>1. Xor(a, b) = Xor(b, a)
  BY XorCommutes
<1>2. Xor(c, d) = Xor(d, c)
  BY XorCommutes
<1>3. Xor(Xor(b, a), Xor(c, d)) = Xor(Xor(b, c), Xor(a, d))
  BY XorExchange
<1>4. Xor(a, d) = Xor(d, a)
  BY XorCommutes
<1> QED
  BY <1>1, <1>3, <1>4 DEF Sum4

\* Four sums of four can be summed by columns as well as by rows.
LEMMA SumsTranspose ==
  ASSUME NEW m, \A k, l \in 1 .. 4 : m[k][l] \in Byte
  PROVE  Sum4(Sum4(m[1][1], m[1][2], m[1][3], m[1][4]),
              Sum4(m[2][1], m[2][2], m[2][3], m[2][4]),
              Sum4(m[3][1], m[3][2], m[3][3], m[3][4]),
              Sum4(m[4][1], m[4][2], m[4][3], m[4][4]))
           = Sum4(Sum4(m[1][1], m[2][1], m[3][1], m[4][1]),
                  Sum4(m[1][2], m[2][2], m[3][2], m[4][2]),
                  Sum4(m[1][3], m[2][3], m[3][3], m[4][3]),
                  Sum4(m[1][4], m[2][4], m[3][4], m[4][4]))
<1> DEFINE a1 == m[1][1]  a2 == m[1][2]  a3 == m[1][3]  a4 == m[1][4]
           b1 == m[2][1]  b2 == m[2][2]  b3 == m[2][3]  b4 == m[2][4]
           c1 == m[3][1]  c2 == m[3][2]  c3 == m[3][3]  c4 == m[3][4]
           d1 == m[4][1]  d2 == m[4][2]  d3 == m[4][3]  d4 == m[4][4]
<1>0. /\ a1 \in Byte /\ a2 \in Byte /\ a3 \in Byte /\ a4 \in Byte
      /\ b1 \in Byte /\ b2 \in Byte /\ b3 \in Byte /\ b4 \in Byte
      /\ c1 \in Byte /\ c2 \in Byte /\ c3 \in Byte /\ c4 \in Byte
      /\ d1 \in Byte /\ d2 \in Byte /\ d3 \in Byte /\ d4 \in Byte
  OBVIOUS
<1> HIDE DEF a1, a2, a3, a4, b1, b2, b3, b4, c1, c2, c3, c4, d1, d2, d3, d4
<1> DEFINE ab1 == Xor(a1, b1)  ab2 == Xor(a2, b2)  ab3 == Xor(a3, b3)  ab4 == Xor(a4, b4)
           cd1 == Xor(c1, d1)  cd2 == Xor(c2, d2)  cd3 == Xor(c3, d3)  cd4 == Xor(c4, d4)
<1>1. /\ Xor(a1, a2) \in Byte /\ Xor(a3, a4) \in Byte
      /\ Xor(b1, b2) \in Byte /\ Xor(b3, b4) \in Byte
      /\ Xor(c1, c2) \in Byte /\ Xor(c3, c4) \in Byte
      /\ Xor(d1, d2) \in Byte /\ Xor(d3, d4) \in Byte
  BY <1>0, XorBits
<1>2. /\ ab1 \in Byte /\ ab2 \in Byte /\ ab3 \in Byte /\ ab4 \in Byte
      /\ cd1 \in Byte /\ cd2 \in Byte /\ cd3 \in Byte /\ cd4 \in Byte
  BY <1>0, XorBits
<1>3. /\ Xor(Xor(a1, a2), Xor(b1, b2)) = Xor(ab1, ab2)
      /\ Xor(Xor(a3, a4), Xor(b3, b4)) = Xor(ab3, ab4)
      /\ Xor(Xor(c1, c2), Xor(d1, d2)) = Xor(cd1, cd2)
      /\ Xor(Xor(c3, c4), Xor(d3, d4)) = Xor(cd3, cd4)
  BY <1>0, XorExchange
<1>4. /\ Xor(Sum4(a1, a2, a3, a4), Sum4(b1, b2, b3, b4)) = Xor(Xor(ab1, ab2), Xor(ab3, ab4))
      /\ Xor(Sum4(c1, c2, c3, c4), Sum4(d1, d2, d3, d4)) = Xor(Xor(cd1, cd2), Xor(cd3, cd4))
  BY <1>1, <1>3, XorExchange DEF Sum4
<1> HIDE DEF ab1, ab2, ab3, ab4, cd1, cd2, cd3, cd4
<1>5. /\ Xor(ab1, ab2) \in Byte /\ Xor(ab3, ab4) \in Byte
      /\ Xor(cd1, cd2) \in Byte /\ Xor(cd3, cd4) \in Byte
  BY <1>2, XorBits
<1>6. Xor(Xor(Xor(ab1, ab2), Xor(ab3, ab4)), Xor(Xor(cd1, cd2), Xor(cd3, cd4)))
        = Xor(Xor(Xor(ab1, ab2), Xor(cd1, cd2)), Xor(Xor(ab3, ab4), Xor(cd3, cd4)))
  BY <1>5, XorExchange
<1>7. /\ Xor(Xor(ab1, ab2), Xor(cd1, cd2)) = Xor(Xor(ab1, cd1), Xor(ab2, cd2))
      /\ Xor(Xor(ab3, ab4), Xor(cd3, cd4)) = Xor(Xor(ab3, cd3), Xor(ab4, cd4))
  BY <1>2, XorExchange
<1> QED
  BY <1>4, <1>6, <1>7 DEF Sum4, ab1, ab2, ab3, ab4, cd1, cd2, cd3, cd4,
       a1, a2, a3, a4, b1, b2, b3, b4, c1, c2, c3, c4, d1, d2, d3, d4

-----------------------------------------------------------------------------
(* The macro multiply *)

\* multiply, cut to a byte.
Twice(a) == multiply(a) % 256

\* Cutting to a byte may wait: nested calls of the macro need no cut between.
LEMMA MultiplyWide ==
  ASSUME NEW a \in Nat
  PROVE  multiply(a) \in Nat /\ Twice(a) = Twice(a % 256) /\ Twice(a) \in Byte
<1> DEFINE mask == Bit(a, 7) * 27
           high == NibbleXor[((2 * a) % 256) \div 16][mask \div 16]
           low == NibbleXor[(2 * a) % 16][mask % 16]
<1>1. /\ mask \in 0 .. 27
      /\ Bit(a % 256, 7) = Bit(a, 7)
  BY DEF Bit
<1>2. /\ ((2 * a) % 256) \div 16 \in 0 .. 15 /\ mask \div 16 \in 0 .. 15
      /\ (2 * a) % 16 \in 0 .. 15 /\ mask % 16 \in 0 .. 15
  BY <1>1
<1>3. high \in 0 .. 15 /\ low \in 0 .. 15
  BY <1>2, NibbleXorBits
<1>4. multiply(a) = ((2 * a) \div 256) * 256 + 16 * high + low
  BY DEF multiply, Xor
<1>5. /\ (2 * (a % 256)) % 256 = (2 * a) % 256
      /\ (2 * (a % 256)) % 16 = (2 * a) % 16
      /\ (2 * (a % 256)) \div 256 \in 0 .. 1
      /\ (2 * a) \div 256 \in Nat
  OBVIOUS
<1>6. multiply(a % 256) = ((2 * (a % 256)) \div 256) * 256 + 16 * high + low
  BY <1>1, <1>5 DEF multiply, Xor
<1> HIDE DEF high, low
<1>7. /\ multiply(a) \in Nat
      /\ multiply(a) % 256 = 16 * high + low
      /\ multiply(a % 256) % 256 = 16 * high + low
  BY <1>3, <1>4, <1>5, <1>6
<1> QED
  BY <1>3, <1>7 DEF Twice, Byte

\* A shift to the left; the bit that leaves comes back as 1b hex.
LEMMA TwiceBits ==
  ASSUME NEW a \in Byte
  PROVE  /\ Bit(Twice(a), 0) = Bit(a, 7)
         /\ Bit(Twice(a), 1) = (Bit(a, 0) + Bit(a, 7)) % 2
         /\ Bit(Twice(a), 2) = Bit(a, 1)
         /\ Bit(Twice(a), 3) = (Bit(a, 2) + Bit(a, 7)) % 2
         /\ Bit(Twice(a), 4) = (Bit(a, 3) + Bit(a, 7)) % 2
         /\ Bit(Twice(a), 5) = Bit(a, 4)
         /\ Bit(Twice(a), 6) = Bit(a, 5)
         /\ Bit(Twice(a), 7) = Bit(a, 6)
<1> DEFINE shifted == (2 * a) % 256
           mask == Bit(a, 7) * 27
<1>1. shifted \in Byte /\ mask \in Byte /\ Bit(a, 7) \in {0, 1}
  BY DEF Bit, Byte
<1>2. Twice(a) = Xor(shifted, mask)
  <2>1. /\ shifted \div 16 \in 0 .. 15 /\ mask \div 16 \in 0 .. 15
        /\ shifted % 16 \in 0 .. 15 /\ mask % 16 \in 0 .. 15
    BY <1>1 DEF Byte
  <2>2. /\ NibbleXor[shifted \div 16][mask \div 16] \in 0 .. 15
        /\ NibbleXor[shifted % 16][mask % 16] \in 0 .. 15
    BY <2>1, NibbleXorBits
  <2>3. multiply(a) = ((2 * a) \div 256) * 256 + 16 * NibbleXor[shifted \div 16][mask \div 16]
                        + NibbleXor[(2 * a) % 16][mask % 16]
    BY DEF multiply, Xor
  <2>4. (2 * a) % 16 = shifted % 16 /\ (2 * a) \div 256 \in 0 .. 1
    BY DEF Byte
  <2>5. Xor(shifted, mask) = 16 * NibbleXor[shifted \div 16][mask \div 16]
                               + NibbleXor[shifted % 16][mask % 16]
    <3>1. shifted \div 256 = 0 /\ shifted % 256 = shifted
      BY <1>1 DEF Byte
    <3> QED
      BY <2>2, <3>1 DEF Xor
  <2> HIDE DEF shifted, mask
  <2> QED
    BY <2>2, <2>3, <2>4, <2>5 DEF Twice
<1>3. /\ Bit(shifted, 0) = 0 /\ Bit(shifted, 1) = Bit(a, 0) /\ Bit(shifted, 2) = Bit(a, 1)
      /\ Bit(shifted, 3) = Bit(a, 2) /\ Bit(shifted, 4) = Bit(a, 3)
      /\ Bit(shifted, 5) = Bit(a, 4) /\ Bit(shifted, 6) = Bit(a, 5)
      /\ Bit(shifted, 7) = Bit(a, 6)
  BY DEF Bit, Byte
<1>4. /\ Bit(mask, 0) = Bit(a, 7) /\ Bit(mask, 1) = Bit(a, 7) /\ Bit(mask, 2) = 0
      /\ Bit(mask, 3) = Bit(a, 7) /\ Bit(mask, 4) = Bit(a, 7) /\ Bit(mask, 5) = 0
      /\ Bit(mask, 6) = 0 /\ Bit(mask, 7) = 0
  BY DEF Bit, Byte
<1> HIDE DEF shifted, mask
<1>5. {0, 1, 2, 3, 4, 5, 6, 7} \subseteq BitNumber
  BY DEF BitNumber
<1>6. \A n \in {0, 1, 2, 3, 4, 5, 6, 7} :
         Bit(Twice(a), n) = (Bit(shifted, n) + Bit(mask, n)) % 2
  BY <1>1, <1>2, <1>5, XorBits
<1>7. \A n \in {0, 1, 2, 3, 4, 5, 6, 7} : Bit(a, n) \in {0, 1}
  BY <1>5, ByteIsItsBits
<1> QED
  BY <1>3, <1>4, <1>6, <1>7

\* multiply respects the exclusive or.
LEMMA TwiceAdds ==
  ASSUME NEW a \in Byte, NEW b \in Byte
  PROVE  Twice(Xor(a, b)) = Xor(Twice(a), Twice(b))
<1>1. Xor(a, b) \in Byte /\ Twice(a) \in Byte /\ Twice(b) \in Byte
      /\ Twice(Xor(a, b)) \in Byte /\ Xor(Twice(a), Twice(b)) \in Byte
  <2>1. \A c \in Byte : c \in Nat
    BY DEF Byte
  <2> QED
    BY <2>1, XorBits, MultiplyWide
<1>2. {0, 1, 2, 3, 4, 5, 6, 7} \subseteq BitNumber
  BY DEF BitNumber
<1>3. \A n \in {0, 1, 2, 3, 4, 5, 6, 7} :
        /\ Bit(a, n) \in {0, 1} /\ Bit(b, n) \in {0, 1}
        /\ Bit(Xor(a, b), n) = (Bit(a, n) + Bit(b, n)) % 2
        /\ Bit(Xor(Twice(a), Twice(b)), n) = (Bit(Twice(a), n) + Bit(Twice(b), n)) % 2
  BY <1>1, <1>2, XorBits, ByteIsItsBits
<1>4. \A n \in {0, 1, 2, 3, 4, 5, 6, 7} :
         Bit(Twice(Xor(a, b)), n) = Bit(Xor(Twice(a), Twice(b)), n)
  BY <1>1, <1>3, TwiceBits
<1> QED
  BY <1>1, <1>4, BitNumbers, SameBits

\* A byte doubled is a byte.
LEMMA TwiceIsByte ==
  ASSUME NEW a \in Byte
  PROVE  Twice(a) \in Byte
<1>1. a \in Nat
  BY DEF Byte
<1> QED
  BY <1>1, MultiplyWide

-----------------------------------------------------------------------------
(* The factors of _mixColumns and _invMixColumns *)

\* The factors in sums of what repeated doubling gives.
LEMMA FactorsByTwice ==
  ASSUME NEW a \in Byte
  PROVE  /\ factor(1, a) = a
         /\ factor(2, a) = Twice(a)
         /\ factor(3, a) = Xor(Twice(a), a)
  BY DEF factor, Twice

\* The same for the factors of _invMixColumns, whose calls of the macro are nested.
LEMMA InvFactorsByTwice ==
  ASSUME NEW a \in Byte
  PROVE  LET two == Twice(a)  four == Twice(two)  eight == Twice(four)
         IN  /\ invFactor(9, a) = Xor(eight, a)
             /\ invFactor(11, a) = Xor(Xor(eight, a), two)
             /\ invFactor(13, a) = Xor(Xor(eight, a), four)
             /\ invFactor(14, a) = Xor(Xor(eight, two), four)
<1> DEFINE once == multiply(a)  square == multiply(once)  cube == multiply(square)
<1>1. a \in Nat
  BY DEF Byte
<1>2. once \in Nat /\ once % 256 = Twice(a)
  BY <1>1, MultiplyWide DEF Twice
<1>3. square \in Nat /\ square % 256 = Twice(Twice(a))
  BY <1>2, MultiplyWide DEF Twice
<1>4. cube % 256 = Twice(Twice(Twice(a)))
  <2>1. Twice(square) = Twice(square % 256)
    BY <1>3, MultiplyWide
  <2>2. cube % 256 = Twice(square)
    BY DEF Twice
  <2> QED
    BY <2>1, <2>2, <1>3
<1>5. /\ invFactor(9, a) = Xor(cube % 256, a)
      /\ invFactor(11, a) = Xor(Xor(cube % 256, a), once % 256)
      /\ invFactor(13, a) = Xor(Xor(cube % 256, a), square % 256)
      /\ invFactor(14, a) = Xor(Xor(cube % 256, once % 256), square % 256)
  BY DEF invFactor
<1> QED
  BY <1>2, <1>3, <1>4, <1>5

\* Every factor makes a byte of a byte.
LEMMA FactorIsByte ==
  ASSUME NEW a \in Byte
  PROVE  /\ \A c \in {1, 2, 3} : factor(c, a) \in Byte
         /\ \A c \in {9, 11, 13, 14} : invFactor(c, a) \in Byte
<1>1. Twice(a) \in Byte /\ Twice(Twice(a)) \in Byte /\ Twice(Twice(Twice(a))) \in Byte
  BY TwiceIsByte
<1> QED
  BY <1>1, FactorsByTwice, InvFactorsByTwice, XorBits

\* The factors of _invMixColumns respect the exclusive or.
LEMMA InvFactorAdds ==
  ASSUME NEW a \in Byte, NEW b \in Byte, NEW c \in {9, 11, 13, 14}
  PROVE  invFactor(c, Xor(a, b)) = Xor(invFactor(c, a), invFactor(c, b))
<1> DEFINE a2 == Twice(a)  a4 == Twice(a2)  a8 == Twice(a4)
           b2 == Twice(b)  b4 == Twice(b2)  b8 == Twice(b4)
<1>1. /\ a2 \in Byte /\ a4 \in Byte /\ a8 \in Byte
      /\ b2 \in Byte /\ b4 \in Byte /\ b8 \in Byte
  BY TwiceIsByte
<1>2. Twice(Xor(a, b)) = Xor(a2, b2)
  BY TwiceAdds
<1>3. Twice(Xor(a2, b2)) = Xor(a4, b4)
  BY <1>1, TwiceAdds
<1>4. Twice(Xor(a4, b4)) = Xor(a8, b8)
  BY <1>1, TwiceAdds
<1>5. Xor(a, b) \in Byte
  BY XorBits
<1>6. /\ invFactor(9, a) = Xor(a8, a) /\ invFactor(9, b) = Xor(b8, b)
      /\ invFactor(11, a) = Xor(Xor(a8, a), a2) /\ invFactor(11, b) = Xor(Xor(b8, b), b2)
      /\ invFactor(13, a) = Xor(Xor(a8, a), a4) /\ invFactor(13, b) = Xor(Xor(b8, b), b4)
      /\ invFactor(14, a) = Xor(Xor(a8, a2), a4) /\ invFactor(14, b) = Xor(Xor(b8, b2), b4)
  BY InvFactorsByTwice
<1>7. /\ invFactor(9, Xor(a, b)) = Xor(Xor(a8, b8), Xor(a, b))
      /\ invFactor(11, Xor(a, b)) = Xor(Xor(Xor(a8, b8), Xor(a, b)), Xor(a2, b2))
      /\ invFactor(13, Xor(a, b)) = Xor(Xor(Xor(a8, b8), Xor(a, b)), Xor(a4, b4))
      /\ invFactor(14, Xor(a, b)) = Xor(Xor(Xor(a8, b8), Xor(a2, b2)), Xor(a4, b4))
  BY <1>2, <1>3, <1>4, <1>5, InvFactorsByTwice
<1> HIDE DEF a2, a4, a8, b2, b4, b8
<1>8. Xor(Xor(a8, b8), Xor(a, b)) = Xor(Xor(a8, a), Xor(b8, b))
  BY <1>1, XorExchange
<1>9. Xor(Xor(a8, b8), Xor(a2, b2)) = Xor(Xor(a8, a2), Xor(b8, b2))
  BY <1>1, XorExchange
<1>10. /\ Xor(a8, a) \in Byte /\ Xor(b8, b) \in Byte
       /\ Xor(a8, a2) \in Byte /\ Xor(b8, b2) \in Byte
  BY <1>1, XorBits
<1>11. /\ Xor(Xor(Xor(a8, a), Xor(b8, b)), Xor(a2, b2))
             = Xor(Xor(Xor(a8, a), a2), Xor(Xor(b8, b), b2))
       /\ Xor(Xor(Xor(a8, a), Xor(b8, b)), Xor(a4, b4))
             = Xor(Xor(Xor(a8, a), a4), Xor(Xor(b8, b), b4))
       /\ Xor(Xor(Xor(a8, a2), Xor(b8, b2)), Xor(a4, b4))
             = Xor(Xor(Xor(a8, a2), a4), Xor(Xor(b8, b2), b4))
  BY <1>1, <1>10, XorExchange
<1> QED
  BY <1>6, <1>7, <1>8, <1>9, <1>11

\* So each can be taken into a sum of four.
LEMMA InvFactorOfSum ==
  ASSUME NEW a \in Byte, NEW b \in Byte, NEW c \in Byte, NEW d \in Byte,
         NEW f \in {9, 11, 13, 14}
  PROVE  invFactor(f, Sum4(a, b, c, d))
           = Sum4(invFactor(f, a), invFactor(f, b), invFactor(f, c), invFactor(f, d))
<1>1. Xor(a, b) \in Byte /\ Xor(c, d) \in Byte
  BY XorBits
<1> QED
  BY <1>1, InvFactorAdds DEF Sum4

(* The four sums of products that one column of one matrix and one row of  *)
(* the other make: 14*2 + 11*1 + 13*1 + 9*3 is 1, the other three are 0.   *)
LEMMA MatricesInverse ==
  ASSUME NEW a \in Byte
  PROVE  /\ Sum4(invFactor(14, factor(2, a)), invFactor(11, factor(1, a)),
                 invFactor(13, factor(1, a)), invFactor(9, factor(3, a))) = a
         /\ Sum4(invFactor(14, factor(3, a)), invFactor(11, factor(2, a)),
                 invFactor(13, factor(1, a)), invFactor(9, factor(1, a))) = 0
         /\ Sum4(invFactor(14, factor(1, a)), invFactor(11, factor(3, a)),
                 invFactor(13, factor(2, a)), invFactor(9, factor(1, a))) = 0
         /\ Sum4(invFactor(14, factor(1, a)), invFactor(11, factor(1, a)),
                 invFactor(13, factor(3, a)), invFactor(9, factor(2, a))) = 0
<1> DEFINE a2 == Twice(a)  a4 == Twice(a2)  a8 == Twice(a4)  a16 == Twice(a8)
<1>1. /\ a2 \in Byte /\ a4 \in Byte /\ a8 \in Byte /\ a16 \in Byte
      /\ Xor(a2, a) \in Byte
  BY TwiceIsByte, XorBits
<1>2. /\ Twice(Xor(a2, a)) = Xor(a4, a2) /\ Twice(Xor(a4, a2)) = Xor(a8, a4)
      /\ Twice(Xor(a8, a4)) = Xor(a16, a8)
  BY <1>1, TwiceAdds
<1>3. factor(1, a) = a /\ factor(2, a) = a2 /\ factor(3, a) = Xor(a2, a)
  BY FactorsByTwice
<1>4. /\ invFactor(9, a) = Xor(a8, a) /\ invFactor(11, a) = Xor(Xor(a8, a), a2)
      /\ invFactor(13, a) = Xor(Xor(a8, a), a4) /\ invFactor(14, a) = Xor(Xor(a8, a2), a4)
  BY InvFactorsByTwice
<1>5. /\ invFactor(9, a2) = Xor(a16, a2) /\ invFactor(11, a2) = Xor(Xor(a16, a2), a4)
      /\ invFactor(13, a2) = Xor(Xor(a16, a2), a8)
      /\ invFactor(14, a2) = Xor(Xor(a16, a4), a8)
  BY <1>1, InvFactorsByTwice
<1>6. /\ invFactor(9, Xor(a2, a)) = Xor(Xor(a16, a8), Xor(a2, a))
      /\ invFactor(11, Xor(a2, a)) = Xor(Xor(Xor(a16, a8), Xor(a2, a)), Xor(a4, a2))
      /\ invFactor(13, Xor(a2, a)) = Xor(Xor(Xor(a16, a8), Xor(a2, a)), Xor(a8, a4))
      /\ invFactor(14, Xor(a2, a)) = Xor(Xor(Xor(a16, a8), Xor(a4, a2)), Xor(a8, a4))
  BY <1>1, <1>2, InvFactorsByTwice
<1> HIDE DEF a2, a4, a8, a16
<1> DEFINE first == Sum4(Xor(Xor(a16, a4), a8), Xor(Xor(a8, a), a2),
                         Xor(Xor(a8, a), a4), Xor(Xor(a16, a8), Xor(a2, a)))
           second == Sum4(Xor(Xor(Xor(a16, a8), Xor(a4, a2)), Xor(a8, a4)),
                          Xor(Xor(a16, a2), a4), Xor(Xor(a8, a), a4), Xor(a8, a))
           third == Sum4(Xor(Xor(a8, a2), a4), Xor(Xor(Xor(a16, a8), Xor(a2, a)), Xor(a4, a2)),
                         Xor(Xor(a16, a2), a8), Xor(a8, a))
           fourth == Sum4(Xor(Xor(a8, a2), a4), Xor(Xor(a8, a), a2),
                          Xor(Xor(Xor(a16, a8), Xor(a2, a)), Xor(a8, a4)), Xor(a16, a2))
<1>7. ASSUME NEW n \in BitNumber
      PROVE  /\ first \in Byte /\ Bit(first, n) = Bit(a, n)
             /\ second \in Byte /\ Bit(second, n) = Bit(0, n)
             /\ third \in Byte /\ Bit(third, n) = Bit(0, n)
             /\ fourth \in Byte /\ Bit(fourth, n) = Bit(0, n)
  <2> DEFINE b == Bit(a, n)  b2 == Bit(a2, n)  b4 == Bit(a4, n)  b8 == Bit(a8, n)
             b16 == Bit(a16, n)
  <2>1. /\ b \in {0, 1} /\ b2 \in {0, 1} /\ b4 \in {0, 1} /\ b8 \in {0, 1}
        /\ b16 \in {0, 1} /\ Bit(0, n) = 0
    <3>1. Xor(a, a) = 0
      BY XorCancels
    <3>2. b \in {0, 1} /\ Bit(Xor(a, a), n) = (b + b) % 2
      BY XorBits, ByteIsItsBits
    <3> QED
      BY <1>1, <3>1, <3>2, ByteIsItsBits
  <2>2. /\ Xor(a8, a) \in Byte /\ Bit(Xor(a8, a), n) = (b8 + b) % 2
        /\ Xor(a8, a2) \in Byte /\ Bit(Xor(a8, a2), n) = (b8 + b2) % 2
        /\ Xor(a2, a) \in Byte /\ Bit(Xor(a2, a), n) = (b2 + b) % 2
        /\ Xor(a4, a2) \in Byte /\ Bit(Xor(a4, a2), n) = (b4 + b2) % 2
        /\ Xor(a8, a4) \in Byte /\ Bit(Xor(a8, a4), n) = (b8 + b4) % 2
        /\ Xor(a16, a2) \in Byte /\ Bit(Xor(a16, a2), n) = (b16 + b2) % 2
        /\ Xor(a16, a4) \in Byte /\ Bit(Xor(a16, a4), n) = (b16 + b4) % 2
        /\ Xor(a16, a8) \in Byte /\ Bit(Xor(a16, a8), n) = (b16 + b8) % 2
    BY <1>1, XorBits
  <2> DEFINE three(p, q, r) == Xor(Xor(p, q), r)
             middle == Xor(Xor(a16, a8), Xor(a2, a))
             wide == Xor(Xor(a16, a8), Xor(a4, a2))
  <2>3. /\ three(a16, a4, a8) \in Byte /\ Bit(three(a16, a4, a8), n) = (b16 + b4 + b8) % 2
        /\ three(a8, a, a2) \in Byte /\ Bit(three(a8, a, a2), n) = (b8 + b + b2) % 2
        /\ three(a8, a, a4) \in Byte /\ Bit(three(a8, a, a4), n) = (b8 + b + b4) % 2
        /\ three(a8, a2, a4) \in Byte /\ Bit(three(a8, a2, a4), n) = (b8 + b2 + b4) % 2
        /\ three(a16, a2, a4) \in Byte /\ Bit(three(a16, a2, a4), n) = (b16 + b2 + b4) % 2
        /\ three(a16, a2, a8) \in Byte /\ Bit(three(a16, a2, a8), n) = (b16 + b2 + b8) % 2
        /\ middle \in Byte /\ Bit(middle, n) = (b16 + b8 + b2 + b) % 2
        /\ wide \in Byte /\ Bit(wide, n) = (b16 + b8 + b4 + b2) % 2
    BY <1>1, <2>1, <2>2, XorBits
  <2> HIDE DEF middle, wide
  <2>4. /\ Xor(wide, Xor(a8, a4)) \in Byte
        /\ Bit(Xor(wide, Xor(a8, a4)), n) = (b16 + b2) % 2
        /\ Xor(middle, Xor(a4, a2)) \in Byte
        /\ Bit(Xor(middle, Xor(a4, a2)), n) = (b16 + b8 + b4 + b) % 2
        /\ Xor(middle, Xor(a8, a4)) \in Byte
        /\ Bit(Xor(middle, Xor(a8, a4)), n) = (b16 + b4 + b2 + b) % 2
    BY <2>1, <2>2, <2>3, XorBits
  <2>5. first \in Byte /\ Bit(first, n) = b
    <3> DEFINE left == Xor(three(a16, a4, a8), three(a8, a, a2))
               right == Xor(three(a8, a, a4), middle)
    <3>1. /\ left \in Byte
          /\ Bit(left, n) = (Bit(three(a16, a4, a8), n) + Bit(three(a8, a, a2), n)) % 2
      BY <2>2, <2>3, <2>4, XorBits
    <3>2. /\ right \in Byte
          /\ Bit(right, n) = (Bit(three(a8, a, a4), n) + Bit(middle, n)) % 2
      BY <2>2, <2>3, <2>4, XorBits
    <3>3. first = Xor(left, right)
      BY DEF Sum4, middle
    <3> HIDE DEF left, right, first, three, b, b2, b4, b8, b16
    <3>4. first \in Byte /\ Bit(first, n) = (Bit(left, n) + Bit(right, n)) % 2
      BY <3>1, <3>2, <3>3, XorBits
    <3> QED
      BY <3>1, <3>2, <3>4, <2>1, <2>2, <2>3, <2>4
  <2>6. second \in Byte /\ Bit(second, n) = 0
    <3> DEFINE left == Xor(Xor(wide, Xor(a8, a4)), three(a16, a2, a4))
               right == Xor(three(a8, a, a4), Xor(a8, a))
    <3>1. /\ left \in Byte
          /\ Bit(left, n) = (Bit(Xor(wide, Xor(a8, a4)), n) + Bit(three(a16, a2, a4), n)) % 2
      BY <2>2, <2>3, <2>4, XorBits
    <3>2. /\ right \in Byte
          /\ Bit(right, n) = (Bit(three(a8, a, a4), n) + Bit(Xor(a8, a), n)) % 2
      BY <2>2, <2>3, <2>4, XorBits
    <3>3. second = Xor(left, right)
      BY DEF Sum4, wide
    <3> HIDE DEF left, right, second, three, b, b2, b4, b8, b16
    <3>4. second \in Byte /\ Bit(second, n) = (Bit(left, n) + Bit(right, n)) % 2
      BY <3>1, <3>2, <3>3, XorBits
    <3> QED
      BY <3>1, <3>2, <3>4, <2>1, <2>2, <2>3, <2>4
  <2>7. third \in Byte /\ Bit(third, n) = 0
    <3> DEFINE left == Xor(three(a8, a2, a4), Xor(middle, Xor(a4, a2)))
               right == Xor(three(a16, a2, a8), Xor(a8, a))
    <3>1. /\ left \in Byte
          /\ Bit(left, n) = (Bit(three(a8, a2, a4), n) + Bit(Xor(middle, Xor(a4, a2)), n)) % 2
      BY <2>2, <2>3, <2>4, XorBits
    <3>2. /\ right \in Byte
          /\ Bit(right, n) = (Bit(three(a16, a2, a8), n) + Bit(Xor(a8, a), n)) % 2
      BY <2>2, <2>3, <2>4, XorBits
    <3>3. third = Xor(left, right)
      BY DEF Sum4, middle
    <3> HIDE DEF left, right, third, three, b, b2, b4, b8, b16
    <3>4. third \in Byte /\ Bit(third, n) = (Bit(left, n) + Bit(right, n)) % 2
      BY <3>1, <3>2, <3>3, XorBits
    <3> QED
      BY <3>1, <3>2, <3>4, <2>1, <2>2, <2>3, <2>4
  <2>8. fourth \in Byte /\ Bit(fourth, n) = 0
    <3> DEFINE left == Xor(three(a8, a2, a4), three(a8, a, a2))
               right == Xor(Xor(middle, Xor(a8, a4)), Xor(a16, a2))
    <3>1. /\ left \in Byte
          /\ Bit(left, n) = (Bit(three(a8, a2, a4), n) + Bit(three(a8, a, a2), n)) % 2
      BY <2>2, <2>3, <2>4, XorBits
    <3>2. /\ right \in Byte
          /\ Bit(right, n) = (Bit(Xor(middle, Xor(a8, a4)), n) + Bit(Xor(a16, a2), n)) % 2
      BY <2>2, <2>3, <2>4, XorBits
    <3>3. fourth = Xor(left, right)
      BY DEF Sum4, middle
    <3> HIDE DEF left, right, fourth, three, b, b2, b4, b8, b16
    <3>4. fourth \in Byte /\ Bit(fourth, n) = (Bit(left, n) + Bit(right, n)) % 2
      BY <3>1, <3>2, <3>3, XorBits
    <3> QED
      BY <3>1, <3>2, <3>4, <2>1, <2>2, <2>3, <2>4
  <2> QED
    BY <2>1, <2>5, <2>6, <2>7, <2>8
<1>8. first = a /\ second = 0 /\ third = 0 /\ fourth = 0
  <2>1. 0 \in BitNumber /\ 0 \in Byte
    BY DEF BitNumber, Byte
  <2> HIDE DEF first, second, third, fourth
  <2> QED
    BY <1>7, <2>1, SameBits
<1> QED
  BY <1>3, <1>4, <1>5, <1>6, <1>8

(* A byte of a mixed column from the bytes from its own row on, round the  *)
(* column; and the byte that _invMixColumns makes of such a column.        *)
Mixed(a, b, c, d) == Sum4(factor(2, a), factor(3, b), factor(1, c), factor(1, d))
Unmixed(a, b, c, d) ==
  Sum4(invFactor(14, a), invFactor(11, b), invFactor(13, c), invFactor(9, d))

\* _invMixColumns gives back each byte of a column that _mixColumns mixed.
LEMMA UnmixedMixed ==
  ASSUME NEW a \in Byte, NEW b \in Byte, NEW c \in Byte, NEW d \in Byte
  PROVE  Unmixed(Mixed(a, b, c, d), Mixed(b, c, d, a),
                 Mixed(c, d, a, b), Mixed(d, a, b, c)) = a
<1> DEFINE term(f, g, x) == invFactor(f, factor(g, x))
<1>1. /\ factor(1, a) \in Byte /\ factor(2, a) \in Byte
      /\ factor(3, a) \in Byte /\ factor(1, b) \in Byte
      /\ factor(2, b) \in Byte /\ factor(3, b) \in Byte
      /\ factor(1, c) \in Byte /\ factor(2, c) \in Byte
      /\ factor(3, c) \in Byte /\ factor(1, d) \in Byte
      /\ factor(2, d) \in Byte /\ factor(3, d) \in Byte
  BY FactorIsByte
<1>2. /\ term(14, 2, a) \in Byte /\ term(14, 3, b) \in Byte
      /\ term(14, 1, c) \in Byte /\ term(14, 1, d) \in Byte
      /\ term(11, 1, a) \in Byte /\ term(11, 2, b) \in Byte
      /\ term(11, 3, c) \in Byte /\ term(11, 1, d) \in Byte
      /\ term(13, 1, a) \in Byte /\ term(13, 1, b) \in Byte
      /\ term(13, 2, c) \in Byte /\ term(13, 3, d) \in Byte
      /\ term(9, 3, a) \in Byte /\ term(9, 1, b) \in Byte
      /\ term(9, 1, c) \in Byte /\ term(9, 2, d) \in Byte
  BY <1>1, FactorIsByte
<1>3. invFactor(14, Mixed(a, b, c, d))
        = Sum4(term(14, 2, a), term(14, 3, b), term(14, 1, c), term(14, 1, d))
  <2>1. Mixed(a, b, c, d) = Sum4(factor(2, a), factor(3, b), factor(1, c), factor(1, d))
    BY <1>1, SumRotates DEF Mixed
  <2>2. /\ factor(2, a) \in Byte /\ factor(3, b) \in Byte
        /\ factor(1, c) \in Byte /\ factor(1, d) \in Byte
    BY <1>1
  <2> QED
    BY <2>1, <2>2, InvFactorOfSum
<1>4. invFactor(11, Mixed(b, c, d, a))
        = Sum4(term(11, 1, a), term(11, 2, b), term(11, 3, c), term(11, 1, d))
  <2>1. Mixed(b, c, d, a) = Sum4(factor(1, a), factor(2, b), factor(3, c), factor(1, d))
    BY <1>1, SumRotates DEF Mixed
  <2>2. /\ factor(1, a) \in Byte /\ factor(2, b) \in Byte
        /\ factor(3, c) \in Byte /\ factor(1, d) \in Byte
    BY <1>1
  <2> QED
    BY <2>1, <2>2, InvFactorOfSum
<1>5. invFactor(13, Mixed(c, d, a, b))
        = Sum4(term(13, 1, a), term(13, 1, b), term(13, 2, c), term(13, 3, d))
  <2>1. Mixed(c, d, a, b) = Sum4(factor(1, a), factor(1, b), factor(2, c), factor(3, d))
    BY <1>1, SumRotates DEF Mixed
  <2>2. /\ factor(1, a) \in Byte /\ factor(1, b) \in Byte
        /\ factor(2, c) \in Byte /\ factor(3, d) \in Byte
    BY <1>1
  <2> QED
    BY <2>1, <2>2, InvFactorOfSum
<1>6. invFactor(9, Mixed(d, a, b, c))
        = Sum4(term(9, 3, a), term(9, 1, b), term(9, 1, c), term(9, 2, d))
  <2>1. Mixed(d, a, b, c) = Sum4(factor(3, a), factor(1, b), factor(1, c), factor(2, d))
    BY <1>1, SumRotates DEF Mixed
  <2>2. /\ factor(3, a) \in Byte /\ factor(1, b) \in Byte
        /\ factor(1, c) \in Byte /\ factor(2, d) \in Byte
    BY <1>1
  <2> QED
    BY <2>1, <2>2, InvFactorOfSum
<1> HIDE DEF term
<1>7. Sum4(Sum4(term(14, 2, a), term(14, 3, b), term(14, 1, c), term(14, 1, d)),
           Sum4(term(11, 1, a), term(11, 2, b), term(11, 3, c), term(11, 1, d)),
           Sum4(term(13, 1, a), term(13, 1, b), term(13, 2, c), term(13, 3, d)),
           Sum4(term(9, 3, a), term(9, 1, b), term(9, 1, c), term(9, 2, d)))
        = Sum4(Sum4(term(14, 2, a), term(11, 1, a), term(13, 1, a), term(9, 3, a)),
               Sum4(term(14, 3, b), term(11, 2, b), term(13, 1, b), term(9, 1, b)),
               Sum4(term(14, 1, c), term(11, 3, c), term(13, 2, c), term(9, 1, c)),
               Sum4(term(14, 1, d), term(11, 1, d), term(13, 3, d), term(9, 2, d)))
  <2> DEFINE m == <<<<term(14, 2, a), term(14, 3, b), term(14, 1, c), term(14, 1, d)>>,
                  <<term(11, 1, a), term(11, 2, b), term(11, 3, c), term(11, 1, d)>>,
                  <<term(13, 1, a), term(13, 1, b), term(13, 2, c), term(13, 3, d)>>,
                  <<term(9, 3, a), term(9, 1, b), term(9, 1, c), term(9, 2, d)>>>>
  <2>1. \A k, l \in 1 .. 4 : m[k][l] \in Byte
    BY <1>2
  <2>2. /\ m[1][1] = term(14, 2, a) /\ m[1][2] = term(14, 3, b)
        /\ m[1][3] = term(14, 1, c) /\ m[1][4] = term(14, 1, d)
        /\ m[2][1] = term(11, 1, a) /\ m[2][2] = term(11, 2, b)
        /\ m[2][3] = term(11, 3, c) /\ m[2][4] = term(11, 1, d)
        /\ m[3][1] = term(13, 1, a) /\ m[3][2] = term(13, 1, b)
        /\ m[3][3] = term(13, 2, c) /\ m[3][4] = term(13, 3, d)
        /\ m[4][1] = term(9, 3, a) /\ m[4][2] = term(9, 1, b)
        /\ m[4][3] = term(9, 1, c) /\ m[4][4] = term(9, 2, d)
    OBVIOUS
  <2> HIDE DEF m
  <2>3. Sum4(Sum4(m[1][1], m[1][2], m[1][3], m[1][4]),
               Sum4(m[2][1], m[2][2], m[2][3], m[2][4]),
               Sum4(m[3][1], m[3][2], m[3][3], m[3][4]),
               Sum4(m[4][1], m[4][2], m[4][3], m[4][4]))
          = Sum4(Sum4(m[1][1], m[2][1], m[3][1], m[4][1]),
                 Sum4(m[1][2], m[2][2], m[3][2], m[4][2]),
                 Sum4(m[1][3], m[2][3], m[3][3], m[4][3]),
                 Sum4(m[1][4], m[2][4], m[3][4], m[4][4]))
    BY <2>1, SumsTranspose
  <2> QED
    BY <2>2, <2>3
<1>8. /\ Sum4(term(14, 2, a), term(11, 1, a), term(13, 1, a), term(9, 3, a)) = a
      /\ Sum4(term(14, 3, b), term(11, 2, b), term(13, 1, b), term(9, 1, b)) = 0
      /\ Sum4(term(14, 1, c), term(11, 3, c), term(13, 2, c), term(9, 1, c)) = 0
      /\ Sum4(term(14, 1, d), term(11, 1, d), term(13, 3, d), term(9, 2, d)) = 0
  BY MatricesInverse DEF term
<1>9. Sum4(a, 0, 0, 0) = a
  <2>1. 0 \in Byte
    BY DEF Byte
  <2> QED
    BY <2>1, XorCancels DEF Sum4
<1> QED
  BY <1>3, <1>4, <1>5, <1>6, <1>7, <1>8, <1>9 DEF Unmixed

-----------------------------------------------------------------------------
(* The factors as products in the field *)

\* The elements that only one of two sets has are as many as both have, modulo 2.
LEMMA ParityAdds ==
  ASSUME NEW S, NEW T, IsFiniteSet(S), IsFiniteSet(T)
  PROVE  /\ Parity(S) \in {0, 1}
         /\ Parity((S \ T) \cup (T \ S)) = (Parity(S) + Parity(T)) % 2
<1> DEFINE common == S \cap T  here == S \ T  there == T \ S
<1>1. IsFiniteSet(common) /\ IsFiniteSet(here) /\ IsFiniteSet(there)
  <2>1. common \in SUBSET S /\ here \in SUBSET S /\ there \in SUBSET T
    OBVIOUS
  <2> QED
    BY <2>1, FS_Subset
<1>2. /\ here \cap common = {} /\ there \cap common = {} /\ here \cap there = {}
      /\ here \cup common = S /\ there \cup common = T
  OBVIOUS
<1> DEFINE n == Cardinality(common)  h == Cardinality(here)  t == Cardinality(there)
<1>3. n \in Nat /\ h \in Nat /\ t \in Nat
  BY <1>1, FS_CardinalityType
<1> HIDE DEF common, here, there
<1>4. Cardinality({}) = 0
  BY FS_EmptySet
<1>5. Cardinality(here \cup common) = h + n - 0
  BY <1>1, <1>2, <1>4, FS_Union
<1>6. Cardinality(there \cup common) = t + n - 0
  BY <1>1, <1>2, <1>4, FS_Union
<1>7. Cardinality(here \cup there) = h + t - 0
  BY <1>1, <1>2, <1>4, FS_Union
<1> HIDE DEF n, h, t
<1>8. (h + t) % 2 = (((h + n) % 2) + ((t + n) % 2)) % 2
  BY <1>3
<1>9. /\ Cardinality(S) = h + n /\ Cardinality(T) = t + n
      /\ Cardinality(here \cup there) = h + t
  BY <1>2, <1>3, <1>5, <1>6, <1>7
<1> QED
  BY <1>3, <1>8, <1>9 DEF Parity, here, there

\* A byte made of bits has these bits.
LEMMA FromBitsBits ==
  ASSUME NEW b \in [BitNumber -> {0, 1}]
  PROVE  FromBits(b) \in Byte /\ \A n \in BitNumber : Bit(FromBits(b), n) = b[n]
<1>1. /\ b[0] \in {0, 1} /\ b[1] \in {0, 1} /\ b[2] \in {0, 1} /\ b[3] \in {0, 1}
      /\ b[4] \in {0, 1} /\ b[5] \in {0, 1} /\ b[6] \in {0, 1} /\ b[7] \in {0, 1}
  BY DEF BitNumber
<1>2. FromBits(b) \in Byte
  BY <1>1 DEF FromBits, Byte
<1>3. /\ Bit(FromBits(b), 0) = b[0] /\ Bit(FromBits(b), 1) = b[1]
      /\ Bit(FromBits(b), 2) = b[2] /\ Bit(FromBits(b), 3) = b[3]
  BY <1>1, SMTT(30) DEF FromBits, Bit
<1>4. /\ Bit(FromBits(b), 4) = b[4] /\ Bit(FromBits(b), 5) = b[5]
      /\ Bit(FromBits(b), 6) = b[6] /\ Bit(FromBits(b), 7) = b[7]
  BY <1>1, SMTT(30) DEF FromBits, Bit
<1> QED
  BY <1>2, <1>3, <1>4, BitNumbers

\* The terms of a product that have bit n.
Terms(a, b, n) ==
  {t \in (0 .. 7) \X (0 .. 7) :
     Bit(a, t[1]) = 1 /\ Bit(b, t[2]) = 1 /\ Bit(Power(t[1] + t[2]), n) = 1}

\* A product is a byte, and its bits count the terms.
LEMMA ProductBits ==
  ASSUME NEW a, NEW b
  PROVE  /\ Product(a, b) \in Byte
         /\ \A n \in BitNumber : /\ Bit(Product(a, b), n) = Parity(Terms(a, b, n))
                                 /\ IsFiniteSet(Terms(a, b, n))
<1>1. IsFiniteSet((0 .. 7) \X (0 .. 7))
  <2>1. 0 \in Int /\ 7 \in Int
    OBVIOUS
  <2>2. IsFiniteSet(0 .. 7)
    BY <2>1, FS_Interval
  <2> QED
    BY <2>2, FS_Product
<1>2. \A n \in BitNumber : IsFiniteSet(Terms(a, b, n))
  <2>1. \A n \in BitNumber : Terms(a, b, n) \in SUBSET ((0 .. 7) \X (0 .. 7))
    BY DEF Terms
  <2> QED
    BY <1>1, <2>1, FS_Subset
<1> DEFINE bits == [n \in 0 .. 7 |-> Parity(Terms(a, b, n))]
<1>3. bits \in [BitNumber -> {0, 1}]
  BY <1>2, ParityAdds DEF BitNumber
<1>4. Product(a, b) = FromBits(bits)
  <2>1. \A n : {t \in {t \in (0 .. 7) \X (0 .. 7) : Bit(a, t[1]) = 1 /\ Bit(b, t[2]) = 1} :
                   Bit(Power(t[1] + t[2]), n) = 1} = Terms(a, b, n)
    BY DEF Terms
  <2> QED
    BY <2>1 DEF Product
<1> HIDE DEF bits
<1>5. FromBits(bits) \in Byte /\ \A n \in BitNumber : Bit(FromBits(bits), n) = bits[n]
  BY <1>3, FromBitsBits
<1> QED
  BY <1>2, <1>4, <1>5 DEF bits, BitNumber

\* Multiplication distributes over the exclusive or, on either side.
LEMMA ProductAdds ==
  ASSUME NEW a \in Byte, NEW b \in Byte, NEW c \in Byte
  PROVE  /\ Product(Xor(a, b), c) = Xor(Product(a, c), Product(b, c))
         /\ Product(c, Xor(a, b)) = Xor(Product(c, a), Product(c, b))
<1>1. \A n \in BitNumber : /\ Bit(a, n) \in {0, 1} /\ Bit(b, n) \in {0, 1}
                           /\ Bit(Xor(a, b), n) = (Bit(a, n) + Bit(b, n)) % 2
  BY XorBits, ByteIsItsBits
<1>2. \A n \in 0 .. 7 : Bit(Xor(a, b), n) = 1 <=> ~ (Bit(a, n) = 1 <=> Bit(b, n) = 1)
  BY <1>1 DEF BitNumber
<1>3. ASSUME NEW n \in BitNumber
      PROVE  /\ Terms(Xor(a, b), c, n) = (Terms(a, c, n) \ Terms(b, c, n))
                                           \cup (Terms(b, c, n) \ Terms(a, c, n))
             /\ Terms(c, Xor(a, b), n) = (Terms(c, a, n) \ Terms(c, b, n))
                                           \cup (Terms(c, b, n) \ Terms(c, a, n))
  <2>1. \A t \in (0 .. 7) \X (0 .. 7) : t[1] \in 0 .. 7 /\ t[2] \in 0 .. 7
    OBVIOUS
  <2> QED
    BY <1>2, <2>1 DEF Terms
<1>4. /\ Product(a, c) \in Byte /\ Product(b, c) \in Byte
      /\ Product(c, a) \in Byte /\ Product(c, b) \in Byte
      /\ Product(Xor(a, b), c) \in Byte /\ Product(c, Xor(a, b)) \in Byte
  BY ProductBits
<1>5. ASSUME NEW n \in BitNumber
      PROVE  /\ Bit(Product(Xor(a, b), c), n) = Bit(Xor(Product(a, c), Product(b, c)), n)
             /\ Bit(Product(c, Xor(a, b)), n) = Bit(Xor(Product(c, a), Product(c, b)), n)
  <2>1. /\ IsFiniteSet(Terms(a, c, n)) /\ IsFiniteSet(Terms(b, c, n))
        /\ IsFiniteSet(Terms(c, a, n)) /\ IsFiniteSet(Terms(c, b, n))
    BY ProductBits
  <2>2. /\ Parity(Terms(Xor(a, b), c, n))
             = (Parity(Terms(a, c, n)) + Parity(Terms(b, c, n))) % 2
        /\ Parity(Terms(c, Xor(a, b), n))
             = (Parity(Terms(c, a, n)) + Parity(Terms(c, b, n))) % 2
    BY <1>3, <2>1, ParityAdds
  <2>3. /\ Bit(Xor(Product(a, c), Product(b, c)), n)
             = (Parity(Terms(a, c, n)) + Parity(Terms(b, c, n))) % 2
        /\ Bit(Xor(Product(c, a), Product(c, b)), n)
             = (Parity(Terms(c, a, n)) + Parity(Terms(c, b, n))) % 2
    BY <1>4, XorBits, ProductBits
  <2> QED
    BY <2>2, <2>3, ProductBits
<1>6. Xor(Product(a, c), Product(b, c)) \in Byte /\ Xor(Product(c, a), Product(c, b)) \in Byte
  BY <1>4, XorBits
<1> QED
  BY <1>4, <1>5, <1>6, SameBits

\* The powers of x, one by one.
LEMMA PowerValues ==
  /\ Power(0) = 1 /\ Power(1) = 2 /\ Power(2) = 4 /\ Power(3) = 8 /\ Power(4) = 16
  /\ Power(5) = 32 /\ Power(6) = 64 /\ Power(7) = 128 /\ Power(8) = 27 /\ Power(9) = 54
  /\ Power(10) = 108 /\ Power(11) = 216 /\ Power(12) = 171 /\ Power(13) = 77 /\ Power(14) = 154
  BY DEF Power

\* Zero has no bits.
LEMMA ZeroBits == 0 \in Byte /\ \A n \in BitNumber : Bit(0, n) = 0
<1>1. Bit(0, 0) = 0 /\ Bit(0, 1) = 0 /\ Bit(0, 2) = 0 /\ Bit(0, 3) = 0
      /\ Bit(0, 4) = 0 /\ Bit(0, 5) = 0 /\ Bit(0, 6) = 0 /\ Bit(0, 7) = 0
  BY DEF Bit
<1> QED
  BY <1>1, BitNumbers DEF Byte

\* The first eight powers are the bytes with a single bit.
LEMMA PowerBits ==
  /\ \A n \in 0 .. 14 : Power(n) \in Byte
  /\ \A k, n \in BitNumber : Bit(Power(k), n) = IF n = k THEN 1 ELSE 0
<1>1. \A n \in 0 .. 14 : Power(n) \in Byte
  BY DEF Power, Byte
<1>2. \A k, n \in {0, 1, 2, 3, 4, 5, 6, 7} : Bit(Power(k), n) = IF n = k THEN 1 ELSE 0
  <2>1. /\ Bit(1, 0) = 1 /\ Bit(1, 1) = 0 /\ Bit(1, 2) = 0 /\ Bit(1, 3) = 0
        /\ Bit(1, 4) = 0 /\ Bit(1, 5) = 0 /\ Bit(1, 6) = 0 /\ Bit(1, 7) = 0
    BY DEF Bit
  <2>2. /\ Bit(2, 0) = 0 /\ Bit(2, 1) = 1 /\ Bit(2, 2) = 0 /\ Bit(2, 3) = 0
        /\ Bit(2, 4) = 0 /\ Bit(2, 5) = 0 /\ Bit(2, 6) = 0 /\ Bit(2, 7) = 0
    BY DEF Bit
  <2>3. /\ Bit(4, 0) = 0 /\ Bit(4, 1) = 0 /\ Bit(4, 2) = 1 /\ Bit(4, 3) = 0
        /\ Bit(4, 4) = 0 /\ Bit(4, 5) = 0 /\ Bit(4, 6) = 0 /\ Bit(4, 7) = 0
    BY DEF Bit
  <2>4. /\ Bit(8, 0) = 0 /\ Bit(8, 1) = 0 /\ Bit(8, 2) = 0 /\ Bit(8, 3) = 1
        /\ Bit(8, 4) = 0 /\ Bit(8, 5) = 0 /\ Bit(8, 6) = 0 /\ Bit(8, 7) = 0
    BY DEF Bit
  <2>5. /\ Bit(16, 0) = 0 /\ Bit(16, 1) = 0 /\ Bit(16, 2) = 0 /\ Bit(16, 3) = 0
        /\ Bit(16, 4) = 1 /\ Bit(16, 5) = 0 /\ Bit(16, 6) = 0 /\ Bit(16, 7) = 0
    BY DEF Bit
  <2>6. /\ Bit(32, 0) = 0 /\ Bit(32, 1) = 0 /\ Bit(32, 2) = 0 /\ Bit(32, 3) = 0
        /\ Bit(32, 4) = 0 /\ Bit(32, 5) = 1 /\ Bit(32, 6) = 0 /\ Bit(32, 7) = 0
    BY DEF Bit
  <2>7. /\ Bit(64, 0) = 0 /\ Bit(64, 1) = 0 /\ Bit(64, 2) = 0 /\ Bit(64, 3) = 0
        /\ Bit(64, 4) = 0 /\ Bit(64, 5) = 0 /\ Bit(64, 6) = 1 /\ Bit(64, 7) = 0
    BY DEF Bit
  <2>8. /\ Bit(128, 0) = 0 /\ Bit(128, 1) = 0 /\ Bit(128, 2) = 0 /\ Bit(128, 3) = 0
        /\ Bit(128, 4) = 0 /\ Bit(128, 5) = 0 /\ Bit(128, 6) = 0 /\ Bit(128, 7) = 1
    BY DEF Bit
  <2> QED
    BY <2>1, <2>2, <2>3, <2>4, <2>5, <2>6, <2>7, <2>8, PowerValues
<1> QED
  BY <1>1, <1>2, BitNumbers

\* The bytes without a bit from number k on.
Low(k) == {a \in Byte : \A n \in BitNumber : n >= k => Bit(a, n) = 0}

\* A byte whose highest bit is number k is that bit and a byte without it.
LEMMA HighestBit ==
  ASSUME NEW k \in BitNumber, NEW a \in Low(k + 1)
  PROVE  a \in Low(k) \/ \E c \in Low(k) : a = Xor(c, Power(k))
<1>1. a \in Byte /\ \A n \in BitNumber : n >= k + 1 => Bit(a, n) = 0
  BY DEF Low
<1>2. \A n \in BitNumber : Bit(a, n) \in {0, 1}
  BY <1>1, ByteIsItsBits
<1>3. \A n \in BitNumber : n >= k => n = k \/ n >= k + 1
  BY DEF BitNumber
<1>4. CASE Bit(a, k) = 0
  BY <1>1, <1>3, <1>4 DEF Low
<1>5. CASE Bit(a, k) = 1
  <2> DEFINE b == [n \in BitNumber |-> IF n = k THEN 0 ELSE Bit(a, n)]
             c == FromBits(b)
  <2>1. b \in [BitNumber -> {0, 1}]
    BY <1>2
  <2>2. c \in Byte /\ \A n \in BitNumber : Bit(c, n) = b[n]
    BY <2>1, FromBitsBits
  <2> HIDE DEF c
  <2>3. c \in Low(k)
    BY <1>1, <1>3, <2>2 DEF Low
  <2>4. Power(k) \in Byte /\ \A n \in BitNumber : Bit(Power(k), n) = IF n = k THEN 1 ELSE 0
    BY PowerBits DEF BitNumber
  <2>5. \A n \in BitNumber : Bit(Xor(c, Power(k)), n) = Bit(a, n)
    BY <1>2, <1>5, <2>2, <2>4, XorBits
  <2>6. Xor(c, Power(k)) = a
    BY <1>1, <2>2, <2>4, <2>5, XorBits, SameBits
  <2> QED
    BY <2>3, <2>6
<1> QED
  BY <1>2, <1>4, <1>5

\* A function on bytes that respects the exclusive or.
Linear(f) ==
  /\ f \in [Byte -> Byte]
  /\ \A a, b \in Byte : f[Xor(a, b)] = Xor(f[a], f[b])

\* What respects the exclusive or is known from its values at single bits.
LEMMA AgreeOnBits ==
  ASSUME NEW f, NEW g, Linear(f), Linear(g),
         \A k \in BitNumber : f[Power(k)] = g[Power(k)]
  PROVE  \A a \in Byte : f[a] = g[a]
<1>0. /\ f \in [Byte -> Byte] /\ g \in [Byte -> Byte]
      /\ \A a, b \in Byte : f[Xor(a, b)] = Xor(f[a], f[b]) /\ g[Xor(a, b)] = Xor(g[a], g[b])
  BY DEF Linear
<1> DEFINE Agree(k) == \A a \in Low(k) : f[a] = g[a]
<1>1. Agree(0)
  <2>1. 0 \in Byte /\ Xor(0, 0) = 0 /\ \A n \in BitNumber : Bit(0, n) = 0 /\ n >= 0
    BY ZeroBits, XorCancels DEF BitNumber
  <2>2. f[0] = 0 /\ g[0] = 0
    <3>1. f[0] \in Byte /\ g[0] \in Byte
      BY <1>0, <2>1
    <3>2. f[0] = Xor(f[0], f[0]) /\ g[0] = Xor(g[0], g[0])
      BY <1>0, <2>1
    <3> QED
      BY <3>1, <3>2, XorCancels
  <2>3. \A a \in Low(0) : a = 0
    BY <2>1, SameBits DEF Low
  <2> QED
    BY <2>2, <2>3
<1>2. ASSUME NEW k \in BitNumber, Agree(k)
      PROVE  Agree(k + 1)
  <2> SUFFICES ASSUME NEW a \in Low(k + 1)
               PROVE  f[a] = g[a]
    OBVIOUS
  <2>1. ASSUME NEW c \in Low(k), a = Xor(c, Power(k))
        PROVE  f[a] = g[a]
    <3>1. c \in Byte /\ Power(k) \in Byte
      BY PowerBits DEF Low, BitNumber
    <3>2. f[a] = Xor(f[c], f[Power(k)]) /\ g[a] = Xor(g[c], g[Power(k)])
      BY <1>0, <2>1, <3>1
    <3> QED
      BY <1>2, <3>2
  <2> QED
    BY <1>2, <2>1, HighestBit
<1> HIDE DEF Agree
<1>3. Agree(8)
  <2>1. \A k \in {0, 1, 2, 3, 4, 5, 6, 7} : Agree(k) => Agree(k + 1)
    BY <1>2 DEF BitNumber
  <2>2. Agree(1) /\ Agree(2) /\ Agree(3) /\ Agree(4)
    BY <1>1, <2>1
  <2> QED
    BY <2>1, <2>2
<1>4. Low(8) = Byte
  BY DEF Low, BitNumber
<1> QED
  BY <1>3, <1>4 DEF Agree

\* x^i times x^j.
LEMMA ProductOfPowers ==
  ASSUME NEW i \in 0 .. 7, NEW j \in 0 .. 7
  PROVE  Product(Power(i), Power(j)) = Power(i + j)
<1>1. \A k, n \in 0 .. 7 : Bit(Power(k), n) = 1 <=> n = k
  BY PowerBits DEF BitNumber
<1>2. i + j \in 0 .. 14 /\ Power(i + j) \in Byte
  BY PowerBits
<1>3. ASSUME NEW n \in BitNumber
      PROVE  Parity(Terms(Power(i), Power(j), n)) = Bit(Power(i + j), n)
  <2>1. Terms(Power(i), Power(j), n)
          = {t \in {<<i, j>>} : Bit(Power(i + j), n) = 1}
    BY <1>1 DEF Terms
  <2>2. Bit(Power(i + j), n) \in {0, 1}
    BY <1>2, ByteIsItsBits
  <2>3. Cardinality({}) = 0 /\ Cardinality({<<i, j>>}) = 1
    BY FS_EmptySet, FS_Singleton
  <2>4. CASE Bit(Power(i + j), n) = 1
    <3>1. Terms(Power(i), Power(j), n) = {<<i, j>>}
      BY <2>1, <2>4
    <3> QED
      BY <2>3, <2>4, <3>1 DEF Parity
  <2>5. CASE Bit(Power(i + j), n) = 0
    <3>1. Terms(Power(i), Power(j), n) = {}
      BY <2>1, <2>5
    <3> QED
      BY <2>3, <2>5, <3>1 DEF Parity
  <2> QED
    BY <2>2, <2>4, <2>5
<1> QED
  BY <1>2, <1>3, ProductBits, SameBits

\* multiply goes from each power of x to the next.
LEMMA TwicePowers ==
  \A n \in 0 .. 13 : Twice(Power(n)) = Power(n + 1)
<1>1. \A n \in 0 .. 14 : Power(n) \in Byte
  BY PowerBits
<1>2. /\ Twice(1) = 2 /\ Twice(2) = 4 /\ Twice(4) = 8 /\ Twice(8) = 16 /\ Twice(16) = 32
      /\ Twice(32) = 64 /\ Twice(64) = 128
  BY DEF Twice, multiply, Xor, NibbleXor, Bit
<1>3. /\ Twice(128) = 27 /\ Twice(27) = 54 /\ Twice(54) = 108 /\ Twice(108) = 216
  BY DEF Twice, multiply, Xor, NibbleXor, Bit
<1>4. /\ Twice(216) = 171 /\ Twice(171) = 77 /\ Twice(77) = 154
  BY DEF Twice, multiply, Xor, NibbleXor, Bit
<1>5. \A n \in 0 .. 13 : n \in {0, 1, 2, 3, 4, 5, 6, 7, 8, 9, 10, 11, 12, 13}
  OBVIOUS
<1> QED
  BY <1>2, <1>3, <1>4, <1>5, PowerValues

\* Multiplying by 1, 2, 4 and 8 is doubling none to three times.
LEMMA ProductByTwice ==
  ASSUME NEW a \in Byte
  PROVE  /\ Product(1, a) = a
         /\ Product(2, a) = Twice(a)
         /\ Product(4, a) = Twice(Twice(a))
         /\ Product(8, a) = Twice(Twice(Twice(a)))
<1> DEFINE times1 == [b \in Byte |-> Product(1, b)]  times2 == [b \in Byte |-> Product(2, b)]
           times4 == [b \in Byte |-> Product(4, b)]  times8 == [b \in Byte |-> Product(8, b)]
           same == [b \in Byte |-> b]
           once == [b \in Byte |-> Twice(b)]
           again == [b \in Byte |-> Twice(Twice(b))]
           thrice == [b \in Byte |-> Twice(Twice(Twice(b)))]
<1>1. /\ times1 \in [Byte -> Byte] /\ times2 \in [Byte -> Byte]
      /\ times4 \in [Byte -> Byte] /\ times8 \in [Byte -> Byte]
  BY ProductBits
<1>2. \A b, c \in Byte : /\ times1[Xor(b, c)] = Xor(times1[b], times1[c])
                         /\ times2[Xor(b, c)] = Xor(times2[b], times2[c])
                         /\ times4[Xor(b, c)] = Xor(times4[b], times4[c])
                         /\ times8[Xor(b, c)] = Xor(times8[b], times8[c])
  <2> TAKE b, c \in Byte
  <2>1. 1 \in Byte /\ 2 \in Byte /\ 4 \in Byte /\ 8 \in Byte
    BY DEF Byte
  <2>2. Xor(b, c) \in Byte
    BY XorBits
  <2>3. /\ Product(1, Xor(b, c)) = Xor(Product(1, b), Product(1, c))
        /\ Product(2, Xor(b, c)) = Xor(Product(2, b), Product(2, c))
        /\ Product(4, Xor(b, c)) = Xor(Product(4, b), Product(4, c))
        /\ Product(8, Xor(b, c)) = Xor(Product(8, b), Product(8, c))
    BY <2>1, ProductAdds
  <2> QED
    BY <2>2, <2>3
<1>3. /\ same \in [Byte -> Byte] /\ once \in [Byte -> Byte]
      /\ again \in [Byte -> Byte] /\ thrice \in [Byte -> Byte]
  BY TwiceIsByte
<1>4. \A b, c \in Byte : /\ same[Xor(b, c)] = Xor(same[b], same[c])
                         /\ once[Xor(b, c)] = Xor(once[b], once[c])
                         /\ again[Xor(b, c)] = Xor(again[b], again[c])
                         /\ thrice[Xor(b, c)] = Xor(thrice[b], thrice[c])
  <2> SUFFICES ASSUME NEW b \in Byte, NEW c \in Byte
               PROVE  /\ same[Xor(b, c)] = Xor(same[b], same[c])
                      /\ once[Xor(b, c)] = Xor(once[b], once[c])
                      /\ again[Xor(b, c)] = Xor(again[b], again[c])
                      /\ thrice[Xor(b, c)] = Xor(thrice[b], thrice[c])
    OBVIOUS
  <2>1. Xor(b, c) \in Byte /\ Twice(b) \in Byte /\ Twice(c) \in Byte
        /\ Twice(Twice(b)) \in Byte /\ Twice(Twice(c)) \in Byte
    BY XorBits, TwiceIsByte
  <2>2. Twice(Xor(b, c)) = Xor(Twice(b), Twice(c))
    BY TwiceAdds
  <2>3. Twice(Twice(Xor(b, c))) = Xor(Twice(Twice(b)), Twice(Twice(c)))
    BY <2>1, <2>2, TwiceAdds
  <2>4. Twice(Twice(Twice(Xor(b, c)))) = Xor(Twice(Twice(Twice(b))), Twice(Twice(Twice(c))))
    BY <2>1, <2>3, TwiceAdds
  <2> QED
    BY <2>1, <2>2, <2>3, <2>4
<1>5. \A k \in BitNumber : /\ times1[Power(k)] = same[Power(k)]
                           /\ times2[Power(k)] = once[Power(k)]
                           /\ times4[Power(k)] = again[Power(k)]
                           /\ times8[Power(k)] = thrice[Power(k)]
  <2> TAKE k \in BitNumber
  <2>1. k \in 0 .. 7 /\ Power(k) \in Byte
    BY PowerBits DEF BitNumber
  <2>2. /\ Product(1, Power(k)) = Power(0 + k) /\ Product(2, Power(k)) = Power(1 + k)
        /\ Product(4, Power(k)) = Power(2 + k) /\ Product(8, Power(k)) = Power(3 + k)
    <3>1. 0 \in 0 .. 7 /\ 1 \in 0 .. 7 /\ 2 \in 0 .. 7 /\ 3 \in 0 .. 7
      OBVIOUS
    <3>2. /\ Product(Power(0), Power(k)) = Power(0 + k)
          /\ Product(Power(1), Power(k)) = Power(1 + k)
          /\ Product(Power(2), Power(k)) = Power(2 + k)
          /\ Product(Power(3), Power(k)) = Power(3 + k)
      BY <2>1, <3>1, ProductOfPowers
    <3> QED
      BY <3>2, PowerValues
  <2>3. /\ Twice(Power(k)) = Power(k + 1) /\ Twice(Power(k + 1)) = Power(k + 2)
        /\ Twice(Power(k + 2)) = Power(k + 3)
    <3>1. /\ k \in 0 .. 13 /\ k + 1 \in 0 .. 13 /\ k + 2 \in 0 .. 13
          /\ k + 1 + 1 = k + 2 /\ k + 2 + 1 = k + 3
      BY <2>1
    <3> QED
      BY <3>1, TwicePowers
  <2>4. 0 + k = k /\ 1 + k = k + 1 /\ 2 + k = k + 2 /\ 3 + k = k + 3
    BY <2>1
  <2> QED
    BY <2>1, <2>2, <2>3, <2>4
<1>6. /\ Linear(times1) /\ Linear(times2) /\ Linear(times4) /\ Linear(times8)
      /\ Linear(same) /\ Linear(once) /\ Linear(again) /\ Linear(thrice)
  <2> HIDE DEF times1, times2, times4, times8, same, once, again, thrice
  <2> QED
    BY <1>1, <1>2, <1>3, <1>4 DEF Linear
<1> HIDE DEF times1, times2, times4, times8, same, once, again, thrice
<1>7. \A b \in Byte : times1[b] = same[b]
  BY <1>5, <1>6, AgreeOnBits
<1>8. \A b \in Byte : times2[b] = once[b]
  BY <1>5, <1>6, AgreeOnBits
<1>9. \A b \in Byte : times4[b] = again[b]
  BY <1>5, <1>6, AgreeOnBits
<1>10. \A b \in Byte : times8[b] = thrice[b]
  BY <1>5, <1>6, AgreeOnBits
<1> QED
  BY <1>7, <1>8, <1>9, <1>10, Zenon DEF times1, times2, times4, times8, same, once, again, thrice

\* The factors of both matrices are products in the field.
LEMMA FactorsAreFieldProducts ==
  ASSUME NEW a \in Byte
  PROVE  /\ \A c \in {1, 2, 3} : factor(c, a) = Product(c, a)
         /\ \A c \in {9, 11, 13, 14} : invFactor(c, a) = Product(c, a)
<1> DEFINE a2 == Twice(a)  a4 == Twice(a2)  a8 == Twice(a4)
<1>1. Product(1, a) = a /\ Product(2, a) = a2 /\ Product(4, a) = a4 /\ Product(8, a) = a8
  BY ProductByTwice
<1>2. /\ 3 = Xor(2, 1) /\ 9 = Xor(8, 1) /\ 10 = Xor(8, 2) /\ 11 = Xor(9, 2)
      /\ 13 = Xor(9, 4) /\ 14 = Xor(10, 4)
  BY DEF Xor, NibbleXor, Bit
<1>3. /\ 1 \in Byte /\ 2 \in Byte /\ 4 \in Byte /\ 8 \in Byte /\ 9 \in Byte /\ 10 \in Byte
  BY DEF Byte
<1> HIDE DEF a2, a4, a8
<1>4. /\ Product(3, a) = Xor(a2, a) /\ Product(9, a) = Xor(a8, a)
      /\ Product(10, a) = Xor(a8, a2)
  BY <1>1, <1>2, <1>3, ProductAdds
<1>5. /\ Product(11, a) = Xor(Xor(a8, a), a2) /\ Product(13, a) = Xor(Xor(a8, a), a4)
      /\ Product(14, a) = Xor(Xor(a8, a2), a4)
  BY <1>1, <1>2, <1>3, <1>4, ProductAdds
<1>6. /\ factor(1, a) = a /\ factor(2, a) = a2 /\ factor(3, a) = Xor(a2, a)
      /\ invFactor(9, a) = Xor(a8, a) /\ invFactor(11, a) = Xor(Xor(a8, a), a2)
      /\ invFactor(13, a) = Xor(Xor(a8, a), a4) /\ invFactor(14, a) = Xor(Xor(a8, a2), a4)
  BY FactorsByTwice, InvFactorsByTwice DEF a2, a4, a8
<1> QED
  BY <1>1, <1>4, <1>5, <1>6

-----------------------------------------------------------------------------
(* Induction *)

Less == {p \in Nat \X Nat : p[1] < p[2]}

\* The order of the natural numbers is well-founded.
LEMMA LessWellFounded == IsWellFoundedOn(Less, Nat)
  BY NatLessThanWellFounded DEF OpToRel, Less

\* Induction, over a set instead of a predicate.
LEMMA Induction ==
  ASSUME NEW n \in Nat, NEW T, 0 \in T, \A m \in 1 .. n : m - 1 \in T => m \in T
  PROVE  0 .. n \subseteq T
<1> SUFFICES ASSUME (0 .. n) \ T # {} PROVE FALSE
  OBVIOUS
<1>1. PICK m \in (0 .. n) \ T : \A k \in (0 .. n) \ T : ~ (<<k, m>> \in Less)
  <2>1. (0 .. n) \ T \subseteq Nat
    OBVIOUS
  <2> QED
    BY <2>1, WFMin, LessWellFounded, Zenon
<1>2. m \in 1 .. n /\ m - 1 \in (0 .. n) \ T
  OBVIOUS
<1>3. <<m - 1, m>> \in Less
  BY <1>2 DEF Less
<1> QED
  BY <1>1, <1>2, <1>3

-----------------------------------------------------------------------------
(* Inverses *)

\* A function of two bytes that respects the exclusive or in both.
Bilinear(f) ==
  /\ f \in [Byte -> [Byte -> Byte]]
  /\ \A a \in Byte : Linear(f[a]) /\ Linear([b \in Byte |-> f[b][a]])

\* It is known from its values at single bits.
LEMMA AgreeOnPairs ==
  ASSUME NEW f, NEW g, Bilinear(f), Bilinear(g),
         \A i, j \in BitNumber : f[Power(i)][Power(j)] = g[Power(i)][Power(j)]
  PROVE  \A a, b \in Byte : f[a][b] = g[a][b]
<1>1. \A k \in BitNumber : Power(k) \in Byte
  BY PowerBits DEF BitNumber
<1>2. ASSUME NEW i \in BitNumber
      PROVE  \A b \in Byte : f[Power(i)][b] = g[Power(i)][b]
  <2>1. Linear(f[Power(i)]) /\ Linear(g[Power(i)])
    BY <1>1 DEF Bilinear
  <2> QED
    BY <2>1, AgreeOnBits
<1>3. ASSUME NEW b \in Byte
      PROVE  \A a \in Byte : f[a][b] = g[a][b]
  <2> DEFINE fb == [a \in Byte |-> f[a][b]]  gb == [a \in Byte |-> g[a][b]]
  <2>1. \A k \in BitNumber : fb[Power(k)] = gb[Power(k)]
    BY <1>1, <1>2
  <2>2. Linear(fb) /\ Linear(gb)
    BY DEF Bilinear
  <2>3. \A a \in Byte : fb[a] = f[a][b] /\ gb[a] = g[a][b]
    OBVIOUS
  <2> HIDE DEF fb, gb
  <2>4. \A a \in Byte : fb[a] = gb[a]
    BY <2>1, <2>2, AgreeOnBits
  <2> QED
    BY <2>3, <2>4
<1> QED
  BY <1>3

\* Products with 1b hex, the rest of x^8, at single bits.
LEMMA ProductWithRest ==
  /\ \A j \in 0 .. 6 : /\ Product(27, Power(j)) = Power(j + 8)
                       /\ Product(Power(j), 27) = Power(j + 8)
  /\ Product(27, Power(7)) = Product(Power(7), 27)
<1>1. 27 = Sum4(16, 8, 2, 1)
  BY DEF Sum4, Xor, NibbleXor, Bit
<1>2. 1 \in Byte /\ 2 \in Byte /\ 8 \in Byte /\ 16 \in Byte
  BY DEF Byte
<1>3. Xor(16, 8) \in Byte /\ Xor(2, 1) \in Byte
  BY <1>2, XorBits
<1>4. ASSUME NEW j \in 0 .. 7
      PROVE  /\ Product(27, Power(j)) = Sum4(Power(4 + j), Power(3 + j), Power(1 + j), Power(0 + j))
             /\ Product(Power(j), 27) = Sum4(Power(j + 4), Power(j + 3), Power(j + 1), Power(j + 0))
  <2>1. Power(j) \in Byte
    BY PowerBits
  <2>2. 0 \in 0 .. 7 /\ 1 \in 0 .. 7 /\ 3 \in 0 .. 7 /\ 4 \in 0 .. 7
    OBVIOUS
  <2>3. /\ Product(Power(4), Power(j)) = Power(4 + j) /\ Product(Power(3), Power(j)) = Power(3 + j)
        /\ Product(Power(1), Power(j)) = Power(1 + j) /\ Product(Power(0), Power(j)) = Power(0 + j)
        /\ Product(Power(j), Power(4)) = Power(j + 4) /\ Product(Power(j), Power(3)) = Power(j + 3)
        /\ Product(Power(j), Power(1)) = Power(j + 1) /\ Product(Power(j), Power(0)) = Power(j + 0)
    BY <2>2, ProductOfPowers
  <2>4. /\ Product(27, Power(j))
             = Sum4(Product(16, Power(j)), Product(8, Power(j)),
                    Product(2, Power(j)), Product(1, Power(j)))
        /\ Product(Power(j), 27)
             = Sum4(Product(Power(j), 16), Product(Power(j), 8),
                    Product(Power(j), 2), Product(Power(j), 1))
    BY <1>1, <1>2, <1>3, <2>1, ProductAdds DEF Sum4
  <2> QED
    BY <2>3, <2>4, PowerValues
<1>5. /\ Sum4(16, 8, 2, 1) = 27 /\ Sum4(32, 16, 4, 2) = 54 /\ Sum4(64, 32, 8, 4) = 108
      /\ Sum4(128, 64, 16, 8) = 216
  BY DEF Sum4, Xor, NibbleXor, Bit
<1>6. /\ Sum4(27, 128, 32, 16) = 171 /\ Sum4(54, 27, 64, 32) = 77 /\ Sum4(108, 54, 128, 64) = 154
  BY DEF Sum4, Xor, NibbleXor, Bit
<1>7. \A j \in 0 .. 6 : /\ Product(27, Power(j)) = Power(j + 8)
                        /\ Product(Power(j), 27) = Power(j + 8)
  <2> TAKE j \in 0 .. 6
  <2>1. j \in {0, 1, 2, 3, 4, 5, 6} /\ j \in 0 .. 7
    OBVIOUS
  <2> QED
    BY <1>4, <1>5, <1>6, <2>1, PowerValues
<1>8. Product(27, Power(7)) = Product(Power(7), 27)
  <2>1. 7 \in 0 .. 7 /\ 4 + 7 = 7 + 4 /\ 3 + 7 = 7 + 3 /\ 1 + 7 = 7 + 1 /\ 0 + 7 = 7 + 0
    OBVIOUS
  <2> QED
    BY <1>4, <2>1
<1> QED
  BY <1>7, <1>8

\* A factor x, and hence a factor 3, may go from one side to the other.
LEMMA FactorsMove ==
  ASSUME NEW a \in Byte, NEW b \in Byte
  PROVE  /\ Product(Twice(a), b) = Product(a, Twice(b))
         /\ Product(factor(3, a), b) = Product(a, factor(3, b))
<1> DEFINE f == [c \in Byte |-> [d \in Byte |-> Product(Twice(c), d)]]
           g == [c \in Byte |-> [d \in Byte |-> Product(c, Twice(d))]]
<1>1. \A c \in Byte : Twice(c) \in Byte
  BY TwiceIsByte
<1>2. \A c, d \in Byte : /\ Xor(c, d) \in Byte
                         /\ Twice(Xor(c, d)) = Xor(Twice(c), Twice(d))
  BY XorBits, TwiceAdds
<1>3. /\ f \in [Byte -> [Byte -> Byte]] /\ g \in [Byte -> [Byte -> Byte]]
      /\ \A c, d \in Byte : f[c][d] = Product(Twice(c), d) /\ g[c][d] = Product(c, Twice(d))
  BY <1>1, ProductBits
<1>4. \A c, d, e \in Byte :
        /\ Product(Twice(c), Xor(d, e)) = Xor(Product(Twice(c), d), Product(Twice(c), e))
        /\ Product(Twice(Xor(d, e)), c) = Xor(Product(Twice(d), c), Product(Twice(e), c))
        /\ Product(c, Twice(Xor(d, e))) = Xor(Product(c, Twice(d)), Product(c, Twice(e)))
        /\ Product(Xor(d, e), Twice(c)) = Xor(Product(d, Twice(c)), Product(e, Twice(c)))
  <2> TAKE c, d, e \in Byte
  <2>1. /\ Twice(c) \in Byte /\ Twice(d) \in Byte /\ Twice(e) \in Byte
        /\ Twice(Xor(d, e)) = Xor(Twice(d), Twice(e))
    BY <1>1, <1>2
  <2> QED
    BY <2>1, ProductAdds
<1> HIDE DEF f, g
<1>5. Bilinear(f) /\ Bilinear(g)
  <2> SUFFICES ASSUME NEW c \in Byte
               PROVE  /\ Linear(f[c]) /\ Linear([d \in Byte |-> f[d][c]])
                      /\ Linear(g[c]) /\ Linear([d \in Byte |-> g[d][c]])
    BY <1>3 DEF Bilinear
  <2>1. Linear(f[c]) /\ Linear(g[c])
    <3>1. f[c] \in [Byte -> Byte] /\ g[c] \in [Byte -> Byte]
      BY <1>3
    <3>2. \A d, e \in Byte : /\ f[c][Xor(d, e)] = Xor(f[c][d], f[c][e])
                             /\ g[c][Xor(d, e)] = Xor(g[c][d], g[c][e])
      <4> TAKE d, e \in Byte
      <4>1. Xor(d, e) \in Byte
        BY <1>2
      <4>2. /\ f[c][Xor(d, e)] = Product(Twice(c), Xor(d, e))
            /\ g[c][Xor(d, e)] = Product(c, Twice(Xor(d, e)))
            /\ f[c][d] = Product(Twice(c), d) /\ f[c][e] = Product(Twice(c), e)
            /\ g[c][d] = Product(c, Twice(d)) /\ g[c][e] = Product(c, Twice(e))
        BY <1>3, <4>1
      <4> QED
        BY <1>4, <4>2
    <3> QED
      BY <3>1, <3>2, Zenon DEF Linear
  <2> DEFINE fc == [d \in Byte |-> f[d][c]]  gc == [d \in Byte |-> g[d][c]]
  <2>2. /\ fc \in [Byte -> Byte] /\ gc \in [Byte -> Byte]
        /\ \A d \in Byte : fc[d] = Product(Twice(d), c) /\ gc[d] = Product(d, Twice(c))
    BY <1>3
  <2> HIDE DEF fc, gc
  <2>3. Linear(fc) /\ Linear(gc)
    <3>1. \A d, e \in Byte : /\ fc[Xor(d, e)] = Xor(fc[d], fc[e])
                             /\ gc[Xor(d, e)] = Xor(gc[d], gc[e])
      <4> TAKE d, e \in Byte
      <4>1. Xor(d, e) \in Byte
        BY <1>2
      <4> QED
        BY <1>4, <2>2, <4>1
    <3> QED
      BY <2>2, <3>1, Zenon DEF Linear
  <2> QED
    BY <2>1, <2>3 DEF fc, gc
<1>6. ASSUME NEW i \in BitNumber, NEW j \in BitNumber
      PROVE  f[Power(i)][Power(j)] = g[Power(i)][Power(j)]
  <2>1. /\ i \in 0 .. 7 /\ j \in 0 .. 7 /\ Power(i) \in Byte /\ Power(j) \in Byte
        /\ Twice(Power(i)) = Power(i + 1) /\ Twice(Power(j)) = Power(j + 1)
    BY PowerBits, TwicePowers DEF BitNumber
  <2>2. CASE i < 7 /\ j < 7
    <3>1. i + 1 \in 0 .. 7 /\ j + 1 \in 0 .. 7 /\ i + 1 + j = i + (j + 1)
      BY <2>1, <2>2
    <3>2. /\ Product(Power(i + 1), Power(j)) = Power(i + 1 + j)
          /\ Product(Power(i), Power(j + 1)) = Power(i + (j + 1))
      BY <2>1, <3>1, ProductOfPowers
    <3> QED
      BY <1>3, <2>1, <3>1, <3>2
  <2>3. CASE i = 7 /\ j < 7
    <3>1. j \in 0 .. 6 /\ j + 1 \in 0 .. 7 /\ 7 + (j + 1) = j + 8 /\ 7 \in 0 .. 7
      BY <2>1, <2>3
    <3>2. Twice(Power(i)) = 27
      BY <2>1, <2>3, PowerValues
    <3>3. Product(27, Power(j)) = Power(j + 8)
      BY <3>1, ProductWithRest
    <3>4. Product(Power(i), Power(j + 1)) = Power(j + 8)
      BY <2>3, <3>1, ProductOfPowers
    <3> QED
      BY <1>3, <2>1, <3>2, <3>3, <3>4
  <2>4. CASE i < 7 /\ j = 7
    <3>1. i \in 0 .. 6 /\ i + 1 \in 0 .. 7 /\ i + 1 + 7 = i + 8 /\ 7 \in 0 .. 7
      BY <2>1, <2>4
    <3>2. Twice(Power(j)) = 27
      BY <2>1, <2>4, PowerValues
    <3>3. Product(Power(i), 27) = Power(i + 8)
      BY <3>1, ProductWithRest
    <3>4. Product(Power(i + 1), Power(j)) = Power(i + 8)
      BY <2>4, <3>1, ProductOfPowers
    <3> QED
      BY <1>3, <2>1, <3>2, <3>3, <3>4
  <2>5. CASE i = 7 /\ j = 7
    <3>1. Twice(Power(7)) = 27
      BY <2>1, <2>5, PowerValues
    <3> QED
      BY <1>3, <2>1, <2>5, <3>1, ProductWithRest
  <2> QED
    BY <2>1, <2>2, <2>3, <2>4, <2>5
<1>7. Product(Twice(a), b) = Product(a, Twice(b))
  <2>1. \A c, d \in Byte : f[c][d] = g[c][d]
    BY <1>5, <1>6, AgreeOnPairs
  <2> QED
    BY <1>3, <2>1
<1>8. factor(3, a) = Xor(Twice(a), a) /\ factor(3, b) = Xor(Twice(b), b)
  BY FactorsByTwice
<1> QED
  BY <1>1, <1>7, <1>8, ProductAdds

(* The powers of 3, which are all bytes but 0, and the inverses that       *)
(* follow from them.                                                       *)
PowersOf3 == <<
    \h01,\h03,\h05,\h0f,\h11,\h33,\h55,\hff,\h1a,\h2e,\h72,\h96,\ha1,\hf8,\h13,\h35,
    \h5f,\he1,\h38,\h48,\hd8,\h73,\h95,\ha4,\hf7,\h02,\h06,\h0a,\h1e,\h22,\h66,\haa,
    \he5,\h34,\h5c,\he4,\h37,\h59,\heb,\h26,\h6a,\hbe,\hd9,\h70,\h90,\hab,\he6,\h31,
    \h53,\hf5,\h04,\h0c,\h14,\h3c,\h44,\hcc,\h4f,\hd1,\h68,\hb8,\hd3,\h6e,\hb2,\hcd,
    \h4c,\hd4,\h67,\ha9,\he0,\h3b,\h4d,\hd7,\h62,\ha6,\hf1,\h08,\h18,\h28,\h78,\h88,
    \h83,\h9e,\hb9,\hd0,\h6b,\hbd,\hdc,\h7f,\h81,\h98,\hb3,\hce,\h49,\hdb,\h76,\h9a,
    \hb5,\hc4,\h57,\hf9,\h10,\h30,\h50,\hf0,\h0b,\h1d,\h27,\h69,\hbb,\hd6,\h61,\ha3,
    \hfe,\h19,\h2b,\h7d,\h87,\h92,\had,\hec,\h2f,\h71,\h93,\hae,\he9,\h20,\h60,\ha0,
    \hfb,\h16,\h3a,\h4e,\hd2,\h6d,\hb7,\hc2,\h5d,\he7,\h32,\h56,\hfa,\h15,\h3f,\h41,
    \hc3,\h5e,\he2,\h3d,\h47,\hc9,\h40,\hc0,\h5b,\hed,\h2c,\h74,\h9c,\hbf,\hda,\h75,
    \h9f,\hba,\hd5,\h64,\hac,\hef,\h2a,\h7e,\h82,\h9d,\hbc,\hdf,\h7a,\h8e,\h89,\h80,
    \h9b,\hb6,\hc1,\h58,\he8,\h23,\h65,\haf,\hea,\h25,\h6f,\hb1,\hc8,\h43,\hc5,\h54,
    \hfc,\h1f,\h21,\h63,\ha5,\hf4,\h07,\h09,\h1b,\h2d,\h77,\h99,\hb0,\hcb,\h46,\hca,
    \h45,\hcf,\h4a,\hde,\h79,\h8b,\h86,\h91,\ha8,\he3,\h3e,\h42,\hc6,\h51,\hf3,\h0e,
    \h12,\h36,\h5a,\hee,\h29,\h7b,\h8d,\h8c,\h8f,\h8a,\h85,\h94,\ha7,\hf2,\h0d,\h17,
    \h39,\h4b,\hdd,\h7c,\h84,\h97,\ha2,\hfd,\h1c,\h24,\h6c,\hb4,\hc7,\h52,\hf6,\h01>>

InverseTable == <<
    \h00,\h01,\h8d,\hf6,\hcb,\h52,\h7b,\hd1,\he8,\h4f,\h29,\hc0,\hb0,\he1,\he5,\hc7,
    \h74,\hb4,\haa,\h4b,\h99,\h2b,\h60,\h5f,\h58,\h3f,\hfd,\hcc,\hff,\h40,\hee,\hb2,
    \h3a,\h6e,\h5a,\hf1,\h55,\h4d,\ha8,\hc9,\hc1,\h0a,\h98,\h15,\h30,\h44,\ha2,\hc2,
    \h2c,\h45,\h92,\h6c,\hf3,\h39,\h66,\h42,\hf2,\h35,\h20,\h6f,\h77,\hbb,\h59,\h19,
    \h1d,\hfe,\h37,\h67,\h2d,\h31,\hf5,\h69,\ha7,\h64,\hab,\h13,\h54,\h25,\he9,\h09,
    \hed,\h5c,\h05,\hca,\h4c,\h24,\h87,\hbf,\h18,\h3e,\h22,\hf0,\h51,\hec,\h61,\h17,
    \h16,\h5e,\haf,\hd3,\h49,\ha6,\h36,\h43,\hf4,\h47,\h91,\hdf,\h33,\h93,\h21,\h3b,
    \h79,\hb7,\h97,\h85,\h10,\hb5,\hba,\h3c,\hb6,\h70,\hd0,\h06,\ha1,\hfa,\h81,\h82,
    \h83,\h7e,\h7f,\h80,\h96,\h73,\hbe,\h56,\h9b,\h9e,\h95,\hd9,\hf7,\h02,\hb9,\ha4,
    \hde,\h6a,\h32,\h6d,\hd8,\h8a,\h84,\h72,\h2a,\h14,\h9f,\h88,\hf9,\hdc,\h89,\h9a,
    \hfb,\h7c,\h2e,\hc3,\h8f,\hb8,\h65,\h48,\h26,\hc8,\h12,\h4a,\hce,\he7,\hd2,\h62,
    \h0c,\he0,\h1f,\hef,\h11,\h75,\h78,\h71,\ha5,\h8e,\h76,\h3d,\hbd,\hbc,\h86,\h57,
    \h0b,\h28,\h2f,\ha3,\hda,\hd4,\he4,\h0f,\ha9,\h27,\h53,\h04,\h1b,\hfc,\hac,\he6,
    \h7a,\h07,\hae,\h63,\hc5,\hdb,\he2,\hea,\h94,\h8b,\hc4,\hd5,\h9d,\hf8,\h90,\h6b,
    \hb1,\h0d,\hd6,\heb,\hc6,\h0e,\hcf,\had,\h08,\h4e,\hd7,\he3,\h5d,\h50,\h1e,\hb3,
    \h5b,\h23,\h38,\h34,\h68,\h46,\h03,\h8c,\hdd,\h9c,\h7d,\ha0,\hcd,\h1a,\h41,\h1c>>

PowerOf3(i) == PowersOf3[i + 1]
InverseOf(b) == InverseTable[b + 1]

\* Three times a byte, bit by bit.
Tripled(a) ==
  FromBits([n \in 0 .. 7 |->
     (Bit(a, n) + (IF n = 0 THEN 0 ELSE Bit(a, n - 1)) + Bit(a, 7) * Bit(27, n)) % 2])

\* It is what _mixColumns makes of the byte and the entry 3.
LEMMA FactorIsTripled ==
  ASSUME NEW a \in Byte
  PROVE  factor(3, a) = Tripled(a)
<1> DEFINE bits == [n \in BitNumber |->
              (Bit(a, n) + (IF n = 0 THEN 0 ELSE Bit(a, n - 1)) + Bit(a, 7) * Bit(27, n)) % 2]
<1>1. /\ Bit(27, 0) = 1 /\ Bit(27, 1) = 1 /\ Bit(27, 2) = 0 /\ Bit(27, 3) = 1
      /\ Bit(27, 4) = 1 /\ Bit(27, 5) = 0 /\ Bit(27, 6) = 0 /\ Bit(27, 7) = 0
  BY DEF Bit
<1>2. \A n \in BitNumber : Bit(a, n) \in {0, 1}
  BY ByteIsItsBits
<1>3. /\ bits[0] = (Bit(a, 0) + Bit(a, 7)) % 2
      /\ bits[1] = (Bit(a, 1) + Bit(a, 0) + Bit(a, 7)) % 2
      /\ bits[2] = (Bit(a, 2) + Bit(a, 1)) % 2
      /\ bits[3] = (Bit(a, 3) + Bit(a, 2) + Bit(a, 7)) % 2
      /\ bits[4] = (Bit(a, 4) + Bit(a, 3) + Bit(a, 7)) % 2
      /\ bits[5] = (Bit(a, 5) + Bit(a, 4)) % 2
      /\ bits[6] = (Bit(a, 6) + Bit(a, 5)) % 2
      /\ bits[7] = (Bit(a, 7) + Bit(a, 6)) % 2
  BY <1>1, <1>2 DEF BitNumber
<1>4. bits \in [BitNumber -> {0, 1}]
  <2>1. \A n \in {0, 1, 2, 3, 4, 5, 6, 7} : bits[n] \in {0, 1}
    BY <1>2, <1>3 DEF BitNumber
  <2> QED
    BY <2>1, BitNumbers
<1>5. Tripled(a) = FromBits(bits)
  BY DEF Tripled, BitNumber
<1> HIDE DEF bits
<1>6. Tripled(a) \in Byte /\ \A n \in BitNumber : Bit(Tripled(a), n) = bits[n]
  BY <1>4, <1>5, FromBitsBits
<1>7. /\ factor(3, a) \in Byte
      /\ \A n \in BitNumber : Bit(factor(3, a), n) = (Bit(Twice(a), n) + Bit(a, n)) % 2
  BY FactorsByTwice, TwiceIsByte, XorBits
<1>8. \A n \in {0, 1, 2, 3, 4, 5, 6, 7} : Bit(factor(3, a), n) = Bit(Tripled(a), n)
  BY <1>2, <1>3, <1>6, <1>7, TwiceBits DEF BitNumber
<1> QED
  BY <1>6, <1>7, <1>8, BitNumbers, SameBits

\* Multiplying the powers of 3 by 3.
LEMMA PowersOf3Follow ==
  /\ PowerOf3(0) = 1 /\ PowerOf3(255) = 1
  /\ \A i \in 0 .. 255 : PowerOf3(i) \in Byte
  /\ \A i \in 0 .. 254 : factor(3, PowerOf3(i)) = PowerOf3(i + 1)
<1>1. \A i \in 0 .. 255 : PowerOf3(i) \in Byte
  BY DEF PowerOf3, PowersOf3, Byte
<1>2. \A i \in 0 .. 254 : Tripled(PowerOf3(i)) = PowerOf3(i + 1)
  BY SMTT(120) DEF Tripled, FromBits, Bit, PowerOf3, PowersOf3
<1>3. PowerOf3(0) = 1 /\ PowerOf3(255) = 1
  BY DEF PowerOf3, PowersOf3
<1>4. \A i \in 0 .. 254 : i \in 0 .. 255
  OBVIOUS
<1> QED
  BY <1>1, <1>2, <1>3, <1>4, FactorIsTripled

\* Powers of 3 whose exponents add up to 255 are inverses of each other.
LEMMA PowersOf3Inverse ==
  \A i \in 0 .. 255 : Product(PowerOf3(i), PowerOf3(255 - i)) = 1
<1> DEFINE T == {i \in 0 .. 255 : Product(PowerOf3(i), PowerOf3(255 - i)) = 1}
<1>1. 0 \in T
  <2>1. Product(1, 1) = 1
    BY ProductByTwice DEF Byte
  <2>2. 255 - 0 = 255 /\ 0 \in 0 .. 255
    OBVIOUS
  <2> QED
    BY <2>1, <2>2, PowersOf3Follow
<1>2. ASSUME NEW m \in 1 .. 255, m - 1 \in T
      PROVE  m \in T
  <2>1. /\ m - 1 \in 0 .. 254 /\ 255 - m \in 0 .. 254 /\ m - 1 + 1 = m
        /\ 255 - m + 1 = 255 - (m - 1) /\ m \in 0 .. 255
        /\ m - 1 \in 0 .. 255 /\ 255 - m \in 0 .. 255
    OBVIOUS
  <2>2. /\ factor(3, PowerOf3(m - 1)) = PowerOf3(m)
        /\ factor(3, PowerOf3(255 - m)) = PowerOf3(255 - (m - 1))
        /\ PowerOf3(m - 1) \in Byte /\ PowerOf3(255 - m) \in Byte
    BY <2>1, PowersOf3Follow
  <2>3. Product(PowerOf3(m), PowerOf3(255 - m)) = Product(PowerOf3(m - 1), PowerOf3(255 - (m - 1)))
    BY <2>2, FactorsMove
  <2> QED
    BY <1>2, <2>1, <2>3
<1> HIDE DEF T
<1>3. 0 .. 255 \subseteq T
  BY <1>1, <1>2, Induction
<1> QED
  BY <1>3 DEF T

\* The inverse of each byte in the field, and 0 of 0.
LEMMA InversesInverse ==
  ASSUME NEW b \in Byte
  PROVE  InverseOf(b) \in Byte /\ Inverses(b, InverseOf(b))
<1>1. InverseOf(b) \in Byte /\ InverseOf(0) = 0
  BY DEF InverseTable, InverseOf, Byte
<1>2. ASSUME b = 0 PROVE Inverses(b, InverseOf(b))
  BY <1>1, <1>2 DEF Inverses
<1>3. ASSUME b # 0 PROVE Inverses(b, InverseOf(b))
  <2>1. \A c \in Byte \ {0} : \E i \in 0 .. 254 : PowerOf3(i) = c
    BY DEF PowerOf3, PowersOf3, Byte
  <2>2. PICK i \in 0 .. 254 : PowerOf3(i) = b
    BY <1>3, <2>1
  <2>3. \A j \in 0 .. 255 : InverseOf(PowerOf3(j)) = PowerOf3(255 - j)
    BY SMTT(60) DEF PowerOf3, PowersOf3, InverseTable, InverseOf
  <2>4. InverseOf(b) = PowerOf3(255 - i) /\ i \in 0 .. 255
    BY <2>2, <2>3
  <2>5. Product(b, InverseOf(b)) = 1
    BY <2>2, <2>4, PowersOf3Inverse
  <2> QED
    BY <1>3, <2>5 DEF Inverses
<1> QED
  BY <1>1, <1>2, <1>3

-----------------------------------------------------------------------------
(* The tables *)

\* The two tables map bytes to bytes, and each undoes the other.
THEOREM TablesInverseEverywhere ==
  ASSUME NEW b \in Byte
  PROVE  /\ mappingSBox(b) \in Byte /\ mappingInvSBox(b) \in Byte
         /\ mappingInvSBox(mappingSBox(b)) = b
         /\ mappingSBox(mappingInvSBox(b)) = b
  BY DEF mappingInvSBox, mappingSBox, sboxTable, invSboxTable, Byte

\* sbox_ is the affine image of the inverse.
LEMMA SBoxIsAffineInverse ==
  ASSUME NEW b \in Byte
  PROVE  mappingSBox(b) = Affine(InverseOf(b))
<1>1. \A c \in 0 .. 255 : Affine(InverseOf(c)) = mappingSBox(c)
  BY SMTT(120) DEF Affine, FromBits, Bit, InverseTable, InverseOf, mappingSBox, sboxTable
<1> QED
  BY <1>1 DEF Byte
=============================================================================
