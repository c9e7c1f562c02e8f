------------------------- MODULE InputBlocksProofs --------------------------
(***************************************************************************)
(* Texts in blocks and back, for every text: how far _createState can be   *)
(* trusted with its uint8_t counters, and what padding leaves of a text.   *)
(***************************************************************************)
EXTENDS InputBlocks, AesTextsProofs

-----------------------------------------------------------------------------
(* The inductive invariant *)

\* The vector that encryption's calls of _createState read.
Bytes == convertTypeStrToByteBlock(text)

\* Byte p of the blocks that they make of it, put in a row.
Made(p) == createState(Bytes, 16 * ((p - 1) \div 16))[((p - 1) % 16) + 1]

\* The bytes of the text in its first n blocks.
Upto(n) == IF 16 * n <= Len(Bytes) THEN 16 * n ELSE Len(Bytes)

TypeOK ==
  /\ call \in Call
  /\ text \in Seq(Char)
  /\ text = IF call.path = "hex" THEN convertStrToHexStr(call.text, call.signed)
                                ELSE call.text
  /\ pc \in {"assert", "encrypt", "decrypt", "done", "aborted", "broken"}
  /\ cipher \in Seq(Char) /\ i \in Nat /\ plain \in Seq(Char)

\* Every block so far was read inside the vector, and is in its place.
Encrypting ==
  /\ pc = "assert" => cipher = <<>> /\ i = 0
  /\ pc \in {"assert", "encrypt"} => plain = <<>>
  /\ pc = "encrypt" =>
        /\ i <= blockSize(text) /\ Len(cipher) = 16 * i
        /\ \A p \in 1 .. Len(cipher) : cipher[p] = Made(p)
        /\ \A j \in 0 .. i - 1 : Readable(Len(Bytes), 16 * j)

\* All were; what is deciphered are they, or the first of them.
Decrypting ==
  pc \in {"decrypt", "done"} =>
    /\ \A j \in 0 .. blockSize(text) - 1 : Readable(Len(Bytes), 16 * j)
    /\ call.path = "header" => Len(cipher) = 16 /\ blockSize(text) >= 1
    /\ call.path # "header" => Len(cipher) = 16 * blockSize(text)
    /\ \A p \in 1 .. Len(cipher) : cipher[p] = Made(p)
    /\ i <= Len(cipher) \div 16
    /\ pc = "done" => i = Len(cipher) \div 16

\* What has come back so far.
Restored ==
  pc \in {"decrypt", "done"} =>
    /\ i = 0 => plain = <<>>
    /\ IsHex(text) /\ (\A n \in 0 .. i - 1 : ~ LooksPadded(n))
         => plain = DigitsOf(SubSeq(Bytes, 1, Upto(i)))
    /\ i = 1 /\ (~ IsHex(text) \/ LooksPadded(0)) => Len(plain) <= 30

IInv == TypeOK /\ Encrypting /\ Decrypting /\ Restored /\ BreaksOnlyBeyond

-----------------------------------------------------------------------------
(* What the counters allow *)

(* Where all blocks are read inside the vector, a hex text has at most 255 *)
(* bytes and each block takes what is left, and any other one block.       *)
LEMMA Sizes ==
  ASSUME text \in Seq(Char), \A j \in 0 .. blockSize(text) - 1 : Readable(Len(Bytes), 16 * j)
  PROVE  /\ IsHex(text) =>
              /\ Len(Bytes) \in 0 .. 255 /\ Len(Bytes) = Len(text) \div 2
              /\ Len(Bytes) <= 16 * blockSize(text)
              /\ \A j \in 0 .. blockSize(text) - 1 :
                   /\ 16 * j <= Len(Bytes)
                   /\ last(Len(Bytes), 16 * j)
                        = IF 16 * j + 16 <= Len(Bytes) THEN 16 ELSE Len(Bytes) - 16 * j
         /\ ~ IsHex(text) => Bytes = <<>> /\ blockSize(text) <= 1
<1> DEFINE N == blockSize(text)  size == Len(Bytes)
<1>1. /\ N \in Nat /\ Len(text) \in Nat /\ Len(text) <= 32 * N /\ 32 * N < Len(text) + 32
  BY BlockCount
<1>2. /\ Bytes \in Seq(Char) /\ (IsHex(text) => size = Len(text) \div 2)
      /\ (~ IsHex(text) => Bytes = <<>>)
  BY BytesOfText DEF Bytes
<1>3. size \in Nat
  BY <1>2
<1>4. \A j \in 0 .. N - 1 : /\ 16 * j + last(size, 16 * j) < 256
                            /\ last(size, 16 * j) \in 0 .. 16
                            /\ 16 * j + last(size, 16 * j) <= size \/ last(size, 16 * j) = 0
  <2> TAKE j \in 0 .. N - 1
  <2>1. Readable(size, 16 * j)
    OBVIOUS
  <2>2. 16 * j \in Nat
    BY <1>1
  <2> QED
    BY <1>3, <2>1, <2>2, LastIs DEF Readable, Width, Nstate
<1> HIDE DEF N, size
<1>5. N <= 16
  <2> SUFFICES ASSUME N > 16 PROVE FALSE
    BY <1>1
  <2>1. 16 \in 0 .. N - 1
    BY <1>1
  <2> QED
    BY <1>4, <2>1
<1>6. CASE IsHex(text)
  <2>1. size = Len(text) \div 2 /\ size <= 16 * N /\ \A j \in 0 .. N - 1 : 16 * j <= size
    BY <1>1, <1>2, <1>6
  <2>2. size <= 255
    <3> SUFFICES ASSUME size > 255 PROVE FALSE
      BY <1>3
    <3>1. N = 16 /\ size = 256
      BY <1>1, <1>5, <2>1
    <3>2. 15 \in 0 .. N - 1 /\ 16 * 15 = 240
      BY <3>1
    <3>3. last(size, 240) = 16
      <4>1. (256 - 240) % 256 >= 16 /\ 256 \in Nat /\ 240 \in Nat
        OBVIOUS
      <4> QED
        BY <3>1, <4>1, LastIs
    <3> QED
      BY <1>4, <3>2, <3>3
  <2>3. ASSUME NEW j \in 0 .. N - 1
        PROVE  last(size, 16 * j) = IF 16 * j + 16 <= size THEN 16 ELSE size - 16 * j
    <3>1. (size - 16 * j) % 256 = size - 16 * j /\ 16 * j \in Nat /\ 16 * j <= size
      BY <1>3, <1>1, <2>1, <2>2
    <3> DEFINE start == 16 * j
    <3>2. /\ start \in Nat /\ (size - start) % 256 = size - start
          /\ start + 16 <= size <=> ~ size - start < 16
      BY <1>3, <3>1
    <3> HIDE DEF start
    <3>3. /\ size - start < 16 => last(size, start) = size - start
          /\ size - start >= 16 => last(size, start) = 16
      <4> DEFINE rest == (size - start) % 256
      <4>1. /\ rest < 16 => last(size, start) = rest
            /\ rest >= 16 => last(size, start) = 16
        <5>1. size \in Nat /\ start \in Nat
          BY <1>3, <3>2
        <5> QED
          BY <5>1, LastIs, Zenon
      <4>2. rest = size - start
        BY <3>2
      <4> HIDE DEF rest
      <4> QED
        BY <4>1, <4>2
    <3>4. last(size, start) = IF start + 16 <= size THEN 16 ELSE size - start
      BY <1>3, <3>2, <3>3
    <3> QED
      BY <3>4 DEF start
  <2>4. size \in 0 .. 255
    BY <1>3, <2>2
  <2> QED
    BY <1>6, <2>1, <2>3, <2>4 DEF N, size
<1>7. CASE ~ IsHex(text)
  <2>1. size = 0
    BY <1>2, <1>7 DEF size
  <2>2. N <= 1
    <3> SUFFICES ASSUME N > 1 PROVE FALSE
      BY <1>1
    <3>1. 1 \in 0 .. N - 1 /\ 16 * 1 = 16
      BY <1>1
    <3>2. last(0, 16) = 16
      <4>1. 0 - 16 \in -256 .. -1
        OBVIOUS
      <4>2. (0 - 16) % 256 = 0 - 16 + 256
        BY <4>1, Wraps
      <4> QED
        BY <4>2, LastIs
    <3> QED
      BY <1>4, <2>1, <3>1, <3>2
  <2> QED
    BY <1>2, <1>7, <2>2 DEF N
<1> QED
  BY <1>6, <1>7

\* Byte p of the blocks is byte p of the text, or the filling.
LEMMA MadeIs ==
  ASSUME text \in Seq(Char), \A j \in 0 .. blockSize(text) - 1 : Readable(Len(Bytes), 16 * j),
         NEW j \in 0 .. blockSize(text) - 1, NEW p \in 1 .. 16
  PROVE  /\ IsHex(text) => Made(16 * j + p) = IF 16 * j + p <= Len(Bytes) THEN Bytes[16 * j + p]
                                              ELSE 16 - (Len(Bytes) - 16 * j)
         /\ ~ IsHex(text) => Made(16 * j + p) = 16
<1> DEFINE n == last(Len(Bytes), 16 * j)
<1>1. /\ ((16 * j + p) - 1) \div 16 = j /\ (((16 * j + p) - 1) % 16) + 1 = p
      /\ blockSize(text) \in Nat /\ 16 * j \in Nat
  BY BlockCount
<1>2. Made(16 * j + p) = createState(Bytes, 16 * j)[p]
  BY <1>1 DEF Made
<1>3. Bytes \in Seq(Char) /\ Len(Bytes) \in Nat
  BY BytesOfText DEF Bytes
<1>4. createState(Bytes, 16 * j)[p] = IF p <= n THEN Bytes[16 * j + p] ELSE 16 - n
  BY <1>1, <1>3, StateIsSeq
<1>5. CASE IsHex(text)
  <2>1. n = IF 16 * j + 16 <= Len(Bytes) THEN 16 ELSE Len(Bytes) - 16 * j
    BY <1>5, Sizes
  <2> HIDE DEF n
  <2> QED
    BY <1>1, <1>2, <1>3, <1>4, <1>5, <2>1
<1>6. CASE ~ IsHex(text)
  <2>1. Len(Bytes) = 0 /\ blockSize(text) <= 1
    BY <1>6, Sizes
  <2>2. j = 0
    BY <1>1, <2>1
  <2>3. n = 0
    <3>1. (0 - 0) % 256 < 16 /\ (0 - 0) % 256 = 0 /\ 0 \in Nat /\ 16 * 0 = 0
      OBVIOUS
    <3> QED
      BY <2>1, <2>2, <3>1, LastIs
  <2> HIDE DEF n
  <2> QED
    BY <1>2, <1>4, <1>6, <2>3
<1> QED
  BY <1>5, <1>6

(* 15 blocks of digits, and one block of anything, are read inside the     *)
(* vector.                                                                 *)
LEMMA FifteenBlocks ==
  ASSUME text \in Seq(Char), NEW j \in 0 .. blockSize(text) - 1,
         IF IsHex(text) THEN Len(text) <= 480 ELSE Len(text) <= 32
  PROVE  Readable(Len(Bytes), 16 * j)
<1> DEFINE N == blockSize(text)  size == Len(Bytes)  n == last(size, 16 * j)
<1>1. /\ N \in Nat /\ Len(text) \in Nat /\ Len(text) <= 32 * N /\ 32 * N < Len(text) + 32
      /\ j \in Nat /\ j < N
  BY BlockCount
<1>2. /\ size \in Nat /\ (IsHex(text) => size = Len(text) \div 2)
      /\ (~ IsHex(text) => size = 0)
  BY BytesOfText DEF Bytes
<1>3. 16 * j \in Nat /\ size \in Nat
  BY <1>1, <1>2
<1> HIDE DEF N, size
<1>4. 16 * j <= size /\ size <= 240 /\ j <= 14
  <2>1. CASE IsHex(text)
    BY <1>1, <1>2, <2>1
  <2>2. CASE ~ IsHex(text)
    BY <1>1, <1>2, <2>2
  <2> QED
    BY <2>1, <2>2
<1> DEFINE rest == (size - 16 * j) % 256
<1>5. rest = size - 16 * j /\ rest \in 0 .. 255
  BY <1>3, <1>4
<1>6. /\ n \in 0 .. 16 /\ (rest < 16 => n = rest) /\ (rest >= 16 => n = 16)
  <2>1. Nstate = 16
    BY DEF Nstate
  <2> QED
    BY <1>3, <2>1, LastIs, Zenon
<1> HIDE DEF rest, n
<1>7. 16 * j + n < 256 /\ 16 * j + n <= size
  BY <1>1, <1>3, <1>4, <1>5, <1>6
<1> QED
  BY <1>7 DEF Readable, Width, n, size

-----------------------------------------------------------------------------
(* What decryption gives back *)

\* A deciphered block is the one that was made there.
LEMMA Deciphered ==
  ASSUME cipher \in Seq(Char), NEW m \in Nat, Len(cipher) = 16 * m,
         \A p \in 1 .. Len(cipher) : cipher[p] = Made(p),
         NEW k \in 0 .. m - 1, Readable(Len(cipher), 16 * k), last(Len(cipher), 16 * k) = 16
  PROVE  /\ createState(cipher, 16 * k) \in Seq(Char)
         /\ Len(createState(cipher, 16 * k)) = 16
         /\ \A p \in 1 .. 16 : createState(cipher, 16 * k)[p] = Made(16 * k + p)
<1>1. 16 * k \in Nat /\ \A p \in 1 .. 16 : 16 * k + p \in 1 .. Len(cipher)
  OBVIOUS
<1> DEFINE start == 16 * k  n == last(Len(cipher), start)
<1>2. start \in Nat /\ Readable(Len(cipher), start)
  BY <1>1
<1>3. n = 16
  OBVIOUS
<1> HIDE DEF start
<1>4. /\ createState(cipher, start) \in Seq(Char)
      /\ Len(createState(cipher, start)) = 16
      /\ \A p \in 1 .. 16 : createState(cipher, start)[p]
                             = IF p <= n THEN cipher[start + p] ELSE 16 - n
  BY <1>2, StateIsSeq
<1> HIDE DEF n
<1>5. \A p \in 1 .. 16 : createState(cipher, start)[p] = cipher[start + p]
  <2> TAKE p \in 1 .. 16
  <2>1. p <= n
    BY <1>3
  <2> QED
    BY <1>4, <2>1
<1> QED
  BY <1>1, <1>4, <1>5 DEF start

\* A block of a hex text comes back, without the filling, if it is no bait.
LEMMA BlockBack ==
  ASSUME text \in Seq(Char), IsHex(text),
         \A j \in 0 .. blockSize(text) - 1 : Readable(Len(Bytes), 16 * j),
         NEW k \in 0 .. blockSize(text) - 1, ~ LooksPadded(k),
         NEW state \in Seq(Char), Len(state) = 16,
         \A p \in 1 .. 16 : state[p] = Made(16 * k + p)
  PROVE  convertTypeByteStateToStr(state) = DigitsOf(SubSeq(Bytes, 16 * k + 1, Upto(k + 1)))
<1> DEFINE size == Len(Bytes)
           start == 16 * k
           rest == size - start
<1>1. Bytes \in Seq(Char) /\ size \in 0 .. 255 /\ size = Len(text) \div 2
  BY BytesOfText, Sizes DEF Bytes
<1>2. k \in Nat /\ Len(text) \in Nat
  BY BlockCount
<1>3. start <= size
  BY Sizes
<1>4. \A p \in 1 .. 16 : state[p] = IF start + p <= size THEN Bytes[start + p]
                                                          ELSE 16 - (size - start)
  BY MadeIs
<1>5. start \in Nat /\ rest \in Nat /\ size = start + rest
  <2> HIDE DEF size
  <2> QED
    BY <1>1, <1>2, <1>3
<1>6. rest >= 16 => PaddingAt(SubSeq(Bytes, start + 1, start + 16)) = {}
  <2> SUFFICES ASSUME rest >= 16 PROVE PaddingAt(SubSeq(Bytes, start + 1, start + 16)) = {}
    OBVIOUS
  <2>1. 2 * 16 * (k + 1) <= Len(text) /\ 16 * (k + 1) = start + 16
    <3> HIDE DEF size
    <3>1. 16 * (k + 1) = start + 16
      BY <1>2
    <3>2. start + 16 <= size
      BY <1>1, <1>5
    <3>3. size \in Nat /\ start \in Nat
      BY <1>1, <1>5
    <3> HIDE DEF start
    <3>4. 2 * (start + 16) <= Len(text)
      BY <1>1, <1>2, <3>2, <3>3, DigitsOfAFullBlock
    <3>5. 2 * 16 * (k + 1) = 2 * (16 * (k + 1))
      BY <1>2
    <3> QED
      BY <3>1, <3>4, <3>5
  <2> QED
    BY <2>1 DEF LooksPadded, Nstate, Bytes
<1>7. Upto(k + 1) = start + (IF rest >= 16 THEN 16 ELSE rest)
  <2>1. /\ 16 * (k + 1) = start + 16
        /\ 16 * (k + 1) <= size <=> rest >= 16
    <3> HIDE DEF size
    <3> QED
      BY <1>1, <1>2
  <2> HIDE DEF rest, start
  <2> QED
    BY <1>5, <2>1 DEF Upto
<1> HIDE DEF rest
<1>8. \A p \in 1 .. 16 : state[p] = IF p <= rest THEN Bytes[start + p] ELSE 16 - rest
  <2> TAKE p \in 1 .. 16
  <2>1. start + p <= size <=> p <= rest
    BY <1>5
  <2> QED
    BY <1>4, <2>1 DEF rest
<1> HIDE DEF start
<1>9. convertTypeByteStateToStr(state)
        = DigitsOf(SubSeq(Bytes, start + 1, start + (IF rest >= 16 THEN 16 ELSE rest)))
  BY <1>1, <1>5, <1>6, <1>8, StateBack
<1> QED
  BY <1>7, <1>9 DEF start

\* Blocks that came back so far, and one more.
LEMMA OneMoreBlock ==
  ASSUME text \in Seq(Char), IsHex(text),
         \A j \in 0 .. blockSize(text) - 1 : Readable(Len(Bytes), 16 * j),
         NEW k \in 0 .. blockSize(text) - 1
  PROVE  DigitsOf(SubSeq(Bytes, 1, Upto(k))) \o DigitsOf(SubSeq(Bytes, 16 * k + 1, Upto(k + 1)))
           = DigitsOf(SubSeq(Bytes, 1, Upto(k + 1)))
<1> DEFINE size == Len(Bytes)
           start == 16 * k
           end == Upto(k + 1)
<1>1. Bytes \in Seq(Char) /\ size \in 0 .. 255 /\ start <= size
  BY BytesOfText, Sizes DEF Bytes
<1>2. k \in Nat
  BY BlockCount
<1>3. Upto(k) = start
  BY <1>1 DEF Upto
<1>4. end = IF start + 16 <= size THEN start + 16 ELSE size
  <2>1. 16 * (k + 1) = start + 16
    BY <1>2
  <2> QED
    BY <2>1 DEF Upto
<1>5. start \in Nat /\ size \in Nat
  BY <1>1, <1>2
<1> HIDE DEF start, size, end
<1>6. end \in Nat /\ start <= end /\ end <= size
  BY <1>1, <1>4, <1>5
<1>7. 1 \in 1 .. size + 1 /\ start \in 1 - 1 .. size /\ end \in start .. size
  BY <1>1, <1>5, <1>6
<1>8. SubSeq(Bytes, 1, start) \o SubSeq(Bytes, start + 1, end) = SubSeq(Bytes, 1, end)
  BY <1>1, <1>7, ConcatAdjacentSubSeq DEF size
<1>9. SubSeq(Bytes, 1, start) \in Seq(Char) /\ SubSeq(Bytes, start + 1, end) \in Seq(Char)
  <2>1. \A q \in 1 .. start : q \in 1 .. size
    BY <1>1, <1>5
  <2>2. \A q \in start + 1 .. end : q \in 1 .. size
    BY <1>5, <1>6
  <2>3. \A q \in 1 .. size : Bytes[q] \in Char
    BY <1>1, ElementOfSeq DEF size
  <2> QED
    BY <1>5, <1>6, <2>1, <2>2, <2>3, SubSeqProperties
<1> QED
  BY <1>3, <1>8, <1>9, DigitsOfConcat DEF start, end

(* Of one block of anything else, or of a full first block that ends like  *)
(* padding, at most 30 digits come back.                                   *)
LEMMA FirstBlockShort ==
  ASSUME text \in Seq(Char),
         \A j \in 0 .. blockSize(text) - 1 : Readable(Len(Bytes), 16 * j),
         0 \in 0 .. blockSize(text) - 1, ~ IsHex(text) \/ LooksPadded(0),
         NEW state \in Seq(Char), Len(state) = 16,
         \A p \in 1 .. 16 : state[p] = Made(p)
  PROVE  Len(convertTypeByteStateToStr(state)) <= 30
<1>1. \A p \in 1 .. 16 : 16 * 0 + p = p
  OBVIOUS
<1>2. CASE ~ IsHex(text)
  <2>1. \A p \in 1 .. 16 : Made(p) = 16
    BY <1>1, <1>2, MadeIs
  <2>2. 0 \in 0 .. 15 /\ \A p \in 0 + 1 .. 16 : p \in 1 .. 16 /\ state[p] = 16 - 0
    BY <2>1
  <2>3. convertTypeByteStateToStr(state) = DigitsOf(SubSeq(state, 1, 0))
    BY <2>2, FillingFound
  <2>4. SubSeq(state, 1, 0) = <<>> /\ <<>> \in Seq(Char) /\ Len(<<>>) = 0
    BY SubSeqEmpty
  <2>5. Len(DigitsOf(<<>>)) = 0
    <3>1. 2 * 0 = 0
      OBVIOUS
    <3> QED
      BY <2>4, <3>1, DigitsOfBytes
  <2>6. Len(convertTypeByteStateToStr(state)) = 0
    BY <2>3, <2>4, <2>5, Zenon
  <2> QED
    BY <2>6
<1>3. CASE IsHex(text) /\ LooksPadded(0)
  <2> DEFINE piece == SubSeq(Bytes, 0 + 1, 0 + 16)
  <2>1. Bytes \in Seq(Char) /\ Len(Bytes) = Len(text) \div 2 /\ Len(text) \in Nat
    BY <1>3, BytesOfText DEF Bytes
  <2>2. 32 <= Len(text) /\ PaddingAt(SubSeq(Bytes, 1, 16)) # {}
    <3>1. 2 * 16 * (0 + 1) = 32 /\ 16 * (0 + 1) = 16 /\ 16 * 0 + 1 = 1
      OBVIOUS
    <3> QED
      BY <1>3, <3>1 DEF LooksPadded, Nstate, Bytes
  <2>3. 16 <= Len(Bytes) /\ 0 + 16 <= Len(Bytes) /\ 0 \in Nat /\ 16 \in Nat
    BY <2>1, <2>2
  <2>4. piece \in Seq(Char) /\ Len(piece) = 16 /\ \A p \in 1 .. 16 : piece[p] = Bytes[0 + p]
    BY <2>1, <2>3, Piece
  <2>5. piece = SubSeq(Bytes, 1, 16)
    OBVIOUS
  <2> HIDE DEF piece
  <2>6. \A p \in 1 .. 16 : state[p] = piece[p]
    <3> TAKE p \in 1 .. 16
    <3>1. Made(16 * 0 + p) = IF 16 * 0 + p <= Len(Bytes) THEN Bytes[16 * 0 + p]
                             ELSE 16 - (Len(Bytes) - 16 * 0)
      BY <1>3, MadeIs
    <3>2. 16 * 0 + p = p /\ 0 + p = p /\ p <= Len(Bytes)
      BY <2>3
    <3>3. Made(p) = Bytes[p]
      BY <3>1, <3>2
    <3> QED
      BY <2>4, <3>2, <3>3
  <2>7. state = piece
    <3>1. Len(state) = Len(piece) /\ \A p \in 1 .. Len(state) : state[p] = piece[p]
      BY <2>4, <2>6
    <3> QED
      BY <2>4, <3>1, SeqEqual
  <2> QED
    BY <2>2, <2>5, <2>7, PaddingGoes
<1> QED
  BY <1>2, <1>3

-----------------------------------------------------------------------------
(* Texts in hex digits *)

\* What convertStrToHexStr writes are characters.
LEMMA HexOfText ==
  ASSUME NEW str \in Seq(Char), NEW signed \in BOOLEAN
  PROVE  convertStrToHexStr(str, signed) \in Seq(Char)
<1>1. ASSUME NEW c \in Char, NEW h \in {1, 2}
      PROVE  convertCharToStrHex(c, signed)[h] \in Char
  <2> DEFINE v == IF signed /\ c >= 128 THEN c - 256 ELSE c
             q == Quotient(v)
             digit(temp) == IF temp <= 9 THEN 48 + temp ELSE (55 + temp) % 256
  <2>1. v \in -128 .. 255
    BY DEF Char, Width
  <2>2. q \in Int
    <3> HIDE DEF v
    <3> QED
      BY <2>1 DEF Quotient
  <2>3. convertCharToStrHex(c, signed) = <<digit(q % 256), digit((v - 16 * q) % 256)>>
    BY DEF convertCharToStrHex, Width
  <2> HIDE DEF v, q
  <2>4. \A temp \in 0 .. 255 : digit(temp) \in 0 .. 255
    OBVIOUS
  <2> HIDE DEF digit
  <2>5. q % 256 \in 0 .. 255 /\ (v - 16 * q) % 256 \in 0 .. 255
    BY <2>1, <2>2
  <2>6. digit(q % 256) \in Char /\ digit((v - 16 * q) % 256) \in Char
    <3>1. 0 .. 255 = Char
      BY DEF Char, Width
    <3> QED
      BY <2>4, <2>5, <3>1
  <2> QED
    BY <2>3, <2>6
<1> DEFINE c(n) == convertCharToStrHex(str[(n + 1) \div 2], signed)[IF n % 2 = 1 THEN 1 ELSE 2]
<1>2. \A n \in 1 .. 2 * Len(str) : c(n) \in Char
  <2> TAKE n \in 1 .. 2 * Len(str)
  <2>1. (n + 1) \div 2 \in 1 .. Len(str)
    OBVIOUS
  <2>2. str[(n + 1) \div 2] \in Char
    BY <2>1, ElementOfSeq
  <2> QED
    BY <1>1, <2>2
<1>3. convertStrToHexStr(str, signed) = [n \in 1 .. 2 * Len(str) |-> c(n)]
  BY DEF convertStrToHexStr
<1> HIDE DEF c
<1>4. 2 * Len(str) \in Nat
  OBVIOUS
<1> QED
  BY <1>2, <1>3, <1>4

-----------------------------------------------------------------------------
(* The invariant is inductive *)

LEMMA InitInv == Init => IInv
<1> SUFFICES ASSUME Init PROVE IInv
  OBVIOUS
<1> USE DEF Init
<1>1. call.text \in Seq(Char) /\ call.signed \in BOOLEAN
  BY CallAssumption DEF Char
<1>2. TypeOK
  <2>1. text \in Seq(Char)
    <3>1. CASE call.path = "hex"
      BY <1>1, <3>1, HexOfText
    <3>2. CASE call.path # "hex"
      BY <1>1, <3>2
    <3> QED
      BY <3>1, <3>2
  <2>2. <<>> \in Seq(Char)
    OBVIOUS
  <2> QED
    BY <2>1, <2>2 DEF TypeOK
<1>3. Encrypting /\ Decrypting /\ Restored /\ BreaksOnlyBeyond
  BY DEF Encrypting, Decrypting, Restored, BreaksOnlyBeyond
<1> QED
  BY <1>2, <1>3 DEF IInv

\* What depends on the text alone stays as it is.
LEMMA SameText ==
  ASSUME text' = text
  PROVE  /\ Bytes' = Bytes /\ blockSize(text)' = blockSize(text) /\ IsHex(text)' = IsHex(text)
         /\ \A n : /\ Made(n)' = Made(n) /\ Upto(n)' = Upto(n)
                   /\ LooksPadded(n)' = LooksPadded(n)
<1>1. /\ Bytes' = Bytes /\ blockSize(text)' = blockSize(text) /\ IsHex(text)' = IsHex(text)
  BY DEF Bytes
<1>2. ASSUME NEW n
      PROVE  Made(n)' = Made(n) /\ Upto(n)' = Upto(n) /\ LooksPadded(n)' = LooksPadded(n)
  BY <1>1 DEF Made, Upto, LooksPadded
<1> QED
  BY <1>1, <1>2

LEMMA NoNumbers ==
  16 * 0 = 0 /\ 1 .. 0 = {} /\ 0 .. 0 - 1 = {} /\ \A n \in Nat : 0 <= n
  OBVIOUS

LEMMA KeyStep ==
  ASSUME IInv, checkKey
  PROVE  IInv'
<1> USE DEF IInv, checkKey
<1>1. text' = text /\ call' = call
  OBVIOUS
<1>2. pc' \in {"aborted", "broken", "encrypt"}
  OBVIOUS
<1>3. TypeOK'
  BY <1>2 DEF TypeOK
<1>4. Encrypting'
  <2>1. cipher' = <<>> /\ i' = 0 /\ plain' = <<>>
    BY DEF Encrypting
  <2>2. blockSize(text) \in Nat
    BY BlockCount DEF TypeOK
  <2>3. Len(cipher') = 0 /\ 16 * i' = 0 /\ 1 .. Len(cipher') = {} /\ 0 .. i' - 1 = {}
    <3>1. Len(<<>>) = 0
      OBVIOUS
    <3>2. 16 * 0 = 0 /\ 1 .. 0 = {} /\ 0 .. 0 - 1 = {}
      BY NoNumbers
    <3> QED
      BY <2>1, <3>1, <3>2
  <2>4. i' <= blockSize(text)'
    <3>1. blockSize(text') = blockSize(text)
      BY <1>1
    <3> QED
      BY <2>1, <2>2, <3>1, NoNumbers, Zenon
  <2> QED
    BY <1>2, <2>1, <2>3, <2>4 DEF Encrypting
<1>5. Decrypting' /\ Restored'
  BY <1>2 DEF Decrypting, Restored
<1>6. BreaksOnlyBeyond'
  <2> SUFFICES ASSUME pc' = "broken" PROVE call.key = "not hex" \/ (call.key = "short" /\ ~ call.checked)
    BY <1>1 DEF BreaksOnlyBeyond
  <2> QED
    OBVIOUS
<1> QED
  BY <1>3, <1>4, <1>5, <1>6

LEMMA EncryptionStep ==
  ASSUME IInv, encryptionStep
  PROVE  IInv'
<1> DEFINE start == 16 * i
           state == createState(Bytes, start)
<1>1. /\ TypeOK /\ Encrypting /\ pc = "encrypt" /\ pc' = "encrypt" /\ call' = call
      /\ text' = text /\ plain' = plain /\ i' = i + 1 /\ i < blockSize(text)
  BY DEF IInv, encryptionStep
<1>2. Readable(Len(Bytes), start) /\ cipher' = cipher \o state
  <2>1. i * Nstate = 16 * i
    BY <1>1 DEF TypeOK, Nstate
  <2> QED
    BY <2>1 DEF encryptionStep, Bytes
<1>3. /\ text \in Seq(Char) /\ cipher \in Seq(Char) /\ i \in Nat /\ start \in Nat
      /\ blockSize(text) \in Nat /\ Bytes \in Seq(Char)
  <2>1. text \in Seq(Char) /\ cipher \in Seq(Char) /\ i \in Nat
    BY <1>1 DEF TypeOK
  <2>2. start \in Nat
    BY <2>1
  <2> QED
    BY <2>1, <2>2, BlockCount, BytesOfText DEF Bytes
<1>4. /\ Len(cipher) = start /\ plain = <<>>
      /\ \A p \in 1 .. Len(cipher) : cipher[p] = Made(p)
      /\ \A j \in 0 .. i - 1 : Readable(Len(Bytes), 16 * j)
  BY <1>1 DEF Encrypting
<1>5. state \in Seq(Char) /\ Len(state) = 16
  BY <1>2, <1>3, StateIsSeq
<1>6. \A p \in 1 .. 16 : state[p] = Made(start + p)
  <2> TAKE p \in 1 .. 16
  <2>1. ((start + p) - 1) \div 16 = i /\ (((start + p) - 1) % 16) + 1 = p
    BY <1>3
  <2> QED
    BY <2>1 DEF Made
<1> HIDE DEF state
<1>7. /\ cipher' \in Seq(Char) /\ Len(cipher') = start + 16
      /\ \A p \in 1 .. start + 16 : cipher'[p] = IF p <= start THEN cipher[p] ELSE state[p - start]
  <2> HIDE DEF start
  <2>1. /\ cipher \o state \in Seq(Char) /\ Len(cipher \o state) = Len(cipher) + Len(state)
        /\ \A p \in 1 .. Len(cipher) + Len(state) :
              (cipher \o state)[p] = IF p <= Len(cipher) THEN cipher[p] ELSE state[p - Len(cipher)]
    BY <1>3, <1>5, ConcatProperties
  <2>2. Len(cipher) + Len(state) = start + 16
    BY <1>4, <1>5
  <2> QED
    BY <1>2, <1>4, <2>1, <2>2
<1>8. \A p \in 1 .. start + 16 : cipher'[p] = Made(p)
  <2> HIDE DEF start
  <2> TAKE p \in 1 .. start + 16
  <2>1. CASE p <= start
    <3>1. p \in 1 .. Len(cipher)
      BY <1>3, <1>4, <2>1
    <3> QED
      BY <1>4, <1>7, <2>1, <3>1
  <2>2. CASE ~ p <= start
    <3>1. p - start \in 1 .. 16 /\ start + (p - start) = p
      BY <1>3, <2>2
    <3>2. state[p - start] = Made(start + (p - start))
      BY <1>6, <3>1
    <3> QED
      BY <1>7, <2>2, <3>1, <3>2
  <2> QED
    BY <2>1, <2>2
<1>9. TypeOK'
  <2>1. i' \in Nat
    BY <1>1, <1>3
  <2> QED
    BY <1>1, <1>7, <2>1 DEF TypeOK
<1>10. Encrypting'
  <2>1. /\ i' <= blockSize(text)' /\ Len(cipher)' = 16 * i'
    BY <1>1, <1>3, <1>7
  <2>2. \A p \in 1 .. Len(cipher)' : cipher'[p] = Made(p)'
    BY <1>1, <1>7, <1>8, SameText
  <2>3. \A j \in 0 .. i' - 1 : Readable(Len(Bytes), 16 * j)
    <3> TAKE j \in 0 .. i' - 1
    <3>1. j \in 0 .. i - 1 \/ j = i
      BY <1>1, <1>3
    <3> QED
      BY <1>2, <1>4, <3>1
  <2> QED
    BY <1>1, <1>4, <2>1, <2>2, <2>3, SameText DEF Encrypting
<1>11. Decrypting' /\ Restored' /\ BreaksOnlyBeyond'
  BY <1>1 DEF Decrypting, Restored, BreaksOnlyBeyond
<1> QED
  BY <1>9, <1>10, <1>11 DEF IInv

LEMMA BeginStep ==
  ASSUME IInv, beginDecryption
  PROVE  IInv'
<1> DEFINE N == blockSize(text)
<1>1. /\ TypeOK /\ Encrypting /\ pc = "encrypt" /\ pc' = "decrypt" /\ call' = call
      /\ text' = text /\ plain' = plain /\ i' = 0 /\ i = N
      /\ call.path = "header" => cipher # <<>>
      /\ cipher' = IF call.path = "header" THEN SubSeq(cipher, 1, 16) ELSE cipher
  <2>1. HeaderText \div 2 = 16
    BY DEF HeaderText
  <2> QED
    BY <2>1 DEF IInv, beginDecryption, Serializable
<1>2. /\ text \in Seq(Char) /\ cipher \in Seq(Char) /\ N \in Nat
  BY <1>1, BlockCount DEF TypeOK
<1>3. /\ Len(cipher) = 16 * N /\ plain = <<>>
      /\ \A p \in 1 .. Len(cipher) : cipher[p] = Made(p)
      /\ \A j \in 0 .. N - 1 : Readable(Len(Bytes), 16 * j)
  BY <1>1 DEF Encrypting
<1> HIDE DEF N
<1>4. ASSUME call.path = "header"
      PROVE  TypeOK' /\ Decrypting'
  <2> DEFINE front == SubSeq(cipher, 0 + 1, 0 + 16)
  <2>1. N >= 1
    <3> SUFFICES ASSUME N = 0 PROVE FALSE
      BY <1>2
    <3>1. Len(cipher) = 0
      BY <1>3
    <3> QED
      BY <1>1, <1>2, <1>4, <3>1, EmptySeq
  <2>2. 0 \in Nat /\ 16 \in Nat /\ 0 + 16 <= Len(cipher)
    BY <1>2, <1>3, <2>1
  <2>3. front \in Seq(Char) /\ Len(front) = 16 /\ \A p \in 1 .. 16 : front[p] = cipher[0 + p]
    BY <1>2, <2>2, Piece
  <2>4. front = cipher'
    BY <1>1, <1>4
  <2> HIDE DEF front
  <2>5. \A p \in 1 .. 16 : 0 + p = p /\ p \in 1 .. Len(cipher)
    BY <1>2, <2>2
  <2>6. /\ cipher' \in Seq(Char) /\ Len(cipher') = 16
        /\ \A p \in 1 .. Len(cipher') : cipher'[p] = Made(p)
    BY <1>3, <2>3, <2>4, <2>5
  <2>7. TypeOK'
    BY <1>1, <2>6 DEF TypeOK
  <2>8. Decrypting'
    <3>1. 0 <= 16 \div 16
      OBVIOUS
    <3> QED
      BY <1>1, <1>3, <1>4, <2>1, <2>6, <3>1, SameText DEF Decrypting, N
  <2> QED
    BY <2>7, <2>8
<1>5. ASSUME call.path # "header"
      PROVE  TypeOK' /\ Decrypting'
  <2>1. cipher' = cipher
    BY <1>1, <1>5
  <2>2. TypeOK'
    BY <1>1, <2>1 DEF TypeOK
  <2>3. Decrypting'
    <3>1. 0 <= Len(cipher) \div 16
      BY <1>2
    <3>2. \A p \in 1 .. Len(cipher') : cipher'[p] = Made(p)
      BY <1>3, <2>1
    <3> QED
      BY <1>1, <1>3, <1>5, <2>1, <3>1, <3>2, SameText DEF Decrypting, N
  <2> QED
    BY <2>2, <2>3
<1>6. Encrypting' /\ BreaksOnlyBeyond'
  BY <1>1 DEF Encrypting, BreaksOnlyBeyond
<1>7. Restored'
  <2>1. Upto(0) = 0
    <3>1. Len(Bytes) \in Nat /\ 16 * 0 = 0
      BY <1>2, BytesOfText DEF Bytes
    <3> QED
      BY <3>1 DEF Upto
  <2>2. SubSeq(Bytes, 1, 0) = <<>>
    BY SubSeqEmpty
  <2>3. DigitsOf(<<>>) = <<>>
    <3>1. <<>> \in Seq(Char) /\ Len(<<>>) = 0 /\ 2 * 0 = 0
      OBVIOUS
    <3>2. DigitsOf(<<>>) \in Seq(Char) /\ Len(DigitsOf(<<>>)) = 0
      BY <3>1, DigitsOfBytes
    <3> QED
      BY <3>2, EmptySeq
  <2>4. plain' = DigitsOf(SubSeq(Bytes, 1, Upto(i')))
    BY <1>1, <1>3, <2>1, <2>2, <2>3
  <2> QED
    BY <1>1, <1>3, <2>4, SameText DEF Restored
<1> QED
  BY <1>4, <1>5, <1>6, <1>7 DEF IInv

LEMMA DecryptionStep ==
  ASSUME IInv, decryptionStep
  PROVE  IInv'
<1> DEFINE N == blockSize(text)
           m == Len(cipher) \div 16
           start == 16 * i
           state == createState(cipher, start)
           back == convertTypeByteStateToStr(state)
<1>1. /\ TypeOK /\ Decrypting /\ Restored /\ pc = "decrypt" /\ pc' = "decrypt"
      /\ call' = call /\ text' = text /\ cipher' = cipher /\ i' = i + 1 /\ i < m
  BY DEF IInv, decryptionStep, Nstate
<1>2. /\ text \in Seq(Char) /\ cipher \in Seq(Char) /\ plain \in Seq(Char) /\ i \in Nat
  BY <1>1 DEF TypeOK
<1>3. Readable(Len(cipher), start) /\ last(Len(cipher), start) = 16 /\ plain' = plain \o back
  <2>1. i * Nstate = start /\ Nstate = 16
    BY <1>2 DEF Nstate
  <2> HIDE DEF start
  <2> QED
    BY <2>1 DEF decryptionStep
<1>4. /\ \A j \in 0 .. N - 1 : Readable(Len(Bytes), 16 * j)
      /\ call.path = "header" => Len(cipher) = 16 /\ N >= 1
      /\ call.path # "header" => Len(cipher) = 16 * N
      /\ \A p \in 1 .. Len(cipher) : cipher[p] = Made(p)
  BY <1>1 DEF Decrypting
<1>5. N \in Nat
  BY <1>2, BlockCount
<1> HIDE DEF N
<1>6. m \in Nat /\ m <= N /\ Len(cipher) = 16 * m
  <2>1. CASE call.path = "header"
    <3>1. Len(cipher) = 16 /\ N >= 1 /\ 16 \div 16 = 1
      BY <1>4, <2>1
    <3>2. m = 1 /\ 16 = 16 * 1
      BY <3>1
    <3> QED
      BY <1>5, <3>1, <3>2
  <2>2. CASE call.path # "header"
    <3>1. (16 * N) \div 16 = N
      BY <1>5
    <3> QED
      BY <1>4, <1>5, <2>2, <3>1
  <2> QED
    BY <2>1, <2>2
<1> HIDE DEF m
<1>7. i \in 0 .. m - 1 /\ i \in 0 .. N - 1
  BY <1>1, <1>2, <1>5, <1>6
<1>8. /\ state \in Seq(Char) /\ Len(state) = 16
      /\ \A p \in 1 .. 16 : state[p] = Made(16 * i + p)
  BY <1>2, <1>3, <1>4, <1>6, <1>7, Deciphered
<1> HIDE DEF start, state
<1>9. back \in Seq(Char)
  BY <1>8, BackIsText
<1>10. TypeOK'
  <2>1. plain' \in Seq(Char)
    BY <1>2, <1>3, <1>9, ConcatProperties
  <2>2. i' \in Nat
    BY <1>1, <1>2
  <2> QED
    BY <1>1, <2>1, <2>2 DEF TypeOK
<1>11. Decrypting'
  <2>1. i' <= Len(cipher') \div 16
    BY <1>1, <1>2, <1>6 DEF m
  <2> QED
    BY <1>1, <1>4, <2>1, SameText DEF Decrypting, N
<1>12. Encrypting' /\ BreaksOnlyBeyond'
  BY <1>1 DEF Encrypting, BreaksOnlyBeyond
<1>13. ASSUME IsHex(text), \A n \in 0 .. i' - 1 : ~ LooksPadded(n)
       PROVE  plain' = DigitsOf(SubSeq(Bytes, 1, Upto(i')))
  <2>1. ~ LooksPadded(i) /\ \A n \in 0 .. i - 1 : ~ LooksPadded(n)
    <3>1. i \in 0 .. i' - 1 /\ \A n \in 0 .. i - 1 : n \in 0 .. i' - 1
      BY <1>1, <1>2
    <3> QED
      BY <1>13, <3>1
  <2>2. plain = DigitsOf(SubSeq(Bytes, 1, Upto(i)))
    BY <1>1, <1>13, <2>1 DEF Restored
  <2>3. back = DigitsOf(SubSeq(Bytes, 16 * i + 1, Upto(i + 1)))
    <3> HIDE DEF back
    <3> QED
      BY <1>2, <1>4, <1>7, <1>8, <1>13, <2>1, BlockBack DEF N, back
  <2>4. DigitsOf(SubSeq(Bytes, 1, Upto(i))) \o DigitsOf(SubSeq(Bytes, 16 * i + 1, Upto(i + 1)))
          = DigitsOf(SubSeq(Bytes, 1, Upto(i + 1)))
    BY <1>2, <1>4, <1>7, <1>13, OneMoreBlock DEF N
  <2> HIDE DEF back
  <2> QED
    BY <1>1, <1>3, <2>2, <2>3, <2>4
<1>14. ASSUME i' = 1, ~ IsHex(text) \/ LooksPadded(0)
       PROVE  Len(plain') <= 30
  <2>1. i = 0
    BY <1>1, <1>2, <1>14
  <2>2. plain = <<>>
    BY <1>1, <2>1 DEF Restored
  <2>3. \A p \in 1 .. 16 : state[p] = Made(p)
    <3>1. \A p \in 1 .. 16 : 16 * 0 + p = p
      OBVIOUS
    <3> QED
      BY <1>8, <2>1, <3>1
  <2>4. 0 \in 0 .. N - 1
    BY <1>7, <2>1
  <2>5. Len(back) <= 30
    BY <1>2, <1>4, <1>8, <1>14, <2>3, <2>4, FirstBlockShort DEF N
  <2> HIDE DEF back
  <2>6. plain' = back
    BY <1>3, <1>9, <2>2, ConcatEmptySeq
  <2> QED
    BY <2>5, <2>6
<1>15. Restored'
  <2>1. i' # 0
    BY <1>1, <1>2
  <2> QED
    BY <1>1, <1>13, <1>14, <2>1, SameText DEF Restored
<1> QED
  BY <1>10, <1>11, <1>12, <1>15 DEF IInv

LEMMA FinishStep ==
  ASSUME IInv, finish
  PROVE  IInv'
<1>1. /\ TypeOK /\ Decrypting /\ Restored /\ pc = "decrypt" /\ pc' = "done"
      /\ call' = call /\ text' = text /\ cipher' = cipher /\ i' = i /\ plain' = plain
      /\ i = Len(cipher) \div 16
  BY DEF IInv, finish, Nstate
<1>2. TypeOK'
  BY <1>1 DEF TypeOK
<1>3. Encrypting' /\ BreaksOnlyBeyond'
  BY <1>1 DEF Encrypting, BreaksOnlyBeyond
<1>4. Decrypting'
  BY <1>1, SameText DEF Decrypting
<1>5. Restored'
  BY <1>1, SameText DEF Restored
<1> QED
  BY <1>2, <1>3, <1>4, <1>5 DEF IInv

\* A text of 480 digits has 15 blocks.
LEMMA BlocksOf480 == \A n, blocks \in Nat : n <= 480 /\ 32 * blocks < n + 32 => blocks <= 15
  OBVIOUS

LEMMA BreakStep ==
  ASSUME IInv, breakDown
  PROVE  IInv'
<1> DEFINE N == blockSize(text)
<1>1. /\ TypeOK /\ Encrypting /\ Decrypting /\ pc \in {"encrypt", "decrypt"} /\ pc' = "broken"
      /\ call' = call /\ text' = text /\ cipher' = cipher /\ i' = i /\ plain' = plain
  BY DEF IInv, breakDown
<1>2. /\ text \in Seq(Char) /\ cipher \in Seq(Char) /\ i \in Nat
  BY <1>1 DEF TypeOK
<1>3. N \in Nat /\ Len(text) \in Nat /\ Len(text) <= 32 * N /\ 32 * N < Len(text) + 32
  BY <1>2, BlockCount
<1>4. TypeOK'
  BY <1>1 DEF TypeOK
<1>5. Encrypting' /\ Decrypting' /\ Restored'
  BY <1>1 DEF Encrypting, Decrypting, Restored
<1>6. BreaksOnlyBeyond'
  <2> DEFINE Beyond == \/ Len(text) > 480
                       \/ ~ IsHex(text) /\ Len(text) > 32
                       \/ Len(text) < HeaderText - 1 /\ call.path = "header"
  <2>0. Beyond => BreaksOnlyBeyond'
    <3>1. 2 * (Width - Nstate) = 480 /\ 2 * Nstate = 32
      BY DEF Width, Nstate
    <3>2. text' = text /\ call' = call
      BY <1>1
    <3>3. ASSUME Beyond PROVE BreaksOnlyBeyond'
      <4>1. CASE Len(text) > 480
        BY <3>1, <3>2, <4>1, Zenon DEF BreaksOnlyBeyond
      <4>2. CASE ~ IsHex(text) /\ Len(text) > 32
        <5>1. IsHex(text') = IsHex(text) /\ Len(text') = Len(text)
          BY <3>2
        <5>2. ~ IsHex(text') /\ Len(text') > 2 * Nstate
          BY <3>1, <4>2, <5>1
        <5> QED
          BY <5>2, Zenon DEF BreaksOnlyBeyond
      <4>3. CASE Len(text) < HeaderText - 1 /\ call.path = "header"
        BY <3>2, <4>3, Zenon DEF BreaksOnlyBeyond
      <4> QED
        BY <3>3, <4>1, <4>2, <4>3
    <3> QED
      BY <3>3
  <2> SUFFICES ASSUME ~ Beyond PROVE FALSE
    BY <2>0
  <2>1. ASSUME pc = "encrypt", i < N, ~ Readable(Len(convertTypeStrToByteBlock(text)), i * Nstate)
        PROVE  FALSE
    <3>1. i \in 0 .. N - 1 /\ i * Nstate = 16 * i
      BY <1>2, <1>3, <2>1 DEF Nstate
    <3>2. IF IsHex(text) THEN Len(text) <= 480 ELSE Len(text) <= 32
      BY <1>3
    <3>3. Readable(Len(Bytes), 16 * i)
      BY <1>2, <3>1, <3>2, FifteenBlocks
    <3> QED
      BY <2>1, <3>1, <3>3 DEF Bytes
  <2>2. ASSUME pc = "encrypt", i = N, call.path = "header", ~ Serializable
        PROVE  FALSE
    <3>0. Len(text) >= 31 /\ cipher = <<>>
      BY <1>3, <2>2 DEF Serializable, HeaderText
    <3>1. Len(cipher) = 16 * N /\ Len(cipher) = 0
      BY <1>1, <2>2, <3>0 DEF Encrypting
    <3>2. N = 0
      <4> HIDE DEF N
      <4> QED
        BY <1>3, <3>1
    <3> HIDE DEF N
    <3> QED
      BY <1>3, <3>0, <3>2
  <2>3. ASSUME pc = "decrypt", i < Len(cipher) \div Nstate,
               ~ Readable(Len(cipher), i * Nstate) \/ last(Len(cipher), i * Nstate) # Nstate
        PROVE  FALSE
    <3>1. N <= 15
      <4> HIDE DEF N
      <4> QED
        BY <1>3, BlocksOf480
    <3>2. /\ call.path = "header" => Len(cipher) = 16
          /\ call.path # "header" => Len(cipher) = 16 * N
      BY <1>1, <2>3 DEF Decrypting
    <3> DEFINE m == IF call.path = "header" THEN 1 ELSE N
    <3> HIDE DEF N
    <3>3. m \in 0 .. 15 /\ Len(cipher) = 16 * m
      BY <1>3, <3>1, <3>2
    <3> HIDE DEF m
    <3>4. i \in 0 .. m - 1 /\ i * Nstate = 16 * i /\ Nstate = 16
      <4>1. i < (16 * m) \div 16
        BY <2>3, <3>3 DEF Nstate
      <4>2. (16 * m) \div 16 = m
        BY <3>3
      <4> QED
        BY <1>2, <3>3, <4>1, <4>2 DEF Nstate
    <3> QED
      BY <2>3, <3>3, <3>4, FullCipher
  <2> QED
    BY <2>1, <2>2, <2>3 DEF breakDown
<1> QED
  BY <1>4, <1>5, <1>6 DEF IInv

LEMMA StutteringStep ==
  ASSUME IInv, UNCHANGED vars
  PROVE  IInv'
<1>1. /\ call' = call /\ text' = text /\ pc' = pc /\ cipher' = cipher /\ i' = i /\ plain' = plain
  BY DEF vars
<1>2. TypeOK'
  BY <1>1 DEF IInv, TypeOK
<1>3. Encrypting'
  BY <1>1, SameText DEF IInv, Encrypting
<1>4. Decrypting'
  BY <1>1, SameText DEF IInv, Decrypting
<1>5. Restored'
  BY <1>1, SameText DEF IInv, Restored
<1>6. BreaksOnlyBeyond'
  BY <1>1 DEF IInv, BreaksOnlyBeyond
<1> QED
  BY <1>2, <1>3, <1>4, <1>5, <1>6 DEF IInv

(* Along every use of the class for encryption and decryption: the blocks  *)
(* that encryptionStep has made, and what decryptionStep has given back,   *)
(* are those of the text (InputBlocks, _createState and its callers).      *)
THEOREM BlocksOfTheText == Spec => []IInv
<1>1. Init => IInv
  BY InitInv
<1>2. IInv /\ [Next]_vars => IInv'
  <2> SUFFICES ASSUME IInv, [Next]_vars PROVE IInv'
    OBVIOUS
  <2>1. CASE checkKey
    BY <2>1, KeyStep
  <2>2. CASE encryptionStep
    BY <2>2, EncryptionStep
  <2>3. CASE beginDecryption
    BY <2>3, BeginStep
  <2>4. CASE decryptionStep
    BY <2>4, DecryptionStep
  <2>5. CASE finish
    BY <2>5, FinishStep
  <2>6. CASE breakDown
    BY <2>6, BreakStep
  <2>7. CASE UNCHANGED vars
    BY <2>7, StutteringStep
  <2> QED
    BY <2>1, <2>2, <2>3, <2>4, <2>5, <2>6, <2>7 DEF Next
<1> QED
  BY <1>1, <1>2, PTL DEF Spec

-----------------------------------------------------------------------------
(* What follows *)

(* Encryption and decryption read outside their vectors, or never stop,    *)
(* only for texts beyond 240 bytes, texts that are not hex and longer than *)
(* one block, an empty text in a header, and unfit keys (_createState's    *)
(* counters, Serialize's empty cipher text).                               *)
THEOREM OnlyBeyondBreaks == Spec => []BreaksOnlyBeyond
<1>1. IInv => BreaksOnlyBeyond
  BY DEF IInv
<1> QED
  BY <1>1, BlocksOfTheText, PTL

(* Any text of whole bytes comes back, in upper case, if none of its full  *)
(* blocks ends like padding (encryption with decryption, mode ECB).        *)
THEOREM TextsComeBack == Spec => []IntactUnlessPadLike
<1>1. IInv => IntactUnlessPadLike
  <2> SUFFICES ASSUME IInv, pc = "done", call.path # "header", IsHex(text), Len(text) % 2 = 0,
                      \A n \in 0 .. blockSize(text) - 1 : ~ LooksPadded(n)
               PROVE  plain = Normal
    BY DEF IntactUnlessPadLike
  <2> DEFINE N == blockSize(text)
  <2>1. /\ TypeOK /\ Decrypting /\ Restored
    BY DEF IInv
  <2>2. text \in Seq(Char) /\ \A j \in 0 .. N - 1 : Readable(Len(Bytes), 16 * j)
    BY <2>1 DEF TypeOK, Decrypting
  <2>3. N \in Nat /\ Len(cipher) = 16 * N /\ i = Len(cipher) \div 16
    BY <2>1, <2>2, BlockCount DEF Decrypting
  <2>4. i = N
    <3> HIDE DEF N
    <3>1. (16 * N) \div 16 = N
      BY <2>3
    <3> QED
      BY <2>3, <3>1
  <2>5. plain = DigitsOf(SubSeq(Bytes, 1, Upto(N)))
    BY <2>1, <2>4 DEF Restored
  <2>6. Bytes \in Seq(Char) /\ Len(Bytes) \in Nat /\ Len(Bytes) <= 16 * N
    BY <2>2, BytesOfText, Sizes DEF Bytes
  <2>7. Upto(N) = Len(Bytes)
    <3> HIDE DEF N
    <3>1. 16 * N <= Len(Bytes) => 16 * N = Len(Bytes)
      BY <2>3, <2>6
    <3> QED
      BY <3>1 DEF Upto
  <2>8. SubSeq(Bytes, 1, Len(Bytes)) = Bytes
    BY <2>6, SubSeqFull
  <2> QED
    BY <2>5, <2>7, <2>8 DEF Normal, Bytes
<1> QED
  BY <1>1, BlocksOfTheText, PTL

\* A byte taken apart again, digit by digit.
LEMMA DigitsOfDigits ==
  ASSUME NEW str \in Seq(Char), IsHex(str), NEW n \in 1 .. Len(str) \div 2
  PROVE  /\ convertTypeStrToByteBlock(str)[n] \div 16 = Digit(str[2 * n - 1])
         /\ convertTypeStrToByteBlock(str)[n] % 16 = Digit(str[2 * n])
<1>1. 2 * n - 1 \in 1 .. Len(str) /\ 2 * n \in 1 .. Len(str)
  OBVIOUS
<1>2. /\ str[2 * n - 1] \in Char /\ Digit(str[2 * n - 1]) # NotHex
      /\ str[2 * n] \in Char /\ Digit(str[2 * n]) # NotHex
  BY <1>1, ElementOfSeq DEF IsHex
<1> DEFINE h == Digit(str[2 * n - 1])  l == Digit(str[2 * n])
<1>3. h \in 0 .. 15 /\ l \in 0 .. 15
  BY <1>2, DigitValues
<1>4. convertTypeStrToByteBlock(str)[n] = 16 * h + l
  BY BytesOfText
<1> HIDE DEF h, l
<1>5. (16 * h + l) \div 16 = h /\ (16 * h + l) % 16 = l
  BY <1>3
<1> QED
  BY <1>4, <1>5 DEF h, l

(* The receiver of a header takes the packet for genuine exactly if the    *)
(* text is hex in upper case, fills the 32 characters that travel, and is  *)
(* no bait for the padding (ReceivePacket's comparison).                   *)
THEOREM GenuineExactly == Spec => []AcceptedExactly
<1>1. IInv => AcceptedExactly
  <2> SUFFICES ASSUME IInv, pc = "done", call.path = "header"
               PROVE  Accepted <=> /\ Len(text) >= 32 /\ IsHex(text)
                                   /\ \A n \in 1 .. 32 : text[n] \notin 97 .. 102
                                   /\ ~ LooksPadded(0)
    BY DEF AcceptedExactly, HeaderText
  <2>1. TypeOK /\ Decrypting /\ Restored
    BY DEF IInv
  <2>2. text \in Seq(Char) /\ plain \in Seq(Char) /\ Len(text) \in Nat
    BY <2>1 DEF TypeOK
  <2>3. \A j \in 0 .. blockSize(text) - 1 : Readable(Len(Bytes), 16 * j)
    BY <2>1 DEF Decrypting
  <2>4. i = 1
    <3>1. Len(cipher) = 16 /\ i = Len(cipher) \div 16 /\ 16 \div 16 = 1
      BY <2>1 DEF Decrypting
    <3> QED
      BY <3>1
  <2> DEFINE sent == SentOrigin(text)
  <2>5. DOMAIN sent = 1 .. 32 /\ \A n \in 1 .. 32 : n <= Len(text) => sent[n] = text[n]
    BY DEF SentOrigin, HeaderText
  <2>6. DOMAIN plain = 1 .. Len(plain) /\ Len(plain) \in Nat
    BY <2>2
  <2> HIDE DEF sent
  <2>7. ASSUME Len(plain) <= 30
        PROVE  sent # plain
    <3>1. 32 \in 1 .. 32 /\ 32 \notin 1 .. Len(plain)
      BY <2>6, <2>7
    <3> QED
      BY <2>5, <2>6, <3>1
  <2>8. CASE ~ IsHex(text) \/ LooksPadded(0)
    BY <2>1, <2>4, <2>7, <2>8 DEF Restored, Accepted, sent
  <2>9. CASE IsHex(text) /\ ~ LooksPadded(0)
    <3>1. Bytes \in Seq(Char) /\ Len(Bytes) = Len(text) \div 2
      BY <2>2, <2>9, BytesOfText DEF Bytes
    <3>2. plain = DigitsOf(SubSeq(Bytes, 1, Upto(1)))
      <4>1. \A n \in 0 .. 1 - 1 : n = 0
        OBVIOUS
      <4> QED
        BY <2>1, <2>4, <2>9, <4>1 DEF Restored
    <3> DEFINE front == SubSeq(Bytes, 0 + 1, 0 + Upto(1))
    <3>3. Upto(1) \in Nat /\ 0 + Upto(1) <= Len(Bytes) /\ 0 \in Nat
      <4>1. 16 * 1 = 16 /\ Len(Bytes) \in Nat
        BY <3>1
      <4> QED
        BY <4>1 DEF Upto
    <3>4. /\ front \in Seq(Char) /\ Len(front) = Upto(1)
          /\ \A p \in 1 .. Upto(1) : front[p] = Bytes[0 + p]
      BY <3>1, <3>3, Piece
    <3>5. front = SubSeq(Bytes, 1, Upto(1))
      BY <3>3
    <3> HIDE DEF front
    <3>6. /\ Len(plain) = 2 * Upto(1)
          /\ \A n \in 1 .. Upto(1) : /\ plain[2 * n - 1] = HexChar(front[n] \div 16)
                                     /\ plain[2 * n] = HexChar(front[n] % 16)
      BY <3>2, <3>4, <3>5, DigitsOfBytes
    <3>7. CASE ~ Len(text) >= 32
      <4>1. Len(Bytes) \in 0 .. 15 /\ 16 * 1 = 16
        BY <2>2, <3>1, <3>7
      <4>2. Upto(1) = Len(Bytes)
        <5>1. ~ 16 * 1 <= Len(Bytes)
          BY <4>1, LessThanABlock
        <5> QED
          BY <5>1 DEF Upto
      <4>3. Len(plain) <= 30
        <5> DEFINE size == Len(Bytes)
        <5>1. size \in 0 .. 15 /\ Len(plain) = 2 * size
          BY <3>6, <4>1, <4>2
        <5> HIDE DEF size
        <5>2. \A n \in 0 .. 15 : 2 * n <= 30
          OBVIOUS
        <5> QED
          BY <5>1, <5>2
      <4> QED
        BY <2>7, <3>7, <4>3 DEF Accepted, sent
    <3>8. CASE Len(text) >= 32
      <4>1. Upto(1) = 16 /\ 16 <= Len(text) \div 2
        <5>1. 16 * 1 = 16 /\ 16 <= Len(Bytes) /\ 16 <= Len(text) \div 2
          BY <2>2, <3>1, <3>8
        <5> QED
          BY <5>1 DEF Upto
      <4>2. ASSUME NEW n \in 1 .. 16
            PROVE  /\ plain[2 * n - 1] = HexChar(Digit(text[2 * n - 1]))
                   /\ plain[2 * n] = HexChar(Digit(text[2 * n]))
        <5>1. n \in 1 .. Upto(1) /\ n \in 1 .. Len(text) \div 2 /\ 0 + n = n
          BY <2>2, <4>1
        <5>2. front[n] = convertTypeStrToByteBlock(text)[n]
          BY <3>4, <5>1 DEF Bytes
        <5> QED
          BY <2>2, <2>9, <3>6, <5>1, <5>2, DigitsOfDigits
      <4>3. \A k \in 1 .. 32 : plain[k] = HexChar(Digit(text[k]))
        <5> TAKE k \in 1 .. 32
        <5>1. CASE k % 2 = 0
          <6>1. k \div 2 \in 1 .. 16 /\ k = 2 * (k \div 2)
            BY <5>1
          <6> QED
            BY <4>2, <6>1
        <5>2. CASE k % 2 = 1
          <6>1. (k + 1) \div 2 \in 1 .. 16 /\ k = 2 * ((k + 1) \div 2) - 1
            BY <5>2
          <6> QED
            BY <4>2, <6>1
        <5> QED
          BY <5>1, <5>2
      <4>4. ASSUME NEW k \in 1 .. 32
            PROVE  sent[k] = plain[k] <=> text[k] \notin 97 .. 102
        <5>1. k \in 1 .. Len(text) /\ k <= Len(text)
          BY <2>2, <3>8
        <5>2. text[k] \in Char /\ Digit(text[k]) # NotHex
          BY <2>2, <2>9, <5>1, ElementOfSeq DEF IsHex
        <5>3. sent[k] = text[k] /\ plain[k] = HexChar(Digit(text[k]))
          BY <2>5, <4>3, <5>1
        <5>4. text[k] \notin 97 .. 102 => HexChar(Digit(text[k])) = text[k]
          BY <5>2, DigitValues
        <5>5. text[k] \in 97 .. 102 => HexChar(Digit(text[k])) # text[k]
          BY DigitValues
        <5> QED
          BY <5>3, <5>4, <5>5
      <4>5. sent = plain <=> \A k \in 1 .. 32 : sent[k] = plain[k]
        <5>1. Len(plain) = 32
          BY <3>6, <4>1
        <5>2. DOMAIN plain = 1 .. 32
          BY <2>6, <5>1
        <5>3. sent = [k \in 1 .. 32 |-> sent[k]]
          BY <2>5 DEF sent, SentOrigin, HeaderText
        <5>4. plain = [k \in 1 .. 32 |-> plain[k]]
          BY <2>2, <5>1
        <5> QED
          BY <5>3, <5>4
      <4> QED
        BY <2>9, <3>8, <4>4, <4>5 DEF Accepted, sent
    <3> QED
      BY <3>7, <3>8
  <2> QED
    BY <2>8, <2>9
<1> QED
  BY <1>1, BlocksOfTheText, PTL

\* The characters that come through the hex digits of a text.
Plain(signed) == {0} \cup 17 .. (IF signed THEN 127 ELSE 255)

\* For these, convertStrToHexStr writes the digits of their codes.
LEMMA PlainHex ==
  ASSUME NEW str \in Seq(Char), NEW signed \in BOOLEAN,
         \A n \in 1 .. Len(str) : str[n] \in Plain(signed)
  PROVE  convertStrToHexStr(str, signed) = DigitsOf(str)
<1>1. ASSUME NEW c \in Plain(signed)
      PROVE  convertCharToStrHex(c, signed) = <<HexChar(c \div 16), HexChar(c % 16)>>
  <2> DEFINE v == IF signed /\ c >= 128 THEN c - 256 ELSE c
             q == Quotient(v)
             digit(temp) == IF temp <= 9 THEN 48 + temp ELSE (55 + temp) % 256
  <2>1. c \in 0 .. 255 /\ ~ (signed /\ c >= 128)
    BY DEF Plain
  <2>2. v = c /\ q = c \div 16
    BY <2>1 DEF Quotient
  <2>3. convertCharToStrHex(c, signed) = <<digit(q % 256), digit((v - 16 * q) % 256)>>
    BY DEF convertCharToStrHex, Width
  <2> HIDE DEF v, q
  <2>4. c \div 16 \in 0 .. 15 /\ c % 16 \in 0 .. 15 /\ c = 16 * (c \div 16) + (c % 16)
    BY <2>1
  <2>5. c - 16 * (c \div 16) = c % 16
    BY <2>1, <2>4
  <2>6. \A d \in 0 .. 15 : d % 256 = d /\ digit(d) = HexChar(d)
    BY DEF HexChar
  <2> HIDE DEF digit
  <2>7. q \in 0 .. 15 /\ v - 16 * q \in 0 .. 15 /\ q = c \div 16 /\ v - 16 * q = c % 16
    BY <2>2, <2>4, <2>5
  <2>8. q % 256 = q /\ digit(q) = HexChar(q)
    BY <2>6, <2>7
  <2> DEFINE low == v - 16 * q
  <2>9. low \in 0 .. 15 /\ low = c % 16
    BY <2>7
  <2>10. convertCharToStrHex(c, signed) = <<digit(q % 256), digit(low % 256)>>
    BY <2>3
  <2> HIDE DEF low
  <2>11. low % 256 = low /\ digit(low) = HexChar(low)
    BY <2>6, <2>9
  <2> QED
    BY <2>7, <2>8, <2>9, <2>10, <2>11
<1>2. ASSUME NEW n \in 1 .. 2 * Len(str)
      PROVE  convertCharToStrHex(str[(n + 1) \div 2], signed)[IF n % 2 = 1 THEN 1 ELSE 2]
               = HexChar(IF n % 2 = 1 THEN str[(n + 1) \div 2] \div 16 ELSE str[n \div 2] % 16)
  <2> DEFINE at == (n + 1) \div 2
  <2>1. at \in 1 .. Len(str) /\ (n % 2 # 1 => n \div 2 = at)
    OBVIOUS
  <2> HIDE DEF at
  <2>2. convertCharToStrHex(str[at], signed) = <<HexChar(str[at] \div 16), HexChar(str[at] % 16)>>
    BY <1>1, <2>1
  <2>3. CASE n % 2 = 1
    BY <2>2, <2>3 DEF at
  <2>4. CASE n % 2 # 1
    BY <2>1, <2>2, <2>4 DEF at
  <2> QED
    BY <2>3, <2>4
<1> QED
  BY <1>2 DEF convertStrToHexStr, DigitsOf

\* convertHexStrToStr reads the digits of bytes, as far as the first zero.
LEMMA HexBack ==
  ASSUME NEW str \in Seq(Char)
  PROVE  convertHexStrToStr(DigitsOf(str)) = UpToZero(str)
<1> DEFINE hex == DigitsOf(str)
           size == Len(str)
           zeros == {n \in 1 .. size : ByteAt(hex, n) = 0}
<1>1. /\ Len(hex) = 2 * size /\ size \in Nat
      /\ \A n \in 1 .. size : /\ hex[2 * n - 1] = HexChar(str[n] \div 16)
                              /\ hex[2 * n] = HexChar(str[n] % 16)
  BY DigitsOfBytes
<1> HIDE DEF hex
<1>2. ASSUME NEW n \in 1 .. size
      PROVE  ByteAt(hex, n) = str[n]
  <2> DEFINE h == str[n] \div 16  l == str[n] % 16
             value(c) == IF c \in 48 .. 57 THEN c - 48 ELSE c - 55
  <2>1. str[n] \in Char
    BY ElementOfSeq
  <2>2. h \in 0 .. 15 /\ l \in 0 .. 15 /\ str[n] = 16 * h + l
    BY <2>1, TwoDigits
  <2>3. hex[2 * n - 1] = HexChar(h) /\ hex[2 * n] = HexChar(l) /\ 2 * n <= Len(hex)
    BY <1>1
  <2> HIDE DEF h, l
  <2>4. \A d \in 0 .. 15 : value(HexChar(d)) = d
    BY DEF HexChar
  <2>5. ByteAt(hex, n) = (16 * value(hex[2 * n - 1]) + value(hex[2 * n])) % 256
    BY <2>3 DEF ByteAt, Width
  <2> HIDE DEF value
  <2>6. ByteAt(hex, n) = (16 * h + l) % 256
    BY <2>2, <2>3, <2>4, <2>5
  <2>7. (16 * h + l) % 256 = 16 * h + l
    BY <2>2
  <2> QED
    BY <2>2, <2>6, <2>7
<1> HIDE DEF size
<1>3. (Len(hex) + 1) \div 2 = size
  BY <1>1
<1>4. convertHexStrToStr(hex)
        = [n \in {m \in 1 .. size : \A z \in zeros : m < z} |-> ByteAt(hex, n)]
  BY <1>3 DEF convertHexStrToStr
<1>5. {m \in 1 .. size : \A z \in zeros : m < z}
        = {m \in 1 .. size : \A k \in 1 .. m : str[k] # 0}
  <2>1. ASSUME NEW m \in 1 .. size, \A z \in zeros : m < z, NEW k \in 1 .. m
        PROVE  str[k] # 0
    <3>1. k \in 1 .. size /\ ~ m < k
      BY <1>1
    <3> QED
      BY <1>2, <2>1, <3>1
  <2>2. ASSUME NEW m \in 1 .. size, \A k \in 1 .. m : str[k] # 0, NEW z \in zeros
        PROVE  m < z
    <3>1. z \in 1 .. size /\ str[z] = 0
      BY <1>2
    <3>2. ~ z \in 1 .. m
      BY <2>2, <3>1
    <3> HIDE DEF zeros
    <3> QED
      BY <1>1, <3>1, <3>2
  <2> HIDE DEF zeros
  <2> QED
    BY <2>1, <2>2
<1> HIDE DEF zeros
<1>6. UpToZero(str) = [n \in {m \in 1 .. size : \A k \in 1 .. m : str[k] # 0} |-> str[n]]
  BY DEF UpToZero, size
<1>7. convertHexStrToStr(hex) = UpToZero(str)
  BY <1>2, <1>4, <1>5, <1>6
<1> QED
  BY <1>7 DEF hex

(* A text of any plain characters, written in hex digits, enciphered,      *)
(* deciphered and read from the hex digits, is the text up to its first    *)
(* zero (convertStrToHexStr, encryption, decryption, convertHexStrToStr).  *)
THEOREM PlainTextsSurvive == Spec => []TextSurvives
<1>1. IInv /\ IntactUnlessPadLike => TextSurvives
  <2> SUFFICES ASSUME IInv, IntactUnlessPadLike, pc = "done", call.path = "hex",
                      \A n \in 1 .. Len(call.text) : call.text[n] \in Plain(call.signed)
               PROVE  convertHexStrToStr(plain) = UpToZero(call.text)
    BY DEF TextSurvives, Plain
  <2> DEFINE str == call.text
  <2>1. str \in Seq(Char) /\ call.signed \in BOOLEAN
    BY CallAssumption DEF IInv, TypeOK, Char
  <2>2. text = DigitsOf(str)
    <3>1. text = convertStrToHexStr(str, call.signed)
      BY DEF IInv, TypeOK
    <3> HIDE DEF str
    <3> QED
      BY <2>1, <3>1, PlainHex DEF str
  <2> HIDE DEF str
  <2>3. IsHex(text) /\ convertTypeStrToByteBlock(text) = str
    BY <2>1, <2>2, BytesOfDigits
  <2>4. Len(text) = 2 * Len(str) /\ Len(str) \in Nat
    BY <2>1, <2>2, DigitsOfBytes
  <2>5. Len(text) % 2 = 0
    BY <2>4
  <2>6. ASSUME NEW n \in 0 .. blockSize(text) - 1, LooksPadded(n)
        PROVE  FALSE
    <3> DEFINE start == 16 * n
               piece == SubSeq(str, start + 1, start + 16)
    <3>1. n \in Nat
      BY <2>1, <2>2, DigitsOfBytes, BlockCount
    <3>2. 2 * 16 * (n + 1) <= Len(text) /\ PaddingAt(SubSeq(str, 16 * n + 1, 16 * (n + 1))) # {}
      BY <2>3, <2>6 DEF LooksPadded, Nstate
    <3>3. 16 * (n + 1) = start + 16 /\ 2 * 16 * (n + 1) = 2 * (start + 16)
      BY <3>1
    <3>4. PaddingAt(piece) # {}
      BY <3>2, <3>3
    <3>5. start \in Nat
      BY <3>1
    <3>6. 2 * (start + 16) <= 2 * Len(str)
      BY <2>4, <3>2, <3>3
    <3> HIDE DEF start
    <3>7. start + 16 <= Len(str) /\ start + 16 \in 1 .. Len(str)
      BY <2>4, <3>5, <3>6
    <3>8. piece[16] = str[start + 16]
      <4>1. 16 \in 1 .. 16 /\ 16 \in Nat
        OBVIOUS
      <4> QED
        BY <2>1, <3>5, <3>7, <4>1, Piece
    <3>9. str[start + 16] \in Plain(call.signed)
      BY <3>7 DEF str
    <3> HIDE DEF piece
    <3>10. piece[16] \in 1 .. 16
      <4>1. PICK p \in 1 .. 16 : \A q \in p .. 16 : piece[q] = 16 + 1 - p
        BY <3>4 DEF PaddingAt, Nstate
      <4>2. 16 \in p .. 16 /\ 16 + 1 - p \in 1 .. 16
        OBVIOUS
      <4> QED
        BY <4>1, <4>2
    <3>11. \A c \in Plain(call.signed) : c \notin 1 .. 16
      BY <2>1 DEF Plain
    <3> QED
      BY <3>8, <3>9, <3>10, <3>11
  <2>7. plain = DigitsOf(str)
    <3>1. call.path # "header"
      OBVIOUS
    <3> QED
      BY <2>3, <2>5, <2>6, <3>1 DEF IntactUnlessPadLike, Normal
  <2> QED
    BY <2>1, <2>7, HexBack DEF str
<1> QED
  BY <1>1, BlocksOfTheText, TextsComeBack, PTL

-----------------------------------------------------------------------------
(* The steps and the functions *)

\* decryption has come to the i first of them; and a second one it does only in
\* texts of up to 15, for of 16 the first fails.
Following ==
  pc \in {"decrypt", "done"} =>
    /\ plain = Joins(BlocksBack(Bytes, Len(cipher) \div 16))[i]
    /\ i > 0 => Len(cipher) \div 16 <= 15

\* The cipher text is of whole blocks, no more than the text has.
LEMMA CipherBlocks ==
  ASSUME IInv, pc \in {"decrypt", "done"}
  PROVE  /\ text \in Seq(Char) /\ cipher \in Seq(Char) /\ blockSize(text) \in 0 .. 16
         /\ Len(cipher) \div 16 \in 0 .. blockSize(text)
         /\ Len(cipher) = 16 * (Len(cipher) \div 16)
         /\ \A j \in 0 .. blockSize(text) - 1 : Readable(Len(Bytes), 16 * j)
         /\ \A p \in 1 .. Len(cipher) : cipher[p] = Made(p)
         /\ i \in 0 .. Len(cipher) \div 16
         /\ call.path = "header" => Len(cipher) \div 16 = 1
         /\ call.path # "header" => Len(cipher) \div 16 = blockSize(text)
<1> DEFINE N == blockSize(text)  m == Len(cipher) \div 16
<1>1. /\ text \in Seq(Char) /\ cipher \in Seq(Char) /\ i \in Nat
      /\ \A j \in 0 .. N - 1 : Readable(Len(Bytes), 16 * j)
      /\ call.path = "header" => Len(cipher) = 16 /\ N >= 1
      /\ call.path # "header" => Len(cipher) = 16 * N
      /\ \A p \in 1 .. Len(cipher) : cipher[p] = Made(p)
      /\ i <= m
  BY DEF IInv, TypeOK, Decrypting
<1>2. N \in Nat /\ 32 * N < Len(text) + 32 /\ Len(text) \in Nat
  BY <1>1, BlockCount
<1>3. N \in 0 .. 16
  <2>1. CASE IsHex(text)
    <3>1. Len(Bytes) \in 0 .. 255 /\ Len(Bytes) = Len(text) \div 2
      BY <1>1, <2>1, Sizes
    <3>2. Len(text) <= 511
      <4>1. \A l \in Nat : l \div 2 \in 0 .. 255 => l <= 511
        OBVIOUS
      <4> QED
        BY <1>2, <3>1, <4>1
    <3> HIDE DEF N
    <3> QED
      BY <1>2, <3>2
  <2>2. CASE ~ IsHex(text)
    <3>1. N <= 1
      BY <1>1, <2>2, Sizes
    <3> HIDE DEF N
    <3> QED
      BY <1>2, <3>1
  <2> QED
    BY <2>1, <2>2
<1> HIDE DEF N
<1>4. /\ m \in 0 .. N /\ Len(cipher) = 16 * m
      /\ call.path = "header" => m = 1
      /\ call.path # "header" => m = N
  <2>1. CASE call.path = "header"
    <3>1. Len(cipher) = 16 /\ N >= 1 /\ 16 \div 16 = 1
      BY <1>1, <2>1
    <3>2. m = 1 /\ 16 = 16 * 1
      BY <3>1
    <3> QED
      BY <1>2, <2>1, <3>1, <3>2
  <2>2. CASE call.path # "header"
    <3>1. (16 * N) \div 16 = N
      BY <1>2
    <3> QED
      BY <1>1, <1>2, <2>2, <3>1
  <2> QED
    BY <2>1, <2>2
<1> HIDE DEF m
<1>5. i \in 0 .. m
  BY <1>1, <1>4, <1>2
<1> QED
  BY <1>1, <1>3, <1>4, <1>5 DEF N, m

\* They are texts.
LEMMA BackIsTexts ==
  ASSUME text \in Seq(Char), \A j \in 0 .. blockSize(text) - 1 : Readable(Len(Bytes), 16 * j),
         NEW n \in 0 .. blockSize(text)
  PROVE  /\ BlocksBack(Bytes, n) \in Seq(Seq(Char)) /\ Len(BlocksBack(Bytes, n)) = n
         /\ \A m \in 1 .. n : BlocksBack(Bytes, n)[m]
                = convertTypeByteStateToStr(createState(Bytes, 16 * (m - 1)))
<1> DEFINE piece(m) == convertTypeByteStateToStr(createState(Bytes, 16 * (m - 1)))
<1>1. blockSize(text) \in Nat /\ Bytes \in Seq(Char)
  BY BlockCount, BytesOfText DEF Bytes
<1>2. ASSUME NEW m \in 1 .. n
      PROVE  piece(m) \in Seq(Char)
  <2>1. m - 1 \in 0 .. blockSize(text) - 1 /\ 16 * (m - 1) \in Nat
    BY <1>1
  <2>2. /\ createState(Bytes, 16 * (m - 1)) \in Seq(Char)
        /\ Len(createState(Bytes, 16 * (m - 1))) = 16
    BY <1>1, <2>1, StateIsSeq
  <2> QED
    BY <2>2, BackIsText
<1>3. BlocksBack(Bytes, n) = [m \in 1 .. n |-> piece(m)]
  BY DEF BlocksBack
<1> HIDE DEF piece
<1>4. n \in Nat
  BY <1>1
<1>5. /\ BlocksBack(Bytes, n) \in Seq(Seq(Char)) /\ Len(BlocksBack(Bytes, n)) = n
      /\ \A m \in 1 .. n : BlocksBack(Bytes, n)[m] = piece(m)
  BY <1>2, <1>3, <1>4
<1> QED
  BY <1>5 DEF piece

LEMMA FollowBegin ==
  ASSUME IInv, IInv', beginDecryption
  PROVE  Following'
<1>1. pc = "encrypt" /\ pc' = "decrypt" /\ i' = 0 /\ plain' = plain /\ plain = <<>>
  BY DEF beginDecryption, IInv, Encrypting
<1> DEFINE N == blockSize(text)  m == Len(cipher') \div 16
<1>2. /\ text' = text /\ Bytes' = Bytes /\ text \in Seq(Char) /\ N \in Nat
      /\ \A j \in 0 .. N - 1 : Readable(Len(Bytes), 16 * j)
      /\ \/ Len(cipher') = 16 /\ N >= 1
         \/ Len(cipher') = 16 * N
  <2>1. text' = text /\ Bytes' = Bytes /\ blockSize(text)' = N
    BY SameText DEF beginDecryption
  <2>2. text \in Seq(Char)
    BY DEF IInv, TypeOK
  <2>3. Decrypting'
    BY DEF IInv
  <2> QED
    BY <1>1, <2>1, <2>2, <2>3, BlockCount DEF Decrypting
<1> HIDE DEF N
<1>3. m \in 0 .. N
  <2>1. CASE Len(cipher') = 16 /\ N >= 1
    <3>1. m = 1
      BY <2>1
    <3> QED
      BY <1>2, <2>1, <3>1
  <2>2. CASE Len(cipher') = 16 * N
    <3>1. (16 * N) \div 16 = N
      BY <1>2
    <3> QED
      BY <1>2, <2>2, <3>1
  <2> QED
    BY <1>2, <2>1, <2>2
<1> HIDE DEF m
<1>4. Joins(BlocksBack(Bytes, m))[0] = <<>>
  <2>1. BlocksBack(Bytes, m) \in Seq(Seq(Char))
    BY <1>2, <1>3, BackIsTexts DEF N
  <2> QED
    BY <2>1, JoinsAre
<1> QED
  BY <1>1, <1>2, <1>4 DEF Following, m

LEMMA FollowBlock ==
  ASSUME IInv, Following, decryptionStep
  PROVE  Following'
<1> DEFINE N == blockSize(text)
           m == Len(cipher) \div 16
           start == 16 * i
           state == createState(cipher, start)
           b == BlocksBack(Bytes, m)
<1>1. /\ pc = "decrypt" /\ pc' = "decrypt" /\ i < m /\ i' = i + 1
      /\ text' = text /\ cipher' = cipher /\ Bytes' = Bytes
  BY SameText DEF decryptionStep, Nstate
<1>2. /\ text \in Seq(Char) /\ cipher \in Seq(Char) /\ N \in 0 .. 16 /\ m \in 0 .. N
      /\ Len(cipher) = 16 * m /\ i \in 0 .. m
      /\ \A j \in 0 .. N - 1 : Readable(Len(Bytes), 16 * j)
      /\ \A p \in 1 .. Len(cipher) : cipher[p] = Made(p)
  BY <1>1, CipherBlocks
<1>3. /\ Readable(Len(cipher), start) /\ last(Len(cipher), start) = 16
      /\ plain' = plain \o convertTypeByteStateToStr(state)
  <2>1. i * Nstate = start /\ Nstate = 16
    BY <1>2 DEF Nstate
  <2> HIDE DEF start
  <2> QED
    BY <2>1 DEF decryptionStep
<1>4. plain = Joins(b)[i] /\ (i > 0 => m <= 15)
  BY <1>1 DEF Following
<1> HIDE DEF N, m
<1>5. /\ i \in 0 .. m - 1 /\ i + 1 \in 1 .. m /\ m \in Nat /\ (i + 1) - 1 = i
      /\ i \in 0 .. N - 1 /\ start \in Nat
  BY <1>1, <1>2
<1>6. state = createState(Bytes, start)
  <2>1. /\ state \in Seq(Char) /\ Len(state) = 16
        /\ \A p \in 1 .. 16 : state[p] = Made(16 * i + p)
    BY <1>2, <1>3, <1>5, Deciphered
  <2>2. ASSUME NEW p \in 1 .. 16
        PROVE  Made(16 * i + p) = createState(Bytes, start)[p]
    <3>1. ((16 * i + p) - 1) \div 16 = i /\ (((16 * i + p) - 1) % 16) + 1 = p
      BY <1>5
    <3> QED
      BY <3>1 DEF Made
  <2>3. createState(Bytes, start) \in Seq(Char) /\ Len(createState(Bytes, start)) = 16
    <3>1. Bytes \in Seq(Char) /\ Readable(Len(Bytes), start)
      BY <1>2, <1>5, BytesOfText DEF Bytes
    <3> QED
      BY <1>5, <3>1, StateIsSeq
  <2> HIDE DEF state, start
  <2>4. \A p \in 1 .. 16 : state[p] = createState(Bytes, start)[p]
    BY <2>1, <2>2
  <2> QED
    BY <2>1, <2>3, <2>4, SeqEqual
<1>7. plain' = Joins(b)[i + 1]
  <2>1. b \in Seq(Seq(Char)) /\ Len(b) = m
        /\ b[i + 1] = convertTypeByteStateToStr(createState(Bytes, 16 * ((i + 1) - 1)))
    BY <1>2, <1>5, BackIsTexts DEF N
  <2> HIDE DEF b
  <2>2. Joins(b)[i + 1] = Joins(b)[(i + 1) - 1] \o b[i + 1]
    BY <1>5, <2>1, JoinsAre
  <2> QED
    BY <1>3, <1>4, <1>5, <1>6, <2>1, <2>2
<1>8. m <= 15
  <2>1. CASE i > 0
    BY <1>4, <2>1
  <2>2. CASE ~ i > 0
    <3>1. start = 0
      BY <1>5, <2>2
    <3>2. ASSUME m = 16 PROVE FALSE
      <4>1. Len(cipher) = 256 /\ (256 - 0) % 256 < 16 /\ (256 - 0) % 256 = 0
            /\ 0 \in Nat /\ 256 \in Nat
        BY <1>2, <3>2
      <4>2. last(256, 0) = 0
        BY <4>1, LastIs
      <4> QED
        BY <1>3, <3>1, <4>1, <4>2
    <3> QED
      BY <1>2, <3>2
  <2> QED
    BY <2>1, <2>2
<1> QED
  BY <1>1, <1>7, <1>8 DEF Following, m

(* Along every use: what decryption has given back are the blocks of the   *)
(* text, put in a row as the functions of AesTexts do (decryption's loop,  *)
(* where _createState's uint8_t counters let it go on).                    *)
THEOREM StepsFollowFunctions == Spec => []Following
<1>1. Init => Following
  BY DEF Init, Following
<1>2. IInv /\ IInv' /\ Following /\ [Next]_vars => Following'
  <2> SUFFICES ASSUME IInv, IInv', Following, [Next]_vars PROVE Following'
    OBVIOUS
  <2>1. CASE checkKey
    BY <2>1 DEF checkKey, Following
  <2>2. CASE encryptionStep
    BY <2>2 DEF encryptionStep, Following
  <2>3. CASE beginDecryption
    BY <2>3, FollowBegin
  <2>4. CASE decryptionStep
    BY <2>4, FollowBlock
  <2>5. CASE finish
    BY <2>5, SameText DEF finish, Following
  <2>6. CASE breakDown
    BY <2>6 DEF breakDown, Following
  <2>7. CASE UNCHANGED vars
    BY <2>7, SameText DEF vars, Following
  <2> QED
    BY <2>1, <2>2, <2>3, <2>4, <2>5, <2>6, <2>7 DEF Next
<1> QED
  BY <1>1, <1>2, BlocksOfTheText, PTL DEF Spec

(* A use of the class with the cipher in it, for any key of 128, 192 or    *)
(* 256 bits, gives what the blocks in place of the cipher text give: all   *)
(* that is said here of texts, padding and headers is so for class AES     *)
(* with encryption and decryption as they are.                             *)
THEOREM StepsComputeTexts == Spec => []ComputesTexts
<1>1. IInv /\ Following => ComputesTexts
  <2> SUFFICES ASSUME IInv, Following, pc = "done", NEW k \in Key
               PROVE  plain = decryption(Carried(encryption(text, k)), k)
    BY DEF ComputesTexts
  <2> DEFINE N == blockSize(text)
             m == Len(cipher) \div 16
             e == encryption(text, k)
  <2>1. /\ text \in Seq(Char) /\ N \in 0 .. 16 /\ m \in 0 .. N
        /\ \A j \in 0 .. N - 1 : Readable(Len(Bytes), 16 * j)
        /\ call.path = "header" => m = 1
        /\ call.path # "header" => m = N
    BY CipherBlocks
  <2>2. i = m /\ plain = Joins(BlocksBack(Bytes, m))[m] /\ (m > 0 => m <= 15)
    BY DEF IInv, Decrypting, Following
  <2>3. k \in KeyText
    BY KeyAssumption
  <2> HIDE DEF m
  <2>4. m \in 0 .. 15 /\ m <= N
    BY <2>1, <2>2
  <2>5. plain = Joined(BlocksBack(Bytes, m))
    <3>1. Len(BlocksBack(Bytes, m)) = m
      BY <2>1, BackIsTexts
    <3> QED
      BY <2>2, <3>1 DEF Joined
  <2>6. decryption(SubSeq(e, 1, 32 * m), k) = Joined(BlocksBack(Bytes, m))
    BY <2>1, <2>3, <2>4, CipherLeavesTexts DEF Bytes
  <2>7. Carried(e) = SubSeq(e, 1, 32 * m)
    <3>1. CASE call.path = "header"
      <4>1. 32 * m = 32
        BY <2>1, <3>1
      <4> QED
        BY <3>1, <4>1 DEF Carried, HeaderText
    <3>2. CASE call.path # "header"
      <4>1. PICK c \in Seq(Char) : Len(c) = 16 * N /\ e = DigitsOf(c)
        BY <2>1, <2>3, EncryptedText DEF Bytes
      <4>2. e \in Seq(Char) /\ Len(e) = 2 * (16 * N)
        BY <4>1, DigitsOfBytes
      <4>3. 2 * (16 * N) = 32 * m
        BY <2>1, <3>2
      <4> HIDE DEF e, N
      <4>4. SubSeq(e, 1, 32 * m) = e
        BY <4>2, <4>3, SubSeqFull
      <4> QED
        BY <3>2, <4>4 DEF Carried
    <3> QED
      BY <3>1, <3>2
  <2> QED
    BY <2>5, <2>6, <2>7
<1> QED
  BY <1>1, BlocksOfTheText, StepsFollowFunctions, PTL

(* The header with class AES in it meets what the tunnel assumes of its    *)
(* cipher, for any keys of which none deciphers what another one           *)
(* enciphered: that is all that is left to assume of AES (EncryptInput and *)
(* DecryptInput with SendPacket's plainText).                              *)
THEOREM HeaderFitsTunnel == NoOtherKey => Header!CipherAssumption
<1> SUFFICES ASSUME NoOtherKey PROVE Header!CipherAssumption
  OBVIOUS
<1>1. \A k \in Key : k \in KeyText
  BY KeyAssumption
<1>2. SentText \in [1 .. HeaderText -> Char]
  BY OneGoodBlock, LenProperties DEF HeaderText
<1>3. \A k \in Key : encryption(SentText, k) \in [1 .. HeaderText -> Char]
  BY <1>1, SentTextSurvives DEF HeaderText
<1>4. \A k, l \in Key : (decryption(encryption(SentText, k), l) = SentText) <=> (k = l)
  BY <1>1, SentTextSurvives DEF NoOtherKey
<1> QED
  BY <1>2, <1>3, <1>4 DEF Header!CipherAssumption
=============================================================================
