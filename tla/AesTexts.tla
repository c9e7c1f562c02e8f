------------------------------ MODULE AesTexts ------------------------------
(***************************************************************************)
(* encryption and decryption of class AES in mode ECB, for texts: how they *)
(* cut a text into blocks and put it together again, and the two as        *)
(* functions of text and key, with the cipher of AesRounds inside.         *)
(***************************************************************************)
EXTENDS AesRounds, HexText

\* encryption's block_size, computed from the text's length.
blockSize(str) ==
  (Len(str) \div (2 * Nstate)) + (IF Len(str) % (2 * Nstate) # 0 THEN 1 ELSE 0)

\* slip: a signed byte.
lastSigned(size, start) == Min({Nstate, (size - start) % 128})

\* _createState's last: how much is left of a vector of size bytes, in a uint8_t.
last(size, start) == Min({Nstate, (size - start) % Width})

(* The loop of _createState stops, and reads inside its vector: its uint8_t *)
(* index runs from start to start + last, and has to be able to get there. *)
Readable(size, start) ==
  /\ start + last(size, start) < Width
  /\ start + last(size, start) <= size \/ last(size, start) = 0

\* slip: the rest of the block is left zero.
createStateZero(block, start) ==
  LET n == last(Len(block), start)
  IN  [p \in 1 .. Nstate |-> IF p <= n THEN block[start + p] ELSE 0]

createState(block, start) ==
  LET n == last(Len(block), start)
  IN  [p \in 1 .. Nstate |-> IF p <= n THEN block[start + p] ELSE Nstate - n]

\* The positions of a state from which on it looks like padding.
PaddingAt(state) ==
  {p \in 1 .. Nstate : \A q \in p .. Nstate : state[q] = Nstate + 1 - p}

\* _convertTypeByteStateToStr for decryption, which stops at the padding.
convertTypeByteStateToStr(state) ==
  IF PaddingAt(state) = {} THEN DigitsOf(state)
  ELSE DigitsOf(SubSeq(state, 1, Min(PaddingAt(state)) - 1))

-----------------------------------------------------------------------------
(* The calls *)

\* The hex texts of keys, each for the object made for its length.
KeyText == {str \in Seq(Char) : IsHex(str) /\ Len(str) \in {32, 48, 64}}

\* The words of a key, as _expandKey copies them.
keyWords(cipherKey) ==
  LET key == convertTypeStrToByteBlock(cipherKey)
  IN  [w \in 1 .. Len(key) \div 4 |-> [b \in 1 .. 4 |-> key[4 * (w - 1) + b]]]

\* A vector of 16 bytes as a state of AesRounds, and back.
asState(bytes) == [p \in Position |-> bytes[p + 1]]
asVector(state) == [n \in 1 .. Nstate |-> state[n - 1]]

\* Entry m: the first m pieces in a row, as a loop with += puts them.
Joins(pieces) ==
  LET n == Len(pieces)
  IN  Iterate(<<>>, [m \in 1 .. n |-> [str \in Seq(Char) |-> str \o pieces[m]]], n)

Joined(pieces) == Joins(pieces)[Len(pieces)]

\* slip: the blocks overlap, as the index is not multiplied by their size.
encryptionOverlapping(input, cipherKey) ==
  LET plainText == convertTypeStrToByteBlock(input)
  IN  Joined([m \in 1 .. blockSize(input) |->
               DigitsOf(asVector(encBlock(keyWords(cipherKey),
                                          asState(createState(plainText, m - 1)))))])

encryption(input, cipherKey) ==
  LET plainText == convertTypeStrToByteBlock(input)
  IN  Joined([m \in 1 .. blockSize(input) |->
               DigitsOf(asVector(encBlock(keyWords(cipherKey),
                                          asState(createState(plainText, Nstate * (m - 1))))))])

\* An incomplete block at the end is left out.
decryption(input, cipherKey) ==
  LET cipherText == convertTypeStrToByteBlock(input)
  IN  Joined([m \in 1 .. Len(input) \div (2 * Nstate) |->
               convertTypeByteStateToStr(
                 asVector(decBlock(keyWords(cipherKey),
                                   asState(createState(cipherText, Nstate * (m - 1))))))])

\* VPNApplication::SendPacket's plainText, one block.
SentBytes == <<98, 83, 17, 36, 85, 35, 34, 49, 21, 103, 171, 209, 80, 187, 255, 204>>
SentText == DigitsOf(SentBytes)
=============================================================================
