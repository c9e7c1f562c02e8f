----------------------------- MODULE AesRounds ------------------------------
(***************************************************************************)
(* What class AES does with one block and its key, as functions: the       *)
(* schedule of _expandKey, the round functions, and _encryption and        *)
(* _decryption made of them.  A state is a function from the 16 positions  *)
(* of the code's vector to bytes, a key a sequence of words of 4 bytes.    *)
(***************************************************************************)
EXTENDS AesBytes, Sequences

Ncol == 4
Nstate == 16
Position == 0 .. Nstate - 1
Block == [Position -> Byte]
Word == [1 .. 4 -> Byte]

\* The constructor takes keys of 128, 192 and 256 bits.
CipherKey == {k \in Seq(Word) : Len(k) \in {4, 6, 8}}

Rounds(nkey) == 6 + nkey

-----------------------------------------------------------------------------
(* The key *)

XorWord(v, w) == [n \in 1 .. 4 |-> Xor(v[n], w[n])]

SubWord(w) == [n \in 1 .. 4 |-> mappingSBox(w[n])]

RotWord(w) == <<w[2], w[3], w[4], w[1]>>

\* slip: the extra substitution of AES-256 is left out.
keyMaskPlain(nkey, i, w) ==
  IF i % nkey = 0 THEN XorWord(SubWord(RotWord(w)), <<rcon(i \div nkey), 0, 0, 0>>) ELSE w

\* What word i is masked with, from word i - 1, for a key of nkey words.
keyMask(nkey, i, w) ==
  CASE i % nkey = 0 -> XorWord(SubWord(RotWord(w)), <<rcon(i \div nkey), 0, 0, 0>>)
    [] nkey = 8 /\ i % nkey = 4 -> SubWord(w)
    [] OTHER -> w

\* The schedule with its next word, as _expandKey makes it; words count from 0.
withNextWord(nkey, words) ==
  LET i == Len(words)
  IN  Append(words, XorWord(words[i - nkey + 1], keyMask(nkey, i, words[i])))

-----------------------------------------------------------------------------
(* The round functions *)

addRoundKey(s, roundKey, r) ==
  [p \in Position |-> Xor(s[p], roundKey[Ncol * r + (p \div 4) + 1][(p % 4) + 1])]

subBytes(s) == [p \in Position |-> mappingSBox(s[p])]
invSubBytes(s) == [p \in Position |-> mappingInvSBox(s[p])]

\* Row n is rotated by n columns; a position is 4 * column + row.
shiftRows(s) == [p \in Position |-> s[(p + 4 * (p % 4)) % Nstate]]

\* slip: row 3 is rotated the other way.
invShiftRowsTwisted(s) ==
  [p \in Position |-> s[(p + (IF p % 4 = 3 THEN 4 ELSE 12) * (p % 4)) % Nstate]]

invShiftRows(s) == [p \in Position |-> s[(p + 12 * (p % 4)) % Nstate]]

\* Row j of a 4 x 4 matrix of factors, given as one sequence, times column i.
MixedByte(fixed, times(_, _), s, i, j) ==
  LET t(k) == times(fixed[4 * j + k + 1], s[4 * i + k])
  IN  Xor(Xor(t(0), t(1)), Xor(t(2), t(3)))

mixColumns(s) ==
  LET fixed == <<2, 3, 1, 1, 1, 2, 3, 1, 1, 1, 2, 3, 3, 1, 1, 2>>
  IN  [p \in Position |-> MixedByte(fixed, factor, s, p \div 4, p % 4)]

invMixColumns(s) ==
  LET fixed == <<14, 11, 13, 9, 9, 14, 11, 13, 13, 9, 14, 11, 11, 13, 9, 14>>
  IN  [p \in Position |-> MixedByte(fixed, invFactor, s, p \div 4, p % 4)]

\* A round of _encryption with n rounds; the last one leaves out _mixColumns.
encryptRound(roundKey, n, r, s) ==
  LET shifted == shiftRows(subBytes(s))
  IN  addRoundKey(IF r < n THEN mixColumns(shifted) ELSE shifted, roundKey, r)

\* A round of _decryption; it ends with round key 0.
decryptRound(roundKey, r, s) ==
  LET unkeyed == addRoundKey(invSubBytes(invShiftRows(s)), roundKey, r)
  IN  IF r > 0 THEN invMixColumns(unkeyed) ELSE unkeyed

-----------------------------------------------------------------------------
(* The three loops *)

\* Iterate(a, step, n)[m]: what is made of a by steps 1 to m, of n.
Iterate(a, step, n) ==
  LET f[m \in 0 .. n] == IF m = 0 THEN a ELSE step[m][f[m - 1]]
  IN  f

\* Entry m: the key k with m of the n words that _expandKey adds.
Schedules(k, n) ==
  Iterate(k, [m \in 1 .. n |-> [words \in Seq(Word) |-> withNextWord(Len(k), words)]], n)

WordsAdded(nkey) == Ncol * (Rounds(nkey) + 1) - nkey

expandKey(k) == LET n == WordsAdded(Len(k)) IN Schedules(k, n)[n]

\* Entry r: the state of _encryption after round r of n.
Encryptions(roundKey, n, b) ==
  Iterate(addRoundKey(b, roundKey, 0),
          [r \in 1 .. n |-> [s \in Block |-> encryptRound(roundKey, n, r, s)]], n)

\* Entry r: the state of _decryption before it takes off round key n - 1 - r.
Decryptions(roundKey, n, c) ==
  Iterate(addRoundKey(c, roundKey, n),
          [r \in 1 .. n |-> [s \in Block |-> decryptRound(roundKey, n - r, s)]], n)

encBlock(k, b) == LET n == Rounds(Len(k)) IN Encryptions(expandKey(k), n, b)[n]
decBlock(k, c) == LET n == Rounds(Len(k)) IN Decryptions(expandKey(k), n, c)[n]

-----------------------------------------------------------------------------
(* What the modes make use of *)

\* _xor_iv.
xorBlock(a, b) == [p \in Position |-> Xor(a[p], b[p])]

(* The loops over a text with this cipher, any vector and any text.        *)
Modes == INSTANCE BlockCipher
           WITH Key <- CipherKey, IV <- Block, PlainText <- Seq(Block),
                Zero <- [p \in Position |-> 0]
=============================================================================
