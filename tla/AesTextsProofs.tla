--------------------------- MODULE AesTextsProofs ---------------------------
(***************************************************************************)
(* Class AES from one block to texts: the rounds of decryption undo those  *)
(* of encryption, for every key and block; vectors of bytes, digits and    *)
(* padding come apart and together; and with both, what decryption makes   *)
(* of encryption's result.                                                 *)
(***************************************************************************)
EXTENDS AesTexts, AesBytesProofs, SequenceTheorems

-----------------------------------------------------------------------------
(* The round functions *)

\* The schedules for n rounds.
Schedule(n) == {w \in Seq(Word) : Len(w) = Ncol * (n + 1)}

\* Every byte that _addRoundKey takes from the schedule is one.
LEMMA RoundKeyBytes ==
  ASSUME NEW n \in Nat, NEW w \in Schedule(n), NEW r \in 0 .. n, NEW p \in Position
  PROVE  w[Ncol * r + (p \div 4) + 1][(p % 4) + 1] \in Byte
<1>1. Ncol * r + (p \div 4) + 1 \in 1 .. Len(w) /\ (p % 4) + 1 \in 1 .. 4
  BY DEF Schedule, Ncol, Position, Nstate
<1>2. w[Ncol * r + (p \div 4) + 1] \in Word
  BY <1>1 DEF Schedule
<1> QED
  BY <1>1, <1>2 DEF Word

\* Adding the same round key twice gives back the state.
LEMMA AddRoundKeyUndoes ==
  ASSUME NEW n \in Nat, NEW w \in Schedule(n), NEW r \in 0 .. n, NEW s \in Block
  PROVE  addRoundKey(s, w, r) \in Block /\ addRoundKey(addRoundKey(s, w, r), w, r) = s
<1> DEFINE k(p) == w[Ncol * r + (p \div 4) + 1][(p % 4) + 1]
<1>1. \A p \in Position : k(p) \in Byte /\ s[p] \in Byte
  BY RoundKeyBytes DEF Block
<1>2. addRoundKey(s, w, r) = [p \in Position |-> Xor(s[p], k(p))]
  BY DEF addRoundKey
<1>3. addRoundKey(addRoundKey(s, w, r), w, r)
        = [p \in Position |-> Xor(addRoundKey(s, w, r)[p], k(p))]
  BY DEF addRoundKey
<1> HIDE DEF k
<1>4. \A p \in Position : Xor(s[p], k(p)) \in Byte /\ Xor(Xor(s[p], k(p)), k(p)) = s[p]
  BY <1>1, XorBits, XorTwice
<1> QED
  BY <1>1, <1>2, <1>3, <1>4 DEF Block

\* _invSubBytes undoes _subBytes.
LEMMA SubBytesUndoes ==
  ASSUME NEW s \in Block
  PROVE  subBytes(s) \in Block /\ invSubBytes(subBytes(s)) = s
<1>1. \A p \in Position : s[p] \in Byte
  BY DEF Block
<1> QED
  BY <1>1, TablesInverseEverywhere DEF Block, subBytes, invSubBytes

\* _invShiftRows undoes _shiftRows.
LEMMA ShiftRowsUndoes ==
  ASSUME NEW s \in Block
  PROVE  shiftRows(s) \in Block /\ invShiftRows(shiftRows(s)) = s
<1>1. \A p \in Position : /\ (p + 4 * (p % 4)) % Nstate \in Position
                          /\ (p + 12 * (p % 4)) % Nstate \in Position
  BY DEF Position, Nstate
<1>2. ASSUME NEW p \in Position
      PROVE  LET q == (p + 12 * (p % 4)) % Nstate
             IN  (q + 4 * (q % 4)) % Nstate = p
  <2>1. ((p + 12 * (p % 4)) % Nstate) % 4 = p % 4
    BY DEF Position, Nstate
  <2> QED
    BY <2>1 DEF Position, Nstate
<1>3. shiftRows(s) \in Block
  BY <1>1 DEF shiftRows, Block
<1>4. \A p \in Position : invShiftRows(shiftRows(s))[p] = s[p]
  BY <1>1, <1>2 DEF shiftRows, invShiftRows
<1> QED
  BY <1>3, <1>4 DEF Block, invShiftRows

\* The next row of the same column.
Below(p) == 4 * (p \div 4) + ((p + 1) % 4)

\* Four steps down a column lead round to the start.
LEMMA Columns ==
  ASSUME NEW p \in Position
  PROVE  /\ Below(p) \in Position /\ Below(Below(p)) \in Position
         /\ Below(Below(Below(p))) \in Position /\ Below(Below(Below(Below(p)))) = p
<1>1. \A q \in Position : Below(q) \in Position /\ Below(q) \div 4 = q \div 4
                          /\ Below(q) % 4 = ((q % 4) + 1) % 4
  BY DEF Below, Position, Nstate
<1>2. \A q \in Position : q = 4 * (q \div 4) + (q % 4) /\ q % 4 \in 0 .. 3
  BY DEF Position, Nstate
<1> DEFINE q1 == Below(p)  q2 == Below(q1)  q3 == Below(q2)  q4 == Below(q3)
<1>3. /\ q1 \in Position /\ q2 \in Position /\ q3 \in Position /\ q4 \in Position
  BY <1>1
<1>4. q4 \div 4 = p \div 4 /\ q4 % 4 = ((((((((p % 4) + 1) % 4) + 1) % 4) + 1) % 4) + 1) % 4
  BY <1>1, <1>3
<1>5. q4 % 4 = p % 4
  BY <1>2, <1>4
<1> QED
  BY <1>2, <1>3, <1>4, <1>5

\* What both column functions make of the byte at p, whatever its row.
LEMMA MixColumnsByRows ==
  ASSUME NEW s \in Block, NEW p \in Position
  PROVE  /\ mixColumns(s)[p] = Mixed(s[p], s[Below(p)], s[Below(Below(p))],
                                     s[Below(Below(Below(p)))])
         /\ invMixColumns(s)[p] = Unmixed(s[p], s[Below(p)], s[Below(Below(p))],
                                          s[Below(Below(Below(p)))])
<1> DEFINE i == p \div 4  a == s[4 * i]  b == s[4 * i + 1]  c == s[4 * i + 2]  d == s[4 * i + 3]
<1>1. i \in 0 .. 3 /\ p % 4 \in 0 .. 3 /\ p = 4 * i + (p % 4)
  BY DEF Position, Nstate
<1>2. a \in Byte /\ b \in Byte /\ c \in Byte /\ d \in Byte
  <2>1. /\ 4 * i \in Position /\ 4 * i + 1 \in Position
        /\ 4 * i + 2 \in Position /\ 4 * i + 3 \in Position
    BY <1>1 DEF Position, Nstate
  <2> QED
    BY <2>1 DEF Block
<1>3. /\ factor(1, a) \in Byte /\ factor(2, a) \in Byte /\ factor(3, a) \in Byte
      /\ factor(1, b) \in Byte /\ factor(2, b) \in Byte /\ factor(3, b) \in Byte
      /\ factor(1, c) \in Byte /\ factor(2, c) \in Byte /\ factor(3, c) \in Byte
      /\ factor(1, d) \in Byte /\ factor(2, d) \in Byte /\ factor(3, d) \in Byte
      /\ invFactor(9, a) \in Byte /\ invFactor(11, a) \in Byte /\ invFactor(13, a) \in Byte
      /\ invFactor(14, a) \in Byte /\ invFactor(9, b) \in Byte /\ invFactor(11, b) \in Byte
      /\ invFactor(13, b) \in Byte /\ invFactor(14, b) \in Byte /\ invFactor(9, c) \in Byte
      /\ invFactor(11, c) \in Byte /\ invFactor(13, c) \in Byte /\ invFactor(14, c) \in Byte
      /\ invFactor(9, d) \in Byte /\ invFactor(11, d) \in Byte /\ invFactor(13, d) \in Byte
      /\ invFactor(14, d) \in Byte
  BY <1>2, FactorIsByte
<1>4. /\ mixColumns(s)[p] = MixedByte(<<2, 3, 1, 1, 1, 2, 3, 1, 1, 1, 2, 3, 3, 1, 1, 2>>,
                                      factor, s, i, p % 4)
      /\ invMixColumns(s)[p] = MixedByte(<<14, 11, 13, 9, 9, 14, 11, 13, 13, 9, 14, 11,
                                           11, 13, 9, 14>>, invFactor, s, i, p % 4)
  BY DEF mixColumns, invMixColumns
<1>5. CASE p % 4 = 0
  <2>1. /\ s[p] = a /\ s[Below(p)] = b
        /\ s[Below(Below(p))] = c /\ s[Below(Below(Below(p)))] = d
    <3>1. /\ p = 4 * i /\ Below(p) = 4 * i + 1
          /\ Below(Below(p)) = 4 * i + 2 /\ Below(Below(Below(p))) = 4 * i + 3
      BY <1>1, <1>5 DEF Below
    <3> QED
      BY <3>1
  <2>2. /\ mixColumns(s)[p] = Sum4(factor(2, a), factor(3, b), factor(1, c), factor(1, d))
        /\ invMixColumns(s)[p] = Sum4(invFactor(14, a), invFactor(11, b),
                                      invFactor(13, c), invFactor(9, d))
    <3>1. /\ 4 * (p % 4) + 0 + 1 = 1 /\ 4 * (p % 4) + 1 + 1 = 2
          /\ 4 * (p % 4) + 2 + 1 = 3 /\ 4 * (p % 4) + 3 + 1 = 4
          /\ 4 * i + 0 = 4 * i
      BY <1>1, <1>5
    <3> QED
      BY <3>1, <1>4 DEF MixedByte, Sum4
  <2> HIDE DEF a, b, c, d
  <2>3. mixColumns(s)[p]
          = Mixed(s[p], s[Below(p)], s[Below(Below(p))], s[Below(Below(Below(p)))])
    <3>1. /\ factor(2, a) \in Byte /\ factor(3, b) \in Byte
          /\ factor(1, c) \in Byte /\ factor(1, d) \in Byte
      BY <1>3
    <3> QED
      BY <3>1, <2>1, <2>2, SumRotates DEF Mixed
  <2>4. invMixColumns(s)[p]
          = Unmixed(s[p], s[Below(p)], s[Below(Below(p))], s[Below(Below(Below(p)))])
    <3>1. /\ invFactor(14, a) \in Byte /\ invFactor(11, b) \in Byte
          /\ invFactor(13, c) \in Byte /\ invFactor(9, d) \in Byte
      BY <1>3
    <3> QED
      BY <3>1, <2>1, <2>2, SumRotates DEF Unmixed
  <2> QED
    BY <2>3, <2>4
<1>6. CASE p % 4 = 1
  <2>1. /\ s[p] = b /\ s[Below(p)] = c
        /\ s[Below(Below(p))] = d /\ s[Below(Below(Below(p)))] = a
    <3>1. /\ p = 4 * i + 1 /\ Below(p) = 4 * i + 2
          /\ Below(Below(p)) = 4 * i + 3 /\ Below(Below(Below(p))) = 4 * i
      BY <1>1, <1>6 DEF Below
    <3> QED
      BY <3>1
  <2>2. /\ mixColumns(s)[p] = Sum4(factor(1, a), factor(2, b), factor(3, c), factor(1, d))
        /\ invMixColumns(s)[p] = Sum4(invFactor(9, a), invFactor(14, b),
                                      invFactor(11, c), invFactor(13, d))
    BY <1>1, <1>4, <1>6 DEF MixedByte, Sum4
  <2> HIDE DEF a, b, c, d
  <2>3. mixColumns(s)[p]
          = Mixed(s[p], s[Below(p)], s[Below(Below(p))], s[Below(Below(Below(p)))])
    <3>1. /\ factor(1, a) \in Byte /\ factor(2, b) \in Byte
          /\ factor(3, c) \in Byte /\ factor(1, d) \in Byte
      BY <1>3
    <3> QED
      BY <3>1, <2>1, <2>2, SumRotates DEF Mixed
  <2>4. invMixColumns(s)[p]
          = Unmixed(s[p], s[Below(p)], s[Below(Below(p))], s[Below(Below(Below(p)))])
    <3>1. /\ invFactor(9, a) \in Byte /\ invFactor(14, b) \in Byte
          /\ invFactor(11, c) \in Byte /\ invFactor(13, d) \in Byte
      BY <1>3
    <3> QED
      BY <3>1, <2>1, <2>2, SumRotates DEF Unmixed
  <2> QED
    BY <2>3, <2>4
<1>7. CASE p % 4 = 2
  <2>1. /\ s[p] = c /\ s[Below(p)] = d
        /\ s[Below(Below(p))] = a /\ s[Below(Below(Below(p)))] = b
    <3>1. /\ p = 4 * i + 2 /\ Below(p) = 4 * i + 3
          /\ Below(Below(p)) = 4 * i /\ Below(Below(Below(p))) = 4 * i + 1
      BY <1>1, <1>7 DEF Below
    <3> QED
      BY <3>1
  <2>2. /\ mixColumns(s)[p] = Sum4(factor(1, a), factor(1, b), factor(2, c), factor(3, d))
        /\ invMixColumns(s)[p] = Sum4(invFactor(13, a), invFactor(9, b),
                                      invFactor(14, c), invFactor(11, d))
    BY <1>1, <1>4, <1>7 DEF MixedByte, Sum4
  <2> HIDE DEF a, b, c, d
  <2>3. mixColumns(s)[p]
          = Mixed(s[p], s[Below(p)], s[Below(Below(p))], s[Below(Below(Below(p)))])
    <3>1. /\ factor(1, a) \in Byte /\ factor(1, b) \in Byte
          /\ factor(2, c) \in Byte /\ factor(3, d) \in Byte
      BY <1>3
    <3> QED
      BY <3>1, <2>1, <2>2, SumRotates DEF Mixed
  <2>4. invMixColumns(s)[p]
          = Unmixed(s[p], s[Below(p)], s[Below(Below(p))], s[Below(Below(Below(p)))])
    <3>1. /\ invFactor(13, a) \in Byte /\ invFactor(9, b) \in Byte
          /\ invFactor(14, c) \in Byte /\ invFactor(11, d) \in Byte
      BY <1>3
    <3> QED
      BY <3>1, <2>1, <2>2, SumRotates DEF Unmixed
  <2> QED
    BY <2>3, <2>4
<1>8. CASE p % 4 = 3
  <2>1. /\ s[p] = d /\ s[Below(p)] = a
        /\ s[Below(Below(p))] = b /\ s[Below(Below(Below(p)))] = c
    <3>1. /\ p = 4 * i + 3 /\ Below(p) = 4 * i
          /\ Below(Below(p)) = 4 * i + 1 /\ Below(Below(Below(p))) = 4 * i + 2
      BY <1>1, <1>8 DEF Below
    <3> QED
      BY <3>1
  <2>2. /\ mixColumns(s)[p] = Sum4(factor(3, a), factor(1, b), factor(1, c), factor(2, d))
        /\ invMixColumns(s)[p] = Sum4(invFactor(11, a), invFactor(13, b),
                                      invFactor(9, c), invFactor(14, d))
    BY <1>1, <1>4, <1>8 DEF MixedByte, Sum4
  <2> HIDE DEF a, b, c, d
  <2>3. mixColumns(s)[p]
          = Mixed(s[p], s[Below(p)], s[Below(Below(p))], s[Below(Below(Below(p)))])
    <3>1. /\ factor(3, a) \in Byte /\ factor(1, b) \in Byte
          /\ factor(1, c) \in Byte /\ factor(2, d) \in Byte
      BY <1>3
    <3> QED
      BY <3>1, <2>1, <2>2, SumRotates DEF Mixed
  <2>4. invMixColumns(s)[p]
          = Unmixed(s[p], s[Below(p)], s[Below(Below(p))], s[Below(Below(Below(p)))])
    <3>1. /\ invFactor(11, a) \in Byte /\ invFactor(13, b) \in Byte
          /\ invFactor(9, c) \in Byte /\ invFactor(14, d) \in Byte
      BY <1>3
    <3> QED
      BY <3>1, <2>1, <2>2, SumRotates DEF Unmixed
  <2> QED
    BY <2>3, <2>4
<1> QED
  BY <1>1, <1>5, <1>6, <1>7, <1>8

\* _invMixColumns undoes _mixColumns: UnmixedMixed at every position.
LEMMA MixColumnsUndoes ==
  ASSUME NEW s \in Block
  PROVE  mixColumns(s) \in Block /\ invMixColumns(mixColumns(s)) = s
<1> DEFINE m == mixColumns(s)
<1>1. \A p \in Position : m[p] \in Byte
  <2> TAKE p \in Position
  <2> DEFINE a == s[p]  b == s[Below(p)]  c == s[Below(Below(p))]  d == s[Below(Below(Below(p)))]
  <2>1. a \in Byte /\ b \in Byte /\ c \in Byte /\ d \in Byte
    BY Columns DEF Block
  <2>2. m[p] = Mixed(a, b, c, d)
    BY MixColumnsByRows
  <2> HIDE DEF a, b, c, d, m
  <2>3. /\ factor(2, a) \in Byte /\ factor(3, b) \in Byte
        /\ factor(1, c) \in Byte /\ factor(1, d) \in Byte
    BY <2>1, FactorIsByte
  <2> QED
    BY <2>2, <2>3, SumIsByte DEF Mixed
<1>2. m \in Block
  <2>1. DOMAIN m = Position /\ m = [p \in Position |-> m[p]]
    BY DEF mixColumns
  <2> HIDE DEF m
  <2> QED
    BY <1>1, <2>1 DEF Block
<1>3. ASSUME NEW p \in Position
      PROVE  invMixColumns(m)[p] = s[p]
  <2> DEFINE p1 == Below(p)  p2 == Below(p1)  p3 == Below(p2)
             a == s[p]  b == s[p1]  c == s[p2]  d == s[p3]
  <2>1. /\ p1 \in Position /\ p2 \in Position /\ p3 \in Position
        /\ Below(p3) = p
    BY Columns
  <2>2. invMixColumns(m)[p] = Unmixed(m[p], m[p1], m[p2], m[p3])
    BY <1>2, MixColumnsByRows
  <2>3. /\ m[p] = Mixed(a, b, c, d) /\ m[p1] = Mixed(b, c, d, a)
        /\ m[p2] = Mixed(c, d, a, b) /\ m[p3] = Mixed(d, a, b, c)
    BY <2>1, MixColumnsByRows
  <2>4. a \in Byte /\ b \in Byte /\ c \in Byte /\ d \in Byte
    BY <2>1 DEF Block
  <2> HIDE DEF a, b, c, d, m, p1, p2, p3
  <2>5. Unmixed(m[p], m[p1], m[p2], m[p3]) = a
    BY <2>3, <2>4, UnmixedMixed
  <2> QED
    BY <2>2, <2>5 DEF a
<1>4. invMixColumns(m) = [p \in Position |-> invMixColumns(m)[p]]
  BY DEF invMixColumns
<1> HIDE DEF m
<1>5. invMixColumns(m) = s
  BY <1>3, <1>4 DEF Block
<1> QED
  BY <1>2, <1>5 DEF m

-----------------------------------------------------------------------------
(* The key *)

\* The exclusive or of two words is a word.
LEMMA XorIsWord ==
  ASSUME NEW u \in Word, NEW v \in Word
  PROVE  XorWord(u, v) \in Word
<1>1. \A n \in 1 .. 4 : u[n] \in Byte /\ v[n] \in Byte
  BY DEF Word
<1>2. \A n \in 1 .. 4 : Xor(u[n], v[n]) \in Byte
  BY <1>1, XorBits
<1> QED
  BY <1>2 DEF XorWord, Word

\* What _expandKey masks a word with is a word: its reads of rcon_ stay inside.
LEMMA MaskIsWord ==
  ASSUME NEW nkey \in {4, 6, 8}, NEW i \in nkey .. Ncol * (Rounds(nkey) + 1) - 1,
         NEW w \in Word
  PROVE  keyMask(nkey, i, w) \in Word
<1>1. w[1] \in Byte /\ w[2] \in Byte /\ w[3] \in Byte /\ w[4] \in Byte
  BY DEF Word
<1>2. RotWord(w) \in Word
  BY <1>1 DEF RotWord, Word
<1>3. \A v \in Word : SubWord(v) \in Word
  <2>1. \A v \in Word : \A n \in 1 .. 4 : v[n] \in Byte
    BY DEF Word
  <2>2. \A v \in Word : \A n \in 1 .. 4 : mappingSBox(v[n]) \in Byte
    BY <2>1, TablesInverseEverywhere
  <2> QED
    BY <2>2 DEF SubWord, Word
<1>4. i \div nkey \in 0 .. 10
  BY DEF Ncol, Rounds
<1>5. rcon(i \div nkey) \in Byte
  <2>1. \A n \in 0 .. 10 : rcon(n) \in Byte
    BY DEF rcon, Byte
  <2> QED
    BY <1>4, <2>1
<1>6. <<rcon(i \div nkey), 0, 0, 0>> \in Word
  BY <1>5 DEF Word, Byte
<1> QED
  BY <1>2, <1>3, <1>6, XorIsWord DEF keyMask

\* The next word of the schedule is a word.
LEMMA NextWord ==
  ASSUME NEW nkey \in {4, 6, 8}, NEW words \in Seq(Word),
         Len(words) \in nkey .. Ncol * (Rounds(nkey) + 1) - 1
  PROVE  /\ withNextWord(nkey, words) \in Seq(Word)
         /\ Len(withNextWord(nkey, words)) = Len(words) + 1
<1> DEFINE i == Len(words)
           word == XorWord(words[i - nkey + 1], keyMask(nkey, i, words[i]))
<1>1. words[i - nkey + 1] \in Word /\ words[i] \in Word
  OBVIOUS
<1>2. keyMask(nkey, i, words[i]) \in Word
  BY <1>1, MaskIsWord
<1>3. word \in Word
  BY <1>1, <1>2, XorIsWord
<1>4. withNextWord(nkey, words) = Append(words, word)
  BY DEF withNextWord
<1> HIDE DEF word
<1> QED
  BY <1>3, <1>4

-----------------------------------------------------------------------------
(* One round *)

\* The substituted and rotated state of a round.
Shifted(s) == shiftRows(subBytes(s))

\* A round of encryption makes a block of a block.
LEMMA RoundIsBlock ==
  ASSUME NEW n \in Nat, NEW w \in Schedule(n), NEW r \in 0 .. n, NEW s \in Block
  PROVE  /\ Shifted(s) \in Block
         /\ encryptRound(w, n, r, s) \in Block
<1>1. Shifted(s) \in Block
  BY SubBytesUndoes, ShiftRowsUndoes DEF Shifted
<1>2. mixColumns(Shifted(s)) \in Block
  BY <1>1, MixColumnsUndoes
<1> QED
  BY <1>1, <1>2, AddRoundKeyUndoes DEF encryptRound, Shifted

\* The last round left _mixColumns out: its key is all there is to take off.
LEMMA LastRoundBack ==
  ASSUME NEW n \in Nat, NEW w \in Schedule(n), NEW s \in Block
  PROVE  addRoundKey(encryptRound(w, n, n, s), w, n) = Shifted(s)
<1>1. encryptRound(w, n, n, s) = addRoundKey(Shifted(s), w, n)
  BY DEF encryptRound, Shifted
<1> QED
  BY <1>1, RoundIsBlock, AddRoundKeyUndoes

\* A round of decryption undoes the end of a round and the start of the next.
LEMMA RoundBack ==
  ASSUME NEW n \in Nat, NEW w \in Schedule(n), NEW r \in 1 .. n - 1, NEW s \in Block
  PROVE  decryptRound(w, r, Shifted(encryptRound(w, n, r, s))) = Shifted(s)
<1> DEFINE mixed == mixColumns(Shifted(s))
<1>1. Shifted(s) \in Block /\ mixed \in Block /\ invMixColumns(mixed) = Shifted(s)
  BY RoundIsBlock, MixColumnsUndoes
<1>2. encryptRound(w, n, r, s) = addRoundKey(mixed, w, r)
  BY DEF encryptRound, Shifted
<1> HIDE DEF mixed
<1>3. addRoundKey(mixed, w, r) \in Block /\ addRoundKey(addRoundKey(mixed, w, r), w, r) = mixed
  BY <1>1, AddRoundKeyUndoes
<1>4. invSubBytes(invShiftRows(Shifted(addRoundKey(mixed, w, r)))) = addRoundKey(mixed, w, r)
  BY <1>3, SubBytesUndoes, ShiftRowsUndoes DEF Shifted
<1> QED
  BY <1>1, <1>2, <1>3, <1>4 DEF decryptRound

\* The last one undoes the start of encryption.
LEMMA FirstRoundBack ==
  ASSUME NEW n \in Nat, NEW w \in Schedule(n), NEW b \in Block
  PROVE  decryptRound(w, 0, Shifted(addRoundKey(b, w, 0))) = b
<1>1. addRoundKey(b, w, 0) \in Block /\ addRoundKey(addRoundKey(b, w, 0), w, 0) = b
  BY AddRoundKeyUndoes
<1>2. invSubBytes(invShiftRows(Shifted(addRoundKey(b, w, 0)))) = addRoundKey(b, w, 0)
  BY <1>1, SubBytesUndoes, ShiftRowsUndoes DEF Shifted
<1> QED
  BY <1>1, <1>2 DEF decryptRound

\* Decryption makes blocks of all blocks, enciphered or not.
LEMMA DecryptRoundIsBlock ==
  ASSUME NEW n \in Nat, NEW w \in Schedule(n), NEW r \in 0 .. n, NEW s \in Block
  PROVE  decryptRound(w, r, s) \in Block
<1>1. invShiftRows(s) \in Block
  <2>1. \A p \in Position : (p + 12 * (p % 4)) % Nstate \in Position
    BY DEF Position, Nstate
  <2> QED
    BY <2>1 DEF invShiftRows, Block
<1>2. \A t \in Block : invSubBytes(t) \in Block
  <2>1. \A t \in Block : \A p \in Position : t[p] \in Byte
    BY DEF Block
  <2> QED
    BY <2>1, TablesInverseEverywhere DEF invSubBytes, Block
<1>3. \A t \in Block : invMixColumns(t) \in Block
  <2> TAKE t \in Block
  <2>1. ASSUME NEW p \in Position
        PROVE  invMixColumns(t)[p] \in Byte
    <3> DEFINE a == t[p]  b == t[Below(p)]  c == t[Below(Below(p))]
               d == t[Below(Below(Below(p)))]
    <3>1. a \in Byte /\ b \in Byte /\ c \in Byte /\ d \in Byte
      BY Columns DEF Block
    <3>2. invMixColumns(t)[p] = Unmixed(a, b, c, d)
      BY MixColumnsByRows
    <3> HIDE DEF a, b, c, d
    <3>3. /\ invFactor(14, a) \in Byte /\ invFactor(11, b) \in Byte
          /\ invFactor(13, c) \in Byte /\ invFactor(9, d) \in Byte
      BY <3>1, FactorIsByte
    <3> QED
      BY <3>2, <3>3, SumIsByte DEF Unmixed
  <2>2. invMixColumns(t) = [p \in Position |-> invMixColumns(t)[p]]
    BY DEF invMixColumns
  <2> QED
    BY <2>1, <2>2 DEF Block
<1>4. addRoundKey(invSubBytes(invShiftRows(s)), w, r) \in Block
  BY <1>1, <1>2, AddRoundKeyUndoes
<1> QED
  BY <1>3, <1>4 DEF decryptRound

-----------------------------------------------------------------------------
(* Iteration *)

\* Iterate is what its recursive definition says.
LEMMA IterateIs ==
  ASSUME NEW n \in Nat, NEW a, NEW step
  PROVE  /\ Iterate(a, step, n)[0] = a
         /\ \A m \in 1 .. n : Iterate(a, step, n)[m] = step[m][Iterate(a, step, n)[m - 1]]
<1> DEFINE Fits(f, k) == f = [m \in 0 .. k |-> IF m = 0 THEN a ELSE step[m][f[m - 1]]]
           T == {k \in 0 .. n : \E f : Fits(f, k)}
<1>1. 0 \in T
  <2>1. Fits([m \in 0 .. 0 |-> a], 0)
    OBVIOUS
  <2> HIDE DEF Fits
  <2> QED
    BY <2>1
<1>2. ASSUME NEW k \in 1 .. n, k - 1 \in T
      PROVE  k \in T
  <2>1. PICK f : Fits(f, k - 1)
    BY <1>2
  <2> DEFINE g == [m \in 0 .. k |-> IF m = k THEN step[k][f[k - 1]] ELSE f[m]]
  <2>2. \A m \in 0 .. k : g[m] = IF m = 0 THEN a ELSE step[m][g[m - 1]]
    <3> TAKE m \in 0 .. k
    <3>1. CASE m = k
      BY <3>1
    <3>2. CASE m # k
      <4>1. m \in 0 .. k - 1 /\ (m # 0 => m - 1 \in 0 .. k - 1 /\ m - 1 # k)
        BY <3>2
      <4>2. f[m] = IF m = 0 THEN a ELSE step[m][f[m - 1]]
        BY <2>1, <4>1
      <4>3. g[m] = f[m] /\ (m # 0 => g[m - 1] = f[m - 1])
        BY <3>2, <4>1
      <4> QED
        BY <4>2, <4>3
    <3> QED
      BY <3>1, <3>2
  <2>3. Fits(g, k)
    <3>1. g = [m \in 0 .. k |-> g[m]]
      OBVIOUS
    <3> HIDE DEF g
    <3> QED
      BY <2>2, <3>1
  <2> HIDE DEF Fits, g
  <2> QED
    BY <2>3
<1>3. PICK f : Fits(f, n)
  <2> HIDE DEF T
  <2>1. 0 .. n \subseteq T
    BY <1>1, <1>2, Induction
  <2> USE DEF T
  <2> QED
    BY <2>1
<1> DEFINE h == Iterate(a, step, n)
<1>4. h = [m \in 0 .. n |-> IF m = 0 THEN a ELSE step[m][h[m - 1]]]
  BY <1>3, Zenon DEF Iterate
<1> HIDE DEF h
<1>5. \A m \in 0 .. n : h[m] = IF m = 0 THEN a ELSE step[m][h[m - 1]]
  BY <1>4
<1>6. 0 \in 0 .. n /\ \A m \in 1 .. n : m \in 0 .. n /\ m # 0
  OBVIOUS
<1> QED
  BY <1>5, <1>6 DEF h

\* What every step keeps holds all along.
LEMMA IterateStays ==
  ASSUME NEW n \in Nat, NEW S, NEW a \in S[0], NEW step,
         \A m \in 1 .. n : \A s \in S[m - 1] : step[m][s] \in S[m]
  PROVE  \A m \in 0 .. n : Iterate(a, step, n)[m] \in S[m]
<1> DEFINE h == Iterate(a, step, n)
           T == {m \in 0 .. n : h[m] \in S[m]}
<1>1. h[0] = a /\ \A m \in 1 .. n : h[m] = step[m][h[m - 1]]
  BY IterateIs
<1> HIDE DEF h
<1>2. 0 \in T
  BY <1>1
<1>3. ASSUME NEW m \in 1 .. n, m - 1 \in T
      PROVE  m \in T
  BY <1>1, <1>3
<1> HIDE DEF T
<1>4. 0 .. n \subseteq T
  BY <1>2, <1>3, Induction
<1> QED
  BY <1>4 DEF T, h

-----------------------------------------------------------------------------
(* The functions *)

\* The schedules of a key.
Words(k) == Schedules(k, WordsAdded(Len(k)))

\* Entry m of the expansion has m words more than the key, and is made of the one before.
LEMMA SchedulesGrow ==
  ASSUME NEW k \in CipherKey
  PROVE  /\ WordsAdded(Len(k)) \in Nat
         /\ Len(k) + WordsAdded(Len(k)) = Ncol * (Rounds(Len(k)) + 1)
         /\ Words(k)[0] = k
         /\ \A m \in 0 .. WordsAdded(Len(k)) : /\ Words(k)[m] \in Seq(Word)
                                               /\ Len(Words(k)[m]) = Len(k) + m
         /\ \A m \in 1 .. WordsAdded(Len(k)) :
              Words(k)[m] = withNextWord(Len(k), Words(k)[m - 1])
<1> DEFINE n == WordsAdded(Len(k))
           step == [m \in 1 .. n |-> [words \in Seq(Word) |-> withNextWord(Len(k), words)]]
           S == [m \in 0 .. n |-> {w \in Seq(Word) : Len(w) = Len(k) + m}]
<1>1. Len(k) \in {4, 6, 8} /\ k \in Seq(Word)
  BY DEF CipherKey
<1>2. n \in Nat /\ Len(k) + n = Ncol * (Rounds(Len(k)) + 1)
  BY <1>1 DEF WordsAdded, Ncol, Rounds
<1> HIDE DEF n
<1>3. k \in S[0]
  BY <1>1, <1>2
<1>4. ASSUME NEW m \in 1 .. n, NEW w \in S[m - 1]
      PROVE  step[m][w] = withNextWord(Len(k), w) /\ step[m][w] \in S[m]
  <2>1. w \in Seq(Word) /\ Len(w) = Len(k) + (m - 1)
    BY <1>2
  <2>2. step[m][w] = withNextWord(Len(k), w)
    BY <2>1
  <2>3. Len(w) \in Len(k) .. Ncol * (Rounds(Len(k)) + 1) - 1
    BY <1>1, <1>2, <2>1
  <2>4. withNextWord(Len(k), w) \in Seq(Word) /\ Len(withNextWord(Len(k), w)) = Len(w) + 1
    BY <1>1, <2>1, <2>3, NextWord
  <2>5. Len(w) + 1 = Len(k) + m
    BY <1>1, <2>1
  <2> QED
    BY <1>2, <2>2, <2>4, <2>5
<1>5. Words(k) = Iterate(k, step, n)
  BY DEF Schedules, Words, n
<1>6. \A m \in 0 .. n : S[m] = {w \in Seq(Word) : Len(w) = Len(k) + m}
  OBVIOUS
<1> HIDE DEF step, S
<1>7. /\ Words(k)[0] = k
      /\ \A m \in 1 .. n : Words(k)[m] = step[m][Words(k)[m - 1]]
  BY <1>2, <1>5, IterateIs
<1>8. \A m \in 0 .. n : Words(k)[m] \in S[m]
  BY <1>2, <1>3, <1>4, <1>5, IterateStays
<1>9. \A m \in 1 .. n : m - 1 \in 0 .. n
  BY <1>2
<1> QED
  BY <1>2, <1>4, <1>6, <1>7, <1>8, <1>9 DEF n

\* The expanded key has a round key for the start and for each round.
LEMMA ExpandedKey ==
  ASSUME NEW k \in CipherKey
  PROVE  Rounds(Len(k)) \in {10, 12, 14} /\ expandKey(k) \in Schedule(Rounds(Len(k)))
<1> DEFINE n == WordsAdded(Len(k))
<1>1. n \in Nat /\ n \in 0 .. n /\ Len(k) + n = Ncol * (Rounds(Len(k)) + 1)
  BY SchedulesGrow
<1>2. expandKey(k) = Words(k)[n]
  BY DEF expandKey, Words
<1>3. Words(k)[n] \in Seq(Word) /\ Len(Words(k)[n]) = Len(k) + n
  BY <1>1, SchedulesGrow
<1>4. Rounds(Len(k)) \in {10, 12, 14}
  <2>1. \A nkey \in {4, 6, 8} : Rounds(nkey) \in {10, 12, 14}
    BY DEF Rounds
  <2> QED
    BY <2>1 DEF CipherKey
<1> HIDE DEF n
<1> QED
  BY <1>1, <1>2, <1>3, <1>4 DEF Schedule

\* The states of _encryption are blocks, each a round of the one before.
LEMMA EncryptionsAre ==
  ASSUME NEW n \in Nat, NEW w \in Schedule(n), NEW b \in Block
  PROVE  /\ Encryptions(w, n, b)[0] = addRoundKey(b, w, 0)
         /\ \A r \in 0 .. n : Encryptions(w, n, b)[r] \in Block
         /\ \A r \in 1 .. n :
              Encryptions(w, n, b)[r] = encryptRound(w, n, r, Encryptions(w, n, b)[r - 1])
<1> DEFINE step == [r \in 1 .. n |-> [s \in Block |-> encryptRound(w, n, r, s)]]
           S == [r \in 0 .. n |-> Block]
           a == addRoundKey(b, w, 0)
<1>1. a \in S[0]
  BY AddRoundKeyUndoes
<1>2. ASSUME NEW r \in 1 .. n, NEW s \in Block
      PROVE  step[r][s] = encryptRound(w, n, r, s) /\ step[r][s] \in Block
  <2>1. r \in 0 .. n
    OBVIOUS
  <2> QED
    BY <2>1, RoundIsBlock
<1>3. Encryptions(w, n, b) = Iterate(a, step, n)
  BY DEF Encryptions
<1>4. /\ \A r \in 0 .. n : S[r] = Block
      /\ \A r \in 1 .. n : r \in 0 .. n /\ r - 1 \in 0 .. n
  OBVIOUS
<1> HIDE DEF step, S, a
<1>5. /\ Encryptions(w, n, b)[0] = a
      /\ \A r \in 1 .. n : Encryptions(w, n, b)[r] = step[r][Encryptions(w, n, b)[r - 1]]
  BY <1>3, IterateIs
<1>6. \A r \in 1 .. n : \A s \in S[r - 1] : step[r][s] \in S[r]
  BY <1>2, <1>4
<1>7. \A r \in 0 .. n : Encryptions(w, n, b)[r] \in S[r]
  BY <1>1, <1>3, <1>6, IterateStays
<1> QED
  BY <1>2, <1>4, <1>5, <1>7 DEF a

\* The same for _decryption, of any block.
LEMMA DecryptionsAre ==
  ASSUME NEW n \in Nat, NEW w \in Schedule(n), NEW c \in Block
  PROVE  /\ Decryptions(w, n, c)[0] = addRoundKey(c, w, n)
         /\ \A r \in 0 .. n : Decryptions(w, n, c)[r] \in Block
         /\ \A r \in 1 .. n :
              Decryptions(w, n, c)[r] = decryptRound(w, n - r, Decryptions(w, n, c)[r - 1])
<1> DEFINE step == [r \in 1 .. n |-> [s \in Block |-> decryptRound(w, n - r, s)]]
           S == [r \in 0 .. n |-> Block]
           a == addRoundKey(c, w, n)
<1>1. a \in S[0]
  BY AddRoundKeyUndoes
<1>2. ASSUME NEW r \in 1 .. n, NEW s \in Block
      PROVE  step[r][s] = decryptRound(w, n - r, s) /\ step[r][s] \in Block
  <2>1. n - r \in 0 .. n
    OBVIOUS
  <2> QED
    BY <2>1, DecryptRoundIsBlock
<1>3. Decryptions(w, n, c) = Iterate(a, step, n)
  BY DEF Decryptions
<1>4. /\ \A r \in 0 .. n : S[r] = Block
      /\ \A r \in 1 .. n : r \in 0 .. n /\ r - 1 \in 0 .. n
  OBVIOUS
<1> HIDE DEF step, S, a
<1>5. /\ Decryptions(w, n, c)[0] = a
      /\ \A r \in 1 .. n : Decryptions(w, n, c)[r] = step[r][Decryptions(w, n, c)[r - 1]]
  BY <1>3, IterateIs
<1>6. \A r \in 1 .. n : \A s \in S[r - 1] : step[r][s] \in S[r]
  BY <1>2, <1>4
<1>7. \A r \in 0 .. n : Decryptions(w, n, c)[r] \in S[r]
  BY <1>1, <1>3, <1>6, IterateStays
<1> QED
  BY <1>2, <1>4, <1>5, <1>7 DEF a

(* _decryption goes through the states of _encryption backwards: by        *)
(* induction over the rounds taken off.                                    *)
LEMMA DecryptionsMirror ==
  ASSUME NEW n \in Nat \ {0}, NEW w \in Schedule(n), NEW b \in Block
  PROVE  LET e == Encryptions(w, n, b)
             d == Decryptions(w, n, e[n])
         IN  /\ \A r \in 0 .. n - 1 : d[r] = Shifted(e[n - 1 - r])
             /\ d[n] = b
<1> DEFINE e == Encryptions(w, n, b)
           d == Decryptions(w, n, e[n])
           T == {r \in 0 .. n - 1 : d[r] = Shifted(e[n - 1 - r])}
<1>1. /\ e[0] = addRoundKey(b, w, 0)
      /\ \A r \in 0 .. n : e[r] \in Block
      /\ \A r \in 1 .. n : e[r] = encryptRound(w, n, r, e[r - 1])
  BY EncryptionsAre
<1>2. e[n] \in Block
  BY <1>1
<1> HIDE DEF e
<1>3. /\ d[0] = addRoundKey(e[n], w, n)
      /\ \A r \in 1 .. n : d[r] = decryptRound(w, n - r, d[r - 1])
  BY <1>2, DecryptionsAre
<1> HIDE DEF d
<1>4. 0 \in T
  <2>1. n \in 1 .. n /\ n - 1 \in 0 .. n /\ n - 1 - 0 = n - 1 /\ 0 \in 0 .. n - 1
    OBVIOUS
  <2>2. e[n] = encryptRound(w, n, n, e[n - 1]) /\ e[n - 1] \in Block
    BY <1>1, <2>1
  <2>3. d[0] = Shifted(e[n - 1])
    BY <1>3, <2>2, LastRoundBack
  <2> QED
    BY <2>1, <2>3
<1>5. ASSUME NEW r \in 1 .. n - 1, r - 1 \in T
      PROVE  r \in T
  <2>1. /\ n - r \in 1 .. n - 1 /\ n - r \in 1 .. n /\ n - 1 - (r - 1) = n - r
        /\ n - 1 - r = n - r - 1 /\ n - r - 1 \in 0 .. n /\ r \in 1 .. n /\ r \in 0 .. n - 1
    OBVIOUS
  <2>2. d[r - 1] = Shifted(e[n - r])
    BY <1>5, <2>1
  <2>3. e[n - r] = encryptRound(w, n, n - r, e[n - r - 1]) /\ e[n - r - 1] \in Block
    BY <1>1, <2>1
  <2>4. d[r] = Shifted(e[n - r - 1])
    BY <1>3, <2>1, <2>2, <2>3, RoundBack
  <2> QED
    BY <2>1, <2>4
<1>6. 0 .. n - 1 \subseteq T
  <2> HIDE DEF T
  <2>1. n - 1 \in Nat
    OBVIOUS
  <2> QED
    BY <1>4, <1>5, <2>1, Induction
<1>7. d[n] = b
  <2>1. n - 1 \in T /\ n - 1 - (n - 1) = 0 /\ n - n = 0 /\ n \in 1 .. n
    BY <1>6
  <2>2. d[n - 1] = Shifted(addRoundKey(b, w, 0))
    BY <1>1, <2>1
  <2>3. d[n] = decryptRound(w, 0, d[n - 1])
    BY <1>3, <2>1
  <2> QED
    BY <2>2, <2>3, FirstRoundBack
<1> QED
  BY <1>6, <1>7 DEF e, d

(* Class AES is a block cipher as module CipherModes takes one for         *)
(* granted: what is proved there of the modes holds of this cipher, for    *)
(* keys of all three lengths.                                              *)
THEOREM AesIsABlockCipher == Modes!BlockAssumption
<1>1. [p \in Position |-> 0] \in Block
  BY DEF Block, Byte
<1>2. \A a, b \in Block : xorBlock(a, b) \in Block /\ xorBlock(xorBlock(a, b), b) = a
  <2> TAKE a, b \in Block
  <2>1. \A p \in Position : a[p] \in Byte /\ b[p] \in Byte
    BY DEF Block
  <2>2. \A p \in Position : Xor(a[p], b[p]) \in Byte /\ Xor(Xor(a[p], b[p]), b[p]) = a[p]
    BY <2>1, XorBits, XorTwice
  <2> QED
    BY <2>2 DEF xorBlock, Block
<1>3. \A k \in CipherKey, b \in Block : /\ encBlock(k, b) \in Block
                                        /\ decBlock(k, b) \in Block
                                        /\ decBlock(k, encBlock(k, b)) = b
  <2> TAKE k \in CipherKey, b \in Block
  <2> DEFINE n == Rounds(Len(k))  w == expandKey(k)
  <2>1. n \in Nat \ {0} /\ n \in 0 .. n /\ w \in Schedule(n)
    BY ExpandedKey
  <2>2. /\ encBlock(k, b) = Encryptions(w, n, b)[n]
        /\ \A c : decBlock(k, c) = Decryptions(w, n, c)[n]
    BY DEF encBlock, decBlock
  <2> HIDE DEF n, w
  <2>3. Encryptions(w, n, b)[n] \in Block /\ Decryptions(w, n, b)[n] \in Block
    BY <2>1, EncryptionsAre, DecryptionsAre
  <2>4. Decryptions(w, n, Encryptions(w, n, b)[n])[n] = b
    BY <2>1, DecryptionsMirror
  <2> QED
    BY <2>2, <2>3, <2>4
<1> QED
  BY <1>1, <1>2, <1>3 DEF Modes!BlockAssumption

-----------------------------------------------------------------------------
(* Bytes and digits *)

\* The two digits of a byte.
LEMMA TwoDigits ==
  /\ \A b \in Char : b \div 16 \in 0 .. 15 /\ b % 16 \in 0 .. 15 /\ b = 16 * (b \div 16) + (b % 16)
  /\ \A h, l \in 0 .. 15 : 16 * h + l \in Char
  BY DEF Char, Width

-----------------------------------------------------------------------------
(* Digits *)

\* A digit of a hex text is one, and HexChar writes what Digit reads.
LEMMA DigitValues ==
  /\ \A c \in Char : Digit(c) \in 0 .. 16
  /\ \A c \in Char : Digit(c) # NotHex => Digit(c) \in 0 .. 15
  /\ \A d \in 0 .. 15 : /\ HexChar(d) \in Char /\ Digit(HexChar(d)) = d
                        /\ HexChar(d) \in (48 .. 57) \cup (65 .. 70)
  /\ \A c \in Char : Digit(c) # NotHex /\ c \notin 97 .. 102 => HexChar(Digit(c)) = c
  /\ \A c \in 97 .. 102 : HexChar(Digit(c)) # c
  BY DEF Digit, HexChar, Char, Width, NotHex

\* The bytes of a text: half as many as digits, or none at all.
LEMMA BytesOfText ==
  ASSUME NEW str \in Seq(Char)
  PROVE  /\ convertTypeStrToByteBlock(str) \in Seq(Char)
         /\ IsHex(str) => /\ Len(convertTypeStrToByteBlock(str)) = Len(str) \div 2
                          /\ \A n \in 1 .. Len(str) \div 2 :
                               convertTypeStrToByteBlock(str)[n]
                                 = 16 * Digit(str[2 * n - 1]) + Digit(str[2 * n])
         /\ ~ IsHex(str) => convertTypeStrToByteBlock(str) = <<>>
<1>1. CASE IsHex(str)
  <2> DEFINE bytes == [n \in 1 .. Len(str) \div 2 |-> 16 * Digit(str[2 * n - 1]) + Digit(str[2 * n])]
  <2>1. convertTypeStrToByteBlock(str) = bytes
    BY <1>1 DEF convertTypeStrToByteBlock
  <2>2. \A n \in 1 .. Len(str) \div 2 : bytes[n] \in Char
    <3> TAKE n \in 1 .. Len(str) \div 2
    <3>1. 2 * n - 1 \in 1 .. Len(str) /\ 2 * n \in 1 .. Len(str)
      OBVIOUS
    <3>2. /\ str[2 * n - 1] \in Char /\ Digit(str[2 * n - 1]) # NotHex
          /\ str[2 * n] \in Char /\ Digit(str[2 * n]) # NotHex
      BY <1>1, <3>1, ElementOfSeq DEF IsHex
    <3>3. Digit(str[2 * n - 1]) \in 0 .. 15 /\ Digit(str[2 * n]) \in 0 .. 15
      BY <3>2, DigitValues
    <3> QED
      BY <3>3, TwoDigits
  <2>3. Len(bytes) = Len(str) \div 2 /\ bytes \in Seq(Char)
    BY <2>2
  <2> QED
    BY <1>1, <2>1, <2>3
<1>2. CASE ~ IsHex(str)
  BY <1>2 DEF convertTypeStrToByteBlock
<1> QED
  BY <1>1, <1>2

\* Two digits for each byte.
LEMMA DigitsOfBytes ==
  ASSUME NEW bytes \in Seq(Char)
  PROVE  /\ DigitsOf(bytes) \in Seq(Char)
         /\ Len(DigitsOf(bytes)) = 2 * Len(bytes)
         /\ \A n \in 1 .. Len(bytes) :
               /\ DigitsOf(bytes)[2 * n - 1] = HexChar(bytes[n] \div 16)
               /\ DigitsOf(bytes)[2 * n] = HexChar(bytes[n] % 16)
<1> DEFINE d(n) == IF n % 2 = 1 THEN bytes[(n + 1) \div 2] \div 16 ELSE bytes[n \div 2] % 16
<1>1. \A n \in 1 .. 2 * Len(bytes) : d(n) \in 0 .. 15
  <2> TAKE n \in 1 .. 2 * Len(bytes)
  <2>1. CASE n % 2 = 1
    <3>1. (n + 1) \div 2 \in 1 .. Len(bytes)
      BY <2>1
    <3>2. bytes[(n + 1) \div 2] \in Char
      BY <3>1, ElementOfSeq
    <3> QED
      BY <2>1, <3>2, TwoDigits
  <2>2. CASE n % 2 # 1
    <3>1. n \div 2 \in 1 .. Len(bytes)
      BY <2>2
    <3>2. bytes[n \div 2] \in Char
      BY <3>1, ElementOfSeq
    <3> QED
      BY <2>2, <3>2, TwoDigits
  <2> QED
    BY <2>1, <2>2
<1>2. DigitsOf(bytes) = [n \in 1 .. 2 * Len(bytes) |-> HexChar(d(n))]
  BY DEF DigitsOf
<1>3. ASSUME NEW n \in 1 .. Len(bytes)
      PROVE  d(2 * n - 1) = bytes[n] \div 16 /\ d(2 * n) = bytes[n] % 16
  <2>1. /\ (2 * n - 1) % 2 = 1 /\ ((2 * n - 1) + 1) \div 2 = n
        /\ (2 * n) % 2 # 1 /\ (2 * n) \div 2 = n
    OBVIOUS
  <2> QED
    BY <2>1
<1> HIDE DEF d
<1>4. 2 * Len(bytes) \in Nat
  OBVIOUS
<1>5. DigitsOf(bytes) \in Seq(Char) /\ Len(DigitsOf(bytes)) = 2 * Len(bytes)
  <2>1. \A n \in 1 .. 2 * Len(bytes) : HexChar(d(n)) \in Char
    BY <1>1, DigitValues
  <2> QED
    BY <1>2, <1>4, <2>1
<1>6. \A n \in 1 .. Len(bytes) : /\ DigitsOf(bytes)[2 * n - 1] = HexChar(d(2 * n - 1))
                                 /\ DigitsOf(bytes)[2 * n] = HexChar(d(2 * n))
  <2> TAKE n \in 1 .. Len(bytes)
  <2>1. 2 * n - 1 \in 1 .. 2 * Len(bytes) /\ 2 * n \in 1 .. 2 * Len(bytes)
    OBVIOUS
  <2> QED
    BY <1>2, <2>1
<1> QED
  BY <1>3, <1>5, <1>6

\* A place in a text is the first or the second of a pair.
LEMMA Pairs ==
  \A m \in Nat : \A k \in 1 .. 2 * m :
     \/ k \div 2 \in 1 .. m /\ k = 2 * (k \div 2)
     \/ (k + 1) \div 2 \in 1 .. m /\ k = 2 * ((k + 1) \div 2) - 1
  OBVIOUS

\* Texts are equal if they are pair by pair.
LEMMA SamePairs ==
  ASSUME NEW s \in Seq(Char), NEW t \in Seq(Char), NEW m \in Nat,
         Len(s) = 2 * m, Len(t) = 2 * m,
         \A n \in 1 .. m : s[2 * n - 1] = t[2 * n - 1] /\ s[2 * n] = t[2 * n]
  PROVE  s = t
<1>1. ASSUME NEW k \in 1 .. Len(s)
      PROVE  s[k] = t[k]
  <2>1. CASE k \div 2 \in 1 .. m /\ k = 2 * (k \div 2)
    BY <2>1
  <2>2. CASE (k + 1) \div 2 \in 1 .. m /\ k = 2 * ((k + 1) \div 2) - 1
    BY <2>2
  <2> QED
    BY <2>1, <2>2, Pairs
<1> QED
  BY <1>1, SeqEqual

\* Digits of two texts in a row are the digits of the two in a row.
LEMMA DigitsOfConcat ==
  ASSUME NEW a \in Seq(Char), NEW b \in Seq(Char)
  PROVE  DigitsOf(a) \o DigitsOf(b) = DigitsOf(a \o b)
<1>1. /\ a \o b \in Seq(Char) /\ Len(a \o b) = Len(a) + Len(b)
      /\ \A n \in 1 .. Len(a) + Len(b) : (a \o b)[n] = IF n <= Len(a) THEN a[n] ELSE b[n - Len(a)]
  BY ConcatProperties
<1> DEFINE left == DigitsOf(a) \o DigitsOf(b)
           right == DigitsOf(a \o b)
<1>2. /\ DigitsOf(a) \in Seq(Char) /\ Len(DigitsOf(a)) = 2 * Len(a)
      /\ DigitsOf(b) \in Seq(Char) /\ Len(DigitsOf(b)) = 2 * Len(b)
      /\ right \in Seq(Char) /\ Len(right) = 2 * (Len(a) + Len(b))
  BY <1>1, DigitsOfBytes
<1>3. /\ left \in Seq(Char) /\ Len(left) = 2 * (Len(a) + Len(b))
      /\ \A n \in 1 .. 2 * (Len(a) + Len(b)) :
            left[n] = IF n <= 2 * Len(a) THEN DigitsOf(a)[n] ELSE DigitsOf(b)[n - 2 * Len(a)]
  <2>1. /\ left \in Seq(Char) /\ Len(left) = Len(DigitsOf(a)) + Len(DigitsOf(b))
        /\ \A n \in 1 .. Len(DigitsOf(a)) + Len(DigitsOf(b)) :
              left[n] = IF n <= Len(DigitsOf(a)) THEN DigitsOf(a)[n]
                                                 ELSE DigitsOf(b)[n - Len(DigitsOf(a))]
    BY <1>2, ConcatProperties
  <2>2. 2 * (Len(a) + Len(b)) = Len(DigitsOf(a)) + Len(DigitsOf(b))
    BY <1>2
  <2> HIDE DEF left
  <2> QED
    BY <1>2, <2>1, <2>2
<1>4. ASSUME NEW n \in 1 .. Len(a) + Len(b)
      PROVE  left[2 * n - 1] = right[2 * n - 1] /\ left[2 * n] = right[2 * n]
  <2>1. /\ right[2 * n - 1] = HexChar((a \o b)[n] \div 16)
        /\ right[2 * n] = HexChar((a \o b)[n] % 16)
    BY <1>1, DigitsOfBytes
  <2>2. 2 * n - 1 \in 1 .. 2 * (Len(a) + Len(b)) /\ 2 * n \in 1 .. 2 * (Len(a) + Len(b))
    OBVIOUS
  <2>3. CASE n <= Len(a)
    <3>1. n \in 1 .. Len(a) /\ 2 * n - 1 <= 2 * Len(a) /\ 2 * n <= 2 * Len(a)
      BY <2>3
    <3>2. /\ DigitsOf(a)[2 * n - 1] = HexChar(a[n] \div 16)
          /\ DigitsOf(a)[2 * n] = HexChar(a[n] % 16)
      BY <3>1, DigitsOfBytes
    <3>3. (a \o b)[n] = a[n]
      BY <1>1, <2>3
    <3>4. left[2 * n - 1] = DigitsOf(a)[2 * n - 1] /\ left[2 * n] = DigitsOf(a)[2 * n]
      BY <1>3, <2>2, <3>1
    <3> QED
      BY <2>1, <3>2, <3>3, <3>4
  <2>4. CASE ~ n <= Len(a)
    <3> DEFINE k == n - Len(a)
    <3>1. /\ k \in 1 .. Len(b) /\ ~ 2 * n - 1 <= 2 * Len(a) /\ ~ 2 * n <= 2 * Len(a)
          /\ 2 * n - 1 - 2 * Len(a) = 2 * k - 1 /\ 2 * n - 2 * Len(a) = 2 * k
      BY <2>4
    <3>2. /\ DigitsOf(b)[2 * k - 1] = HexChar(b[k] \div 16)
          /\ DigitsOf(b)[2 * k] = HexChar(b[k] % 16)
      BY <3>1, DigitsOfBytes
    <3>3. (a \o b)[n] = b[k]
      BY <1>1, <2>4
    <3>4. left[2 * n - 1] = DigitsOf(b)[2 * k - 1] /\ left[2 * n] = DigitsOf(b)[2 * k]
      BY <1>3, <2>2, <3>1
    <3> QED
      BY <2>1, <3>2, <3>3, <3>4
  <2> QED
    BY <2>3, <2>4
<1> HIDE DEF left, right
<1>5. left = right
  <2> DEFINE m == Len(a) + Len(b)
  <2>1. m \in Nat /\ Len(left) = 2 * m /\ Len(right) = 2 * m
    BY <1>2, <1>3
  <2>2. \A n \in 1 .. m : left[2 * n - 1] = right[2 * n - 1] /\ left[2 * n] = right[2 * n]
    BY <1>4
  <2> HIDE DEF m
  <2> QED
    BY <1>2, <1>3, <2>1, <2>2, SamePairs
<1> QED
  BY <1>5 DEF left, right

-----------------------------------------------------------------------------
(* Blocks *)

\* What is left is counted in a uint8_t, also where nothing is left.
LEMMA Wraps == \A s \in -256 .. -1 : s % 256 = s + 256
  OBVIOUS

\* How much _createState takes: what is left, up to a block, modulo 256.
LEMMA LastIs ==
  ASSUME NEW size \in Nat, NEW start \in Nat
  PROVE  /\ last(size, start) \in 0 .. Nstate
         /\ (size - start) % 256 < 16 => last(size, start) = (size - start) % 256
         /\ (size - start) % 256 >= 16 => last(size, start) = 16
<1> DEFINE rest == (size - start) % 256
<1>1. rest \in 0 .. 255
  OBVIOUS
<1>2. last(size, start) = Min({16, rest})
  BY DEF last, Nstate, Width
<1> HIDE DEF rest
<1>3. Min({16, rest}) = IF rest < 16 THEN rest ELSE 16
  BY <1>1 DEF Min
<1> QED
  BY <1>1, <1>2, <1>3 DEF rest, Nstate

LEMMA StateIsSeq ==
  ASSUME NEW block \in Seq(Char), NEW start \in Nat, Readable(Len(block), start)
  PROVE  /\ createState(block, start) \in Seq(Char)
         /\ Len(createState(block, start)) = 16
         /\ \A p \in 1 .. 16 : createState(block, start)[p] =
               IF p <= last(Len(block), start) THEN block[start + p]
                                               ELSE 16 - last(Len(block), start)
<1> DEFINE n == last(Len(block), start)
           byte(p) == IF p <= n THEN block[start + p] ELSE 16 - n
<1>1. n \in 0 .. 16 /\ (start + n <= Len(block) \/ n = 0)
  BY LastIs DEF Readable, Nstate
<1>2. createState(block, start) = [p \in 1 .. 16 |-> byte(p)]
  BY DEF createState, Nstate
<1>3. \A p \in 1 .. 16 : byte(p) \in Char
  <2> TAKE p \in 1 .. 16
  <2>1. CASE p <= n
    <3> HIDE DEF n
    <3>1. start + n <= Len(block) /\ Len(block) \in Nat
      BY <1>1, <2>1
    <3>2. start + p \in 1 .. Len(block)
      BY <1>1, <2>1, <3>1
    <3> QED
      BY <2>1, <3>2, ElementOfSeq
  <2>2. CASE ~ p <= n
    <3> HIDE DEF n
    <3>1. byte(p) \in 0 .. 16
      BY <1>1, <2>2
    <3> QED
      BY <3>1 DEF Char, Width
  <2> QED
    BY <2>1, <2>2
<1> HIDE DEF byte
<1>4. createState(block, start) \in Seq(Char) /\ Len(createState(block, start)) = 16
  BY <1>2, <1>3
<1>5. \A p \in 1 .. 16 : createState(block, start)[p] = byte(p)
  BY <1>2
<1> QED
  BY <1>4, <1>5 DEF byte

\* A full block is the next 16 bytes.
LEMMA FullState ==
  ASSUME NEW block \in Seq(Char), NEW start \in Nat, Readable(Len(block), start),
         last(Len(block), start) = 16
  PROVE  createState(block, start) = SubSeq(block, start + 1, start + 16)
<1>1. start + 16 <= Len(block)
  BY DEF Readable
<1>2. \A n \in start + 1 .. start + 16 : block[n] \in Char
  <2> TAKE n \in start + 1 .. start + 16
  <2>1. n \in 1 .. Len(block)
    BY <1>1
  <2> QED
    BY <2>1, ElementOfSeq
<1>3. /\ SubSeq(block, start + 1, start + 16) \in Seq(Char)
      /\ Len(SubSeq(block, start + 1, start + 16)) = 16
      /\ \A p \in 1 .. 16 : SubSeq(block, start + 1, start + 16)[p] = block[start + p]
  <2>1. start + 1 \in Int /\ start + 16 \in Int /\ start + 16 - (start + 1) + 1 = 16
        /\ start + 1 <= start + 16 /\ \A p \in 1 .. 16 : start + 1 + p - 1 = start + p
    OBVIOUS
  <2> QED
    BY <1>2, <2>1, SubSeqProperties
<1>4. /\ createState(block, start) \in Seq(Char) /\ Len(createState(block, start)) = 16
      /\ \A p \in 1 .. 16 : createState(block, start)[p] = block[start + p]
  BY StateIsSeq
<1>5. \A p \in 1 .. 16 :
         createState(block, start)[p] = SubSeq(block, start + 1, start + 16)[p]
  BY <1>3, <1>4
<1> DEFINE s == createState(block, start)  t == SubSeq(block, start + 1, start + 16)
<1>6. /\ s \in Seq(Char) /\ t \in Seq(Char) /\ Len(s) = Len(t)
      /\ \A p \in 1 .. Len(s) : s[p] = t[p]
  BY <1>3, <1>4, <1>5
<1> HIDE DEF s, t
<1>7. s = t
  BY <1>6, SeqEqual
<1> QED
  BY <1>7 DEF s, t

-----------------------------------------------------------------------------
(* Padding *)

\* A state without padding comes back whole.
LEMMA NoPadding ==
  ASSUME NEW state, PaddingAt(state) = {}
  PROVE  convertTypeByteStateToStr(state) = DigitsOf(state)
  BY DEF convertTypeByteStateToStr

\* The filling of a block that is not full is found exactly where it begins.
LEMMA FillingFound ==
  ASSUME NEW state, NEW n \in 0 .. 15, \A p \in n + 1 .. 16 : state[p] = 16 - n
  PROVE  convertTypeByteStateToStr(state) = DigitsOf(SubSeq(state, 1, n))
<1>1. n + 1 \in PaddingAt(state)
  BY DEF PaddingAt, Nstate
<1>2. \A p \in PaddingAt(state) : p = n + 1
  <2> TAKE p \in PaddingAt(state)
  <2>1. p \in 1 .. 16 /\ state[16] = 17 - p
    BY DEF PaddingAt, Nstate
  <2>2. state[16] = 16 - n
    OBVIOUS
  <2> QED
    BY <2>1, <2>2
<1>3. PaddingAt(state) = {n + 1}
  BY <1>1, <1>2
<1>4. Min({n + 1}) = n + 1
  BY DEF Min
<1> QED
  BY <1>3, <1>4 DEF convertTypeByteStateToStr

\* Where padding is found, the last byte at least is gone.
LEMMA PaddingGoes ==
  ASSUME NEW state \in Seq(Char), Len(state) = 16, PaddingAt(state) # {}
  PROVE  /\ convertTypeByteStateToStr(state) \in Seq(Char)
         /\ Len(convertTypeByteStateToStr(state)) <= 30
<1>1. PICK p \in PaddingAt(state) : TRUE
  OBVIOUS
<1>2. p \in 1 .. 16 /\ state[16] = 17 - p /\ \A q \in PaddingAt(state) : q \in 1 .. 16 /\ state[16] = 17 - q
  BY DEF PaddingAt, Nstate
<1>3. PaddingAt(state) = {p}
  <2>1. \A q \in PaddingAt(state) : q = p
    <3> TAKE q \in PaddingAt(state)
    <3>1. q \in 1 .. 16 /\ state[16] = 17 - q
      BY <1>2
    <3> QED
      BY <1>2, <3>1
  <2> QED
    BY <2>1
<1>4. Min({p}) = p
  BY <1>2 DEF Min
<1> DEFINE front == SubSeq(state, 1, p - 1)
<1>5. front \in Seq(Char) /\ Len(front) <= 15
  <2>1. p - 1 \in 0 .. 15 /\ \A n \in 1 .. p - 1 : state[n] \in Char
    BY <1>2, ElementOfSeq
  <2>2. front \in Seq(Char) /\ Len(front) = IF 1 <= p - 1 THEN p - 1 - 1 + 1 ELSE 0
    BY <2>1, SubSeqProperties
  <2> QED
    BY <2>1, <2>2
<1>6. convertTypeByteStateToStr(state) = DigitsOf(front)
  BY <1>3, <1>4 DEF convertTypeByteStateToStr
<1> HIDE DEF front
<1>7. Len(DigitsOf(front)) = 2 * Len(front) /\ DigitsOf(front) \in Seq(Char)
  BY <1>5, DigitsOfBytes
<1> QED
  BY <1>5, <1>6, <1>7

-----------------------------------------------------------------------------
(* Vectors *)

LEMMA BlockCount ==
  ASSUME NEW str \in Seq(Char)
  PROVE  /\ blockSize(str) \in Nat
         /\ Len(str) <= 32 * blockSize(str)
         /\ 32 * blockSize(str) < Len(str) + 32
  BY DEF blockSize, Nstate

(* Up to 15 blocks every block of a cipher text can be read in full.       *)
LEMMA FullCipher ==
  ASSUME NEW m \in 0 .. 15, NEW k \in 0 .. m - 1
  PROVE  Readable(16 * m, 16 * k) /\ last(16 * m, 16 * k) = 16
<1>1. 16 * m \in Nat /\ 16 * k \in Nat /\ 16 * k + 16 <= 16 * m /\ 16 * k + 16 < 256
  OBVIOUS
<1>2. (16 * m - 16 * k) % 256 >= 16
  OBVIOUS
<1>3. last(16 * m, 16 * k) = 16
  BY <1>1, <1>2, LastIs
<1> QED
  BY <1>1, <1>3 DEF Readable, Width

LEMMA Piece ==
  ASSUME NEW s \in Seq(Char), NEW a \in Nat, NEW n \in Nat, a + n <= Len(s)
  PROVE  /\ SubSeq(s, a + 1, a + n) \in Seq(Char)
         /\ Len(SubSeq(s, a + 1, a + n)) = n
         /\ \A p \in 1 .. n : SubSeq(s, a + 1, a + n)[p] = s[a + p]
<1>1. \A q \in a + 1 .. a + n : s[q] \in Char
  <2> TAKE q \in a + 1 .. a + n
  <2>1. q \in 1 .. Len(s)
    OBVIOUS
  <2> QED
    BY <2>1, ElementOfSeq
<1>2. /\ SubSeq(s, a + 1, a + n) \in Seq(Char)
      /\ Len(SubSeq(s, a + 1, a + n)) = IF a + 1 <= a + n THEN a + n - (a + 1) + 1 ELSE 0
      /\ \A p \in 1 .. a + n - (a + 1) + 1 : SubSeq(s, a + 1, a + n)[p] = s[a + 1 + p - 1]
  <2>1. a + 1 \in Int /\ a + n \in Int
    OBVIOUS
  <2> QED
    BY <1>1, <2>1, SubSeqProperties
<1>3. /\ a + n - (a + 1) + 1 = n /\ (a + 1 <= a + n <=> n # 0)
      /\ \A p \in 1 .. n : a + 1 + p - 1 = a + p
  OBVIOUS
<1> QED
  BY <1>2, <1>3

\* The arithmetic of blocks, away from the sequences it is used on.
LEMMA LessThanABlock ==
  (\A n \in Nat : ~ n >= 16 => n \in 0 .. 15) /\ \A n \in 0 .. 15 : ~ 16 * 1 <= n
  OBVIOUS

LEMMA DigitsOfAFullBlock ==
  \A start, size, length \in Nat :
     start + 16 <= size /\ size = length \div 2 => 2 * (start + 16) <= length
  OBVIOUS

(* A state made of what is left of a vector, where a full one is no bait,  *)
(* gives exactly that back.                                                *)
LEMMA StateBack ==
  ASSUME NEW bytes \in Seq(Char), NEW start \in Nat, NEW rest \in Nat,
         Len(bytes) = start + rest, NEW state \in Seq(Char), Len(state) = 16,
         \A p \in 1 .. 16 : state[p] = IF p <= rest THEN bytes[start + p] ELSE 16 - rest,
         rest >= 16 => PaddingAt(SubSeq(bytes, start + 1, start + 16)) = {}
  PROVE  convertTypeByteStateToStr(state)
           = DigitsOf(SubSeq(bytes, start + 1, start + (IF rest >= 16 THEN 16 ELSE rest)))
<1>1. CASE rest >= 16
  <2> DEFINE piece == SubSeq(bytes, start + 1, start + 16)
  <2>1. piece \in Seq(Char) /\ Len(piece) = 16 /\ \A p \in 1 .. 16 : piece[p] = bytes[start + p]
    <3>1. \A a, n \in Nat : n >= 16 => a + 16 <= a + n
      OBVIOUS
    <3>2. start + 16 <= Len(bytes) /\ 16 \in Nat
      BY <1>1, <3>1
    <3> QED
      BY <3>2, Piece
  <2>2. \A p \in 1 .. 16 : state[p] = bytes[start + p]
    <3> TAKE p \in 1 .. 16
    <3>1. p <= rest
      BY <1>1
    <3> QED
      BY <3>1
  <2> HIDE DEF piece
  <2>3. Len(state) = Len(piece) /\ \A p \in 1 .. Len(state) : state[p] = piece[p]
    BY <2>1, <2>2
  <2>4. state = piece
    BY <2>1, <2>3, SeqEqual
  <2> QED
    BY <1>1, <2>4, NoPadding DEF piece
<1>2. CASE ~ rest >= 16
  <2> DEFINE piece == SubSeq(bytes, start + 1, start + rest)
             front == SubSeq(state, 1, rest)
  <2>1. /\ rest \in 0 .. 15 /\ 0 + rest <= 16 /\ start + rest <= Len(bytes)
        /\ \A p \in rest + 1 .. 16 : p \in 1 .. 16 /\ ~ p <= rest
    <3>1. rest \in 0 .. 15
      BY <1>2, LessThanABlock
    <3>2. \A p \in rest + 1 .. 16 : p \in 1 .. 16 /\ ~ p <= rest
      BY <3>1
    <3>3. 0 + rest <= 16 /\ start + rest <= Len(bytes)
      BY <3>1
    <3> QED
      BY <3>1, <3>2, <3>3
  <2>2. convertTypeByteStateToStr(state) = DigitsOf(front)
    <3>1. \A p \in rest + 1 .. 16 : state[p] = 16 - rest
      BY <2>1
    <3> HIDE DEF front
    <3> QED
      BY <2>1, <3>1, FillingFound DEF front
  <2>3. /\ piece \in Seq(Char) /\ Len(piece) = rest
        /\ \A p \in 1 .. rest : piece[p] = bytes[start + p]
    BY <2>1, Piece
  <2>4. front \in Seq(Char) /\ Len(front) = rest /\ \A p \in 1 .. rest : front[p] = state[p]
    <3>1. SubSeq(state, 0 + 1, 0 + rest) = front /\ \A p \in 1 .. rest : 0 + p = p
      OBVIOUS
    <3>2. 0 \in Nat /\ 0 + rest <= Len(state)
      BY <2>1
    <3>3. /\ SubSeq(state, 0 + 1, 0 + rest) \in Seq(Char)
          /\ Len(SubSeq(state, 0 + 1, 0 + rest)) = rest
          /\ \A p \in 1 .. rest : SubSeq(state, 0 + 1, 0 + rest)[p] = state[0 + p]
      <4> HIDE DEF front, piece
      <4> QED
        BY <3>2, Piece
    <3> HIDE DEF front
    <3> QED
      BY <3>1, <3>3
  <2> HIDE DEF front, piece
  <2>5. Len(front) = Len(piece) /\ \A p \in 1 .. Len(front) : front[p] = piece[p]
    <3>1. \A p \in 1 .. rest : p \in 1 .. 16 /\ p <= rest
      BY <2>1
    <3> QED
      BY <2>3, <2>4, <3>1
  <2>6. front = piece
    BY <2>3, <2>4, <2>5, SeqEqual
  <2> QED
    BY <1>2, <2>2, <2>6 DEF piece
<1> QED
  BY <1>1, <1>2

\* Whatever a block is, digits come back of it.
LEMMA BackIsText ==
  ASSUME NEW state \in Seq(Char), Len(state) = 16
  PROVE  convertTypeByteStateToStr(state) \in Seq(Char)
<1>1. CASE PaddingAt(state) = {}
  BY <1>1, NoPadding, DigitsOfBytes
<1>2. CASE PaddingAt(state) # {}
  BY <1>2, PaddingGoes
<1> QED
  BY <1>1, <1>2

\* The digits of bytes are hex, and the bytes they write are these.
LEMMA BytesOfDigits ==
  ASSUME NEW bytes \in Seq(Char)
  PROVE  /\ IsHex(DigitsOf(bytes))
         /\ convertTypeStrToByteBlock(DigitsOf(bytes)) = bytes
<1> DEFINE str == DigitsOf(bytes)
           size == Len(bytes)
           back == convertTypeStrToByteBlock(str)
<1>1. /\ str \in Seq(Char) /\ Len(str) = 2 * size /\ size \in Nat
      /\ \A n \in 1 .. size : /\ str[2 * n - 1] = HexChar(bytes[n] \div 16)
                              /\ str[2 * n] = HexChar(bytes[n] % 16)
  BY DigitsOfBytes
<1> HIDE DEF str
<1>2. ASSUME NEW n \in 1 .. size
      PROVE  /\ Digit(str[2 * n - 1]) = bytes[n] \div 16 /\ bytes[n] \div 16 \in 0 .. 15
             /\ Digit(str[2 * n]) = bytes[n] % 16 /\ bytes[n] % 16 \in 0 .. 15
             /\ bytes[n] = 16 * (bytes[n] \div 16) + (bytes[n] % 16)
  <2>1. bytes[n] \in Char
    BY ElementOfSeq
  <2>2. /\ bytes[n] \div 16 \in 0 .. 15 /\ bytes[n] % 16 \in 0 .. 15
        /\ bytes[n] = 16 * (bytes[n] \div 16) + (bytes[n] % 16)
    BY <2>1, TwoDigits
  <2> QED
    BY <1>1, <2>2, DigitValues
<1> HIDE DEF size
<1>3. \A d \in 0 .. 15 : d # NotHex
  BY DEF NotHex
<1>4. IsHex(str)
  <2>1. ASSUME NEW k \in 1 .. 2 * size
        PROVE  Digit(str[k]) # NotHex
    <3>1. CASE k \div 2 \in 1 .. size /\ k = 2 * (k \div 2)
      BY <1>2, <1>3, <3>1
    <3>2. CASE (k + 1) \div 2 \in 1 .. size /\ k = 2 * ((k + 1) \div 2) - 1
      BY <1>2, <1>3, <3>2
    <3> QED
      BY <1>1, <3>1, <3>2, Pairs
  <2> QED
    BY <1>1, <2>1 DEF IsHex
<1>5. /\ back \in Seq(Char) /\ Len(back) = size
      /\ \A n \in 1 .. size : back[n] = 16 * Digit(str[2 * n - 1]) + Digit(str[2 * n])
  <2>1. Len(str) \div 2 = size
    BY <1>1
  <2> QED
    BY <1>1, <1>4, <2>1, BytesOfText
<1> HIDE DEF back
<1>6. \A n \in 1 .. size : back[n] = bytes[n]
  BY <1>2, <1>5
<1>7. back = bytes
  BY <1>5, <1>6, SeqEqual DEF size
<1> QED
  BY <1>4, <1>7 DEF back, str

-----------------------------------------------------------------------------
(* Blocks as states, and keys as words *)

\* A byte of AesRounds is a character of HexText.
LEMMA BytesAreCharacters == Byte = Char
  BY DEF Byte, Char, Width

\* A vector of 16 bytes is a state, and a state is one.
LEMMA VectorsAreStates ==
  /\ \A v \in Seq(Char) : Len(v) = 16 => asState(v) \in Block /\ asVector(asState(v)) = v
  /\ \A s \in Block : /\ asVector(s) \in Seq(Char) /\ Len(asVector(s)) = 16
                      /\ asState(asVector(s)) = s
<1>1. ASSUME NEW v \in Seq(Char), Len(v) = 16
      PROVE  asState(v) \in Block /\ asVector(asState(v)) = v
  <2>1. \A n \in 1 .. 16 : v[n] \in Char
    BY <1>1, ElementOfSeq
  <2>2. \A p \in Position : p + 1 \in 1 .. 16
    BY DEF Position, Nstate
  <2>3. asState(v) \in Block
    BY <2>1, <2>2, BytesAreCharacters DEF asState, Block
  <2>4. \A n \in 1 .. 16 : n - 1 \in Position /\ (n - 1) + 1 = n
    BY DEF Position, Nstate
  <2>5. asVector(asState(v)) = [n \in 1 .. 16 |-> v[n]]
    BY <2>4 DEF asVector, asState, Nstate
  <2>6. [n \in 1 .. 16 |-> v[n]] = v
    BY <1>1
  <2> QED
    BY <2>3, <2>5, <2>6
<1>2. ASSUME NEW s \in Block
      PROVE  /\ asVector(s) \in Seq(Char) /\ Len(asVector(s)) = 16
             /\ asState(asVector(s)) = s
  <2>1. \A n \in 1 .. 16 : n - 1 \in Position
    BY DEF Position, Nstate
  <2>2. \A n \in 1 .. 16 : s[n - 1] \in Char
    BY <2>1, BytesAreCharacters DEF Block
  <2>3. asVector(s) = [n \in 1 .. 16 |-> s[n - 1]]
    BY DEF asVector, Nstate
  <2>4. asVector(s) \in Seq(Char) /\ Len(asVector(s)) = 16
    BY <2>2, <2>3
  <2>5. \A p \in Position : p + 1 \in 1 .. 16 /\ (p + 1) - 1 = p
    BY DEF Position, Nstate
  <2>6. \A p \in Position : asVector(s)[p + 1] = s[p]
    BY <2>3, <2>5
  <2>7. asState(asVector(s)) = [p \in Position |-> s[p]]
    BY <2>6 DEF asState
  <2> QED
    BY <2>4, <2>7 DEF Block
<1> QED
  BY <1>1, <1>2

\* A hex text of a key's length is a key.
LEMMA KeysOfWords ==
  ASSUME NEW k \in KeyText
  PROVE  keyWords(k) \in CipherKey
<1> DEFINE key == convertTypeStrToByteBlock(k)
           n == Len(key) \div 4
<1>1. k \in Seq(Char) /\ IsHex(k) /\ Len(k) \in {32, 48, 64}
  BY DEF KeyText
<1>2. key \in Seq(Char) /\ Len(key) = Len(k) \div 2
  BY <1>1, BytesOfText
<1>3. Len(key) = 4 * n /\ n \in {4, 6, 8}
  <2>1. \A length \in {32, 48, 64} : /\ length \div 2 = 4 * ((length \div 2) \div 4)
                                    /\ (length \div 2) \div 4 \in {4, 6, 8}
    OBVIOUS
  <2> HIDE DEF key
  <2> QED
    BY <1>1, <1>2, <2>1
<1>4. keyWords(k) = [w \in 1 .. n |-> [b \in 1 .. 4 |-> key[4 * (w - 1) + b]]]
  BY DEF keyWords
<1> HIDE DEF key, n
<1>5. \A w \in 1 .. n : [b \in 1 .. 4 |-> key[4 * (w - 1) + b]] \in Word
  <2> TAKE w \in 1 .. n
  <2>1. \A b \in 1 .. 4 : 4 * (w - 1) + b \in 1 .. Len(key)
    BY <1>3
  <2>2. \A b \in 1 .. 4 : key[4 * (w - 1) + b] \in Byte
    BY <1>2, <2>1, ElementOfSeq, BytesAreCharacters
  <2> QED
    BY <2>2 DEF Word
<1>6. keyWords(k) \in Seq(Word) /\ Len(keyWords(k)) = n
  BY <1>3, <1>4, <1>5
<1> QED
  BY <1>3, <1>6 DEF CipherKey

\* What deciphering the enciphered does to a vector of 16 bytes: nothing.
LEMMA VectorsComeBack ==
  ASSUME NEW k \in KeyText, NEW v \in Seq(Char), Len(v) = 16
  PROVE  LET c == asVector(encBlock(keyWords(k), asState(v)))
         IN  /\ c \in Seq(Char) /\ Len(c) = 16
             /\ asState(c) = encBlock(keyWords(k), asState(v))
             /\ asVector(decBlock(keyWords(k), asState(c))) = v
<1> DEFINE s == asState(v)  w == keyWords(k)
<1>1. s \in Block /\ asVector(s) = v
  BY VectorsAreStates
<1>2. w \in CipherKey
  BY KeysOfWords
<1> HIDE DEF s, w
<1>3. encBlock(w, s) \in Block /\ decBlock(w, encBlock(w, s)) = s
  BY <1>1, <1>2, AesIsABlockCipher DEF Modes!BlockAssumption
<1>4. /\ asVector(encBlock(w, s)) \in Seq(Char) /\ Len(asVector(encBlock(w, s))) = 16
      /\ asState(asVector(encBlock(w, s))) = encBlock(w, s)
  BY <1>3, VectorsAreStates
<1> QED
  BY <1>1, <1>3, <1>4 DEF s, w

-----------------------------------------------------------------------------
(* The calls *)

\* What has been joined is a text, and grows by a piece at a time.
LEMMA JoinsAre ==
  ASSUME NEW pieces \in Seq(Seq(Char))
  PROVE  /\ Joins(pieces)[0] = <<>>
         /\ \A m \in 0 .. Len(pieces) : Joins(pieces)[m] \in Seq(Char)
         /\ \A m \in 1 .. Len(pieces) : Joins(pieces)[m] = Joins(pieces)[m - 1] \o pieces[m]
<1> DEFINE n == Len(pieces)
           step == [m \in 1 .. n |-> [str \in Seq(Char) |-> str \o pieces[m]]]
           S == [m \in 0 .. n |-> Seq(Char)]
           a == <<>>
<1>1. n \in Nat /\ a \in S[0] /\ a = <<>>
  BY EmptySeq
<1>2. ASSUME NEW m \in 1 .. n, NEW s \in Seq(Char)
      PROVE  step[m][s] = s \o pieces[m] /\ step[m][s] \in Seq(Char)
  <2>1. pieces[m] \in Seq(Char)
    BY ElementOfSeq
  <2> QED
    BY <2>1, ConcatProperties
<1>3. Joins(pieces) = Iterate(a, step, n)
  BY DEF Joins
<1>4. /\ \A m \in 0 .. n : S[m] = Seq(Char)
      /\ \A m \in 1 .. n : m \in 0 .. n /\ m - 1 \in 0 .. n
  OBVIOUS
<1> HIDE DEF n, step, S, a
<1>5. /\ Joins(pieces)[0] = a
      /\ \A m \in 1 .. n : Joins(pieces)[m] = step[m][Joins(pieces)[m - 1]]
  BY <1>1, <1>3, IterateIs
<1>6. \A m \in 1 .. n : \A s \in S[m - 1] : step[m][s] \in S[m]
  BY <1>2, <1>4
<1>7. \A m \in 0 .. n : Joins(pieces)[m] \in S[m]
  BY <1>1, <1>3, <1>6, IterateStays
<1> QED
  BY <1>1, <1>2, <1>4, <1>5, <1>7 DEF n

\* The arithmetic of whole blocks.
LEMMA BlockEnds ==
  \A n \in Nat : \A m \in 1 .. n :
     /\ 16 * (m - 1) \in Nat /\ 16 * (m - 1) + 16 = 16 * m /\ 16 * m <= 16 * n
     /\ 16 * m \in Nat /\ 16 * n \in Nat
  OBVIOUS

\* The digits of blocks, joined, are those of all their bytes.
LEMMA DigitsJoined ==
  ASSUME NEW n \in Nat, NEW c \in Seq(Char), Len(c) = 16 * n,
         NEW pieces \in Seq(Seq(Char)), Len(pieces) = n,
         \A m \in 1 .. n : pieces[m] = DigitsOf(SubSeq(c, 16 * (m - 1) + 1, 16 * (m - 1) + 16))
  PROVE  Joined(pieces) = DigitsOf(c)
<1> DEFINE T == {m \in 0 .. n : Joins(pieces)[m] = DigitsOf(SubSeq(c, 1, 16 * m))}
<1>1. 0 \in T
  <2>1. SubSeq(c, 1, 16 * 0) = <<>> /\ 0 \in 0 .. n
    BY SubSeqEmpty
  <2>2. DigitsOf(<<>>) = <<>>
    <3>1. <<>> \in Seq(Char) /\ Len(<<>>) = 0
      BY EmptySeq
    <3>2. DigitsOf(<<>>) \in Seq(Char) /\ Len(DigitsOf(<<>>)) = 2 * Len(<<>>)
      BY <3>1, DigitsOfBytes
    <3>3. Len(DigitsOf(<<>>)) = 0
      BY <3>1, <3>2
    <3> QED
      BY <3>2, <3>3, EmptySeq
  <2>3. Joins(pieces)[0] = <<>>
    BY JoinsAre
  <2> QED
    BY <2>1, <2>2, <2>3
<1>2. ASSUME NEW m \in 1 .. n, m - 1 \in T
      PROVE  m \in T
  <2> DEFINE start == 16 * (m - 1)  end == 16 * m
  <2>1. start \in Nat /\ end = start + 16 /\ end <= Len(c) /\ m \in 0 .. n
    BY BlockEnds
  <2>2. Joins(pieces)[m - 1] = DigitsOf(SubSeq(c, 1, start))
    BY <1>2
  <2>3. Joins(pieces)[m] = Joins(pieces)[m - 1] \o pieces[m]
    BY JoinsAre
  <2>4. pieces[m] = DigitsOf(SubSeq(c, start + 1, end))
    BY <2>1
  <2> HIDE DEF start, end
  <2>5. SubSeq(c, 1, start) \in Seq(Char) /\ SubSeq(c, start + 1, end) \in Seq(Char)
    <3>1. /\ 0 \in Nat /\ 0 + start <= Len(c) /\ start + 16 <= Len(c)
          /\ 0 + 1 = 1 /\ 0 + start = start
      BY <2>1
    <3>2. SubSeq(c, 0 + 1, 0 + start) \in Seq(Char)
      BY <2>1, <3>1, Piece
    <3>3. SubSeq(c, start + 1, start + 16) \in Seq(Char)
      BY <2>1, <3>1, Piece
    <3> QED
      BY <2>1, <3>1, <3>2, <3>3
  <2>6. SubSeq(c, 1, start) \o SubSeq(c, start + 1, end) = SubSeq(c, 1, end)
    <3>1. 1 \in 1 .. Len(c) + 1 /\ start \in 1 - 1 .. Len(c) /\ end \in start .. Len(c)
      BY <2>1
    <3> QED
      BY <3>1, ConcatAdjacentSubSeq
  <2>7. Joins(pieces)[m] = DigitsOf(SubSeq(c, 1, end))
    BY <2>2, <2>3, <2>4, <2>5, <2>6, DigitsOfConcat
  <2> QED
    BY <2>1, <2>7 DEF end
<1> HIDE DEF T
<1>3. 0 .. n \subseteq T
  BY <1>1, <1>2, Induction
<1>4. Joins(pieces)[n] = DigitsOf(SubSeq(c, 1, 16 * n))
  BY <1>3 DEF T
<1>5. SubSeq(c, 1, 16 * n) = c
  BY SubSeqFull
<1> QED
  BY <1>4, <1>5 DEF Joined

\* What _encryption and _decryption make of a vector of 16 bytes.
EncipheredVector(k, v) == asVector(encBlock(keyWords(k), asState(v)))
DecipheredVector(k, v) == asVector(decBlock(keyWords(k), asState(v)))

\* A deciphered vector is one, whatever was deciphered.
LEMMA DecipheredVectorIs ==
  ASSUME NEW k \in KeyText, NEW c \in Seq(Char), Len(c) = 16
  PROVE  /\ DecipheredVector(k, c) \in Seq(Char) /\ Len(DecipheredVector(k, c)) = 16
         /\ asState(DecipheredVector(k, c)) = decBlock(keyWords(k), asState(c))
<1>1. asState(c) \in Block /\ keyWords(k) \in CipherKey
  BY VectorsAreStates, KeysOfWords
<1>2. decBlock(keyWords(k), asState(c)) \in Block
  BY <1>1, AesIsABlockCipher DEF Modes!BlockAssumption
<1> QED
  BY <1>2, VectorsAreStates DEF DecipheredVector

\* The arithmetic of bytes in blocks.
LEMMA BytesInBlocks ==
  \A n \in Nat : \A p \in 1 .. 16 * n :
     (p - 1) \div 16 + 1 \in 1 .. n /\ ((p - 1) % 16) + 1 \in 1 .. 16
  OBVIOUS

LEMMA ByteOfBlock ==
  ASSUME NEW n \in Nat, NEW m \in 1 .. n, NEW q \in 1 .. 16
  PROVE  /\ ((16 * (m - 1) + q) - 1) \div 16 + 1 = m
         /\ (((16 * (m - 1) + q) - 1) % 16) + 1 = q
  OBVIOUS

\* Blocks can be put in a row, where each is found again.
LEMMA BlocksInARow ==
  ASSUME NEW n \in Nat, NEW vs \in Seq(Seq(Char)), Len(vs) = n,
         \A m \in 1 .. n : Len(vs[m]) = 16
  PROVE  \E c \in Seq(Char) :
            /\ Len(c) = 16 * n
            /\ \A m \in 1 .. n : SubSeq(c, 16 * (m - 1) + 1, 16 * (m - 1) + 16) = vs[m]
<1> DEFINE c == [p \in 1 .. 16 * n |-> vs[(p - 1) \div 16 + 1][((p - 1) % 16) + 1]]
<1>1. \A m \in 1 .. n : vs[m] \in Seq(Char)
  BY ElementOfSeq
<1>2. \A m \in 1 .. n : \A q \in 1 .. 16 : vs[m][q] \in Char
  BY <1>1, ElementOfSeq
<1>3. \A p \in 1 .. 16 * n : c[p] \in Char
  BY <1>2, BytesInBlocks
<1>4. c \in Seq(Char) /\ Len(c) = 16 * n
  <2>1. 16 * n \in Nat /\ c = [p \in 1 .. 16 * n |-> c[p]]
    OBVIOUS
  <2> QED
    BY <1>3, <2>1
<1>5. \A m \in 1 .. n : \A q \in 1 .. 16 : c[16 * (m - 1) + q] = vs[m][q]
  <2> TAKE m \in 1 .. n, q \in 1 .. 16
  <2> DEFINE p == 16 * (m - 1) + q
  <2>1. p \in 1 .. 16 * n /\ (p - 1) \div 16 + 1 = m /\ ((p - 1) % 16) + 1 = q
    <3> HIDE DEF c
    <3>1. p \in 1 .. 16 * n
      <4>1. 16 * (m - 1) \in Nat /\ 16 * (m - 1) + 16 <= 16 * n
        BY BlockEnds
      <4> QED
        BY <4>1
    <3> QED
      BY <3>1, ByteOfBlock
  <2> HIDE DEF p
  <2>2. c[p] = vs[m][q]
    BY <2>1
  <2> QED
    BY <2>2 DEF p
<1> HIDE DEF c
<1>6. ASSUME NEW m \in 1 .. n
      PROVE  SubSeq(c, 16 * (m - 1) + 1, 16 * (m - 1) + 16) = vs[m]
  <2> DEFINE start == 16 * (m - 1)  t == SubSeq(c, start + 1, start + 16)
  <2>1. start \in Nat /\ start + 16 <= Len(c) /\ 16 \in Nat
    BY <1>4, BlockEnds
  <2>2. \A q \in 1 .. 16 : c[start + q] = vs[m][q]
    BY <1>5
  <2> HIDE DEF start
  <2>3. t \in Seq(Char) /\ Len(t) = 16 /\ \A q \in 1 .. 16 : t[q] = c[start + q]
    BY <1>4, <2>1, Piece
  <2> HIDE DEF t
  <2>4. vs[m] \in Seq(Char) /\ Len(t) = Len(vs[m]) /\ \A q \in 1 .. Len(t) : t[q] = vs[m][q]
    BY <1>1, <2>2, <2>3
  <2>5. t = vs[m]
    BY <2>3, <2>4, SeqEqual
  <2> QED
    BY <2>5 DEF t, start
<1> QED
  BY <1>4, <1>6

\* Where all blocks are read inside the text, its cipher text is the digits of the
\* enciphered blocks in a row.
LEMMA EncryptedText ==
  ASSUME NEW input \in Seq(Char), NEW k \in KeyText,
         \A j \in 0 .. blockSize(input) - 1 :
            Readable(Len(convertTypeStrToByteBlock(input)), 16 * j)
  PROVE  \E c \in Seq(Char) :
            /\ Len(c) = 16 * blockSize(input)
            /\ encryption(input, k) = DigitsOf(c)
            /\ \A m \in 1 .. blockSize(input) :
                  SubSeq(c, 16 * (m - 1) + 1, 16 * (m - 1) + 16)
                    = EncipheredVector(k, createState(convertTypeStrToByteBlock(input), 16 * (m - 1)))
<1> DEFINE n == blockSize(input)
           bytes == convertTypeStrToByteBlock(input)
           vector(m) == EncipheredVector(k, createState(bytes, 16 * (m - 1)))
           vs == [m \in 1 .. n |-> vector(m)]
           pieces == [m \in 1 .. n |-> DigitsOf(vector(m))]
<1>1. n \in Nat /\ bytes \in Seq(Char)
  BY BlockCount, BytesOfText
<1>2. encryption(input, k) = Joined(pieces)
  BY DEF encryption, EncipheredVector, Nstate
<1>3. ASSUME NEW m \in 1 .. n
      PROVE  /\ vector(m) \in Seq(Char) /\ Len(vector(m)) = 16
             /\ DigitsOf(vector(m)) \in Seq(Char)
  <2>1. 16 * (m - 1) \in Nat /\ Readable(Len(bytes), 16 * (m - 1))
    <3>1. m - 1 \in 0 .. n - 1
      BY <1>1
    <3> QED
      BY <1>1, <3>1, BlockEnds
  <2>2. /\ createState(bytes, 16 * (m - 1)) \in Seq(Char)
        /\ Len(createState(bytes, 16 * (m - 1))) = 16
    BY <1>1, <2>1, StateIsSeq
  <2>3. vector(m) \in Seq(Char) /\ Len(vector(m)) = 16
    BY <2>2, VectorsComeBack DEF EncipheredVector
  <2> QED
    BY <2>3, DigitsOfBytes
<1> HIDE DEF n, vector
<1>4. vs \in Seq(Seq(Char)) /\ Len(vs) = n /\ \A m \in 1 .. n : Len(vs[m]) = 16
  BY <1>1, <1>3
<1>5. pieces \in Seq(Seq(Char)) /\ Len(pieces) = n
  BY <1>1, <1>3
<1>6. \A m \in 1 .. n : vs[m] = vector(m) /\ pieces[m] = DigitsOf(vs[m])
  OBVIOUS
<1> HIDE DEF vs, pieces
<1>7. PICK c \in Seq(Char) :
        /\ Len(c) = 16 * n
        /\ \A m \in 1 .. n : SubSeq(c, 16 * (m - 1) + 1, 16 * (m - 1) + 16) = vs[m]
  BY <1>1, <1>4, BlocksInARow
<1>8. Joined(pieces) = DigitsOf(c)
  <2>1. \A m \in 1 .. n :
           pieces[m] = DigitsOf(SubSeq(c, 16 * (m - 1) + 1, 16 * (m - 1) + 16))
    BY <1>6, <1>7
  <2> QED
    BY <1>1, <1>5, <1>7, <2>1, DigitsJoined
<1>9. /\ Len(c) = 16 * n /\ encryption(input, k) = DigitsOf(c)
      /\ \A m \in 1 .. n : SubSeq(c, 16 * (m - 1) + 1, 16 * (m - 1) + 16) = vector(m)
  BY <1>2, <1>6, <1>7, <1>8
<1> QED
  BY <1>9 DEF n, vector

\* Up to 15 blocks of digits are deciphered one by one.
LEMMA DecryptedText ==
  ASSUME NEW n \in 0 .. 15, NEW c \in Seq(Char), Len(c) = 16 * n, NEW k \in KeyText
  PROVE  decryption(DigitsOf(c), k)
           = Joined([m \in 1 .. n |->
                       convertTypeByteStateToStr(
                         DecipheredVector(k, SubSeq(c, 16 * (m - 1) + 1, 16 * (m - 1) + 16)))])
<1>1. convertTypeStrToByteBlock(DigitsOf(c)) = c
  BY BytesOfDigits
<1>2. Len(DigitsOf(c)) \div (2 * 16) = n
  <2>1. Len(DigitsOf(c)) = 2 * Len(c)
    BY DigitsOfBytes
  <2> QED
    BY <2>1
<1>3. ASSUME NEW m \in 1 .. n
      PROVE  createState(c, 16 * (m - 1)) = SubSeq(c, 16 * (m - 1) + 1, 16 * (m - 1) + 16)
  <2>1. m - 1 \in 0 .. n - 1 /\ 16 * (m - 1) \in Nat
    OBVIOUS
  <2>2. Readable(Len(c), 16 * (m - 1)) /\ last(Len(c), 16 * (m - 1)) = 16
    BY <2>1, FullCipher
  <2> QED
    BY <2>1, <2>2, FullState
<1>4. decryption(DigitsOf(c), k)
        = Joined([m \in 1 .. n |->
                    convertTypeByteStateToStr(DecipheredVector(k, createState(c, 16 * (m - 1))))])
  BY <1>1, <1>2 DEF decryption, DecipheredVector, Nstate
<1> QED
  BY <1>3, <1>4

\* The first digits of a text of bytes are those of its first bytes.
LEMMA FirstDigits ==
  ASSUME NEW c \in Seq(Char), NEW q \in 0 .. Len(c)
  PROVE  /\ SubSeq(c, 1, q) \in Seq(Char) /\ Len(SubSeq(c, 1, q)) = q
         /\ SubSeq(DigitsOf(c), 1, 2 * q) = DigitsOf(SubSeq(c, 1, q))
<1> DEFINE size == Len(c)
           a == SubSeq(c, 1, q)
           b == SubSeq(c, q + 1, size)
<1>1. size \in Nat /\ q \in Nat /\ q <= size
  BY LenProperties
<1> HIDE DEF size
<1>2. a \in Seq(Char) /\ Len(a) = q
  <2>1. 0 \in Nat /\ 0 + q <= Len(c) /\ 0 + 1 = 1 /\ 0 + q = q
    BY <1>1
  <2>2. SubSeq(c, 0 + 1, 0 + q) \in Seq(Char) /\ Len(SubSeq(c, 0 + 1, 0 + q)) = q
    BY <1>1, <2>1, Piece
  <2> QED
    BY <2>1, <2>2
<1>3. b \in Seq(Char)
  <2>1. size - q \in Nat /\ q + (size - q) = size /\ q + (size - q) <= Len(c)
    BY <1>1 DEF size
  <2>2. SubSeq(c, q + 1, q + (size - q)) \in Seq(Char)
    BY <1>1, <2>1, Piece
  <2> QED
    BY <2>1, <2>2
<1>4. a \o b = c
  <2>1. 1 \in 1 .. size + 1 /\ q \in 1 - 1 .. size /\ size \in q .. size
    BY <1>1
  <2>2. a \o b = SubSeq(c, 1, size)
    BY <2>1, ConcatAdjacentSubSeq DEF size
  <2>3. SubSeq(c, 1, size) = c
    BY SubSeqFull DEF size
  <2> QED
    BY <2>2, <2>3
<1> HIDE DEF a, b
<1>5. DigitsOf(c) = DigitsOf(a) \o DigitsOf(b)
  BY <1>2, <1>3, <1>4, DigitsOfConcat
<1>6. /\ DigitsOf(a) \in Seq(Char) /\ DigitsOf(b) \in Seq(Char) /\ Len(DigitsOf(a)) = 2 * q
  BY <1>2, <1>3, DigitsOfBytes
<1>7. SubSeq(DigitsOf(a) \o DigitsOf(b), 1, 2 * q) = DigitsOf(a)
  <2>1. CASE q = 0
    <3>1. SubSeq(DigitsOf(a) \o DigitsOf(b), 1, 2 * q) = <<>>
      BY <2>1, SubSeqEmpty
    <3>2. DigitsOf(a) = <<>>
      BY <1>6, <2>1, EmptySeq
    <3> QED
      BY <3>1, <3>2
  <2>2. CASE q # 0
    <3>1. 1 \in 1 .. Len(DigitsOf(a)) /\ 2 * q \in 1 .. Len(DigitsOf(a))
      BY <1>1, <1>6, <2>2
    <3>2. SubSeq(DigitsOf(a) \o DigitsOf(b), 1, 2 * q) = SubSeq(DigitsOf(a), 1, 2 * q)
      BY <1>6, <3>1, SubSeqOfConcat1
    <3>3. SubSeq(DigitsOf(a), 1, 2 * q) = DigitsOf(a)
      BY <1>6, SubSeqFull
    <3> QED
      BY <3>2, <3>3
  <2> QED
    BY <2>1, <2>2
<1> QED
  BY <1>2, <1>5, <1>7 DEF a

\* A block of the first blocks is that block of all.
LEMMA BlockOfTheFirst ==
  ASSUME NEW n \in Nat, NEW c \in Seq(Char), 16 * n <= Len(c), NEW m \in 1 .. n
  PROVE  SubSeq(SubSeq(c, 1, 16 * n), 16 * (m - 1) + 1, 16 * (m - 1) + 16)
           = SubSeq(c, 16 * (m - 1) + 1, 16 * (m - 1) + 16)
<1> DEFINE start == 16 * (m - 1)  end == 16 * n
<1>1. /\ start \in Nat /\ end \in Nat /\ start + 16 <= end /\ end <= Len(c) /\ Len(c) \in Nat
  BY BlockEnds, LenProperties
<1> HIDE DEF start, end
<1>2. /\ 1 \in 1 .. Len(c) /\ end \in 1 .. Len(c)
      /\ start + 1 \in 1 .. end - 1 + 1 /\ start + 16 \in 1 .. end - 1 + 1
      /\ 1 + (start + 1) - 1 = start + 1 /\ 1 + (start + 16) - 1 = start + 16
  BY <1>1
<1>3. SubSeq(SubSeq(c, 1, end), start + 1, start + 16)
        = SubSeq(c, 1 + (start + 1) - 1, 1 + (start + 16) - 1)
  BY <1>2, SubSeqOfSubSeq
<1> QED
  BY <1>2, <1>3 DEF start, end

\* What comes back of the first n blocks of a text, block by block.
BlocksBack(bytes, n) ==
  [m \in 1 .. n |-> convertTypeByteStateToStr(createState(bytes, 16 * (m - 1)))]

(* Class AES on texts: what decryption makes of encryption's result, or of *)
(* its first blocks, up to 15, is made of the blocks of the text alone.    *)
(* The cipher and the key leave no trace.                                  *)
THEOREM CipherLeavesTexts ==
  ASSUME NEW input \in Seq(Char), NEW k \in KeyText,
         \A j \in 0 .. blockSize(input) - 1 :
            Readable(Len(convertTypeStrToByteBlock(input)), 16 * j),
         NEW n \in 0 .. 15, n <= blockSize(input)
  PROVE  decryption(SubSeq(encryption(input, k), 1, 32 * n), k)
           = Joined(BlocksBack(convertTypeStrToByteBlock(input), n))
<1> DEFINE N == blockSize(input)
           bytes == convertTypeStrToByteBlock(input)
           vector(m) == createState(bytes, 16 * (m - 1))
<1>1. N \in Nat /\ bytes \in Seq(Char)
  BY BlockCount, BytesOfText
<1>2. PICK c \in Seq(Char) :
        /\ Len(c) = 16 * N
        /\ encryption(input, k) = DigitsOf(c)
        /\ \A m \in 1 .. N : SubSeq(c, 16 * (m - 1) + 1, 16 * (m - 1) + 16)
                               = EncipheredVector(k, vector(m))
  BY EncryptedText
<1>3. \A m \in 1 .. n : /\ m \in 1 .. N /\ m - 1 \in 0 .. N - 1
                        /\ 16 * (m - 1) \in Nat
  BY <1>1
<1>4. ASSUME NEW m \in 1 .. n
      PROVE  vector(m) \in Seq(Char) /\ Len(vector(m)) = 16
  <2>1. Readable(Len(bytes), 16 * (m - 1))
    BY <1>3
  <2> QED
    BY <1>1, <1>3, <2>1, StateIsSeq
<1> HIDE DEF N, vector
<1> DEFINE d == SubSeq(c, 1, 16 * n)
<1>5. 16 * n \in 0 .. Len(c) /\ 2 * (16 * n) = 32 * n /\ 16 * n <= Len(c) /\ n \in Nat
  BY <1>1, <1>2 DEF N
<1>6. /\ d \in Seq(Char) /\ Len(d) = 16 * n
      /\ SubSeq(DigitsOf(c), 1, 2 * (16 * n)) = DigitsOf(d)
  BY <1>5, FirstDigits
<1>7. \A m \in 1 .. n : SubSeq(d, 16 * (m - 1) + 1, 16 * (m - 1) + 16)
                          = EncipheredVector(k, vector(m))
  BY <1>2, <1>3, <1>5, BlockOfTheFirst
<1> HIDE DEF d
<1>8. decryption(DigitsOf(d), k)
        = Joined([m \in 1 .. n |->
                    convertTypeByteStateToStr(
                      DecipheredVector(k, SubSeq(d, 16 * (m - 1) + 1, 16 * (m - 1) + 16)))])
  BY <1>6, DecryptedText
<1>9. \A m \in 1 .. n :
         DecipheredVector(k, SubSeq(d, 16 * (m - 1) + 1, 16 * (m - 1) + 16)) = vector(m)
  <2> TAKE m \in 1 .. n
  <2>1. DecipheredVector(k, EncipheredVector(k, vector(m))) = vector(m)
    BY <1>4, VectorsComeBack DEF EncipheredVector, DecipheredVector
  <2> QED
    BY <1>7, <2>1
<1>10. decryption(DigitsOf(d), k)
         = Joined([m \in 1 .. n |-> convertTypeByteStateToStr(vector(m))])
  BY <1>8, <1>9
<1> QED
  BY <1>2, <1>5, <1>6, <1>10 DEF vector, BlocksBack

-----------------------------------------------------------------------------
(* The text of the tunnel *)

\* It is one block of digits that does not end like padding.
LEMMA OneGoodBlock ==
  /\ SentBytes \in Seq(Char) /\ Len(SentBytes) = 16 /\ PaddingAt(SentBytes) = {}
  /\ SentText \in Seq(Char) /\ Len(SentText) = 32 /\ blockSize(SentText) = 1
  /\ convertTypeStrToByteBlock(SentText) = SentBytes
  /\ Readable(Len(SentBytes), 0) /\ createState(SentBytes, 0) = SentBytes
<1>1. SentBytes \in Seq(Char) /\ Len(SentBytes) = 16 /\ SentBytes[16] = 204
  BY DEF SentBytes, Char, Width
<1>2. PaddingAt(SentBytes) = {}
  <2>1. ASSUME NEW p \in PaddingAt(SentBytes) PROVE FALSE
    <3>1. p \in 1 .. 16 /\ SentBytes[16] = 17 - p
      BY <2>1 DEF PaddingAt, Nstate
    <3> QED
      BY <1>1, <3>1
  <2> QED
    BY <2>1
<1>3. /\ SentText \in Seq(Char) /\ Len(SentText) = 32
      /\ convertTypeStrToByteBlock(SentText) = SentBytes
  <2>1. DigitsOf(SentBytes) \in Seq(Char) /\ Len(DigitsOf(SentBytes)) = 2 * Len(SentBytes)
    BY <1>1, DigitsOfBytes
  <2>2. convertTypeStrToByteBlock(DigitsOf(SentBytes)) = SentBytes
    BY <1>1, BytesOfDigits
  <2> QED
    BY <1>1, <2>1, <2>2 DEF SentText
<1>4. blockSize(SentText) = 1
  BY <1>3 DEF blockSize, Nstate
<1>5. Readable(16, 0) /\ last(16, 0) = 16
  <2>1. 1 \in 0 .. 15 /\ 0 \in 0 .. 1 - 1 /\ 16 * 1 = 16 /\ 16 * 0 = 0
    OBVIOUS
  <2>2. Readable(16 * 1, 16 * 0) /\ last(16 * 1, 16 * 0) = 16
    BY <2>1, FullCipher
  <2> QED
    BY <2>1, <2>2
<1>6. createState(SentBytes, 0) = SentBytes
  <2>1. createState(SentBytes, 0) = SubSeq(SentBytes, 0 + 1, 0 + 16)
    BY <1>1, <1>5, FullState
  <2>2. SubSeq(SentBytes, 1, Len(SentBytes)) = SentBytes
    BY <1>1, SubSeqFull
  <2>3. 0 + 1 = 1 /\ 0 + 16 = Len(SentBytes)
    BY <1>1
  <2> QED
    BY <2>1, <2>2, <2>3
<1> QED
  BY <1>1, <1>2, <1>3, <1>4, <1>5, <1>6

(* The cipher text of the one text fills the header, and deciphering it    *)
(* with any key l gives the digits of one deciphered block.                *)
LEMMA SentTextThrough ==
  ASSUME NEW k \in KeyText, NEW l \in KeyText
  PROVE  /\ encryption(SentText, k) \in Seq(Char) /\ Len(encryption(SentText, k)) = 32
         /\ decryption(encryption(SentText, k), l)
              = convertTypeByteStateToStr(DecipheredVector(l, EncipheredVector(k, SentBytes)))
<1> DEFINE e == encryption(SentText, k)
<1>1. \A j \in 0 .. 1 - 1 : Readable(Len(SentBytes), 16 * j)
  <2>1. \A j \in 0 .. 1 - 1 : 16 * j = 0
    OBVIOUS
  <2> QED
    BY <2>1, OneGoodBlock
<1>2. PICK c \in Seq(Char) :
        /\ Len(c) = 16 * 1 /\ e = DigitsOf(c)
        /\ \A m \in 1 .. 1 : SubSeq(c, 16 * (m - 1) + 1, 16 * (m - 1) + 16)
                               = EncipheredVector(k, createState(SentBytes, 16 * (m - 1)))
  <2>1. /\ SentText \in Seq(Char) /\ blockSize(SentText) = 1
        /\ convertTypeStrToByteBlock(SentText) = SentBytes
    BY OneGoodBlock
  <2>2. \A j \in 0 .. blockSize(SentText) - 1 :
           Readable(Len(convertTypeStrToByteBlock(SentText)), 16 * j)
    BY <1>1, <2>1
  <2>3. \E c \in Seq(Char) :
           /\ Len(c) = 16 * blockSize(SentText)
           /\ encryption(SentText, k) = DigitsOf(c)
           /\ \A m \in 1 .. blockSize(SentText) :
                 SubSeq(c, 16 * (m - 1) + 1, 16 * (m - 1) + 16)
                   = EncipheredVector(k, createState(convertTypeStrToByteBlock(SentText),
                                                     16 * (m - 1)))
    BY <2>1, <2>2, EncryptedText
  <2> QED
    BY <2>1, <2>3
<1> HIDE DEF e
<1>3. /\ 1 \in 1 .. 1 /\ 16 * (1 - 1) = 0 /\ 1 \in 0 .. 15
      /\ 0 \in 0 .. 1 /\ 1 \in 0 .. 1 /\ 1 - 1 = 0
  OBVIOUS
<1>4. SubSeq(c, 16 * (1 - 1) + 1, 16 * (1 - 1) + 16) = EncipheredVector(k, SentBytes)
  BY <1>2, <1>3, OneGoodBlock
<1>5. e \in Seq(Char) /\ Len(e) = 32
  <2>1. DigitsOf(c) \in Seq(Char) /\ Len(DigitsOf(c)) = 2 * Len(c)
    BY DigitsOfBytes
  <2> QED
    BY <1>2, <2>1
<1> DEFINE vector(m) == DecipheredVector(l, SubSeq(c, 16 * (m - 1) + 1, 16 * (m - 1) + 16))
           pieces == [m \in 1 .. 1 |-> convertTypeByteStateToStr(vector(m))]
<1>6. decryption(e, l) = Joined(pieces)
  BY <1>2, <1>3, DecryptedText
<1>7. vector(1) = DecipheredVector(l, EncipheredVector(k, SentBytes))
  BY <1>4
<1>8. vector(1) \in Seq(Char) /\ Len(vector(1)) = 16
  <2>1. /\ EncipheredVector(k, SentBytes) \in Seq(Char)
        /\ Len(EncipheredVector(k, SentBytes)) = 16
    BY OneGoodBlock, VectorsComeBack DEF EncipheredVector
  <2> HIDE DEF vector
  <2> QED
    BY <1>7, <2>1, DecipheredVectorIs
<1>9. pieces \in Seq(Seq(Char)) /\ Len(pieces) = 1
      /\ pieces[1] = convertTypeByteStateToStr(vector(1)) /\ pieces[1] \in Seq(Char)
  <2>1. convertTypeByteStateToStr(vector(1)) \in Seq(Char)
    <3> HIDE DEF vector
    <3> QED
      BY <1>8, BackIsText
  <2> HIDE DEF vector
  <2> QED
    BY <2>1
<1> HIDE DEF pieces, vector
<1>10. Joined(pieces) = pieces[1]
  <2>1. Joins(pieces)[0] = <<>> /\ Joins(pieces)[1] = Joins(pieces)[1 - 1] \o pieces[1]
    BY <1>3, <1>9, JoinsAre
  <2>2. <<>> \o pieces[1] = pieces[1]
    BY <1>9, ConcatEmptySeq
  <2> QED
    BY <1>3, <1>9, <2>1, <2>2 DEF Joined
<1> QED
  BY <1>5, <1>6, <1>7, <1>9, <1>10 DEF e

(* What VPNApplication needs of the cipher, of class AES and any two keys: *)
(* the text survives with the same key, and with another one only if that  *)
(* key deciphers the one block, too.                                       *)
THEOREM SentTextSurvives ==
  ASSUME NEW k \in KeyText, NEW l \in KeyText
  PROVE  /\ encryption(SentText, k) \in [1 .. 32 -> Char]
         /\ decryption(encryption(SentText, k), k) = SentText
         /\ decryption(encryption(SentText, k), l) = SentText
              => decBlock(keyWords(l), encBlock(keyWords(k), asState(SentBytes)))
                   = asState(SentBytes)
<1> DEFINE c == EncipheredVector(k, SentBytes)
           v == DecipheredVector(l, c)
<1>1. encryption(SentText, k) \in Seq(Char) /\ Len(encryption(SentText, k)) = 32
  BY SentTextThrough
<1>2. encryption(SentText, k) \in [1 .. 32 -> Char]
  BY <1>1, LenProperties
<1>3. /\ c \in Seq(Char) /\ Len(c) = 16
      /\ asState(c) = encBlock(keyWords(k), asState(SentBytes))
      /\ DecipheredVector(k, c) = SentBytes
  BY OneGoodBlock, VectorsComeBack DEF EncipheredVector, DecipheredVector
<1>4. decryption(encryption(SentText, k), k) = SentText
  <2>1. decryption(encryption(SentText, k), k) = convertTypeByteStateToStr(SentBytes)
    BY <1>3, SentTextThrough
  <2> QED
    BY <2>1, OneGoodBlock, NoPadding DEF SentText
<1>5. ASSUME decryption(encryption(SentText, k), l) = SentText
      PROVE  decBlock(keyWords(l), encBlock(keyWords(k), asState(SentBytes)))
               = asState(SentBytes)
  <2>1. convertTypeByteStateToStr(v) = SentText
    BY <1>5, SentTextThrough
  <2>2. v \in Seq(Char) /\ Len(v) = 16
        /\ asState(v) = decBlock(keyWords(l), asState(c))
    <3> HIDE DEF c
    <3> QED
      BY <1>3, DecipheredVectorIs
  <2> HIDE DEF v, c
  <2>3. PaddingAt(v) = {}
    <3>1. Len(convertTypeByteStateToStr(v)) = 32
      BY <2>1, OneGoodBlock
    <3>2. PaddingAt(v) # {} => Len(convertTypeByteStateToStr(v)) <= 30
      BY <2>2, PaddingGoes
    <3> QED
      BY <3>1, <3>2
  <2>4. DigitsOf(v) = DigitsOf(SentBytes)
    BY <2>1, <2>3, NoPadding DEF SentText
  <2>5. v = SentBytes
    <3>1. convertTypeStrToByteBlock(DigitsOf(v)) = v
      BY <2>2, BytesOfDigits
    <3>2. convertTypeStrToByteBlock(DigitsOf(SentBytes)) = SentBytes
      BY OneGoodBlock, BytesOfDigits
    <3> QED
      BY <2>4, <3>1, <3>2
  <2> QED
    BY <1>3, <2>2, <2>5
<1> QED
  BY <1>2, <1>4, <1>5
=============================================================================
