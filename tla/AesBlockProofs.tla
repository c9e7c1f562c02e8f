--------------------------- MODULE AesBlockProofs ---------------------------
(***************************************************************************)
(* Module AesBlock: its steps go through what the functions of AesRounds   *)
(* give, and so decryption undoes encryption for every key and block; and  *)
(* the tables, as the runs check them.                                     *)
(***************************************************************************)
EXTENDS MCAesBlock, AesTextsProofs

-----------------------------------------------------------------------------
(* The inductive invariant of the steps *)

\* What the functions make of an input: the states of _encryption and those of
\* _decryption.
Forth(i) == Encryptions(expandKey(i.key), Rounds(Len(i.key)), i.block)
Back(i) == LET n == Rounds(Len(i.key)) IN Decryptions(expandKey(i.key), n, Forth(i)[n])

\* How they are made, one from the other.
LEMMA Facts ==
  ASSUME input \in Input
  PROVE  /\ Nkey \in {4, 6, 8} /\ Nround \in {10, 12, 14} /\ WordsAdded(Nkey) \in Nat
         /\ Nkey + WordsAdded(Nkey) = Ncol * (Nround + 1)
         /\ Words(input.key)[0] = input.key
         /\ Words(input.key)[WordsAdded(Nkey)] = expandKey(input.key)
         /\ \A m \in 0 .. WordsAdded(Nkey) : Len(Words(input.key)[m]) = Nkey + m
         /\ \A m \in 1 .. WordsAdded(Nkey) :
              Words(input.key)[m] = withNextWord(Nkey, Words(input.key)[m - 1])
         /\ Forth(input)[0] = addRoundKey(input.block, expandKey(input.key), 0)
         /\ \A r \in 0 .. Nround : Forth(input)[r] \in Block
         /\ \A r \in 1 .. Nround :
              Forth(input)[r]
                = encryptRound(expandKey(input.key), Nround, r, Forth(input)[r - 1])
         /\ Back(input)[0] = addRoundKey(Forth(input)[Nround], expandKey(input.key), Nround)
         /\ \A r \in 1 .. Nround :
              Back(input)[r] = decryptRound(expandKey(input.key), Nround - r, Back(input)[r - 1])
         /\ \A r \in 0 .. Nround - 1 : Back(input)[r] = Shifted(Forth(input)[Nround - 1 - r])
         /\ Back(input)[Nround] = input.block
<1> DEFINE k == input.key  m == WordsAdded(Nkey)  n == Nround  w == expandKey(k)
<1>1. k \in CipherKey /\ input.block \in Block
  BY InputAssumption
<1>2. Nkey = Len(k) /\ n = Rounds(Len(k)) /\ Nkey \in {4, 6, 8}
  BY <1>1 DEF Nkey, Nround, CipherKey
<1>3. n \in {10, 12, 14} /\ w \in Schedule(n)
  BY <1>1, <1>2, ExpandedKey
<1>4. w = Words(k)[m]
  BY <1>2 DEF Words, expandKey
<1>5. /\ Forth(input) = Encryptions(w, n, input.block)
      /\ Back(input) = Decryptions(w, n, Forth(input)[n])
  BY <1>2 DEF Forth, Back
<1>6. m = WordsAdded(Len(k))
  BY <1>2
<1> HIDE DEF k, m, n, w
<1>8. n \in Nat \ {0} /\ n \in 0 .. n
  BY <1>3
<1>9. /\ m \in Nat /\ Nkey + m = Ncol * (n + 1)
      /\ Words(k)[0] = k
      /\ \A l \in 0 .. m : Len(Words(k)[l]) = Nkey + l
      /\ \A l \in 1 .. m : Words(k)[l] = withNextWord(Nkey, Words(k)[l - 1])
  BY <1>1, <1>2, <1>6, SchedulesGrow
<1>10. /\ Forth(input)[0] = addRoundKey(input.block, w, 0)
       /\ \A r \in 0 .. n : Forth(input)[r] \in Block
       /\ \A r \in 1 .. n : Forth(input)[r] = encryptRound(w, n, r, Forth(input)[r - 1])
  BY <1>1, <1>3, <1>5, <1>8, EncryptionsAre
<1>11. /\ Back(input)[0] = addRoundKey(Forth(input)[n], w, n)
       /\ \A r \in 1 .. n : Back(input)[r] = decryptRound(w, n - r, Back(input)[r - 1])
  <2>1. Forth(input)[n] \in Block
    BY <1>8, <1>10
  <2> QED
    BY <1>3, <1>5, <1>8, <2>1, DecryptionsAre
<1>12. /\ \A r \in 0 .. n - 1 : Back(input)[r] = Shifted(Forth(input)[n - 1 - r])
       /\ Back(input)[n] = input.block
  BY <1>1, <1>3, <1>5, <1>8, DecryptionsMirror
<1> QED
  BY <1>2, <1>3, <1>4, <1>9, <1>10, <1>11, <1>12 DEF k, m, n, w

\* None of it changes while the input stays.
LEMMA FactsStay ==
  ASSUME input' = input
  PROVE  /\ Nkey' = Nkey /\ Nround' = Nround /\ Words(input'.key) = Words(input.key)
         /\ Forth(input') = Forth(input) /\ Back(input') = Back(input)
  BY DEF Nkey, Nround

Typed ==
  /\ input \in Input
  /\ pc \in {"expand", "encrypt", "decrypt", "done"}
  /\ trace \in Seq(Block)

\* The schedule is the function's, up to the word that comes next.
Expanded ==
  /\ pc = "expand" => /\ \E m \in 0 .. WordsAdded(Nkey) : roundKey = Words(input.key)[m]
                      /\ state = input.block /\ trace = <<>>
  /\ pc # "expand" => roundKey = expandKey(input.key)

\* The trace is the function's, up to the round that comes next.
Enciphered ==
  /\ pc = "encrypt" => /\ round \in 0 .. Nround /\ Len(trace) = round + 1
                       /\ state = Forth(input)[round]
  /\ pc \in {"decrypt", "done"} => Len(trace) = Nround + 1
  /\ pc # "expand" => \A r \in 1 .. Len(trace) : trace[r] = Forth(input)[r - 1]

\* So is the state of the decryption.
Deciphered ==
  /\ pc = "decrypt" => round \in 0 .. Nround - 1 /\ state = Back(input)[Nround - 1 - round]
  /\ pc = "done" => state = Back(input)[Nround]

IInv == Typed /\ Expanded /\ Enciphered /\ Deciphered

-----------------------------------------------------------------------------
(* The invariant holds initially and is preserved by each step *)

\* Before the first step nothing but the key is there.
LEMMA InitInv == Init => IInv
<1> SUFFICES ASSUME Init PROVE IInv
  OBVIOUS
<1>1. /\ input \in Input /\ pc = "expand" /\ roundKey = input.key
      /\ state = input.block /\ trace = <<>>
  BY DEF Init
<1>2. 0 \in 0 .. WordsAdded(Nkey) /\ Words(input.key)[0] = input.key
  <2>1. Words(input.key)[0] = input.key /\ WordsAdded(Nkey) \in Nat
    <3>1. input.key \in CipherKey
      BY <1>1, InputAssumption
    <3> QED
      BY <3>1, SchedulesGrow DEF Nkey
  <2> QED
    BY <2>1
<1> QED
  BY <1>1, <1>2 DEF IInv, Typed, Expanded, Enciphered, Deciphered

\* The next word of the key.
LEMMA ExpandKeyStep ==
  ASSUME IInv, ExpandKey
  PROVE  IInv'
<1>0. input \in Input
  BY DEF IInv, Typed
<1>1. /\ pc = "expand" /\ Len(roundKey) < Ncol * (Nround + 1)
      /\ roundKey' = withNextWord(Nkey, roundKey)
      /\ input' = input /\ pc' = pc /\ state' = state /\ trace' = trace
  BY DEF ExpandKey
<1>2. PICK m \in 0 .. WordsAdded(Nkey) : roundKey = Words(input.key)[m]
  BY <1>1 DEF IInv, Expanded
<1>3. m + 1 \in 1 .. WordsAdded(Nkey) /\ m + 1 \in 0 .. WordsAdded(Nkey) /\ m + 1 - 1 = m
  BY <1>0, <1>1, <1>2, Facts DEF Ncol
<1>4. roundKey' = Words(input.key)[m + 1]
  BY <1>0, <1>1, <1>2, <1>3, Facts
<1> QED
  BY <1>0, <1>1, <1>3, <1>4, Facts, FactsStay DEF IInv, Typed, Expanded, Enciphered, Deciphered

\* The first round key.
LEMMA BeginEncryptionStep ==
  ASSUME IInv, BeginEncryption
  PROVE  IInv'
<1>0. input \in Input
  BY DEF IInv, Typed
<1>1. /\ pc = "expand" /\ Len(roundKey) = Ncol * (Nround + 1) /\ pc' = "encrypt"
      /\ round' = 0 /\ state' = addRoundKey(state, roundKey, 0) /\ trace' = <<state'>>
      /\ input' = input /\ roundKey' = roundKey
  BY DEF BeginEncryption
<1>2. PICK m \in 0 .. WordsAdded(Nkey) : roundKey = Words(input.key)[m]
  BY <1>1 DEF IInv, Expanded
<1>3. m = WordsAdded(Nkey)
  BY <1>0, <1>1, <1>2, Facts DEF Ncol
<1>4. roundKey = expandKey(input.key)
  BY <1>0, <1>1, <1>2, <1>3, Facts
<1>5. state = input.block
  BY <1>1 DEF IInv, Expanded
<1>6. state' = Forth(input)[0] /\ state' \in Block
  <2>1. 0 \in 0 .. Nround
    BY <1>0, <1>1, Facts
  <2> QED
    BY <1>0, <1>1, <1>4, <1>5, <2>1, Facts
<1>7. /\ trace' \in Seq(Block) /\ Len(trace') = 1
      /\ \A r \in 1 .. Len(trace') : trace'[r] = Forth(input)[r - 1]
  <2>1. Len(trace') = 1 /\ trace'[1] = state' /\ \A r \in 1 .. 1 : r = 1 /\ r - 1 = 0
    BY <1>1
  <2> QED
    BY <1>1, <1>6, <2>1
<1> QED
  BY <1>0, <1>1, <1>4, <1>6, <1>7, Facts, FactsStay DEF IInv, Typed, Expanded, Enciphered, Deciphered

\* A round of encryption, which adds an entry to the trace.
LEMMA EncryptRoundStep ==
  ASSUME IInv, EncryptRound
  PROVE  IInv'
<1>0. input \in Input
  BY DEF IInv, Typed
<1>1. /\ pc = "encrypt" /\ round < Nround /\ round' = round + 1 /\ pc' = pc
      /\ state' = encryptRound(roundKey, Nround, round', state)
      /\ trace' = Append(trace, state') /\ input' = input /\ roundKey' = roundKey
  BY DEF EncryptRound
<1>2. /\ roundKey = expandKey(input.key) /\ round \in 0 .. Nround
      /\ trace \in Seq(Block) /\ Len(trace) = round + 1 /\ state = Forth(input)[round]
      /\ \A r \in 1 .. Len(trace) : trace[r] = Forth(input)[r - 1]
  BY <1>1 DEF IInv, Typed, Expanded, Enciphered
<1>3. round' \in 1 .. Nround /\ round' \in 0 .. Nround /\ round' - 1 = round
  BY <1>0, <1>1, <1>2, Facts
<1>4. state' = Forth(input)[round'] /\ state' \in Block
  BY <1>0, <1>1, <1>2, <1>3, Facts
<1>5. /\ trace' \in Seq(Block) /\ Len(trace') = round' + 1
      /\ \A r \in 1 .. Len(trace') : trace'[r] = Forth(input)[r - 1]
  <2>1. /\ trace' \in Seq(Block) /\ Len(trace') = round' + 1 /\ trace'[round' + 1] = state'
        /\ \A r \in 1 .. Len(trace) : trace'[r] = trace[r]
    BY <1>1, <1>2, <1>4
  <2>2. \A r \in 1 .. Len(trace') : r \in 1 .. Len(trace) \/ r = round' + 1
    BY <1>1, <1>2, <1>3, <2>1
  <2>3. round' + 1 - 1 = round'
    BY <1>1, <1>2
  <2>4. \A r \in 1 .. Len(trace') : trace'[r] = Forth(input)[r - 1]
    <3> TAKE r \in 1 .. Len(trace')
    <3>1. CASE r \in 1 .. Len(trace)
      BY <1>2, <2>1, <3>1
    <3>2. CASE r = round' + 1
      BY <1>1, <1>2, <1>4, <2>1, <2>3, <3>2
    <3> QED
      BY <2>2, <3>1, <3>2
  <2> QED
    BY <2>1, <2>4
<1> QED
  BY <1>0, <1>1, <1>2, <1>3, <1>4, <1>5, Facts, FactsStay DEF IInv, Typed, Expanded, Enciphered, Deciphered

\* The step into decryption, which takes off the last round key.
LEMMA BeginDecryptionStep ==
  ASSUME IInv, BeginDecryption
  PROVE  IInv'
<1>0. input \in Input
  BY DEF IInv, Typed
<1>1. /\ pc = "encrypt" /\ round = Nround /\ pc' = "decrypt" /\ round' = Nround - 1
      /\ state' = addRoundKey(state, roundKey, Nround)
      /\ input' = input /\ roundKey' = roundKey /\ trace' = trace
  BY DEF BeginDecryption
<1>2. roundKey = expandKey(input.key) /\ Len(trace) = Nround + 1 /\ state = Forth(input)[Nround]
  BY <1>1 DEF IInv, Expanded, Enciphered
<1>3. round' \in 0 .. Nround - 1 /\ Nround - 1 - round' = 0
  BY <1>0, <1>1, Facts
<1>4. state' = Back(input)[0]
  BY <1>0, <1>1, <1>2, Facts
<1> QED
  BY <1>0, <1>1, <1>2, <1>3, <1>4, Facts, FactsStay DEF IInv, Typed, Expanded, Enciphered, Deciphered

\* A round of decryption.
LEMMA DecryptRoundStep ==
  ASSUME IInv, DecryptRound
  PROVE  IInv'
<1>0. input \in Input
  BY DEF IInv, Typed
<1>1. /\ pc = "decrypt" /\ state' = decryptRound(roundKey, round, state)
      /\ round' = (IF round > 0 THEN round - 1 ELSE 0)
      /\ pc' = (IF round > 0 THEN pc ELSE "done")
      /\ input' = input /\ roundKey' = roundKey /\ trace' = trace
  BY DEF DecryptRound
<1>2. /\ roundKey = expandKey(input.key) /\ round \in 0 .. Nround - 1
      /\ state = Back(input)[Nround - 1 - round]
  BY <1>1 DEF IInv, Expanded, Deciphered
<1>3. /\ Nround - round \in 1 .. Nround /\ Nround - round - 1 = Nround - 1 - round
      /\ Nround - (Nround - round) = round
  BY <1>0, <1>1, <1>2, Facts
<1>4. state' = Back(input)[Nround - round]
  BY <1>0, <1>1, <1>2, <1>3, Facts
<1>5. Typed' /\ Expanded' /\ Enciphered'
  BY <1>0, <1>1, Facts, FactsStay DEF IInv, Typed, Expanded, Enciphered
<1>6. CASE round > 0
  <2>1. /\ round' \in 0 .. Nround - 1 /\ Nround - 1 - round' = Nround - round
        /\ pc' = "decrypt"
    BY <1>0, <1>1, <1>2, <1>6, Facts
  <2> QED
    BY <1>0, <1>1, <1>4, <1>5, <2>1, Facts, FactsStay DEF IInv, Deciphered
<1>7. CASE round = 0
  <2>1. Nround - round = Nround /\ pc' = "done"
    BY <1>0, <1>1, <1>7, Facts
  <2> QED
    BY <1>0, <1>1, <1>4, <1>5, <2>1, Facts, FactsStay DEF IInv, Deciphered
<1> QED
  BY <1>0, <1>2, <1>6, <1>7, <1>1, Facts

\* A step that changes nothing.
LEMMA StutteringStep ==
  ASSUME IInv, UNCHANGED vars
  PROVE  IInv'
<1>0. input \in Input
  BY DEF IInv, Typed
<1>1. /\ input' = input /\ pc' = pc /\ roundKey' = roundKey /\ round' = round
      /\ state' = state /\ trace' = trace
  BY DEF vars
<1> QED
  BY <1>0, <1>1, Facts, FactsStay DEF IInv, Typed, Expanded, Enciphered, Deciphered

(* The steps of _expandKey, _encryption and _decryption go through what    *)
(* the functions of AesRounds give.                                        *)
LEMMA StepsFollowFunctions == Spec => []IInv
<1>1. IInv /\ [Next]_vars => IInv'
  BY ExpandKeyStep, BeginEncryptionStep, EncryptRoundStep, BeginDecryptionStep,
     DecryptRoundStep, StutteringStep DEF Next
<1> QED
  BY InitInv, <1>1, PTL DEF Spec

(* For every key of 4, 6 or 8 words and every block, _decryption goes      *)
(* through the states of _encryption backwards and ends with the block.    *)
THEOREM DecryptionUndoesEncryption == Spec => []DecryptionMirrors
<1>1. ASSUME IInv PROVE DecryptionMirrors
  <2>1. input \in Input /\ Nround = Rounds(Len(input.key)) /\ Nround \in {10, 12, 14}
    <3>1. input.key \in CipherKey
      BY <1>1, InputAssumption DEF IInv, Typed
    <3> QED
      BY <1>1, <3>1, ExpandedKey DEF IInv, Typed, Nround, Nkey
  <2>2. ASSUME pc = "decrypt"
        PROVE  state = shiftRows(subBytes(trace[round + 1]))
    <3>1. /\ round \in 0 .. Nround - 1 /\ state = Back(input)[Nround - 1 - round]
          /\ Len(trace) = Nround + 1
          /\ \A r \in 1 .. Len(trace) : trace[r] = Forth(input)[r - 1]
      BY <1>1, <2>2 DEF IInv, Enciphered, Deciphered
    <3>2. /\ Nround - 1 - round \in 0 .. Nround - 1
          /\ Nround - 1 - (Nround - 1 - round) = round
          /\ round + 1 \in 1 .. Nround + 1 /\ round + 1 - 1 = round
      BY <2>1, <3>1
    <3>3. state = Shifted(Forth(input)[round])
      BY <2>1, <3>1, <3>2, Facts
    <3> QED
      BY <3>1, <3>2, <3>3 DEF Shifted
  <2>3. pc = "done" => state = input.block
    BY <1>1, <2>1, Facts DEF IInv, Deciphered
  <2> QED
    BY <2>2, <2>3 DEF DecryptionMirrors
<1> QED
  BY StepsFollowFunctions, <1>1, PTL

-----------------------------------------------------------------------------
(* The bytes a run looks at *)

\* They are bytes.
LEMMA LooksAtBytes == MCSpec => [](x \in Byte)
<1>1. MCInit => x \in Byte
  BY DEF MCInit, FirstByte, Byte
<1>2. x \in Byte /\ [MCNext]_<<vars, x>> => (x \in Byte)'
  BY DEF MCNext, NextByte, Byte
<1> QED
  BY <1>1, <1>2, PTL DEF MCSpec

(* The lookups that _subBytes and _invSubBytes are made of undo each other *)
(* at each byte that a run looks at, the only ones the tables have.        *)
THEOREM TablesUndoEachOther == MCSpec => []TablesInverse
<1>1. x \in Byte => TablesInverse
  BY TablesInverseEverywhere DEF TablesInverse
<1> QED
  BY LooksAtBytes, <1>1, PTL

(* The table that _subBytes looks up is the S-box of the standard, at each *)
(* of its 256 entries.                                                     *)
THEOREM SBoxOfTheStandard == MCSpec => []SBoxIsStandard
<1>1. x \in Byte => SBoxIsStandard
  BY InversesInverse, SBoxIsAffineInverse DEF SBoxIsStandard
<1> QED
  BY LooksAtBytes, <1>1, PTL

(* What _mixColumns multiplies a byte by is a product in the field, ...    *)
THEOREM FactorsMultiply == MCSpec => []FactorsAreProducts
<1>1. x \in Byte => FactorsAreProducts
  BY FactorsAreFieldProducts DEF FactorsAreProducts
<1> QED
  BY LooksAtBytes, <1>1, PTL

(* ... and so is what _invMixColumns multiplies it by, nested calls of the *)
(* macro or not.                                                           *)
THEOREM InvFactorsMultiply == MCSpec => []InvFactorsAreProducts
<1>1. x \in Byte => InvFactorsAreProducts
  BY FactorsAreFieldProducts DEF InvFactorsAreProducts
<1> QED
  BY LooksAtBytes, <1>1, PTL
=============================================================================
