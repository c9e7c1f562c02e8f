------------------------------ MODULE AesBlock ------------------------------
(***************************************************************************)
(* One block through class AES, step by step: _expandKey, then _encryption,*)
(* then _decryption of the result with the same key.  trace keeps what the *)
(* encryption's state was after each round key, which the code only prints *)
(* when it is verbose.                                                     *)
(***************************************************************************)
EXTENDS AesRounds

CONSTANT Input   \* the pairs of a key and a block

ASSUME InputAssumption == \A e \in Input : e.key \in CipherKey /\ e.block \in Block

VARIABLES input,      \* the key and the block
          pc,         \* "expand", "encrypt", "decrypt" or "done"
          roundKey,   \* the words expanded so far
          round,      \* the round keys added, or still to be taken off
          state,      \* the state the round functions work on
          trace       \* trace[r+1] is the encryption's state after round r

vars == <<input, pc, roundKey, round, state, trace>>

Nkey == Len(input.key)
Nround == Rounds(Nkey)

-----------------------------------------------------------------------------
Init ==
  /\ input \in Input
  /\ pc = "expand"
  /\ roundKey = input.key
  /\ round = 0
  /\ state = input.block
  /\ trace = <<>>

ExpandKey ==
  /\ pc = "expand" /\ Len(roundKey) < Ncol * (Nround + 1)
  /\ roundKey' = withNextWord(Nkey, roundKey)
  /\ UNCHANGED <<input, pc, round, state, trace>>

\* The first statement of _encryption.
BeginEncryption ==
  /\ pc = "expand" /\ Len(roundKey) = Ncol * (Nround + 1)
  /\ pc' = "encrypt"
  /\ round' = 0
  /\ state' = addRoundKey(state, roundKey, 0)
  /\ trace' = <<state'>>
  /\ UNCHANGED <<input, roundKey>>

EncryptRound ==
  /\ pc = "encrypt" /\ round < Nround
  /\ round' = round + 1
  /\ state' = encryptRound(roundKey, Nround, round', state)
  /\ trace' = Append(trace, state')
  /\ UNCHANGED <<input, pc, roundKey>>

\* The first statement of _decryption.
BeginDecryption ==
  /\ pc = "encrypt" /\ round = Nround
  /\ pc' = "decrypt"
  /\ round' = Nround - 1
  /\ state' = addRoundKey(state, roundKey, Nround)
  /\ UNCHANGED <<input, roundKey, trace>>

DecryptRound ==
  /\ pc = "decrypt"
  /\ state' = decryptRound(roundKey, round, state)
  /\ round' = IF round > 0 THEN round - 1 ELSE 0
  /\ pc' = IF round > 0 THEN pc ELSE "done"
  /\ UNCHANGED <<input, roundKey, trace>>

Next == ExpandKey \/ BeginEncryption \/ EncryptRound \/ BeginDecryption \/ DecryptRound

Spec == Init /\ [][Next]_vars

-----------------------------------------------------------------------------
(* _decryption undoes _encryption round by round: before it takes off      *)
(* round key r its state is what the encryption had after round r, with    *)
(* bytes substituted and rows rotated; at the end it is the block.         *)
DecryptionMirrors ==
  /\ pc = "decrypt" => state = shiftRows(subBytes(trace[round + 1]))
  /\ pc = "done" => state = input.block
=============================================================================
