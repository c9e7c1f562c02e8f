------------------------- MODULE CipherModesProofs --------------------------
(***************************************************************************)
(* Theorems about CipherModes, for every block cipher with an inverse and  *)
(* texts of every length.                                                  *)
(***************************************************************************)
EXTENDS CipherModes, TLAPS

\* What block n of cipher text c is chained to.
Previous(iv, c, n) == IF n = 1 THEN iv ELSE c[n - 1]

\* c begins as the encryption of p does.
Enciphers(k, iv, p, c) ==
  \A n \in 1 .. Len(c) :
     c[n] = encBlock(k, IF CBC THEN xorBlock(p[n], Previous(iv, c, n)) ELSE p[n])

\* p begins as the decryption of c does.
Deciphers(k, iv, c, p) ==
  \A n \in 1 .. Len(p) :
     p[n] = IF CBC THEN xorBlock(decBlock(k, c[n]), Previous(iv, c, n))
                   ELSE decBlock(k, c[n])

\* The loop of encryption, which keeps phiv_ at the last cipher block.
Enciphering ==
  call = "encryption" =>
    /\ Enciphers(key, iv_, input, out)
    /\ CBC => phiv_ = Previous(iv_, out, Len(out) + 1)

\* The loop of decryption, which keeps it at the last block of its input.
Deciphering ==
  call = "decryption" =>
    /\ Deciphers(key, iv_, input, out)
    /\ CBC => phiv_ = Previous(iv_, input, Len(out) + 1)

\* Every result is the encryption of its text.
MadeHonest ==
  \A m \in made : /\ Len(m.cipher) = Len(m.plain)
                  /\ Enciphers(m.key, m.iv, m.plain, m.cipher)

\* m is the result of a call with the present call's arguments and vector.
SameCall(m) == m.key = key /\ m.plain = input /\ (CBC => m.iv = iv_)

\* An encryption goes the same way as one with the same arguments before it.
InStep ==
  call = "encryption" =>
    \A m \in made : SameCall(m) => \A n \in 1 .. Len(out) : out[n] = m.cipher[n]

IInv ==
  /\ TypeOK
  /\ Len(out) <= Len(input)
  /\ Enciphering
  /\ Deciphering
  /\ MadeHonest
  /\ InStep
  /\ Deterministic

-----------------------------------------------------------------------------
LEMMA AppendFacts ==
  ASSUME NEW s \in Seq(Block), NEW b \in Block
  PROVE  /\ Append(s, b) \in Seq(Block)
         /\ Len(s) \in Nat
         /\ Len(Append(s, b)) = Len(s) + 1
         /\ \A n \in 1 .. Len(s) : Append(s, b)[n] = s[n]
         /\ Append(s, b)[Len(s) + 1] = b
  OBVIOUS

LEMMA EmptySequence ==
  << >> \in Seq(Block) /\ Len(<< >>) = 0
  OBVIOUS

LEMMA InitInv == Init => IInv
  <1> SUFFICES ASSUME Init
               PROVE  IInv
    OBVIOUS
  <1>1. TypeOK
    BY EmptySequence, BlockAssumption DEF Init, TypeOK
  <1> QED
    BY <1>1, EmptySequence DEF Init, IInv, Enciphering, Deciphering, MadeHonest,
       InStep, Deterministic

\* Between calls nothing of a call is left to be said.
LEMMA IdleInv ==
  ASSUME TypeOK', Len(out)' <= Len(input)', call' = "none", MadeHonest', Deterministic'
  PROVE  IInv'
  BY DEF IInv, Enciphering, Deciphering, InStep

LEMMA SetStep ==
  ASSUME IInv, NEW iv \in IV, setIV(iv)
  PROVE  IInv'
  <1> USE DEF IInv
  <1>1. TypeOK'
    BY BlockAssumption DEF setIV, TypeOK
  <1>2. call' = "none" /\ UNCHANGED <<mode_, made, out, input>>
    BY DEF setIV
  <1>3. MadeHonest' /\ Deterministic'
    BY <1>2 DEF MadeHonest, Enciphers, Previous, Deterministic, CBC
  <1> QED
    BY <1>1, <1>2, <1>3, IdleInv

LEMMA BeginStep ==
  ASSUME IInv, NEW name \in {"encryption", "decryption"}, NEW k \in Key,
         NEW text \in Seq(Block), beginCall(name, k, text)
  PROVE  IInv'
  <1> USE DEF IInv
  <1>1. /\ call' = name /\ key' = k /\ input' = text /\ out' = <<>>
        /\ UNCHANGED <<mode_, iv_, made>>
        /\ phiv_' = IF CBC THEN iv_ ELSE phiv_
    BY DEF beginCall
  <1>2. TypeOK'
    BY <1>1, EmptySequence DEF TypeOK
  <1>3. MadeHonest' /\ Deterministic'
    BY <1>1 DEF MadeHonest, Enciphers, Previous, Deterministic, CBC
  <1>4. Enciphering' /\ Deciphering' /\ InStep'
    BY <1>1, EmptySequence DEF Enciphering, Deciphering, InStep, Enciphers,
       Deciphers, Previous, CBC
  <1>5. Len(out)' <= Len(input)'
    BY <1>1, EmptySequence
  <1> QED
    BY <1>2, <1>3, <1>4, <1>5

LEMMA EncryptionStep ==
  ASSUME IInv, encryptionStep
  PROVE  IInv'
  <1> USE DEF IInv
  <1> DEFINE state == encBlock(key, IF CBC THEN xorBlock(Current, phiv_) ELSE Current)
             n == Len(out) + 1
  <1>1. /\ call = "encryption" /\ Len(out) < Len(input)
        /\ phiv_' = IF CBC THEN state ELSE phiv_
        /\ out' = Append(out, state)
        /\ UNCHANGED <<mode_, iv_, call, key, input, made>>
    BY DEF encryptionStep
  <1>2. Len(out) \in Nat /\ Len(input) \in Nat /\ n \in 1 .. Len(input)
    BY <1>1 DEF TypeOK
  <1>3. Current \in Block /\ Current = input[n]
    BY <1>2 DEF Current, TypeOK
  <1>4. state \in Block
    BY <1>3, BlockAssumption DEF TypeOK
  <1>5. phiv_ = Previous(iv_, out, n) \/ ~ CBC
    BY <1>1 DEF Enciphering
  <1>6. state = encBlock(key, IF CBC THEN xorBlock(input[n], Previous(iv_, out, n))
                                     ELSE input[n])
    BY <1>3, <1>5
  <1> HIDE DEF state
  <1>7. /\ out' \in Seq(Block) /\ Len(out') = n
        /\ \A j \in 1 .. Len(out) : out'[j] = out[j]
        /\ out'[n] = state
    BY <1>1, <1>4, AppendFacts DEF TypeOK
  <1>8. TypeOK'
    BY <1>1, <1>4, <1>7 DEF TypeOK
  <1>9. MadeHonest' /\ Deterministic'
    BY <1>1 DEF MadeHonest, Enciphers, Previous, Deterministic, CBC
  <1>10. \A j \in 1 .. n : Previous(iv_, out', j) = Previous(iv_, out, j)
    BY <1>2, <1>7 DEF Previous
  <1>11. Enciphering'
    <2>1. ASSUME NEW j \in 1 .. n
          PROVE  out'[j] = encBlock(key, IF CBC THEN xorBlock(input[j], Previous(iv_, out', j))
                                                ELSE input[j])
      <3>1. CASE j = n
        BY <1>6, <1>7, <1>10, <3>1
      <3>2. CASE j # n
        <4>1. j \in 1 .. Len(out)
          BY <1>2, <3>2
        <4> QED
          BY <1>1, <1>7, <1>10, <4>1 DEF Enciphering, Enciphers
      <3> QED
        BY <3>1, <3>2
    <2>2. CBC => phiv_' = Previous(iv_, out', n + 1)
      BY <1>1, <1>2, <1>7 DEF Previous
    <2>3. CBC' = CBC
      BY <1>1 DEF CBC
    <2> HIDE DEF n
    <2>4. Enciphers(key, iv_, input, out)'
      BY <1>1, <1>7, <2>1, <2>3 DEF Enciphers, Previous
    <2>5. (CBC => phiv_ = Previous(iv_, out, Len(out) + 1))'
      BY <1>1, <1>7, <2>2, <2>3 DEF Previous
    <2> QED
      BY <2>4, <2>5 DEF Enciphering
  <1>12. Deciphering'
    BY <1>1 DEF Deciphering
  <1>13. InStep'
    <2>1. SUFFICES ASSUME NEW m \in made, SameCall(m), NEW j \in 1 .. n
                   PROVE  out'[j] = m.cipher[j]
      BY <1>1, <1>7 DEF InStep, SameCall, CBC
    <2>2. \A i \in 1 .. Len(out) : out[i] = m.cipher[i]
      BY <1>1, <2>1 DEF InStep
    <2>3. /\ Len(m.cipher) = Len(input) /\ m.key = key /\ m.plain = input
          /\ CBC => m.iv = iv_
      BY <2>1 DEF SameCall, MadeHonest
    <2>4. Previous(m.iv, m.cipher, n) = Previous(iv_, out, n) \/ ~ CBC
      BY <1>2, <2>2, <2>3 DEF Previous
    <2>5. m.cipher[n] = encBlock(key, IF CBC THEN xorBlock(input[n], Previous(m.iv, m.cipher, n))
                                             ELSE input[n])
      BY <1>2, <2>3 DEF MadeHonest, Enciphers
    <2>6. m.cipher[n] = state
      BY <1>6, <2>4, <2>5
    <2> QED
      BY <1>2, <1>7, <2>2, <2>6
  <1>14. Len(out)' <= Len(input)'
    BY <1>1, <1>2, <1>7
  <1> QED
    BY <1>8, <1>9, <1>11, <1>12, <1>13, <1>14

LEMMA DecryptionStep ==
  ASSUME IInv, decryptionStep
  PROVE  IInv'
  <1> USE DEF IInv
  <1> DEFINE state == decBlock(key, Current)
             plain == IF CBC THEN xorBlock(state, phiv_) ELSE state
             n == Len(out) + 1
  <1>1. /\ call = "decryption" /\ Len(out) < Len(input)
        /\ phiv_' = IF CBC THEN Current ELSE phiv_
        /\ out' = Append(out, plain)
        /\ UNCHANGED <<mode_, iv_, call, key, input, made>>
    BY DEF decryptionStep
  <1>2. Len(out) \in Nat /\ Len(input) \in Nat /\ n \in 1 .. Len(input)
    BY <1>1 DEF TypeOK
  <1>3. Current \in Block /\ Current = input[n]
    BY <1>2 DEF Current, TypeOK
  <1>4. plain \in Block
    BY <1>3, BlockAssumption DEF TypeOK
  <1>5. plain = IF CBC THEN xorBlock(decBlock(key, input[n]), Previous(iv_, input, n))
                       ELSE decBlock(key, input[n])
    BY <1>1, <1>3 DEF Deciphering
  <1> HIDE DEF plain
  <1>6. /\ out' \in Seq(Block) /\ Len(out') = n
        /\ \A j \in 1 .. Len(out) : out'[j] = out[j]
        /\ out'[n] = plain
    BY <1>1, <1>4, AppendFacts DEF TypeOK
  <1>7. TypeOK'
    BY <1>1, <1>3, <1>6 DEF TypeOK
  <1>8. MadeHonest' /\ Deterministic'
    BY <1>1 DEF MadeHonest, Enciphers, Previous, Deterministic, CBC
  <1>9. Deciphering'
    <2>1. ASSUME NEW j \in 1 .. n
          PROVE  out'[j] = IF CBC THEN xorBlock(decBlock(key, input[j]), Previous(iv_, input, j))
                                  ELSE decBlock(key, input[j])
      <3>1. CASE j = n
        BY <1>5, <1>6, <3>1
      <3>2. CASE j # n
        <4>1. j \in 1 .. Len(out)
          BY <1>2, <3>2
        <4> QED
          BY <1>1, <1>6, <4>1 DEF Deciphering, Deciphers
      <3> QED
        BY <3>1, <3>2
    <2>2. CBC => phiv_' = Previous(iv_, input, n + 1)
      BY <1>1, <1>2, <1>3 DEF Previous
    <2>3. CBC' = CBC
      BY <1>1 DEF CBC
    <2> HIDE DEF n
    <2>4. Deciphers(key, iv_, input, out)'
      BY <1>1, <1>6, <2>1, <2>3 DEF Deciphers, Previous
    <2>5. (CBC => phiv_ = Previous(iv_, input, Len(out) + 1))'
      BY <1>1, <1>6, <2>2, <2>3 DEF Previous
    <2> QED
      BY <2>4, <2>5 DEF Deciphering
  <1>10. Enciphering' /\ InStep'
    BY <1>1 DEF Enciphering, InStep
  <1>11. Len(out)' <= Len(input)'
    BY <1>1, <1>2, <1>6
  <1> QED
    BY <1>7, <1>8, <1>9, <1>10, <1>11

LEMMA ReturnStep ==
  ASSUME IInv, returnEncryption
  PROVE  IInv'
  <1> USE DEF IInv
  <1> DEFINE r == [iv |-> iv_, key |-> key, plain |-> input, cipher |-> out]
  <1>1. /\ call = "encryption" /\ Len(out) = Len(input)
        /\ made' = made \cup {r}
        /\ call' = "none" /\ input' = <<>> /\ out' = <<>>
        /\ UNCHANGED <<mode_, iv_, phiv_, key>>
    BY DEF returnEncryption
  <1>2. r \in Made /\ r.iv = iv_ /\ r.key = key /\ r.plain = input /\ r.cipher = out
    BY DEF Made, TypeOK
  <1> HIDE DEF r
  <1>3. TypeOK'
    BY <1>1, <1>2, EmptySequence DEF TypeOK
  <1>4. CBC' = CBC
    BY <1>1 DEF CBC
  <1>5. Len(r.cipher) = Len(r.plain) /\ Enciphers(r.key, r.iv, r.plain, r.cipher)
    BY <1>1, <1>2 DEF Enciphering
  <1>6. \A m \in made' : Len(m.cipher) = Len(m.plain) /\ Enciphers(m.key, m.iv, m.plain, m.cipher)
    BY <1>1, <1>5 DEF MadeHonest
  <1>7. MadeHonest'
    BY <1>4, <1>6 DEF MadeHonest, Enciphers, Previous
  <1>8. ASSUME NEW m \in made, m.key = r.key, m.plain = r.plain, CBC => m.iv = r.iv
        PROVE  m.cipher = r.cipher
    <2>1. SameCall(m)
      BY <1>2, <1>8 DEF SameCall
    <2>2. \A n \in 1 .. Len(out) : out[n] = m.cipher[n]
      BY <1>1, <2>1 DEF InStep
    <2>3. /\ Len(m.cipher) = Len(out)
          /\ m.cipher \in Seq(Block) /\ out \in Seq(Block)
      BY <1>1, <1>2, <1>8 DEF MadeHonest, TypeOK, Made
    <2> QED
      BY <1>2, <2>2, <2>3
  <1>9. Deterministic'
    BY <1>1, <1>4, <1>8 DEF Deterministic
  <1>10. Len(out)' <= Len(input)'
    BY <1>1, EmptySequence
  <1> QED
    BY <1>1, <1>3, <1>7, <1>9, <1>10, IdleInv

LEMMA InvStep == IInv /\ [Next]_vars => IInv'
  <1> SUFFICES ASSUME IInv, [Next]_vars
               PROVE  IInv'
    OBVIOUS
  <1>1. ASSUME NEW k \in Key, NEW text \in PlainText, BeginEncryption(k, text)
        PROVE  IInv'
    BY <1>1, BeginStep, BlockAssumption DEF BeginEncryption
  <1>2. ASSUME NEW k \in Key, NEW m \in made, BeginDecryption(k, m)
        PROVE  IInv'
    <2>1. m.cipher \in Seq(Block)
      BY DEF IInv, TypeOK, Made
    <2> QED
      BY <1>2, <2>1, BeginStep DEF BeginDecryption
  <1>3. CASE returnDecryption
    <2>1. /\ call' = "none" /\ input' = <<>> /\ out' = <<>>
          /\ UNCHANGED <<mode_, iv_, phiv_, key, made>>
      BY <1>3 DEF returnDecryption
    <2>2. TypeOK'
      BY <2>1, EmptySequence DEF TypeOK, IInv
    <2>3. MadeHonest' /\ Deterministic'
      BY <2>1 DEF IInv, MadeHonest, Enciphers, Previous, Deterministic, CBC
    <2>4. Len(out)' <= Len(input)'
      BY <2>1, EmptySequence
    <2> QED
      BY <2>1, <2>2, <2>3, <2>4, IdleInv
  <1>4. CASE UNCHANGED vars
    BY <1>4 DEF vars, IInv, TypeOK, Enciphering, Deciphering, MadeHonest, InStep,
       SameCall, Enciphers, Deciphers, Previous, Deterministic, CBC
  <1> QED
    BY <1>1, <1>2, <1>3, <1>4, SetStep, EncryptionStep, DecryptionStep, ReturnStep
       DEF Next

LEMMA Invariance == Spec => []IInv
  BY InitInv, InvStep, PTL DEF Spec

-----------------------------------------------------------------------------
(* The same call on the same object gives the same cipher text, whatever   *)
(* calls came in between.                                                  *)
THEOREM EncryptionDeterministic == Spec => []Deterministic
  <1>1. IInv => Deterministic
    BY DEF IInv
  <1> QED
    BY <1>1, Invariance, PTL

(* Decryption with the key of the encryption gives back the text, but for  *)
(* the first block if iv_ was changed in between.                          *)
THEOREM DecryptionInverts == Spec => []RoundTrip
  <1>1. IInv => RoundTrip
    <2>1. SUFFICES ASSUME IInv, call = "decryption",
                          NEW m \in made, m.key = key, m.cipher = input,
                          NEW n \in 1 .. Len(out)
                   PROVE  out[n] = Expected(m, n)
      BY DEF RoundTrip
    <2>2. /\ Len(out) \in Nat /\ Len(input) \in Nat /\ Len(out) <= Len(input)
          /\ input \in Seq(Block) /\ iv_ \in Block /\ key \in Key
          /\ m.iv \in Block /\ m.plain \in Seq(Block) /\ Len(m.plain) = Len(input)
      BY <2>1 DEF IInv, TypeOK, Made, MadeHonest
    <2>3. n \in 1 .. Len(input) /\ n \in 1 .. Len(m.cipher)
      BY <2>1, <2>2
    <2>4. m.plain[n] \in Block /\ input[n] \in Block
      BY <2>2, <2>3
    <2>5. out[n] = IF CBC THEN xorBlock(decBlock(key, input[n]), Previous(iv_, input, n))
                          ELSE decBlock(key, input[n])
      BY <2>1 DEF IInv, Deciphering, Deciphers
    <2>6. input[n] = encBlock(key, IF CBC THEN xorBlock(m.plain[n], Previous(m.iv, input, n))
                                          ELSE m.plain[n])
      BY <2>1, <2>3 DEF IInv, MadeHonest, Enciphers
    <2>7. CASE CBC
      <3>1. Previous(m.iv, input, n) \in Block /\ Previous(iv_, input, n) \in Block
        BY <2>2, <2>3 DEF Previous
      <3>2. decBlock(key, input[n]) = xorBlock(m.plain[n], Previous(m.iv, input, n))
        <4> DEFINE b == xorBlock(m.plain[n], Previous(m.iv, input, n))
        <4>1. b \in Block
          BY <2>4, <3>1, BlockAssumption
        <4>2. input[n] = encBlock(key, b)
          BY <2>6, <2>7
        <4> HIDE DEF b
        <4>3. decBlock(key, encBlock(key, b)) = b
          BY <2>2, <4>1, BlockAssumption
        <4>4. decBlock(key, input[n]) = b
          BY <4>2, <4>3
        <4> QED
          BY <4>4 DEF b
      <3>3. out[n] = xorBlock(xorBlock(m.plain[n], Previous(m.iv, input, n)),
                              Previous(iv_, input, n))
        BY <2>5, <2>7, <3>2
      <3>4. CASE n = 1
        BY <2>7, <3>3, <3>4 DEF Expected, Previous
      <3>5. CASE n # 1
        <4>1. Previous(m.iv, input, n) = Previous(iv_, input, n)
          BY <3>5 DEF Previous
        <4>2. out[n] = m.plain[n]
          BY <2>4, <3>1, <3>3, <4>1, BlockAssumption
        <4> QED
          BY <3>5, <4>2 DEF Expected
      <3> QED
        BY <3>4, <3>5
    <2>8. CASE ~ CBC
      BY <2>2, <2>4, <2>5, <2>6, <2>8, BlockAssumption DEF Expected
    <2> QED
      BY <2>7, <2>8
  <1> QED
    BY <1>1, Invariance, PTL
=============================================================================
