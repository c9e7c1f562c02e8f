---------------------------- MODULE CipherModes -----------------------------
(***************************************************************************)
(* An object of class AES and the calls on it: encryption and decryption   *)
(* of texts of whole blocks, block by block as their loops do it, and      *)
(* setIV between the calls.  In mode CBC the object keeps the vector iv_   *)
(* and, while a call runs, phiv_.  What happens to one block is            *)
(* _encryption and _decryption (module AesRounds); here they are a pair of *)
(* operators of which only their inverse relation is known.  No block of a *)
(* text ends in what _convertTypeByteStateToStr takes for padding (module  *)
(* InputBlocks).                                                           *)
(***************************************************************************)
EXTENDS BlockCipher

VARIABLES
  mode_,   \* "ECB" or "CBC"
  iv_,     \* the object's initialization vector
  phiv_,   \* the placeholder for the previous cipher block
  call,    \* the call that runs, "none" between calls
  key,     \* its cipherKey,
  input,   \* its input
  out,     \* and what it has appended to its result
  made     \* what encryption calls have returned, and for what

vars == <<mode_, iv_, phiv_, call, key, input, out, made>>

Made == [iv : Block, key : Key, plain : Seq(Block), cipher : Seq(Block)]

CBC == mode_ = "CBC"

\* The block that the loop looks at.
Current == input[Len(out) + 1]

-----------------------------------------------------------------------------
(* The constructor; in mode CBC it calls setIV with the time as seed.      *)
Init ==
  /\ mode_ \in {"ECB", "CBC"}
  /\ iv_ \in IF CBC THEN IV ELSE {Zero}
  /\ phiv_ = Zero
  /\ call = "none"
  /\ key \in Key
  /\ input = <<>>
  /\ out = <<>>
  /\ made = {}

\* Both forms; the one with a seed draws the bytes.
setIV(iv) ==
  /\ call = "none" /\ CBC
  /\ iv_' = iv
  /\ UNCHANGED <<mode_, phiv_, call, key, input, out, made>>

\* slip: a call goes on where the call before it ended.
beginCallChained(name, k, text) ==
  /\ call = "none"
  /\ call' = name
  /\ key' = k
  /\ input' = text
  /\ out' = <<>>
  /\ phiv_' = phiv_
  /\ UNCHANGED <<mode_, iv_, made>>

beginCall(name, k, text) ==
  /\ call = "none"
  /\ call' = name
  /\ key' = k
  /\ input' = text
  /\ out' = <<>>
  /\ phiv_' = IF CBC THEN iv_ ELSE phiv_
  /\ UNCHANGED <<mode_, iv_, made>>

BeginEncryption(k, text) == beginCall("encryption", k, text)

BeginDecryption(k, m) == beginCall("decryption", k, m.cipher)

encryptionStep ==
  /\ call = "encryption" /\ Len(out) < Len(input)
  /\ LET state == encBlock(key, IF CBC THEN xorBlock(Current, phiv_) ELSE Current)
     IN  /\ phiv_' = IF CBC THEN state ELSE phiv_
         /\ out' = Append(out, state)
  /\ UNCHANGED <<mode_, iv_, call, key, input, made>>

\* slip: the placeholder gets the deciphered block instead of tmp.
decryptionStepState ==
  /\ call = "decryption" /\ Len(out) < Len(input)
  /\ LET state == decBlock(key, Current)
         plain == IF CBC THEN xorBlock(state, phiv_) ELSE state
     IN  /\ phiv_' = IF CBC THEN state ELSE phiv_
         /\ out' = Append(out, plain)
  /\ UNCHANGED <<mode_, iv_, call, key, input, made>>

decryptionStep ==
  /\ call = "decryption" /\ Len(out) < Len(input)
  /\ LET state == decBlock(key, Current)
         plain == IF CBC THEN xorBlock(state, phiv_) ELSE state
     IN  /\ phiv_' = IF CBC THEN Current ELSE phiv_
         /\ out' = Append(out, plain)
  /\ UNCHANGED <<mode_, iv_, call, key, input, made>>

returnEncryption ==
  /\ call = "encryption" /\ Len(out) = Len(input)
  /\ made' = made \cup {[iv |-> iv_, key |-> key, plain |-> input, cipher |-> out]}
  /\ call' = "none" /\ input' = <<>> /\ out' = <<>>
  /\ UNCHANGED <<mode_, iv_, phiv_, key>>

returnDecryption ==
  /\ call = "decryption" /\ Len(out) = Len(input)
  /\ call' = "none" /\ input' = <<>> /\ out' = <<>>
  /\ UNCHANGED <<mode_, iv_, phiv_, key, made>>

Next ==
  \/ \E iv \in IV : setIV(iv)
  \/ \E k \in Key, text \in PlainText : BeginEncryption(k, text)
  \/ \E k \in Key, m \in made : BeginDecryption(k, m)
  \/ encryptionStep
  \/ decryptionStep
  \/ returnEncryption
  \/ returnDecryption

Spec == Init /\ [][Next]_vars

-----------------------------------------------------------------------------
(* Properties *)

TypeOK ==
  /\ mode_ \in {"ECB", "CBC"}
  /\ iv_ \in Block /\ phiv_ \in Block
  /\ call \in {"none", "encryption", "decryption"}
  /\ key \in Key
  /\ input \in Seq(Block) /\ out \in Seq(Block)
  /\ made \subseteq Made

(* A cipher text depends on the text, the key and the vector alone, not on *)
(* what the object did before: two encryptions of the same return the      *)
(* same, and in mode ECB, the vector does not matter either.               *)
Deterministic ==
  \A m, n \in made :
     m.key = n.key /\ m.plain = n.plain /\ (CBC => m.iv = n.iv) => m.cipher = n.cipher

\* What decryption should make of block n of the text of m.
Expected(m, n) ==
  IF CBC /\ n = 1 THEN xorBlock(xorBlock(m.plain[1], m.iv), iv_) ELSE m.plain[n]

(* Decryption gives back the text, whatever calls came in between; if the  *)
(* vector was changed since, only the first block suffers.                 *)
RoundTrip ==
  call = "decryption" =>
    \A m \in made : m.key = key /\ m.cipher = input =>
       \A n \in 1 .. Len(out) : out[n] = Expected(m, n)
=============================================================================
