------------------------------ MODULE VpnHeader ------------------------------
(***************************************************************************)
(* The header a tunnelled packet carries: a text and the same text         *)
(* enciphered with the sender's key.  The cipher is a parameter here: its  *)
(* assumptions say what the tunnel needs of it.                            *)
(***************************************************************************)
CONSTANTS Key,               \* the cipher keys
          Text,              \* the texts and cipher texts a header can carry
          plainText,         \* the text every sender enciphers
          encryption(_, _),  \* AES(128, ECB).encryption(text, key)
          decryption(_, _)   \* AES(128, ECB).decryption(text, key)

(* plainText is one whole block that does not end in bytes that look like  *)
(* padding, so that it survives the round trip; and no other key turns its *)
(* cipher text back into it.                                               *)
ASSUME CipherAssumption ==
  /\ plainText \in Text
  /\ \A k \in Key : encryption(plainText, k) \in Text
  /\ \A k, l \in Key :
        (decryption(encryption(plainText, k), l) = plainText) <=> (k = l)

Header == [m_sentOrigin : Text, m_encrypted : Text]

EncryptInput(input, cipherKey) ==
  [m_sentOrigin |-> input, m_encrypted |-> encryption(input, cipherKey)]

DecryptInput(hdr, cipherKey) == decryption(hdr.m_encrypted, cipherKey)

\* GetSerializedSize: two fields of 32 characters.
SerializedSize == 64
==============================================================================
