---------------------------- MODULE BlockCipher -----------------------------
(***************************************************************************)
(* What the loops of class AES need of _encryption and _decryption of one  *)
(* block and of _xor_iv.                                                   *)
(***************************************************************************)
EXTENDS Naturals, Sequences

CONSTANTS
  Block,            \* the 16-byte blocks
  Key,              \* the cipher keys
  IV,               \* the vectors that setIV may be given
  PlainText,        \* the texts that may be enciphered
  Zero,             \* the block the constructor fills iv_ with
  xorBlock(_, _),   \* xorBlock(a, b): a ^ b, byte by byte
  encBlock(_, _),   \* encBlock(k, b): _encryption of b with the round keys of k
  decBlock(_, _)    \* decBlock(k, b): _decryption

ASSUME BlockAssumption ==
  /\ Zero \in Block
  /\ IV \subseteq Block
  /\ PlainText \subseteq Seq(Block)
  /\ \A a, b \in Block : xorBlock(a, b) \in Block
  /\ \A a, b \in Block : xorBlock(xorBlock(a, b), b) = a
  /\ \A k \in Key, b \in Block :
        /\ encBlock(k, b) \in Block
        /\ decBlock(k, b) \in Block
        /\ decBlock(k, encBlock(k, b)) = b
=============================================================================
