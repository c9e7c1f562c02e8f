\* Blocks enciphered and deciphered with keys of all three lengths, and
\* every byte through the tables and factors that this takes.
SPECIFICATION MCSpec
CONSTANTS
  Input <- MCInput
INVARIANTS
  SBoxIsStandard
  TablesInverse
  FactorsAreProducts
  InvFactorsAreProducts
  CipherIsStandard
  DecryptionMirrors
CHECK_DEADLOCK FALSE
