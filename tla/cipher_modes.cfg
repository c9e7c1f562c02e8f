\* Calls on one AES object, in either mode.
SPECIFICATION Spec
CONSTANTS
  Block <- MCBlock
  Key = {1, 3}
  IV <- MCIV
  PlainText <- MCText
  Zero = 0
  xorBlock <- MCXor
  encBlock <- MCEnc
  decBlock <- MCDec
INVARIANTS
  Deterministic
  RoundTrip
