\* The same texts, all of which should come back.
SPECIFICATION Spec
CONSTANTS
  Call <- MCCall
  Key <- MCKey
INVARIANTS
  PaddingRoundTrip
CHECK_DEADLOCK FALSE
