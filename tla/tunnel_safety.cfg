\* Two datagrams through a chain of two servers, links that lose.
SPECIFICATION Spec
CONSTANTS
  A = A
  B = B
  C = C
  S = S
  D = D
  k1 = k1
  k2 = k2
  garbage = garbage
  plainText = plainText
  Key = {k1, k2}
  DefaultKey = k1
  Text <- MCText
  encryption <- MCEncryption
  decryption <- MCDecryption
  Host = {A, B, S, D}
  VpnHost = {A, B, S}
  Phys <- MCPhys
  Config <- ChainConfig
  Retargets <- ChainRetargets
  Rekeys <- ChainRekeys
  TapMtu = 1500
  PayloadPort = {7}
  Traffic <- ChainTraffic
  Id = {i1, i2}
  Lossy = TRUE
INVARIANTS
  TypeOK
  OneCopy
  Faithful
  SenderHidden
PROPERTIES
  TapNeedsKey
  StoppedIsQuiet
SYMMETRY IdSymmetry
CHECK_DEADLOCK FALSE
