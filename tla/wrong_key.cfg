\* A datagram for A's VPN address, wrapped with another key.
SPECIFICATION Spec
CONSTANTS
  A = A
  B = B
  C = C
  S = S
  D = D
  k1 = k1
  k2 = k2
  garbage = garbage
  plainText = plainText
  Key = {k1, k2}
  DefaultKey = k1
  Text <- MCText
  encryption <- MCEncryption
  decryption <- MCDecryption
  Host = {A, C, S, D}
  VpnHost = {A, C, S}
  Phys <- MCPhys
  Config <- ChainConfig
  Retargets <- NoRetargets
  Rekeys <- NoRekeys
  TapMtu = 1500
  PayloadPort = {7}
  Traffic <- WrongKeyTraffic
  Id = {1}
  Lossy = FALSE
INVARIANTS
  OnlyOthersForwarded
CHECK_DEADLOCK FALSE
