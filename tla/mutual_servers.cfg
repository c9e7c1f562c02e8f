\* Two nodes, each the other's server.
SPECIFICATION FairSpec
CONSTANTS
  A = A
  B = B
  C = C
  S = S
  D = D
  k1 = k1
  k2 = k2
  garbage = garbage
  plainText = plainText
  Key = {k1, k2}
  DefaultKey = k1
  Text <- MCText
  encryption <- MCEncryption
  decryption <- MCDecryption
  Host = {A, B, D}
  VpnHost = {A, B}
  Phys <- MCPhys
  Config <- MutualConfig
  Retargets <- NoRetargets
  Rekeys <- NoRekeys
  TapMtu = 1500
  PayloadPort = {7}
  Traffic <- MutualTraffic
  Id = {1}
  Lossy = FALSE
PROPERTIES
  TunnelDelivers
CHECK_DEADLOCK FALSE
