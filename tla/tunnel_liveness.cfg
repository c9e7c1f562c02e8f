\* Every datagram settles, and arrives, when nothing is lost; the service the
\* users see.
SPECIFICATION FairSpec
CONSTANTS
  A = A
  B = B
  C = C
  S = S
  D = D
  k1 = k1
  k2 = k2
  garbage = garbage
  plainText = plainText
  Key = {k1, k2}
  DefaultKey = k1
  Text <- MCText
  encryption <- MCEncryption
  decryption <- MCDecryption
  Host = {A, B, S, D}
  VpnHost = {A, B, S}
  Phys <- MCPhys
  Config <- ChainConfig
  Retargets <- NoRetargets
  Rekeys <- NoRekeys
  TapMtu = 1500
  PayloadPort = {7}
  Traffic <- LiveTraffic
  Id = {1, 2}
  Lossy = FALSE
PROPERTIES
  Settles
  TunnelDelivers
  ImplementsService
CHECK_DEADLOCK FALSE
