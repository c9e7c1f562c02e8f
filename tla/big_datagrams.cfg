\* Datagrams of 50000 bytes through a tap.
SPECIFICATION Spec
CONSTANTS
  Main = {"p2p-performance-test"}
  Moment <- MCMoment
  Quota = 1
  k0 = k0
  k1 = k1
  garbage = garbage
  noText = noText
  SnifferKey = k0
  TapMtu = 1500
  plainText = plainText
  Key = {k0, k1}
  DefaultKey = k1
  Text <- MCText
  encryption <- MCEncryption
  decryption <- MCDecryption
INVARIANTS
  PayloadKept
CHECK_DEADLOCK FALSE
