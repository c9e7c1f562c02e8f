\* The sniffers, where the VPN nodes have the sniffers' key.
SPECIFICATION Spec
CONSTANTS
  Main = {"sniffing-test", "sniffing-wifi-test"}
  Moment <- MCMoment
  Quota = 1
  k0 = k0
  k1 = k1
  garbage = garbage
  noText = noText
  SnifferKey = k0
  TapMtu = 1500
  plainText = plainText
  Key = {k0, k1}
  DefaultKey = k0
  Text <- MCText
  encryption <- MCEncryption
  decryption <- MCDecryption
INVARIANTS
  SniffingNeedsTheKey
CHECK_DEADLOCK FALSE
