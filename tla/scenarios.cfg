\* The five mains, from the start to the return of Simulator::Run.
SPECIFICATION FairSpec
CONSTANTS
  Main = {"vpn-test", "p2p-performance-test", "sniffing-test",
          "wifi-performance-test", "sniffing-wifi-test"}
  Moment <- MCMoment
  Quota = 1
  k0 = k0
  k1 = k1
  garbage = garbage
  noText = noText
  SnifferKey = k0
  TapMtu = 20020
  plainText = plainText
  Key = {k0, k1}
  DefaultKey = k1
  Text <- MCText
  encryption <- MCEncryption
  decryption <- MCDecryption
INVARIANTS
  AlwaysTunnelled
  NeverCrashes
  EveryoneServed
  MeterSeparates
PROPERTIES
  RunReturns
CHECK_DEADLOCK FALSE
