-------------------------- MODULE MCVPNApplication --------------------------
(***************************************************************************)
(* Instances of VPNApplication.  Addresses and ports are those of          *)
(* scratch/vpn-test.cc; S is its node n3, D its sink n4.                   *)
(***************************************************************************)
EXTENDS VPNApplication, TLC

CONSTANTS A, B, C, S, D,       \* nodes
          k1, k2,              \* keys
          garbage              \* what a wrong key makes of a cipher text

(* The cipher, by its promise: the text with the key, or garbage.          *)
MCText == {plainText, garbage} \cup {<<plainText, k>> : k \in Key}
MCEncryption(text, k) == <<text, k>>
MCDecryption(text, k) == IF text = <<plainText, k>> THEN plainText ELSE garbage

Sink == IP(11, 0, 0, 2)
VpnA == IP(11, 0, 0, 100)
VpnB == IP(11, 0, 0, 101)
VpnC == IP(11, 0, 0, 102)

MCPhys ==
  [h \in Host |->
     CASE h = A -> {IP(10, 1, 1, 1)}
       [] h = B -> {IP(10, 1, 2, 1)}
       [] h = C -> {IP(10, 1, 4, 1)}
       [] h = S -> {IP(10, 1, 3, 2), IP(11, 0, 0, 1)}
       [] h = D -> {Sink}]

(* A is a client of S, B and C are clients of A; C and S have another key. *)
ChainConfig ==
  [h \in VpnHost |->
     CASE h = S -> KeyedServerHelper(IP(12, 0, 0, 1), 50000, k2)
       [] h = A -> ClientHelper(IP(10, 1, 3, 2), VpnA, 50000, 50000)
       [] h = B -> ClientHelper(IP(10, 1, 1, 1), VpnB, 50000, 50000)
       [] h = C -> KeyedClientHelper(IP(10, 1, 1, 1), VpnC, 50000, 50000, k2)]

\* The identities of datagrams are interchangeable.
IdSymmetry == Permutations(Id)

NoRetargets == [h \in VpnHost |-> {}]
NoRekeys == [h \in VpnHost |-> {}]

(* A may be given B as its server, whose server it is itself, at B's port  *)
(* or at one where nobody listens, S under an address in A's own tap       *)
(* network, and another key; so there are cycles of servers, and frames    *)
(* under way to a former server with a former key.                         *)
ChainRetargets ==
  [h \in VpnHost |->
     IF h = A THEN {<<IP(10, 1, 2, 1), 1194>>, <<IP(11, 0, 0, 1), 50000>>} ELSE {}]
ChainRekeys == [h \in VpnHost |-> IF h = A THEN {k2} ELSE {}]

(* A and B are each other's server. *)
MutualConfig ==
  [h \in VpnHost |->
     CASE h = A -> ClientHelper(IP(10, 1, 2, 1), VpnA, 50000, 50000)
       [] h = B -> ClientHelper(IP(10, 1, 1, 1), VpnB, 50000, 50000)]

Udp(h, a, n) == [from |-> h, dst |-> a, port |-> 9, proto |-> "udp", size |-> n]
Tcp(h, a, n) == [from |-> h, dst |-> a, port |-> 9, proto |-> "tcp", size |-> n]

(* The largest datagram that fits a tap is Largest.  Larger ones leave     *)
(* their last piece more than a UDP header; one byte less than Smallest    *)
(* would not.                                                              *)
Largest == Room - UdpHeaderSize
Smallest == Room

ChainTraffic ==
  {Udp(A, Sink, 512), Udp(B, Sink, Largest), Udp(B, Sink, Smallest),
   Udp(B, VpnA, 512), Udp(B, VpnA, Smallest), Udp(A, VpnB, 512), Udp(S, Sink, 512),
   Tcp(B, Sink, 512), Udp(D, IP(10, 1, 1, 1), MaxUdp), Udp(B, IP(10, 1, 3, 2), 512)}

LiveTraffic ==
  {Udp(B, Sink, Largest), Udp(B, Sink, Smallest),
   Tcp(B, IP(11, 0, 0, 1), 512), Udp(B, VpnA, Smallest),
   Udp(B, IP(10, 1, 3, 2), 512)}
WrongKeyTraffic == {Udp(C, VpnA, 512)}
MutualTraffic == {Udp(A, Sink, 512)}
=============================================================================
