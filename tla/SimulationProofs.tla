-------------------------- MODULE SimulationProofs ---------------------------
(***************************************************************************)
(* Theorems about the simulations, for every number of datagrams and every *)
(* length of time: first what the mains' numbers come to, then what every  *)
(* packet of a run is at any moment, and then the properties.              *)
(***************************************************************************)
EXTENDS Simulation, FiniteSetTheorems, TLAPS

-----------------------------------------------------------------------------
(* What the mains have in common: one VPN server, one receiver, and every  *)
(* client a VPN client of that server or no VPN node.                      *)

Star == {"vpn-test", "p2p-performance-test"}
Wifi == {"wifi-performance-test", "sniffing-wifi-test"}

\* The node that serves the VPN clients, and the address they know it by.
Gateway(m) == CASE m \in Star -> 3 [] m = "sniffing-test" -> 2 [] m \in Wifi -> 1

GatewayAddress(m) ==
  CASE m \in Star -> IP(10, 1, 3, 2)
    [] m = "sniffing-test" -> IP(10, 1, 2, 2)
    [] m \in Wifi -> IP(10, 1, 1, 2)

\* The node everything is sent to, and the address it is sent to.
Receiver(m) == IF m = "sniffing-test" THEN 5 ELSE 4

Target(m) == IF m \in Star THEN IP(11, 0, 0, 2) ELSE IP(11, 0, 0, 4)

\* When the applications stop.
Stopped(m) == IF m = "wifi-performance-test" THEN 16 ELSE 10

LEMMA MainCases ==
  /\ DOMAIN Scenario = {"vpn-test", "p2p-performance-test", "sniffing-test",
                        "wifi-performance-test", "sniffing-wifi-test"}
  /\ Scenario["vpn-test"] = VpnTest
  /\ Scenario["p2p-performance-test"] = P2pPerformance
  /\ Scenario["sniffing-test"] = SniffingTest
  /\ Scenario["wifi-performance-test"] = WifiMain({5, 6}, 16, 16)
  /\ Scenario["sniffing-wifi-test"] = WifiMain({5}, 10, 11)
  BY DEF Scenario, WifiPerformance, SniffingWifi

(* VPN nodes: the attributes of a node are those of its one application.   *)
VpnFits(m, v) ==
  /\ v.node \in Node
  /\ v.start = 1 /\ v.stop = Stopped(m)
  /\ v.attributes.ClientPort = 50000 /\ v.attributes.ServerMask = 256
  /\ v.attributes.CipherKey = DefaultKey
  /\ IF v.node = Gateway(m)
     THEN /\ v.attributes.ServerAddress = UnsetAddress
          /\ v.attributes.ClientAddress = IP(12, 0, 0, 1)
     ELSE /\ v.attributes.ServerAddress = GatewayAddress(m)
          /\ v.attributes.ServerPort = 50000
          /\ v.attributes.ClientAddress \in {IP(11, 0, 0, 100), IP(11, 0, 0, 101)}

LEMMA HelperAttributes ==
  /\ ServerOnly =
       [ServerAddress |-> UnsetAddress, ClientAddress |-> IP(12, 0, 0, 1),
        ServerPort |-> 1194, ClientPort |-> 50000,
        ServerMask |-> 256, CipherKey |-> DefaultKey]
  /\ \A s, c :
       ClientHelper(s, c, 50000, 50000) =
         [ServerAddress |-> s, ClientAddress |-> c, ServerPort |-> 50000,
          ClientPort |-> 50000, ServerMask |-> 256, CipherKey |-> DefaultKey]
  <1>1. ASSUME NEW s, NEW c
        PROVE  ClientHelper(s, c, 50000, 50000) =
                 [ServerAddress |-> s, ClientAddress |-> c, ServerPort |-> 50000,
                  ClientPort |-> 50000, ServerMask |-> 256, CipherKey |-> DefaultKey]
    BY DEF ClientHelper, PortsHelper, WithServerPort, BareHelper, Defaults, SetAttribute
  <1>2. ServerOnly =
          [ServerAddress |-> UnsetAddress, ClientAddress |-> IP(12, 0, 0, 1),
           ServerPort |-> 1194, ClientPort |-> 50000,
           ServerMask |-> 256, CipherKey |-> DefaultKey]
    <2>1. ASSUME NEW a, NEW p
          PROVE  ServerHelper(a, p) =
                   SetAttribute(SetAttribute(Defaults, "ClientAddress", a), "ClientPort", p)
      BY DEF ServerHelper, SetAttribute
    <2>2. ASSUME NEW a
          PROVE  SetAttribute(SetAttribute(Defaults, "ClientAddress", a), "ClientPort", 50000) =
                   [ServerAddress |-> UnsetAddress, ClientAddress |-> a,
                    ServerPort |-> 1194, ClientPort |-> 50000,
                    ServerMask |-> 256, CipherKey |-> DefaultKey]
      BY DEF Defaults, SetAttribute
    <2>3. ServerOnly = ServerHelper(IP(12, 0, 0, 1), 50000)
      BY DEF ServerOnly
    <2> QED
      BY <2>1, <2>2, <2>3
  <1> QED
    BY <1>1, <1>2

LEMMA VpnsFit ==
  ASSUME NEW m \in DOMAIN Scenario
  PROVE  /\ \A v \in Scenario[m].vpns : VpnFits(m, v)
         /\ \A v, w \in Scenario[m].vpns : v.node = w.node => v = w
         /\ \E v \in Scenario[m].vpns : v.node = Gateway(m)
  <1> DEFINE client(s, c) == ClientHelper(s, c, 50000, 50000)
  <1>1. CASE m = "vpn-test"
    <2>1. Scenario[m].vpns =
            {Install(client(IP(10, 1, 3, 2), IP(11, 0, 0, 100)), 0, 1, 10),
             Install(client(IP(10, 1, 3, 2), IP(11, 0, 0, 101)), 1, 1, 10),
             Install(ServerOnly, 3, 1, 10)}
      BY <1>1, MainCases DEF VpnTest
    <2> QED
      BY <1>1, <2>1, HelperAttributes
         DEF VpnFits, Install, Gateway, GatewayAddress, Stopped, Star, Wifi, Node
  <1>2. CASE m = "p2p-performance-test"
    <2>1. Scenario[m].vpns =
            {Install(client(IP(10, 1, 3, 2), IP(11, 0, 0, 100)), 0, 1, 10),
             Install(ServerOnly, 3, 1, 10)}
      BY <1>2, MainCases DEF P2pPerformance
    <2> QED
      BY <1>2, <2>1, HelperAttributes
         DEF VpnFits, Install, Gateway, GatewayAddress, Stopped, Star, Wifi, Node
  <1>3. CASE m = "sniffing-test"
    <2>1. Scenario[m].vpns =
            {Install(client(IP(10, 1, 2, 2), IP(11, 0, 0, 100)), 0, 1, 10),
             Install(ServerOnly, 2, 1, 10)}
      BY <1>3, MainCases DEF SniffingTest
    <2> QED
      BY <1>3, <2>1, HelperAttributes
         DEF VpnFits, Install, Gateway, GatewayAddress, Stopped, Star, Wifi, Node
  <1>4. CASE m \in Wifi
    <2>1. Scenario[m].vpns =
            {Install(ServerOnly, 1, 1, Stopped(m)),
             Install(client(IP(10, 1, 1, 2), IP(11, 0, 0, 100)), 5, 1, Stopped(m))}
      BY <1>4, MainCases DEF WifiMain, Wifi, Stopped
    <2> QED
      BY <1>4, <2>1, HelperAttributes
         DEF VpnFits, Install, Gateway, GatewayAddress, Star, Wifi, Node
  <1> QED
    BY <1>1, <1>2, <1>3, <1>4, MainCases DEF Wifi

\* Attributes as a function of the node: those its one application has.
LEMMA AttributesFit ==
  ASSUME NEW m \in DOMAIN Scenario
  PROVE  /\ DOMAIN Attributes[m] = {v.node : v \in Scenario[m].vpns}
         /\ \A v \in Scenario[m].vpns : Attributes[m][v.node] = v.attributes
         /\ Gateway(m) \in DOMAIN Attributes[m]
  <1>1. /\ DOMAIN Attributes[m] = {v.node : v \in Scenario[m].vpns}
        /\ \A n \in DOMAIN Attributes[m] : Attributes[m][n] =
             (CHOOSE v \in Scenario[m].vpns : v.node = n).attributes
    BY DEF Attributes
  <1>2. ASSUME NEW v \in Scenario[m].vpns
        PROVE  (CHOOSE w \in Scenario[m].vpns : w.node = v.node) = v
    BY VpnsFit
  <1>3. Gateway(m) \in {v.node : v \in Scenario[m].vpns}
    BY VpnsFit
  <1>4. ASSUME NEW v \in Scenario[m].vpns
        PROVE  Attributes[m][v.node] = v.attributes
    BY <1>1, <1>2
  <1> QED
    BY <1>1, <1>3, <1>4

-----------------------------------------------------------------------------
(* Addresses *)

LEMMA StarAddresses ==
  ASSUME NEW m \in Star, NEW n \in Node
  PROVE  Addresses[m][n] =
           {a \in {IP(10, 1, 1, 1)} : n = 0} \cup {a \in {IP(10, 1, 2, 1)} : n = 1}
           \cup {a \in {IP(10, 1, 1, 2), IP(10, 1, 2, 2), IP(10, 1, 3, 1)} : n = 2}
           \cup {a \in {IP(10, 1, 3, 2), IP(11, 0, 0, 1)} : n = 3}
           \cup {a \in {IP(11, 0, 0, 2)} : n = 4}
           \cup {a \in {IP(11, 0, 0, 3)} : n = 5}
           \cup {a \in {IP(11, 0, 0, 4)} : n = 6}
  <1> DEFINE at(links) ==
        UNION {{AddressOf(links[l], p) :
                  p \in {q \in DOMAIN links[l].nodes : links[l].nodes[q] = n}} :
               l \in DOMAIN links}
  <1>1. m \in DOMAIN Scenario /\ Scenario[m].links = StarLinks
    BY MainCases DEF Star, VpnTest, P2pPerformance
  <1>2. Addresses[m][n] = at(StarLinks)
    BY <1>1 DEF Addresses
  <1>3. /\ DOMAIN StarLinks = {1, 2, 3, 4}
        /\ StarLinks[1] = Link(IP(10, 1, 1, 0), <<0, 2>>)
        /\ StarLinks[2] = Link(IP(10, 1, 2, 0), <<1, 2>>)
        /\ StarLinks[3] = Link(IP(10, 1, 3, 0), <<2, 3>>)
        /\ StarLinks[4] = Link(IP(11, 0, 0, 0), <<3, 4, 5, 6>>)
    BY DEF StarLinks
  <1>4. /\ DOMAIN <<0, 2>> = {1, 2} /\ DOMAIN <<1, 2>> = {1, 2}
        /\ DOMAIN <<2, 3>> = {1, 2} /\ DOMAIN <<3, 4, 5, 6>> = {1, 2, 3, 4}
    OBVIOUS
  <1>5. at(StarLinks) =
           {a \in {IP(10, 1, 1, 1)} : n = 0} \cup {a \in {IP(10, 1, 2, 1)} : n = 1}
           \cup {a \in {IP(10, 1, 1, 2), IP(10, 1, 2, 2), IP(10, 1, 3, 1)} : n = 2}
           \cup {a \in {IP(10, 1, 3, 2), IP(11, 0, 0, 1)} : n = 3}
           \cup {a \in {IP(11, 0, 0, 2)} : n = 4}
           \cup {a \in {IP(11, 0, 0, 3)} : n = 5}
           \cup {a \in {IP(11, 0, 0, 4)} : n = 6}
    BY <1>3, <1>4 DEF Link, AddressOf, IP, Node
  <1> QED
    BY <1>2, <1>5

LEMMA SniffingAddresses ==
  ASSUME NEW n \in Node
  PROVE  Addresses["sniffing-test"][n] =
           {a \in {IP(10, 1, 1, 1)} : n = 0}
           \cup {a \in {IP(10, 1, 1, 2), IP(10, 1, 2, 1)} : n = 1}
           \cup {a \in {IP(10, 1, 2, 2), IP(11, 0, 0, 1)} : n = 2}
           \cup {a \in {IP(11, 0, 0, 2)} : n = 3}
           \cup {a \in {IP(11, 0, 0, 3)} : n = 4}
           \cup {a \in {IP(11, 0, 0, 4)} : n = 5}
  <1> DEFINE at(links) ==
        UNION {{AddressOf(links[l], p) :
                  p \in {q \in DOMAIN links[l].nodes : links[l].nodes[q] = n}} :
               l \in DOMAIN links}
      links == <<Link(IP(10, 1, 1, 0), <<0, 1>>), Link(IP(10, 1, 2, 0), <<1, 2>>),
                 Link(IP(11, 0, 0, 0), <<2, 3, 4, 5>>)>>
  <1>1. "sniffing-test" \in DOMAIN Scenario /\ Scenario["sniffing-test"].links = links
    BY MainCases DEF SniffingTest
  <1>2. Addresses["sniffing-test"][n] = at(links)
    BY <1>1 DEF Addresses
  <1>3. /\ DOMAIN links = {1, 2, 3}
        /\ links[1] = Link(IP(10, 1, 1, 0), <<0, 1>>)
        /\ links[2] = Link(IP(10, 1, 2, 0), <<1, 2>>)
        /\ links[3] = Link(IP(11, 0, 0, 0), <<2, 3, 4, 5>>)
    OBVIOUS
  <1>4. /\ DOMAIN <<0, 1>> = {1, 2} /\ DOMAIN <<1, 2>> = {1, 2}
        /\ DOMAIN <<2, 3, 4, 5>> = {1, 2, 3, 4}
    OBVIOUS
  <1> HIDE DEF links
  <1>5. at(links) =
           {a \in {IP(10, 1, 1, 1)} : n = 0}
           \cup {a \in {IP(10, 1, 1, 2), IP(10, 1, 2, 1)} : n = 1}
           \cup {a \in {IP(10, 1, 2, 2), IP(11, 0, 0, 1)} : n = 2}
           \cup {a \in {IP(11, 0, 0, 2)} : n = 3}
           \cup {a \in {IP(11, 0, 0, 3)} : n = 4}
           \cup {a \in {IP(11, 0, 0, 4)} : n = 5}
    BY <1>3, <1>4 DEF Link, AddressOf, IP, Node
  <1> QED
    BY <1>2, <1>5

LEMMA WifiAddresses ==
  ASSUME NEW m \in Wifi, NEW n \in Node
  PROVE  Addresses[m][n] =
           {a \in {IP(10, 1, 1, 1), IP(10, 1, 2, 3)} : n = 0}
           \cup {a \in {IP(10, 1, 1, 2), IP(11, 0, 0, 1)} : n = 1}
           \cup {a \in {IP(11, 0, 0, 2)} : n = 2}
           \cup {a \in {IP(11, 0, 0, 3)} : n = 3}
           \cup {a \in {IP(11, 0, 0, 4)} : n = 4}
           \cup {a \in {IP(10, 1, 2, 1)} : n = 5}
           \cup {a \in {IP(10, 1, 2, 2)} : n = 6}
  <1> DEFINE at(links) ==
        UNION {{AddressOf(links[l], p) :
                  p \in {q \in DOMAIN links[l].nodes : links[l].nodes[q] = n}} :
               l \in DOMAIN links}
      links == <<Link(IP(10, 1, 1, 0), <<0, 1>>), Link(IP(10, 1, 2, 0), <<5, 6, 0>>),
                 Link(IP(11, 0, 0, 0), <<1, 2, 3, 4>>)>>
  <1>1. m \in DOMAIN Scenario /\ Scenario[m].links = links
    BY MainCases DEF Wifi, WifiMain, WifiLan
  <1>2. Addresses[m][n] = at(links)
    BY <1>1 DEF Addresses
  <1>3. /\ DOMAIN links = {1, 2, 3}
        /\ links[1] = Link(IP(10, 1, 1, 0), <<0, 1>>)
        /\ links[2] = Link(IP(10, 1, 2, 0), <<5, 6, 0>>)
        /\ links[3] = Link(IP(11, 0, 0, 0), <<1, 2, 3, 4>>)
    OBVIOUS
  <1>4. /\ DOMAIN <<0, 1>> = {1, 2} /\ DOMAIN <<5, 6, 0>> = {1, 2, 3}
        /\ DOMAIN <<1, 2, 3, 4>> = {1, 2, 3, 4}
    OBVIOUS
  <1> HIDE DEF links
  <1>5. at(links) =
           {a \in {IP(10, 1, 1, 1), IP(10, 1, 2, 3)} : n = 0}
           \cup {a \in {IP(10, 1, 1, 2), IP(11, 0, 0, 1)} : n = 1}
           \cup {a \in {IP(11, 0, 0, 2)} : n = 2}
           \cup {a \in {IP(11, 0, 0, 3)} : n = 3}
           \cup {a \in {IP(11, 0, 0, 4)} : n = 4}
           \cup {a \in {IP(10, 1, 2, 1)} : n = 5}
           \cup {a \in {IP(10, 1, 2, 2)} : n = 6}
    BY <1>3, <1>4 DEF Link, AddressOf, IP, Node
  <1> QED
    BY <1>2, <1>5

(* The gateway and the receiver are different nodes, each the only one     *)
(* with its address.                                                       *)
LEMMA AddressesFit ==
  ASSUME NEW m \in DOMAIN Scenario
  PROVE  /\ Gateway(m) \in Node /\ Receiver(m) \in Node /\ Gateway(m) # Receiver(m)
         /\ GatewayAddress(m) \in Nat /\ Target(m) \in Nat
         /\ \A n \in Node : Target(m) \in Addresses[m][n] <=> n = Receiver(m)
         /\ \A n \in Node : GatewayAddress(m) \in Addresses[m][n] <=> n = Gateway(m)
  <1>1. CASE m \in Star
    BY <1>1, StarAddresses
       DEF Star, Wifi, Gateway, Receiver, GatewayAddress, Target, IP, Node
  <1>2. CASE m = "sniffing-test"
    BY <1>2, SniffingAddresses
       DEF Star, Wifi, Gateway, Receiver, GatewayAddress, Target, IP, Node
  <1>3. CASE m \in Wifi
    BY <1>3, WifiAddresses
       DEF Star, Wifi, Gateway, Receiver, GatewayAddress, Target, IP, Node
  <1> QED
    BY <1>1, <1>2, <1>3, MainCases DEF Star, Wifi

-----------------------------------------------------------------------------
(* Traffic *)

ClientSize == {512, 50000}

\* A client is another node than the gateway and the receiver.
ClientFits(m, c) ==
  /\ c.node \in Node \ {Gateway(m), Receiver(m)}
  /\ c.dst = Target(m) /\ c.port \in {9, 10}
  /\ c.size \in ClientSize
  /\ c.start = 1 /\ c.stop = Stopped(m)

SinkFits(m, k) ==
  k.node = Receiver(m) /\ k.port \in {9, 10} /\ k.start = 1 /\ k.stop = Stopped(m)

LEMMA TrafficFits ==
  ASSUME NEW m \in DOMAIN Scenario
  PROVE  /\ \A c \in Scenario[m].clients : ClientFits(m, c)
         /\ \A c, d \in Scenario[m].clients : c.node = d.node => c = d
         /\ \A k \in Scenario[m].sinks : SinkFits(m, k)
         /\ \A c \in Scenario[m].clients : \E k \in Scenario[m].sinks : k.port = c.port
         /\ \E k \in Scenario[m].sinks : TRUE
  <1>1. CASE m = "vpn-test"
    <2>1. /\ Scenario[m].clients = {OnOff(n, IP(11, 0, 0, 2), 9, 512, 1, 10) : n \in {0, 1}}
          /\ Scenario[m].sinks = {PacketSink(4, 9, 1, 10)}
      BY <1>1, MainCases DEF VpnTest
    <2> QED
      BY <1>1, <2>1 DEF ClientFits, ClientSize, SinkFits, OnOff, PacketSink, Gateway, Receiver,
                        Target, Stopped, Star, Wifi, Node
  <1>2. CASE m = "p2p-performance-test"
    <2>1. /\ Scenario[m].clients = {OnOff(0, IP(11, 0, 0, 2), 9, 50000, 1, 10),
                                    OnOff(1, IP(11, 0, 0, 2), 10, 50000, 1, 10)}
          /\ Scenario[m].sinks = {PacketSink(4, 9, 1, 10), PacketSink(4, 10, 1, 10)}
      BY <1>2, MainCases DEF P2pPerformance
    <2> QED
      BY <1>2, <2>1 DEF ClientFits, ClientSize, SinkFits, OnOff, PacketSink, Gateway, Receiver,
                        Target, Stopped, Star, Wifi, Node
  <1>3. CASE m = "sniffing-test"
    <2>1. /\ Scenario[m].clients = {OnOff(0, IP(11, 0, 0, 0) + 4, 9, 512, 1, 10)}
          /\ Scenario[m].sinks = {PacketSink(5, 9, 1, 10)}
      BY <1>3, MainCases DEF SniffingTest, AddressOf, Link
    <2>2. IP(11, 0, 0, 0) + 4 = IP(11, 0, 0, 4)
      BY DEF IP
    <2> QED
      BY <1>3, <2>1, <2>2 DEF ClientFits, ClientSize, SinkFits, OnOff, PacketSink, Gateway, Receiver,
                              Target, Stopped, Star, Wifi, Node
  <1>4. CASE m \in Wifi
    <2> DEFINE senders == IF m = "wifi-performance-test" THEN {5, 6} ELSE {5}
    <2>1. /\ Scenario[m].clients =
               {OnOff(n, IP(11, 0, 0, 0) + 4, 9, 512, 1, Stopped(m)) : n \in senders}
          /\ Scenario[m].sinks = {PacketSink(4, 9, 1, Stopped(m))}
      <3>1. CASE m = "wifi-performance-test"
        BY <3>1, MainCases DEF WifiMain, WifiLan, AddressOf, Link, Stopped
      <3>2. CASE m = "sniffing-wifi-test"
        BY <3>2, MainCases DEF WifiMain, WifiLan, AddressOf, Link, Stopped
      <3> QED
        BY <1>4, <3>1, <3>2 DEF Wifi
    <2>2. IP(11, 0, 0, 0) + 4 = IP(11, 0, 0, 4)
      BY DEF IP
    <2>3. \A n \in senders : n \in {5, 6}
      OBVIOUS
    <2> HIDE DEF senders
    <2> QED
      BY <1>4, <2>1, <2>2, <2>3 DEF ClientFits, ClientSize, SinkFits, OnOff, PacketSink, Gateway, Receiver,
                              Target, Stopped, Star, Wifi, Node
  <1> QED
    BY <1>1, <1>2, <1>3, <1>4, MainCases DEF Wifi

\* The first applications to stop are the senders and sinks, all together.
LEMMA ClosingFits ==
  ASSUME main \in DOMAIN Scenario
  PROVE  /\ Closing = Stopped(main)
         /\ stopAt \in Nat /\ (stopAt # 0 => Stopped(main) <= stopAt)
  <1> DEFINE S == ({app.stop : app \in vpns \cup sinks} \cup {stopAt}) \ {0}
  <1>1. stopAt \in Nat /\ (stopAt # 0 => Stopped(main) <= stopAt)
    BY MainCases DEF VpnTest, P2pPerformance, SniffingTest, WifiMain, stopAt, Stopped
  <1>2. Stopped(main) \in Nat \ {0}
    BY DEF Stopped
  <1>3. \A app \in vpns \cup sinks : app.stop = Stopped(main)
    BY VpnsFit, TrafficFits DEF vpns, sinks, VpnFits, SinkFits
  <1>4. \E app \in sinks : TRUE
    BY TrafficFits DEF sinks
  <1>5. Stopped(main) \in S
    BY <1>2, <1>3, <1>4
  <1>6. \A t \in S : t \in Nat /\ Stopped(main) <= t
    BY <1>1, <1>2, <1>3
  <1> HIDE DEF S
  <1>7. Min(S) = Stopped(main)
    <2>1. ASSUME NEW x \in S, \A t \in S : x <= t
          PROVE  x = Stopped(main)
      BY <1>2, <1>5, <1>6, <2>1
    <2> QED
      BY <1>5, <1>6, <2>1 DEF Min
  <1> QED
    BY <1>1, <1>7 DEF Closing, S

(* The meters: what a packet of a client comes from when the receiver gets *)
(* it, the client or, through the tunnel, the gateway, tells its flow.     *)
Origin(m, node) == IF node \in DOMAIN Attributes[m] THEN Gateway(m) ELSE node

LEMMA MeterFits ==
  ASSUME main \in Metered, NEW c \in clients
  PROVE  FlowOf(main, c.port, SourceAddress(Origin(main, c.node), Receiver(main))) =
           IF c.node \in DOMAIN Attributes[main] THEN 0 ELSE 1
  <1>1. CASE main = "p2p-performance-test"
    <2>1. DOMAIN Attributes[main] = {0, 3}
      <3>1. Scenario[main].vpns =
              {Install(ClientHelper(IP(10, 1, 3, 2), IP(11, 0, 0, 100), 50000, 50000), 0, 1, 10),
               Install(ServerOnly, 3, 1, 10)}
        BY <1>1, MainCases DEF P2pPerformance
      <3>2. {v.node : v \in Scenario[main].vpns} = {0, 3}
        BY <3>1 DEF Install
      <3> QED
        BY <1>1, <3>2, MainCases, AttributesFit
    <2>2. clients = {OnOff(0, IP(11, 0, 0, 2), 9, 50000, 1, 10),
                     OnOff(1, IP(11, 0, 0, 2), 10, 50000, 1, 10)}
      BY <1>1, MainCases DEF P2pPerformance, clients
    <2>3. (c.node = 0 /\ c.port = 9) \/ (c.node = 1 /\ c.port = 10)
      BY <2>2 DEF OnOff
    <2> QED
      BY <1>1, <2>1, <2>3 DEF FlowOf, RxTime
  <1>2. CASE main = "wifi-performance-test"
    <2>1. DOMAIN Attributes[main] = {1, 5}
      <3>1. Scenario[main].vpns =
              {Install(ServerOnly, 1, 1, 16),
               Install(ClientHelper(IP(10, 1, 1, 2), IP(11, 0, 0, 100), 50000, 50000), 5, 1, 16)}
        BY <1>2, MainCases DEF WifiMain
      <3>2. {v.node : v \in Scenario[main].vpns} = {1, 5}
        BY <3>1 DEF Install
      <3> QED
        BY <1>2, <3>2, MainCases, AttributesFit
    <2>2. c.node \in {5, 6}
      BY <1>2, MainCases DEF WifiMain, clients, OnOff
    <2>3. /\ Addresses[main][1] = {IP(10, 1, 1, 2), IP(11, 0, 0, 1)}
          /\ Addresses[main][4] = {IP(11, 0, 0, 4)}
          /\ Addresses[main][6] = {IP(10, 1, 2, 2)}
      BY <1>2, WifiAddresses DEF Wifi, Node
    <2>4. SourceAddress(1, 4) = IP(11, 0, 0, 1)
      BY <2>3 DEF SourceAddress, IP
    <2>5. SourceAddress(6, 4) = IP(10, 1, 2, 2)
      BY <2>3 DEF SourceAddress, IP
    <2>6. Gateway(main) = 1 /\ Receiver(main) = 4
      BY <1>2 DEF Gateway, Receiver, Star, Wifi
    <2>7. Throughput(IP(11, 0, 0, 1)) = 0 /\ Throughput(IP(10, 1, 2, 2)) = 1
      BY DEF Throughput, IP
    <2> QED
      BY <1>2, <2>1, <2>2, <2>4, <2>5, <2>6, <2>7 DEF FlowOf, Origin
  <1> QED
    BY <1>1, <1>2 DEF Metered

-----------------------------------------------------------------------------
(* What every packet of a run is at any moment                             *)

VpnNode == DOMAIN Attributes[main]

\* The packets of a main.
AppPacket ==
  [id : Id, from : Node, dst : Nat, port : Nat, proto : {"udp"}, size : Nat,
   data : {"body"}, piece : Nat, frag : BOOLEAN]

\* The datagram that s records is one of client c.
FromClient(s, c) ==
  /\ s.pkt \in AppPacket
  /\ s.pkt.from = c.node /\ s.pkt.dst = c.dst /\ s.pkt.port = c.port
  /\ s.pkt.size = c.size /\ s.pkt.piece = 0 /\ s.pkt.frag = FALSE
  /\ s.route = IF c.node \in VpnNode THEN "tap" ELSE "net"

\* The pieces that have a UDP header, 0 for the whole.
Heads == {0, 1}

(* Of data of that size: whether a tap cuts it, into how many pieces, and  *)
(* how much follows the IP header of each.                                 *)
IsCut(size) == size + 28 > TapMtu
Count(size) == (size + 8 + (TapMtu - 20) - 1) \div (TapMtu - 20)
Share(load, room, k) ==
  IF k = 0 THEN load ELSE IF k * room <= load THEN room ELSE load - (k - 1) * room
Portion(size, k) == Share(size + 8, TapMtu - 20, k)

\* The numbers of the pieces in which s travels.
Numbers(s) ==
  IF s.route = "tap" /\ IsCut(s.pkt.size) THEN 1 .. Count(s.pkt.size) ELSE {0}

\* A piece as the tap takes it, and the packet that brings it to the receiver.
Taken(s, k) == IF k = 0 THEN s.pkt ELSE [s.pkt EXCEPT !.piece = k, !.frag = TRUE]

Onward(s, k) ==
  [s.pkt EXCEPT !.from = Origin(main, s.pkt.from), !.piece = k,
                !.port = IF k \in Heads THEN @ ELSE 0]

\* The flow in which it is counted there.
FlowOfSent(s) ==
  FlowOf(main, s.pkt.port, SourceAddress(Origin(main, s.pkt.from), Receiver(main)))

Clock == main \in Main /\ now \in Moment

(* The socket follows the tap, nothing changes server or key, and no tap   *)
(* is taken down early.                                                    *)
NodesKept ==
  /\ m_clientInterface \in [VpnNode -> {"none", "up", "down"}]
  /\ m_clientSocket \in [VpnNode -> {"none", "open", "closed"}]
  /\ \A h \in VpnNode : m_clientSocket[h] = "open" <=> m_clientInterface[h] = "up"
  /\ m_serverAddress = [h \in VpnNode |-> Attributes[main][h].ServerAddress]
  /\ m_serverPort = [h \in VpnNode |-> Attributes[main][h].ServerPort]
  /\ m_cipherKey = [h \in VpnNode |-> Attributes[main][h].CipherKey]
  /\ \A h \in VpnNode : m_clientInterface[h] = "down" => Stopped(main) <= now

SentByClients ==
  /\ \A s \in sent : s.pkt.id.at >= 1 /\ \E c \in clients : FromClient(s, c)
  /\ \A s, t \in sent : s.pkt.id = t.pkt.id => s = t
  /\ IsFiniteSet(sent)

\* A frame carries what a VPN client sent and is on its way to the gateway.
Framed ==
  \A f \in tunnel :
     /\ f.to = GatewayAddress(main) /\ f.port = 50000
     /\ \E s \in sent : \E k \in Numbers(s) : s.route = "tap" /\ f.inner = Taken(s, k)

\* A bare datagram is on its last way.
OnTheWay == \A p \in plain : \E s \in sent : \E k \in Numbers(s) : p = Onward(s, k)

\* Nothing is under way for more than a second.
Timely == \A p \in UnderWay : p.id.at <= now /\ now <= p.id.at + 1

\* s was heard, as much of it as gets through.
HeardOf(s) == \E x \in heard : x.id = s.pkt.id /\ x.size = Through(s)

(* What came in time was heard, if it is a datagram or the first piece of  *)
(* one, and what was heard is counted in the flow of its source.           *)
Counted ==
  /\ \A r \in rcvd : r.pkt.id.at + 1 < Stopped(main) /\ r.pkt.piece \in Heads =>
       \E s \in sent : s.pkt.id = r.pkt.id /\ HeardOf(s)
  /\ \A x \in heard : \E s \in sent : s.pkt.id = x.id /\ x.flow = FlowOfSent(s)

\* Where nothing is lost, what was sent in time is under way or was heard.
Kept ==
  ~ losing => \A s \in sent : s.pkt.id.at + 1 < Stopped(main) =>
     (\E p \in UnderWay : p.id = s.pkt.id /\ p.piece \in Heads) \/ HeardOf(s)

IInv ==
  /\ Clock /\ NodesKept /\ SentByClients /\ Framed /\ OnTheWay /\ Timely /\ Counted
  /\ Kept /\ EveryoneServed

-----------------------------------------------------------------------------
(* Steps of the tunnel in a main *)

\* What a VPN node's attributes say about its addresses.
LEMMA NodeAttributes ==
  ASSUME NEW m \in DOMAIN Scenario, NEW h \in DOMAIN Attributes[m]
  PROVE  /\ h \in Node
         /\ Attributes[m][h].ClientPort = 50000
         /\ Attributes[m][h].ServerMask = 256
         /\ Attributes[m][h].ClientAddress # Target(m)
         /\ Attributes[m][h].ClientAddress # GatewayAddress(m)
         /\ h = Gateway(m) =>
              /\ Attributes[m][h].ServerAddress = UnsetAddress
              /\ Target(m) \div 256 # Attributes[m][h].ClientAddress \div 256
              /\ UnsetAddress \div 256 # Attributes[m][h].ClientAddress \div 256
         /\ h # Gateway(m) =>
              /\ Attributes[m][h].ServerAddress = GatewayAddress(m)
              /\ Attributes[m][h].ServerPort = 50000
              /\ Target(m) \div 256 = Attributes[m][h].ClientAddress \div 256
              /\ GatewayAddress(m) \div 256 # Attributes[m][h].ClientAddress \div 256
         /\ \E v \in Scenario[m].vpns : v.node = h /\ v.start = 1 /\ v.stop = Stopped(m)
  <1>1. PICK v \in Scenario[m].vpns : v.node = h /\ Attributes[m][h] = v.attributes
    BY AttributesFit
  <1>2. VpnFits(m, v)
    BY VpnsFit
  <1>3. IF h = Gateway(m)
        THEN /\ Attributes[m][h].ServerAddress = UnsetAddress
             /\ Attributes[m][h].ClientAddress = IP(12, 0, 0, 1)
        ELSE /\ Attributes[m][h].ServerAddress = GatewayAddress(m)
             /\ Attributes[m][h].ServerPort = 50000
             /\ Attributes[m][h].ClientAddress \in {IP(11, 0, 0, 100), IP(11, 0, 0, 101)}
    BY <1>1, <1>2 DEF VpnFits
  <1>4. Target(m) \in {IP(11, 0, 0, 2), IP(11, 0, 0, 4)}
    BY DEF Target
  <1>5. GatewayAddress(m) \in {IP(10, 1, 3, 2), IP(10, 1, 2, 2), IP(10, 1, 1, 2)}
    BY MainCases DEF GatewayAddress, Star, Wifi
  <1>6. \A t \in {IP(11, 0, 0, 2), IP(11, 0, 0, 4)} :
          /\ t # IP(12, 0, 0, 1) /\ t \div 256 # IP(12, 0, 0, 1) \div 256
          /\ \A a \in {IP(11, 0, 0, 100), IP(11, 0, 0, 101)} :
                t # a /\ t \div 256 = a \div 256
    BY DEF IP
  <1>7. \A t \in {IP(10, 1, 3, 2), IP(10, 1, 2, 2), IP(10, 1, 1, 2)} :
          /\ t # IP(12, 0, 0, 1)
          /\ \A a \in {IP(11, 0, 0, 100), IP(11, 0, 0, 101)} :
                t # a /\ t \div 256 # a \div 256
    BY DEF IP
  <1>8. h \in Node /\ Attributes[m][h].ClientPort = 50000 /\ Attributes[m][h].ServerMask = 256
    BY <1>1, <1>2 DEF VpnFits
  <1>9. \E w \in Scenario[m].vpns : w.node = h /\ w.start = 1 /\ w.stop = Stopped(m)
    BY <1>1, <1>2 DEF VpnFits
  <1>10. CASE h = Gateway(m)
    <2>1. /\ Attributes[m][h].ServerAddress = UnsetAddress
          /\ Attributes[m][h].ClientAddress = IP(12, 0, 0, 1)
      BY <1>3, <1>10
    <2>2. UnsetAddress \div 256 # IP(12, 0, 0, 1) \div 256
      BY DEF UnsetAddress, IP
    <2> QED
      BY <1>4, <1>5, <1>6, <1>7, <1>8, <1>9, <1>10, <2>1, <2>2
  <1>11. CASE h # Gateway(m)
    <2>1. /\ Attributes[m][h].ServerAddress = GatewayAddress(m)
          /\ Attributes[m][h].ServerPort = 50000
          /\ Attributes[m][h].ClientAddress \in {IP(11, 0, 0, 100), IP(11, 0, 0, 101)}
      BY <1>3, <1>11
    <2> QED
      BY <1>4, <1>5, <1>6, <1>7, <1>8, <1>9, <1>11, <2>1
  <1> QED
    BY <1>10, <1>11

LEMMA SamePacket ==
  ASSUME NEW p \in AppPacket, NEW q \in AppPacket,
         p.id = q.id, p.from = q.from, p.dst = q.dst, p.port = q.port,
         p.size = q.size, p.piece = q.piece, p.frag = q.frag
  PROVE  p = q
  BY DEF AppPacket

LEMMA TakenFields ==
  ASSUME NEW s, s.pkt \in AppPacket, s.pkt.piece = 0, s.pkt.frag = FALSE,
         NEW k \in Numbers(s)
  PROVE  /\ Taken(s, k) \in AppPacket /\ k \in Nat
         /\ Taken(s, k).id = s.pkt.id /\ Taken(s, k).from = s.pkt.from
         /\ Taken(s, k).dst = s.pkt.dst /\ Taken(s, k).port = s.pkt.port
         /\ Taken(s, k).proto = "udp" /\ Taken(s, k).size = s.pkt.size
         /\ Taken(s, k).data = "body"
         /\ Taken(s, k).piece = k /\ (k = 0 => Taken(s, k).frag = FALSE)
         /\ (k # 0 => Taken(s, k).frag = TRUE)
  <1>1. k \in Nat
    BY DEF Numbers
  <1>2. CASE k = 0
    BY <1>2 DEF AppPacket, Taken
  <1>3. CASE k # 0
    <2>1. Taken(s, k) = [s.pkt EXCEPT !.piece = k, !.frag = TRUE]
      BY <1>3 DEF Taken
    <2> QED
      BY <1>1, <1>3, <2>1 DEF AppPacket
  <1> QED
    BY <1>2, <1>3

LEMMA OnwardFields ==
  ASSUME NEW s, s.pkt \in AppPacket, s.pkt.frag = FALSE, main \in DOMAIN Scenario,
         NEW k \in Numbers(s)
  PROVE  /\ Onward(s, k) \in AppPacket /\ k \in Nat
         /\ Onward(s, k).id = s.pkt.id
         /\ Onward(s, k).from = Origin(main, s.pkt.from)
         /\ Onward(s, k).dst = s.pkt.dst
         /\ Onward(s, k).port = (IF k \in Heads THEN s.pkt.port ELSE 0)
         /\ Onward(s, k).proto = "udp" /\ Onward(s, k).size = s.pkt.size
         /\ Onward(s, k).piece = k /\ Onward(s, k).frag = FALSE
  <1>1. k \in Nat
    BY DEF Numbers
  <1> DEFINE h == Origin(main, s.pkt.from)
             t == IF k \in Heads THEN s.pkt.port ELSE 0
  <1>2. h \in Node
    BY AddressesFit DEF Origin, AppPacket
  <1>3. t \in Nat
    BY DEF AppPacket
  <1>4. Onward(s, k) = [s.pkt EXCEPT !.from = h, !.piece = k, !.port = t]
    BY DEF Onward
  <1> HIDE DEF h, t
  <1>5. /\ Onward(s, k) \in AppPacket
        /\ Onward(s, k).id = s.pkt.id /\ Onward(s, k).from = h
        /\ Onward(s, k).dst = s.pkt.dst /\ Onward(s, k).port = t
        /\ Onward(s, k).proto = "udp" /\ Onward(s, k).size = s.pkt.size
        /\ Onward(s, k).piece = k /\ Onward(s, k).frag = s.pkt.frag
    BY <1>1, <1>2, <1>3, <1>4 DEF AppPacket
  <1> QED
    BY <1>1, <1>5 DEF h, t

LEMMA Portions ==
  ASSUME NEW z \in ClientSize
  PROVE  /\ z \in Nat /\ Portion(z, 0) = z + 8 /\ Portion(z, 0) >= 8
         /\ Count(z) \in Nat
         /\ IsCut(z) <=> ~ (Portion(z, 0) <= TapMtu - 20)
         /\ IsCut(z) => Count(z) >= 1 /\ Portion(z, 1) = TapMtu - 20
         /\ IsCut(z) => \A k \in 1 .. Count(z) : Portion(z, k) >= 8
  <1>1. z \in {512, 50000} /\ TapMtu \in {1500, 20020}
    BY RunAssumption DEF ClientSize
  <1>2. CASE z = 512
    BY <1>1, <1>2 DEF Portion, Share, IsCut, Count
  <1>3. CASE z = 50000 /\ TapMtu = 1500
    <2>1. Count(z) = 34 /\ IsCut(z)
      BY <1>3 DEF Count, IsCut
    <2>2. \A k \in 1 .. 34 : Portion(z, k) >= 8
      BY <1>3 DEF Portion, Share
    <2>3. Portion(z, 0) = 50008 /\ Portion(z, 1) = 1480
      BY <1>3 DEF Portion, Share
    <2> QED
      BY <1>3, <2>1, <2>2, <2>3
  <1>4. CASE z = 50000 /\ TapMtu = 20020
    <2>1. Count(z) = 3 /\ IsCut(z)
      BY <1>4 DEF Count, IsCut
    <2>2. \A k \in 1 .. 3 : Portion(z, k) >= 8
      BY <1>4 DEF Portion, Share
    <2>3. Portion(z, 0) = 50008 /\ Portion(z, 1) = 20000
      BY <1>4 DEF Portion, Share
    <2> QED
      BY <1>4, <2>1, <2>2, <2>3
  <1> QED
    BY <1>1, <1>2, <1>3, <1>4

\* The sizes of a packet of a main.
LEMMA Loads ==
  ASSUME NEW m \in Main, NEW p \in AppPacket
  PROVE  /\ Tunnel(m)!Load(p) = p.size + 8
         /\ Tunnel(m)!Room = TapMtu - 20
         /\ Tunnel(m)!PieceCount(p) = Count(p.size)
         /\ Tunnel(m)!IpLoad(p) = Portion(p.size, p.piece)
  <1>1. p.proto = "udp" /\ p.size \in Nat /\ TapMtu \in Nat
    BY RunAssumption DEF AppPacket
  <1>2. Tunnel(m)!Load(p) = p.size + 8
    BY <1>1 DEF Tunnel!Load, Tunnel!TransportHeaderSize, Tunnel!UdpHeaderSize
  <1>3. Tunnel(m)!Room = TapMtu - 20
    BY DEF Tunnel!Room, Tunnel!IpHeaderSize
  <1>4. Tunnel(m)!PieceCount(p) = Count(p.size)
    BY <1>2, <1>3, Zenon DEF Tunnel!PieceCount, Count
  <1>5. Tunnel(m)!IpLoad(p) = Share(Tunnel(m)!Load(p), Tunnel(m)!Room, p.piece)
    BY Zenon DEF Tunnel!IpLoad, Tunnel!PieceLoad, Share
  <1>6. Tunnel(m)!IpLoad(p) = Portion(p.size, p.piece)
    BY <1>2, <1>3, <1>5 DEF Portion
  <1> QED
    BY <1>2, <1>3, <1>4, <1>6

\* What the theorems about sizes need to know of a client's datagram.
AppDatagram(s) ==
  /\ s.pkt \in AppPacket /\ s.pkt.piece = 0 /\ s.pkt.frag = FALSE
  /\ s.pkt.size \in ClientSize

LEMMA ClientDatagram ==
  ASSUME main \in DOMAIN Scenario, NEW c \in clients, NEW s, FromClient(s, c)
  PROVE  AppDatagram(s)
  <1>1. c.size \in ClientSize
    BY TrafficFits DEF clients, ClientFits
  <1> QED
    BY <1>1 DEF FromClient, AppDatagram

(* The pieces that the tap takes of a client's datagram.                   *)
LEMMA PiecesTaken ==
  ASSUME NEW m \in Main, NEW s, AppDatagram(s), s.route = "tap"
  PROVE  /\ Tunnel(m)!Pieces(s.pkt) = {Taken(s, k) : k \in Numbers(s)}
         /\ \E k \in Numbers(s) : k \in Heads
  <1> DEFINE z == s.pkt.size
  <1>1. /\ s.pkt \in AppPacket /\ s.pkt.piece = 0 /\ s.pkt.frag = FALSE
        /\ z \in ClientSize
    BY DEF AppDatagram
  <1>2. /\ Tunnel(m)!IpLoad(s.pkt) = Portion(z, 0) /\ Tunnel(m)!Room = TapMtu - 20
        /\ Tunnel(m)!PieceCount(s.pkt) = Count(z)
    BY <1>1, Loads
  <1>3. Numbers(s) = IF IsCut(z) THEN 1 .. Count(z) ELSE {0}
    BY DEF Numbers
  <1> HIDE DEF z
  <1>4. CASE IsCut(z)
    <2>1. ~ (Tunnel(m)!IpLoad(s.pkt) <= Tunnel(m)!Room)
      BY <1>1, <1>2, <1>4, Portions
    <2>2. ASSUME NEW k \in 1 .. Count(z)
          PROVE  Tunnel(m)!Fragment(s.pkt, k) = Taken(s, k)
      <3>1. k # 0
        BY <1>1, Portions
      <3> QED
        BY <3>1 DEF Tunnel!Fragment, Taken
    <2>3. Tunnel(m)!Pieces(s.pkt) = {Tunnel(m)!Fragment(s.pkt, k) : k \in 1 .. Count(z)}
      BY <1>2, <2>1 DEF Tunnel!Pieces, Tunnel!Fragments
    <2>4. 1 \in 1 .. Count(z)
      BY <1>1, <1>4, Portions
    <2> QED
      BY <1>3, <1>4, <2>2, <2>3, <2>4 DEF Heads
  <1>5. CASE ~ IsCut(z)
    <2>1. Tunnel(m)!IpLoad(s.pkt) <= Tunnel(m)!Room
      BY <1>1, <1>2, <1>5, Portions
    <2>2. Taken(s, 0) = s.pkt
      BY DEF Taken
    <2>3. Tunnel(m)!Pieces(s.pkt) = {s.pkt}
      BY <2>1 DEF Tunnel!Pieces
    <2>4. Numbers(s) = {0}
      BY <1>3, <1>5
    <2> QED
      BY <2>2, <2>3, <2>4 DEF Heads
  <1> QED
    BY <1>4, <1>5

(* How much of a datagram a sink counts, or of its first piece.            *)
LEMMA ThroughFits ==
  ASSUME NEW m \in Main, main \in DOMAIN Scenario, NEW s, AppDatagram(s),
         NEW k \in Numbers(s), k \in Heads
  PROVE  Tunnel(m)!IpLoad(Onward(s, k)) - 8 = Through(s)
  <1> DEFINE z == s.pkt.size
  <1>1. s.pkt \in AppPacket /\ s.pkt.frag = FALSE /\ z \in ClientSize
    BY DEF AppDatagram
  <1>2. /\ Onward(s, k) \in AppPacket
        /\ Onward(s, k).size = z /\ Onward(s, k).piece = k
    BY <1>1, OnwardFields
  <1>3. Tunnel(m)!IpLoad(Onward(s, k)) = Portion(z, k)
    BY <1>2, Loads
  <1>4. Numbers(s) = IF s.route = "tap" /\ IsCut(z) THEN 1 .. Count(z) ELSE {0}
    BY DEF Numbers
  <1>5. Through(s) = IF s.route = "tap" THEN Min({z, TapMtu - 28}) ELSE z
    BY DEF Through
  <1> HIDE DEF z
  <1>6. /\ z \in Nat /\ TapMtu \in Nat /\ Portion(z, 0) = z + 8
        /\ IsCut(z) => Portion(z, 1) = TapMtu - 20
    BY <1>1, Portions, RunAssumption
  <1>7. Min({z, TapMtu - 28}) = IF IsCut(z) THEN TapMtu - 28 ELSE z
    <2>1. ASSUME NEW a \in Int, NEW b \in Int
          PROVE  Min({a, b}) = IF a <= b THEN a ELSE b
      BY DEF Min
    <2>2. (z <= TapMtu - 28) <=> ~ IsCut(z)
      BY <1>6 DEF IsCut
    <2>3. z \in Int /\ TapMtu - 28 \in Int
      BY <1>6
    <2> QED
      BY <2>1, <2>2, <2>3
  <1>8. CASE s.route = "tap" /\ IsCut(z)
    <2>1. k = 1
      BY <1>4, <1>8 DEF Heads
    <2>2. Through(s) = TapMtu - 28
      BY <1>5, <1>7, <1>8
    <2> QED
      BY <1>3, <1>6, <1>8, <2>1, <2>2
  <1>9. CASE ~ (s.route = "tap" /\ IsCut(z))
    <2>1. k = 0
      BY <1>4, <1>9
    <2>2. Through(s) = z
      BY <1>5, <1>7, <1>9
    <2> QED
      BY <1>3, <1>6, <2>1, <2>2
  <1> QED
    BY <1>8, <1>9

(* Each piece has room for the UDP header that the gateway removes.        *)
LEMMA HeadersFit ==
  ASSUME NEW m \in Main, NEW s, AppDatagram(s), NEW k \in Numbers(s)
  PROVE  Tunnel(m)!HasHeaders(Taken(s, k))
  <1> DEFINE z == s.pkt.size
  <1>1. /\ s.pkt \in AppPacket /\ s.pkt.piece = 0 /\ s.pkt.frag = FALSE
        /\ z \in ClientSize
    BY DEF AppDatagram
  <1>2. /\ Taken(s, k) \in AppPacket
        /\ Taken(s, k).size = z /\ Taken(s, k).piece = k
    BY <1>1, TakenFields
  <1>3. Tunnel(m)!IpLoad(Taken(s, k)) = Portion(z, k)
    BY <1>2, Loads
  <1>4. k = 0 \/ (IsCut(z) /\ k \in 1 .. Count(z))
    BY DEF Numbers
  <1> HIDE DEF z
  <1>5. Portion(z, k) >= 8
    BY <1>1, <1>4, Portions
  <1> QED
    BY <1>3, <1>5 DEF Tunnel!HasHeaders, Tunnel!UdpHeaderSize

(* What the gateway makes of a piece it takes from a frame.                *)
LEMMA ForwardedOnward ==
  ASSUME NEW m \in Main, main \in DOMAIN Scenario, NEW s, s.pkt \in AppPacket,
         s.pkt.piece = 0, s.pkt.frag = FALSE, NEW k \in Numbers(s)
  PROVE  Tunnel(m)!Forwarded(Origin(main, s.pkt.from), Taken(s, k), 0) = Onward(s, k)
  <1> DEFINE h == Origin(main, s.pkt.from)
             p == Taken(s, k)
             q == Tunnel(m)!Forwarded(h, p, 0)
  <1>1. /\ p \in AppPacket /\ k \in Nat /\ p.size = s.pkt.size /\ p.id = s.pkt.id
        /\ p.dst = s.pkt.dst /\ p.port = s.pkt.port /\ p.piece = k
        /\ p.proto = "udp" /\ (k = 0 => p.frag = FALSE) /\ (k # 0 => p.frag = TRUE)
    BY TakenFields
  <1>2. h \in Node
    BY AddressesFit DEF Origin, AppPacket
  <1>3. Tunnel(m)!Load(p) - Tunnel(m)!UdpHeaderSize = p.size
    BY <1>1, Loads DEF Tunnel!UdpHeaderSize, AppPacket
  <1> HIDE DEF p, h
  <1> DEFINE t == IF p.frag /\ p.piece > 1 THEN 0 ELSE p.port
  <1>4. t = (IF k \in Heads THEN s.pkt.port ELSE 0) /\ t \in Nat
    BY <1>1 DEF Heads, AppPacket
  <1>5. q = [p EXCEPT !.from = h, !.proto = "udp", !.frag = FALSE, !.port = t,
                      !.size = p.size, !.data = "body"]
    BY <1>1, <1>3 DEF Tunnel!Forwarded, AppPacket
  <1> HIDE DEF t, q
  <1>6. /\ q \in AppPacket /\ q.id = p.id /\ q.from = h /\ q.dst = p.dst
        /\ q.port = t /\ q.size = p.size /\ q.piece = p.piece /\ q.frag = FALSE
    BY <1>1, <1>2, <1>4, <1>5 DEF AppPacket
  <1>7. /\ Onward(s, k) \in AppPacket /\ Onward(s, k).id = s.pkt.id
        /\ Onward(s, k).from = h /\ Onward(s, k).dst = s.pkt.dst
        /\ Onward(s, k).port = t /\ Onward(s, k).size = s.pkt.size
        /\ Onward(s, k).piece = k /\ Onward(s, k).frag = FALSE
    BY <1>4, OnwardFields DEF h
  <1>8. q = Onward(s, k)
    BY <1>1, <1>6, <1>7, SamePacket
  <1> QED
    BY <1>8 DEF q, h, p

\* Where a main's packets go: to the tap at a VPN client, else to the net.
LEMMA Routes ==
  ASSUME NEW m \in Main, NEW h \in Node
  PROVE  /\ h # Receiver(m) =>
              Tunnel(m)!Route(h, Target(m)) =
                IF Tunnel(m)!TapUp(h) /\ h # Gateway(m) THEN "tap" ELSE "net"
         /\ h # Gateway(m) => Tunnel(m)!Route(h, GatewayAddress(m)) = "net"
         /\ Tunnel(m)!Reachable(Target(m))
         /\ Tunnel(m)!Reachable(GatewayAddress(m))
  <1> DEFINE A == Attributes[m]
  <1>1. m \in DOMAIN Scenario
    BY RunAssumption
  <1>2. Tunnel(m)!TapUp(h) => h \in DOMAIN A
    BY DEF Tunnel!TapUp
  <1>3. Tunnel(m)!Reachable(Target(m)) /\ Tunnel(m)!Reachable(GatewayAddress(m))
    BY <1>1, AddressesFit DEF Tunnel!Reachable
  <1>4. ASSUME NEW a
        PROVE  Tunnel(m)!Covers(h, a) <=>
                 a \div A[h].ServerMask = A[h].ClientAddress \div A[h].ServerMask
    BY DEF Tunnel!Covers, Tunnel!m_clientVPNAddress
  <1>5. ASSUME NEW a
        PROVE  Tunnel(m)!Owns(h, a) <=>
                 \/ a \in Addresses[m][h]
                 \/ Tunnel(m)!TapUp(h) /\ a = A[h].ClientAddress
    BY DEF Tunnel!Owns, Tunnel!m_clientVPNAddress
  <1>6. ASSUME NEW a
        PROVE  Tunnel(m)!Route(h, a) =
                 IF Tunnel(m)!Owns(h, a) THEN "local"
                 ELSE IF Tunnel(m)!TapUp(h) /\ Tunnel(m)!Covers(h, a) THEN "tap"
                 ELSE "net"
    BY DEF Tunnel!Route
  <1> HIDE DEF A
  <1>7. ASSUME h # Receiver(m)
        PROVE  Tunnel(m)!Route(h, Target(m)) =
                 IF Tunnel(m)!TapUp(h) /\ h # Gateway(m) THEN "tap" ELSE "net"
    <2>1. Target(m) \notin Addresses[m][h]
      BY <1>1, <1>7, AddressesFit
    <2>2. ~ Tunnel(m)!Owns(h, Target(m))
      BY <1>1, <1>2, <1>5, <2>1, NodeAttributes DEF A
    <2>3. Tunnel(m)!TapUp(h) => (Tunnel(m)!Covers(h, Target(m)) <=> h # Gateway(m))
      BY <1>1, <1>2, <1>4, NodeAttributes DEF A
    <2> QED
      BY <1>6, <2>2, <2>3
  <1>8. ASSUME h # Gateway(m)
        PROVE  Tunnel(m)!Route(h, GatewayAddress(m)) = "net"
    <2>1. GatewayAddress(m) \notin Addresses[m][h]
      BY <1>1, <1>8, AddressesFit
    <2>2. ~ Tunnel(m)!Owns(h, GatewayAddress(m))
      BY <1>1, <1>2, <1>5, <2>1, NodeAttributes DEF A
    <2>3. Tunnel(m)!TapUp(h) => ~ Tunnel(m)!Covers(h, GatewayAddress(m))
      BY <1>1, <1>2, <1>4, <1>8, NodeAttributes DEF A
    <2> QED
      BY <1>6, <2>2, <2>3
  <1> QED
    BY <1>3, <1>7, <1>8

\* What was sent, and when.
LEMMA SentFacts ==
  ASSUME IInv, NEW s \in sent
  PROVE  /\ s.pkt \in AppPacket /\ s.pkt.piece = 0 /\ s.pkt.frag = FALSE
         /\ s.pkt.id.at \in Nat /\ s.pkt.id.at >= 1
         /\ now \in Nat /\ main \in DOMAIN Scenario
  <1>1. /\ s.pkt \in AppPacket /\ s.pkt.piece = 0 /\ s.pkt.frag = FALSE
        /\ s.pkt.id.at >= 1
    BY DEF IInv, SentByClients, FromClient
  <1>2. s.pkt.id \in Id
    BY <1>1 DEF AppPacket
  <1>3. s.pkt.id.at \in Nat
    <2>1. Moment \subseteq Nat
      BY RunAssumption
    <2> QED
      BY <1>2, <2>1 DEF Id
  <1> QED
    BY <1>1, <1>3, RunAssumption DEF IInv, Clock

(* A client that sends is not the gateway nor the receiver, and if it is a *)
(* VPN node its tap is up.                                                 *)
LEMMA ActiveClient ==
  ASSUME IInv, Busy, NEW c \in clients, Active(c)
  PROVE  /\ main \in DOMAIN Scenario
         /\ ClientFits(main, c)
         /\ now >= 1
         /\ c.node \in VpnNode => m_clientInterface[c.node] = "up"
  <1>1. main \in DOMAIN Scenario /\ now \in Nat
    BY RunAssumption DEF IInv, Clock
  <1>2. ClientFits(main, c)
    BY <1>1, TrafficFits DEF clients
  <1>3. 1 <= now /\ now < Stopped(main) /\ Stopped(main) \in Nat
    BY <1>2 DEF ClientFits, Active, Stopped
  <1>4. ASSUME c.node \in VpnNode
        PROVE  m_clientInterface[c.node] = "up"
    <2>1. PICK v \in vpns : v.node = c.node /\ v.start = 1
      BY <1>1, <1>4, NodeAttributes DEF VpnNode, vpns
    <2>2. m_clientInterface[c.node] # "none"
      BY <1>1, <1>3, <2>1 DEF Busy, Settled
    <2>3. m_clientInterface[c.node] # "down"
      BY <1>1, <1>3, <1>4 DEF IInv, NodesKept
    <2> QED
      BY <1>4, <2>2, <2>3 DEF IInv, NodesKept
  <1> QED
    BY <1>1, <1>2, <1>3, <1>4

(* What Send does: a VPN client's datagram is in frames to the gateway, a  *)
(* bare one under way itself.                                              *)
SentBy(c, s) ==
  /\ sent' = sent \cup {s}
  /\ FromClient(s, c)
  /\ s.pkt.id.at = now /\ now >= 1
  /\ \A t \in sent : t.pkt.id # s.pkt.id
  /\ \/ /\ s.route = "tap"
        /\ plain' = plain
        /\ tunnel \subseteq tunnel'
        /\ \A f \in tunnel' \ tunnel :
             /\ f.to = GatewayAddress(main) /\ f.port = 50000
             /\ \E k \in Numbers(s) : f.inner = Taken(s, k)
        /\ \E f \in tunnel' : f.inner.id = s.pkt.id /\ f.inner.piece \in Heads
     \/ /\ s.route = "net"
        /\ tunnel' = tunnel
        /\ plain' = plain \cup {s.pkt}
  /\ rcvd' = rcvd
  /\ UNCHANGED <<simVars, m_clientInterface, m_clientSocket, m_serverAddress,
                 m_serverPort, m_cipherKey>>

LEMMA SendStep ==
  ASSUME IInv, NEW m \in Main, m = main, NEW c \in clients, Send(m, c)
  PROVE  \E s : SentBy(c, s)
  <1> DEFINE number == Cardinality({s \in sent : s.pkt.id.client = c.node}) + 1
             i == [client |-> c.node, number |-> number, at |-> now]
             d == [from |-> c.node, dst |-> c.dst, port |-> c.port, proto |-> "udp",
                   size |-> c.size]
             p == [id |-> i, from |-> c.node, dst |-> c.dst, port |-> c.port,
                   proto |-> "udp", size |-> c.size, data |-> "body",
                   piece |-> 0, frag |-> FALSE]
             s == [pkt |-> p, route |-> Tunnel(m)!Route(c.node, c.dst)]
  <1>1. /\ Busy /\ Active(c) /\ number <= Quota
        /\ Tunnel(m)!AppSend(i, d)
        /\ UNCHANGED simVars
    BY DEF Send
  <1>2. /\ main \in DOMAIN Scenario
        /\ ClientFits(main, c)
        /\ now >= 1
        /\ c.node \in VpnNode => m_clientInterface[c.node] = "up"
    BY <1>1, ActiveClient
  <1>3. i \in Id
    <2>1. IsFiniteSet({t \in sent : t.pkt.id.client = c.node})
      BY FS_Subset DEF IInv, SentByClients
    <2>2. number \in Nat /\ number >= 1
      BY <2>1, FS_CardinalityType
    <2>3. number \in 1 .. Quota
      BY <1>1, <2>2, RunAssumption
    <2> HIDE DEF number
    <2> QED
      BY <1>2, <2>3 DEF Id, ClientFits, IInv, Clock
  <1> HIDE DEF i
  <1>4. /\ \A t \in sent : t.pkt.id # i
        /\ sent' = sent \cup {s}
        /\ Tunnel(m)!IpSend(c.node, p, tunnel)
        /\ UNCHANGED <<m_clientInterface, m_clientSocket, m_serverAddress,
                       m_serverPort, m_cipherKey>>
    BY <1>1 DEF Tunnel!AppSend, Tunnel!appVars, Tunnel!lifeVars, Tunnel!peerVars
  <1>5. c.node \in Node /\ c.node # Receiver(m) /\ c.node # Gateway(m) /\ c.dst = Target(m)
    BY <1>2 DEF ClientFits
  <1>6. Tunnel(m)!TapUp(c.node) <=> c.node \in VpnNode
    BY <1>2 DEF Tunnel!TapUp, VpnNode
  <1>7. Tunnel(m)!Route(c.node, c.dst) = IF c.node \in VpnNode THEN "tap" ELSE "net"
    BY <1>5, <1>6, Routes
  <1>8. FromClient(s, c)
    <2>1. c.dst \in Nat /\ c.port \in Nat /\ c.size \in Nat
      BY <1>2, AddressesFit, Portions DEF ClientFits
    <2>2. p \in AppPacket
      BY <1>3, <1>5, <2>1 DEF AppPacket
    <2>3. /\ p.from = c.node /\ p.dst = c.dst /\ p.port = c.port /\ p.size = c.size
          /\ p.piece = 0 /\ p.frag = FALSE
      OBVIOUS
    <2>4. s.pkt = p /\ s.route = IF c.node \in VpnNode THEN "tap" ELSE "net"
      BY <1>7
    <2> HIDE DEF p, s
    <2> QED
      BY <2>2, <2>3, <2>4 DEF FromClient
  <1>9. /\ s.pkt = p /\ s.pkt.id = i /\ s.pkt.id.at = now
        /\ s.route = IF c.node \in VpnNode THEN "tap" ELSE "net"
    BY <1>7 DEF i
  <1>10. p.dst = Target(m)
    BY <1>5
  <1> HIDE DEF p, s
  <1>11. CASE c.node \in VpnNode
    <2>1. /\ Tunnel(m)!SendPacket(c.node, p, tunnel)
          /\ plain' = plain /\ rcvd' = rcvd
      BY <1>4, <1>5, <1>7, <1>10, <1>11 DEF Tunnel!IpSend
    <2>2. Tunnel(m)!SendToSucceeds(c.node)
      <3>1. m_clientSocket[c.node] = "open"
        BY <1>2, <1>11 DEF IInv, NodesKept
      <3>2. m_serverAddress[c.node] = GatewayAddress(m)
        BY <1>2, <1>5, <1>11, NodeAttributes DEF IInv, NodesKept, VpnNode
      <3>3. Tunnel(m)!Reachable(GatewayAddress(m))
        BY <1>5, Routes
      <3> QED
        BY <3>1, <3>2, <3>3 DEF Tunnel!SendToSucceeds
    <2>3. tunnel' = tunnel \cup {Tunnel(m)!Wrap(c.node, q) : q \in Tunnel(m)!Pieces(p)}
      BY <2>1, <2>2 DEF Tunnel!SendPacket
    <2>4. ASSUME NEW q
          PROVE  /\ Tunnel(m)!Wrap(c.node, q).to = GatewayAddress(main)
                 /\ Tunnel(m)!Wrap(c.node, q).port = 50000
                 /\ Tunnel(m)!Wrap(c.node, q).inner = q
      <3>1. m_serverAddress[c.node] = GatewayAddress(m) /\ m_serverPort[c.node] = 50000
        BY <1>2, <1>5, <1>11, NodeAttributes DEF IInv, NodesKept, VpnNode
      <3> QED
        BY <3>1 DEF Tunnel!Wrap
    <2>5. /\ Tunnel(m)!Pieces(p) = {Taken(s, k) : k \in Numbers(s)}
          /\ \E k \in Numbers(s) : k \in Heads
      <3>1. s.route = "tap" /\ s.pkt = p
        BY <1>9, <1>11
      <3>2. AppDatagram(s)
        BY <1>2, <1>8, ClientDatagram
      <3> QED
        BY <3>1, <3>2, PiecesTaken
    <2> DEFINE frame(q) == Tunnel(m)!Wrap(c.node, q)
               pieces == Tunnel(m)!Pieces(p)
    <2>6. tunnel' = tunnel \cup {frame(q) : q \in pieces}
      BY <2>3
    <2>7. /\ pieces = {Taken(s, k) : k \in Numbers(s)}
          /\ \A q : /\ frame(q).to = GatewayAddress(main) /\ frame(q).port = 50000
                    /\ frame(q).inner = q
      BY <2>4, <2>5
    <2> HIDE DEF frame, pieces
    <2>8. \A k \in Numbers(s) : Taken(s, k).id = s.pkt.id /\ Taken(s, k).piece = k
      BY <1>8, TakenFields DEF FromClient
    <2>9. /\ \A f \in tunnel' \ tunnel :
               /\ f.to = GatewayAddress(main) /\ f.port = 50000
               /\ \E k \in Numbers(s) : f.inner = Taken(s, k)
          /\ \E f \in tunnel' : f.inner.id = s.pkt.id /\ f.inner.piece \in Heads
      <3>1. ASSUME NEW f \in tunnel' \ tunnel
            PROVE  /\ f.to = GatewayAddress(main) /\ f.port = 50000
                   /\ \E k \in Numbers(s) : f.inner = Taken(s, k)
        <4>1. PICK q \in pieces : f = frame(q)
          BY <2>6
        <4> QED
          BY <2>7, <4>1
      <3>2. PICK k \in Numbers(s) : k \in Heads
        BY <2>5
      <3>3. frame(Taken(s, k)) \in tunnel'
        BY <2>6, <2>7
      <3>4. frame(Taken(s, k)).inner = Taken(s, k)
        BY <2>7
      <3>5. \E f \in tunnel' : f.inner.id = s.pkt.id /\ f.inner.piece \in Heads
        BY <2>8, <3>2, <3>3, <3>4
      <3> QED
        BY <3>1, <3>5
    <2> QED
      BY <1>1, <1>2, <1>4, <1>8, <1>9, <1>11, <2>1, <2>6, <2>9 DEF SentBy
  <1>12. CASE c.node \notin VpnNode
    <2>1. /\ plain' = plain \cup {q \in {p} : Tunnel(m)!Reachable(p.dst)}
          /\ tunnel' = tunnel /\ rcvd' = rcvd
      BY <1>4, <1>5, <1>7, <1>10, <1>12 DEF Tunnel!IpSend
    <2>2. plain' = plain \cup {p}
      BY <1>5, <1>10, <2>1, Routes
    <2> QED
      BY <1>1, <1>2, <1>4, <1>8, <1>9, <1>12, <2>1, <2>2 DEF SentBy
  <1> QED
    BY <1>11, <1>12

\* While its applications are active the gateway listens.
LEMMA GatewayListens ==
  ASSUME IInv, Settled, now >= 1, NEW m \in Main, m = main, NEW f \in tunnel,
         ~ Tunnel(m)!Listens(Gateway(m), f)
  PROVE  Stopped(main) <= now
  <1> DEFINE g == Gateway(m)
  <1>1. m \in DOMAIN Scenario /\ g \in VpnNode /\ g \in Node
    BY AttributesFit, AddressesFit, RunAssumption DEF VpnNode
  <1>2. f.to \in Addresses[m][g] /\ f.port = Attributes[m][g].ClientPort
    BY <1>1, AddressesFit, NodeAttributes DEF IInv, Framed, VpnNode
  <1>3. m_clientSocket[g] # "open"
    BY <1>2 DEF Tunnel!Listens
  <1>4. PICK v \in vpns : v.node = g /\ v.start = 1
    BY <1>1, NodeAttributes DEF VpnNode, vpns
  <1>5. m_clientInterface[g] # "none"
    BY <1>4 DEF Settled
  <1>6. m_clientInterface[g] = "down"
    BY <1>1, <1>3, <1>5 DEF IInv, NodesKept
  <1> QED
    BY <1>1, <1>6 DEF IInv, NodesKept

(* What FrameArrives does: the gateway sends the payload on, or the frame  *)
(* comes after the end.                                                    *)
OthersKept ==
  UNCHANGED <<main, losing, now, over, m_clientInterface, m_clientSocket,
              m_serverAddress, m_serverPort, m_cipherKey, sent>>

Unwrapped(f) ==
  /\ OthersKept /\ ~ over
  /\ tunnel' = tunnel \ {f}
  /\ rcvd' = rcvd /\ heard' = heard
  /\ \/ plain' = plain /\ Stopped(main) <= now
     \/ \E s \in sent : \E k \in Numbers(s) :
          f.inner = Taken(s, k) /\ plain' = plain \cup {Onward(s, k)}

LEMMA FrameStep ==
  ASSUME IInv, NEW m \in Main, m = main, NEW f \in tunnel, FrameArrives(m, f)
  PROVE  Unwrapped(f)
  <1>1. Busy /\ Rx(m)
    BY DEF FrameArrives
  <1>2. m \in DOMAIN Scenario /\ now \in Nat
    BY RunAssumption DEF IInv, Clock
  <1> PICK s \in sent : \E k \in Numbers(s) : s.route = "tap" /\ f.inner = Taken(s, k)
    BY DEF IInv, Framed
  <1>3. PICK k \in Numbers(s) : s.route = "tap" /\ f.inner = Taken(s, k)
    OBVIOUS
  <1>4. PICK c \in clients : FromClient(s, c)
    BY DEF IInv, SentByClients
  <1>5. /\ f.inner \in UnderWay /\ f.inner.id = s.pkt.id
        /\ f.inner.dst = s.pkt.dst
    <2>1. Taken(s, k).id = s.pkt.id /\ Taken(s, k).dst = s.pkt.dst
      BY SentFacts, TakenFields
    <2> QED
      BY <1>3, <2>1 DEF UnderWay
  <1>6. now >= 1
    <2>1. s.pkt.id.at \in Nat /\ s.pkt.id.at >= 1
      BY SentFacts
    <2>2. s.pkt.id.at <= now
      BY <1>5 DEF IInv, Timely
    <2> QED
      BY <1>2, <2>1, <2>2
  <1>7. rcvd' = rcvd => heard' = heard
    BY <1>1 DEF Rx
  <1>8. UNCHANGED <<main, losing, now, over>> /\ ~ over
    BY <1>1 DEF Rx, Busy, Running
  <1>9. CASE Tunnel(m)!DropUnheard(f)
    <2>1. /\ \A h \in DOMAIN Attributes[m] : ~ Tunnel(m)!Listens(h, f)
          /\ tunnel' = tunnel \ {f}
          /\ UNCHANGED <<m_clientInterface, m_clientSocket, m_serverAddress,
                         m_serverPort, m_cipherKey, plain, sent, rcvd>>
      BY <1>9 DEF Tunnel!DropUnheard, Tunnel!appVars, Tunnel!lifeVars, Tunnel!peerVars
    <2>2. ~ Tunnel(m)!Listens(Gateway(m), f)
      BY <1>2, <2>1, AttributesFit
    <2>3. Stopped(main) <= now
      BY <1>1, <1>6, <2>2, GatewayListens DEF Busy
    <2> QED
      BY <1>7, <1>8, <2>1, <2>3 DEF Unwrapped, OthersKept
  <1>10. ASSUME NEW v \in vpns, Tunnel(m)!ReceivePacket(v.node, f)
         PROVE  Unwrapped(f)
    <2> DEFINE h == v.node
    <2>1. h \in VpnNode /\ h \in Node
      BY <1>2, AttributesFit, NodeAttributes DEF VpnNode, vpns
    <2>2. f.to \in Addresses[m][h]
      BY <1>10 DEF Tunnel!ReceivePacket, Tunnel!Listens
    <2>3. h = Gateway(m)
      BY <1>2, <2>1, <2>2, AddressesFit DEF IInv, Framed
    <2>4. f.inner.dst = Target(m)
      BY <1>2, <1>4, <1>5, TrafficFits DEF clients, FromClient, ClientFits
    <2>5. ~ Tunnel(m)!AddressedTo(h, f)
      BY <1>2, <2>1, <2>4, NodeAttributes
         DEF Tunnel!AddressedTo, Tunnel!m_clientVPNAddress, VpnNode
    <2>6. /\ Tunnel(m)!IpSend(h, Tunnel(m)!Forwarded(h, f.inner, 0), tunnel \ {f})
          /\ UNCHANGED <<m_clientInterface, m_clientSocket, m_serverAddress,
                         m_serverPort, m_cipherKey, sent>>
      BY <1>10, <2>5
         DEF Tunnel!ReceivePacket, Tunnel!appVars, Tunnel!lifeVars, Tunnel!peerVars
    <2>7. c.node \in VpnNode
      BY <1>3, <1>4 DEF FromClient
    <2>8. Origin(main, s.pkt.from) = h
      BY <1>4, <2>3, <2>7 DEF Origin, VpnNode, FromClient
    <2>9. Tunnel(m)!Forwarded(h, f.inner, 0) = Onward(s, k)
      BY <1>2, <1>3, <1>4, <2>8, ForwardedOnward DEF FromClient
    <2>10. Onward(s, k).dst = Target(m)
      BY <1>2, <1>4, <1>5, <2>4, OnwardFields DEF FromClient
    <2>11. Tunnel(m)!Route(h, Target(m)) = "net" /\ Tunnel(m)!Reachable(Target(m))
      BY <1>2, <2>1, <2>3, Routes, AddressesFit
    <2>12. /\ plain' = plain \cup {q \in {Onward(s, k)} : Tunnel(m)!Reachable(Onward(s, k).dst)}
           /\ tunnel' = tunnel \ {f} /\ rcvd' = rcvd
      BY <2>6, <2>9, <2>10, <2>11 DEF Tunnel!IpSend
    <2>13. plain' = plain \cup {Onward(s, k)}
      BY <2>10, <2>11, <2>12
    <2> QED
      BY <1>3, <1>7, <1>8, <2>6, <2>12, <2>13 DEF Unwrapped, OthersKept
  <1> QED
    BY <1>9, <1>10 DEF FrameArrives

(* What DatagramArrives does: the receiver is handed the packet, and its   *)
(* sink, while active, counts it, once, if it is no later piece.           *)
Received(p, s, k) ==
  /\ OthersKept /\ ~ over
  /\ tunnel' = tunnel /\ plain' = plain \ {p}
  /\ rcvd' = rcvd \cup {[host |-> Receiver(main), pkt |-> p]}
  /\ s \in sent /\ k \in Numbers(s) /\ p = Onward(s, k)
  /\ p.id = s.pkt.id /\ p.piece = k
  /\ \/ /\ heard' = heard
        /\ \/ k \notin Heads
           \/ [host |-> Receiver(main), pkt |-> p] \in rcvd
           \/ Stopped(main) <= now
     \/ heard' = heard \cup
          {[id |-> s.pkt.id, size |-> Through(s), flow |-> FlowOfSent(s)]}

LEMMA DatagramStep ==
  ASSUME IInv, NEW m \in Main, m = main, NEW p \in plain, DatagramArrives(m, p)
  PROVE  \E s, k : Received(p, s, k)
  <1>1. Busy /\ Rx(m)
    BY DEF DatagramArrives
  <1>2. m \in DOMAIN Scenario /\ now \in Nat
    BY RunAssumption DEF IInv, Clock
  <1> PICK s \in sent : \E k \in Numbers(s) : p = Onward(s, k)
    BY DEF IInv, OnTheWay
  <1>3. PICK k \in Numbers(s) : p = Onward(s, k)
    OBVIOUS
  <1>4. PICK c \in clients : FromClient(s, c)
    BY DEF IInv, SentByClients
  <1>5. ClientFits(m, c)
    BY <1>2, TrafficFits DEF clients
  <1>6. /\ p.id = s.pkt.id /\ p.dst = Target(m)
        /\ p.port = (IF k \in Heads THEN c.port ELSE 0) /\ s.pkt.port = c.port
        /\ p.piece = k /\ p.from = Origin(main, s.pkt.from)
    <2>1. /\ Onward(s, k).id = s.pkt.id /\ Onward(s, k).dst = s.pkt.dst
          /\ Onward(s, k).port = (IF k \in Heads THEN s.pkt.port ELSE 0)
          /\ Onward(s, k).piece = k /\ Onward(s, k).from = Origin(main, s.pkt.from)
      BY SentFacts, OnwardFields
    <2>2. s.pkt.port = c.port /\ s.pkt.dst = Target(m)
      BY <1>4, <1>5 DEF FromClient, ClientFits
    <2> QED
      BY <1>3, <2>1, <2>2
  <1>7. now >= 1
    <2>1. p \in UnderWay
      BY DEF UnderWay
    <2>2. s.pkt.id.at \in Nat /\ s.pkt.id.at >= 1
      BY SentFacts
    <2>3. s.pkt.id.at <= now
      BY <1>6, <2>1 DEF IInv, Timely
    <2> QED
      BY <1>2, <2>2, <2>3
  <1> DEFINE r == [host |-> Receiver(main), pkt |-> p]
  <1>8. /\ plain' = plain \ {p} /\ tunnel' = tunnel /\ sent' = sent
        /\ rcvd' = rcvd \cup {r}
        /\ UNCHANGED <<m_clientInterface, m_clientSocket, m_serverAddress,
                       m_serverPort, m_cipherKey>>
    <2>1. PICK h \in Node : Tunnel(m)!Deliver(h, p)
      BY DEF DatagramArrives
    <2>2. h = Receiver(m)
      BY <1>2, <1>6, <2>1, AddressesFit DEF Tunnel!Deliver
    <2> QED
      BY <2>1, <2>2 DEF Tunnel!Deliver, Tunnel!appVars, Tunnel!lifeVars, Tunnel!peerVars
  <1>9. OthersKept /\ ~ over
    BY <1>1, <1>8 DEF OthersKept, Rx, Busy, Running
  <1> DEFINE counted(q) ==
        [id |-> q.pkt.id, size |-> Tunnel(m)!IpLoad(q.pkt) - Tunnel(m)!UdpHeaderSize,
         flow |-> FlowOf(main, q.pkt.port, SourceAddress(q.pkt.from, q.host))]
      new == {q \in rcvd' \ rcvd :
                \E a \in sinks : Active(a) /\ a.node = q.host /\ a.port = q.pkt.port}
  <1>10. heard' = heard \cup {counted(q) : q \in new}
    BY <1>1 DEF Rx
  <1>11. \A q \in new : q = r
    BY <1>8
  <1>12. CASE r \in new
    <2>1. heard' = heard \cup {counted(r)}
      BY <1>10, <1>11, <1>12
    <2>2. PICK a \in sinks : a.port = p.port
      BY <1>12
    <2>3. k \in Heads
      BY <1>2, <1>6, <2>2, TrafficFits DEF sinks, SinkFits
    <2>4. Tunnel(m)!IpLoad(p) - Tunnel(m)!UdpHeaderSize = Through(s)
      BY <1>2, <1>3, <1>4, <2>3, ClientDatagram, ThroughFits DEF Tunnel!UdpHeaderSize
    <2>5. counted(r) = [id |-> s.pkt.id, size |-> Through(s), flow |-> FlowOfSent(s)]
      BY <1>6, <2>3, <2>4 DEF FlowOfSent
    <2> HIDE DEF counted
    <2> QED
      BY <1>3, <1>6, <1>8, <1>9, <2>1, <2>5 DEF Received
  <1>13. CASE r \notin new
    <2>1. heard' = heard
      BY <1>10, <1>11, <1>13
    <2>2. PICK a \in sinks : SinkFits(m, a) /\ a.port = c.port
      BY <1>2, TrafficFits DEF sinks, clients
    <2>3. k \notin Heads \/ r \in rcvd \/ ~ Active(a)
      BY <1>6, <1>8, <1>13, <2>2 DEF SinkFits
    <2>4. k \notin Heads \/ r \in rcvd \/ Stopped(main) <= now
      BY <1>2, <1>7, <2>2, <2>3 DEF SinkFits, Active, Stopped
    <2> QED
      BY <1>3, <1>6, <1>8, <1>9, <2>1, <2>4 DEF Received
  <1> QED
    BY <1>12, <1>13

\* What Lose does.
LEMMA LoseStep ==
  ASSUME NEW m \in Main, NEW p, Lose(m, p)
  PROVE  /\ OthersKept /\ ~ over /\ losing
         /\ tunnel' \subseteq tunnel /\ plain' \subseteq plain
         /\ rcvd' = rcvd /\ heard' = heard
  BY DEF Lose, OthersKept, Busy, Running, simVars, Tunnel!LosePlain, Tunnel!LoseFrame,
         Tunnel!appVars, Tunnel!lifeVars, Tunnel!peerVars

-----------------------------------------------------------------------------
(* The invariant *)

LEMMA InitInv == Init => IInv
  <1> SUFFICES ASSUME Init
               PROVE  IInv
    OBVIOUS
  <1>1. PICK m \in Main : main = m /\ Tunnel(m)!Init
    BY DEF Init
  <1>2. /\ m_clientInterface = [h \in DOMAIN Attributes[m] |-> "none"]
        /\ m_clientSocket = [h \in DOMAIN Attributes[m] |-> "none"]
        /\ m_serverAddress = [h \in DOMAIN Attributes[m] |-> Attributes[m][h].ServerAddress]
        /\ m_serverPort = [h \in DOMAIN Attributes[m] |-> Attributes[m][h].ServerPort]
        /\ m_cipherKey = [h \in DOMAIN Attributes[m] |-> Attributes[m][h].CipherKey]
        /\ tunnel = {} /\ plain = {} /\ sent = {} /\ rcvd = {}
    BY <1>1 DEF Tunnel!Init
  <1>3. now = 0 /\ over = FALSE /\ heard = {}
    BY DEF Init
  <1>4. Clock
    BY <1>1, <1>3, RunAssumption DEF Clock
  <1>5. NodesKept
    BY <1>1, <1>2 DEF NodesKept, VpnNode
  <1>6. SentByClients
    BY <1>2, FS_EmptySet DEF SentByClients
  <1>7. UnderWay = {}
    BY <1>2 DEF UnderWay
  <1> QED
    BY <1>2, <1>3, <1>4, <1>5, <1>6, <1>7
       DEF IInv, Framed, OnTheWay, Timely, Counted, Kept, EveryoneServed

LEMMA FlowStays ==
  ASSUME main' = main, NEW s
  PROVE  FlowOfSent(s)' = FlowOfSent(s)
  BY DEF FlowOfSent, SourceAddress

LEMMA CountedStays ==
  ASSUME IInv, UNCHANGED <<main, heard, sent, rcvd>>
  PROVE  Counted'
  BY FlowStays DEF IInv, Counted, HeardOf

\* A packet on its last way stays one, as long as it is under way.
LEMMA OnTheWayStays ==
  ASSUME IInv, main' = main, sent \subseteq sent',
         \A p \in plain' : p \in plain \/ \E s \in sent' : \E k \in Numbers(s) : p = Onward(s, k)
  PROVE  OnTheWay'
  <1>1. \A p \in plain' : \E s \in sent' : \E k \in Numbers(s) : p = Onward(s, k)
    BY DEF IInv, OnTheWay
  <1>2. ASSUME NEW s, NEW k
        PROVE  Onward(s, k)' = Onward(s, k) /\ Numbers(s)' = Numbers(s)
    BY DEF Onward, Origin, Numbers
  <1> QED
    BY <1>1, <1>2 DEF OnTheWay

(* What does not touch the traffic leaves all that is said of it.          *)
LEMMA TrafficKept ==
  ASSUME IInv,
         UNCHANGED <<main, losing, now, over, heard, tunnel, plain, sent, rcvd>>
  PROVE  (Clock /\ SentByClients /\ Framed /\ OnTheWay /\ Timely /\ Counted /\ Kept
            /\ EveryoneServed)'
  <1>1. (Clock /\ SentByClients /\ Framed /\ OnTheWay)'
    <2>1. (Clock /\ SentByClients /\ Framed)'
      BY DEF IInv, Clock, SentByClients, Framed, FromClient, VpnNode, clients
    <2> QED
      BY <2>1, OnTheWayStays
  <1>2. UnderWay' = UnderWay
    BY DEF UnderWay
  <1>3. (Timely /\ Counted /\ Kept)'
    BY <1>2, CountedStays DEF IInv, Timely, Kept, HeardOf
  <1>4. Closing' = Closing
    BY DEF Closing, vpns, sinks, stopAt
  <1>5. EveryoneServed'
    BY <1>4 DEF IInv, EveryoneServed
  <1> QED
    BY <1>1, <1>3, <1>5

\* What touches neither the nodes nor the clock leaves what is said of them.
LEMMA NodesStay ==
  ASSUME IInv,
         UNCHANGED <<main, now, m_clientInterface, m_clientSocket, m_serverAddress,
                     m_serverPort, m_cipherKey>>
  PROVE  Clock' /\ NodesKept'
  BY DEF IInv, Clock, NodesKept, VpnNode

LEMMA StartInv ==
  ASSUME IInv, NEW m \in Main, m = main, NEW v \in vpns, Start(m, v) \/ Stop(m, v)
  PROVE  IInv'
  <1>1. v.node \in VpnNode /\ v.stop = Stopped(main)
    BY AttributesFit, VpnsFit, RunAssumption DEF vpns, VpnNode, VpnFits
  <1>2. /\ UNCHANGED <<main, losing, now, over, heard, tunnel, plain, sent, rcvd>>
        /\ UNCHANGED <<m_serverAddress, m_serverPort, m_cipherKey>>
    BY DEF Start, Stop, simVars, Tunnel!StartApplication, Tunnel!StopApplication,
           Tunnel!peerVars, Tunnel!packetVars
  <1>3. NodesKept'
    <2>1. CASE Start(m, v)
      <3>1. /\ m_clientSocket' = [m_clientSocket EXCEPT ![v.node] = "open"]
            /\ m_clientInterface' = [m_clientInterface EXCEPT ![v.node] = "up"]
        BY <2>1 DEF Start, Tunnel!StartApplication
      <3> QED
        BY <1>1, <1>2, <3>1 DEF IInv, NodesKept, VpnNode
    <2>2. CASE Stop(m, v)
      <3>1. /\ m_clientSocket' = [m_clientSocket EXCEPT ![v.node] = "closed"]
            /\ m_clientInterface' = [m_clientInterface EXCEPT ![v.node] = "down"]
            /\ now = Stopped(main)
        BY <1>1, <2>2 DEF Stop, Tunnel!StopApplication
      <3>2. Stopped(main) <= now
        BY <3>1 DEF Stopped
      <3> QED
        BY <1>1, <1>2, <3>1, <3>2 DEF IInv, NodesKept, VpnNode
    <2> QED
      BY <2>1, <2>2
  <1> QED
    BY <1>2, <1>3, TrafficKept DEF IInv

LEMMA SendInv ==
  ASSUME IInv, NEW m \in Main, m = main, NEW c \in clients, Send(m, c)
  PROVE  IInv'
  <1>1. PICK s : SentBy(c, s)
    BY SendStep
  <1>2. /\ UNCHANGED <<main, losing, now, over, heard, rcvd>>
        /\ UNCHANGED <<m_clientInterface, m_clientSocket, m_serverAddress,
                       m_serverPort, m_cipherKey>>
        /\ sent' = sent \cup {s}
    BY <1>1 DEF SentBy, simVars
  <1>3. ~ over
    BY DEF Send, Busy, Running
  <1>4. Clock' /\ NodesKept'
    BY <1>2, NodesStay
  <1>5. m \in DOMAIN Scenario /\ now \in Nat
    BY RunAssumption DEF IInv, Clock
  <1>6. SentByClients'
    <2>1. \A t \in sent' : t.pkt.id.at >= 1 /\ \E d \in clients : FromClient(t, d)
      BY <1>1, <1>2 DEF IInv, SentByClients, SentBy
    <2>2. \A t, u \in sent' : t.pkt.id = u.pkt.id => t = u
      BY <1>1, <1>2 DEF IInv, SentByClients, SentBy
    <2>3. IsFiniteSet(sent')
      BY <1>2, FS_AddElement DEF IInv, SentByClients
    <2> QED
      BY <1>2, <2>1, <2>2, <2>3 DEF SentByClients, FromClient, VpnNode, clients
  <1>7. Framed'
    BY <1>1, <1>2 DEF IInv, Framed, SentBy
  <1>8. OnTheWay'
    <2>1. ASSUME s.route = "net"
          PROVE  0 \in Numbers(s) /\ s.pkt = Onward(s, 0)
      <3>1. /\ s.pkt \in AppPacket /\ s.pkt.piece = 0 /\ s.pkt.frag = FALSE
            /\ Origin(main, s.pkt.from) = s.pkt.from
        BY <1>1, <2>1 DEF SentBy, FromClient, Origin, VpnNode
      <3>2. 0 \in Numbers(s) /\ 0 \in Heads
        BY <2>1 DEF Numbers, Heads
      <3>3. /\ Onward(s, 0) \in AppPacket /\ Onward(s, 0).id = s.pkt.id
            /\ Onward(s, 0).from = s.pkt.from /\ Onward(s, 0).dst = s.pkt.dst
            /\ Onward(s, 0).port = s.pkt.port /\ Onward(s, 0).size = s.pkt.size
            /\ Onward(s, 0).piece = 0 /\ Onward(s, 0).frag = FALSE
        BY <1>5, <3>1, <3>2, OnwardFields
      <3> QED
        BY <3>1, <3>2, <3>3, SamePacket
    <2>2. \A p \in plain' : p \in plain \/ \E t \in sent' : \E k \in Numbers(t) : p = Onward(t, k)
      BY <1>1, <1>2, <2>1 DEF SentBy
    <2> QED
      BY <1>2, <2>2, OnTheWayStays
  <1>9. /\ UnderWay \subseteq UnderWay'
        /\ \A p \in UnderWay' : p \in UnderWay \/ p.id = s.pkt.id
        /\ \E p \in UnderWay' : p.id = s.pkt.id /\ p.piece \in Heads
    <2>1. \A k \in Numbers(s) : Taken(s, k).id = s.pkt.id
      <3>1. s.pkt \in AppPacket /\ s.pkt.piece = 0 /\ s.pkt.frag = FALSE
        BY <1>1 DEF SentBy, FromClient
      <3> QED
        BY <3>1, TakenFields
    <2>2. s.pkt.piece \in Heads
      BY <1>1 DEF SentBy, FromClient, Heads
    <2> QED
      BY <1>1, <2>1, <2>2 DEF SentBy, UnderWay
  <1>10. Timely'
    BY <1>1, <1>2, <1>5, <1>9 DEF IInv, Timely, SentBy
  <1>11. Counted'
    BY <1>2, FlowStays DEF IInv, Counted, HeardOf
  <1>12. Kept'
    BY <1>2, <1>9 DEF IInv, Kept, HeardOf
  <1>13. EveryoneServed'
    BY <1>2, <1>3 DEF EveryoneServed
  <1> QED
    BY <1>4, <1>6, <1>7, <1>8, <1>10, <1>11, <1>12, <1>13 DEF IInv

(* A step that only takes packets along leaves what was sent as it is.     *)
LEMMA SentStays ==
  ASSUME IInv, OthersKept
  PROVE  Clock' /\ NodesKept' /\ SentByClients' /\ (~ over => EveryoneServed')
  <1>1. Clock' /\ NodesKept'
    BY NodesStay DEF OthersKept
  <1>2. SentByClients'
    BY DEF IInv, OthersKept, SentByClients, FromClient, VpnNode, clients
  <1>3. ~ over => EveryoneServed'
    BY DEF OthersKept, EveryoneServed
  <1> QED
    BY <1>1, <1>2, <1>3

LEMMA FrameInv ==
  ASSUME IInv, NEW m \in Main, m = main, NEW f \in tunnel, FrameArrives(m, f)
  PROVE  IInv'
  <1>1. Unwrapped(f)
    BY FrameStep
  <1>2. Clock' /\ NodesKept' /\ SentByClients' /\ EveryoneServed'
    BY <1>1, SentStays DEF Unwrapped
  <1>3. Framed'
    BY <1>1 DEF IInv, Framed, Unwrapped, OthersKept
  <1>4. OnTheWay'
    BY <1>1, OnTheWayStays DEF Unwrapped, OthersKept
  <1>5. \A s \in sent : \A k \in Numbers(s) :
          /\ Onward(s, k).id = s.pkt.id /\ Onward(s, k).piece = k
          /\ Taken(s, k).id = s.pkt.id /\ Taken(s, k).piece = k
    <2> SUFFICES ASSUME NEW s \in sent, NEW k \in Numbers(s)
                 PROVE  /\ Onward(s, k).id = s.pkt.id /\ Onward(s, k).piece = k
                        /\ Taken(s, k).id = s.pkt.id /\ Taken(s, k).piece = k
      OBVIOUS
    <2>1. s.pkt \in AppPacket /\ s.pkt.piece = 0 /\ s.pkt.frag = FALSE
      BY SentFacts
    <2>2. main \in DOMAIN Scenario
      BY RunAssumption
    <2>3. Taken(s, k).id = s.pkt.id /\ Taken(s, k).piece = k
      BY <2>1, TakenFields
    <2> QED
      BY <2>1, <2>2, <2>3, OnwardFields
  <1>6. \A p \in UnderWay' : \E q \in UnderWay : p.id = q.id
    BY <1>1, <1>5 DEF Unwrapped, UnderWay
  <1>7. Timely'
    BY <1>1, <1>6 DEF IInv, Timely, Unwrapped, OthersKept
  <1>8. Counted'
    BY <1>1, CountedStays DEF Unwrapped, OthersKept
  <1>9. Kept'
    <2>1. ASSUME ~ losing, NEW s \in sent, s.pkt.id.at + 1 < Stopped(main),
                 NEW p \in UnderWay, p.id = s.pkt.id, p.piece \in Heads
          PROVE  \E q \in UnderWay' : q.id = s.pkt.id /\ q.piece \in Heads
      <3>1. CASE p \in UnderWay'
        BY <2>1, <3>1
      <3>2. CASE p \notin UnderWay'
        <4>1. p = f.inner
          BY <1>1, <3>2 DEF UnderWay, Unwrapped
        <4>2. now <= s.pkt.id.at + 1
          BY <2>1 DEF IInv, Timely
        <4>3. ~ (Stopped(main) <= now)
          <5>1. s.pkt.id.at \in Nat /\ now \in Nat /\ Stopped(main) \in Nat
            BY SentFacts DEF Stopped
          <5> QED
            BY <2>1, <4>2, <5>1
        <4> PICK t \in sent : \E k \in Numbers(t) :
              f.inner = Taken(t, k) /\ plain' = plain \cup {Onward(t, k)}
          BY <1>1, <4>3 DEF Unwrapped
        <4>4. PICK k \in Numbers(t) :
                f.inner = Taken(t, k) /\ plain' = plain \cup {Onward(t, k)}
          OBVIOUS
        <4>5. /\ Onward(t, k) \in UnderWay' /\ Onward(t, k).id = s.pkt.id
              /\ Onward(t, k).piece \in Heads
          BY <1>5, <2>1, <4>1, <4>4 DEF UnderWay
        <4> QED
          BY <4>5
      <3> QED
        BY <3>1, <3>2
    <2> QED
      BY <1>1, <2>1 DEF IInv, Kept, HeardOf, Unwrapped, OthersKept
  <1> QED
    BY <1>2, <1>3, <1>4, <1>7, <1>8, <1>9 DEF IInv

LEMMA DatagramInv ==
  ASSUME IInv, NEW m \in Main, m = main, NEW p \in plain, DatagramArrives(m, p)
  PROVE  IInv'
  <1>1. PICK s, k : Received(p, s, k)
    BY DatagramStep
  <1>2. Clock' /\ NodesKept' /\ SentByClients' /\ EveryoneServed'
    BY <1>1, SentStays DEF Received
  <1>3. Framed'
    BY <1>1 DEF IInv, Framed, Received, OthersKept
  <1>4. OnTheWay'
    BY <1>1, OnTheWayStays DEF Received, OthersKept
  <1>5. UnderWay' \subseteq UnderWay /\ \A q \in UnderWay : q = p \/ q \in UnderWay'
    BY <1>1 DEF Received, UnderWay
  <1>6. Timely'
    BY <1>1, <1>5 DEF IInv, Timely, Received, OthersKept
  <1>7. p \in UnderWay
    BY DEF UnderWay
  <1>8. heard \subseteq heard'
    BY <1>1 DEF Received
  <1>9. /\ s \in sent /\ s.pkt.id = p.id /\ p.piece = k
        /\ sent' = sent /\ main' = main
        /\ \A t \in sent : HeardOf(t) => HeardOf(t)'
    BY <1>1, <1>8 DEF Received, OthersKept, HeardOf
  <1>10. p.id.at + 1 < Stopped(main) /\ p.piece \in Heads => HeardOf(s)'
    <2>1. SUFFICES ASSUME p.id.at + 1 < Stopped(main), p.piece \in Heads
                   PROVE  HeardOf(s)'
      OBVIOUS
    <2>2. ~ (Stopped(main) <= now)
      <3>1. now <= p.id.at + 1
        BY <1>7 DEF IInv, Timely
      <3>2. p.id.at \in Nat /\ now \in Nat /\ Stopped(main) \in Nat
        BY <1>9, SentFacts DEF Stopped
      <3> QED
        BY <2>1, <3>1, <3>2
    <2>3. k \in Heads
      BY <1>1, <2>1 DEF Received, Numbers
    <2>4. CASE [host |-> Receiver(main), pkt |-> p] \in rcvd
      <3>1. PICK t \in sent : t.pkt.id = p.id /\ HeardOf(t)
        BY <2>1, <2>4 DEF IInv, Counted
      <3>2. t = s
        BY <1>9, <3>1 DEF IInv, SentByClients
      <3> QED
        BY <1>9, <3>1, <3>2
    <2>5. CASE heard' = heard \cup
                 {[id |-> s.pkt.id, size |-> Through(s), flow |-> FlowOfSent(s)]}
      <3>1. [id |-> s.pkt.id, size |-> Through(s), flow |-> FlowOfSent(s)] \in heard'
        BY <2>5
      <3> QED
        BY <3>1 DEF HeardOf
    <2> QED
      BY <1>1, <2>2, <2>3, <2>4, <2>5 DEF Received
  <1>11. Counted'
    <2>1. \A r \in rcvd' : r.pkt.id.at + 1 < Stopped(main) /\ r.pkt.piece \in Heads =>
            \E t \in sent : t.pkt.id = r.pkt.id /\ HeardOf(t)'
      BY <1>1, <1>9, <1>10 DEF IInv, Counted, Received
    <2>2. \A x \in heard' : \E t \in sent : t.pkt.id = x.id /\ x.flow = FlowOfSent(t)
      BY <1>1, <1>9 DEF IInv, Counted, Received
    <2> QED
      BY <1>9, <2>1, <2>2, FlowStays DEF Counted
  <1>12. Kept'
    <2>1. ASSUME ~ losing, NEW t \in sent, t.pkt.id.at + 1 < Stopped(main)
          PROVE  (\E q \in UnderWay' : q.id = t.pkt.id /\ q.piece \in Heads) \/ HeardOf(t)'
      <3>1. CASE \E q \in UnderWay' : q.id = t.pkt.id /\ q.piece \in Heads
        BY <3>1
      <3>2. CASE p.id = t.pkt.id /\ p.piece \in Heads
        <4>1. t = s
          BY <1>9, <3>2 DEF IInv, SentByClients
        <4> QED
          BY <1>10, <2>1, <3>2, <4>1
      <3>3. CASE HeardOf(t)
        BY <1>9, <3>3
      <3> QED
        BY <1>5, <2>1, <3>1, <3>2, <3>3 DEF IInv, Kept
    <2> QED
      BY <1>1, <2>1 DEF Kept, Received, OthersKept
  <1> QED
    BY <1>2, <1>3, <1>4, <1>6, <1>11, <1>12 DEF IInv

LEMMA LoseInv ==
  ASSUME IInv, NEW m \in Main, NEW p, Lose(m, p)
  PROVE  IInv'
  <1>1. /\ OthersKept /\ ~ over /\ losing
        /\ tunnel' \subseteq tunnel /\ plain' \subseteq plain
        /\ rcvd' = rcvd /\ heard' = heard
    BY LoseStep
  <1>2. Clock' /\ NodesKept' /\ SentByClients' /\ EveryoneServed'
    BY <1>1, SentStays
  <1>3. Framed' /\ OnTheWay'
    BY <1>1, OnTheWayStays DEF IInv, Framed, OthersKept
  <1>4. UnderWay' \subseteq UnderWay
    BY <1>1 DEF UnderWay
  <1>5. Timely' /\ Counted' /\ Kept'
    BY <1>1, <1>4, CountedStays DEF IInv, Timely, Kept, HeardOf, OthersKept
  <1> QED
    BY <1>2, <1>3, <1>5 DEF IInv

\* The next moment is the next second.
LEMMA TickStep ==
  ASSUME IInv, Tick
  PROVE  now \in Nat /\ now' = now + 1 /\ now' \in Moment
  <1>1. now \in Moment /\ now \in Nat
    BY RunAssumption DEF IInv, Clock
  <1>2. PICK t \in Moment : /\ t > now /\ \A u \in Moment : u > now => t <= u
                            /\ now' = t
    BY DEF Tick
  <1>3. t \in Nat
    BY RunAssumption
  <1>4. now + 1 \in 0 .. t
    BY <1>1, <1>2, <1>3
  <1>5. now + 1 \in Moment
    BY <1>4, RunAssumption
  <1> QED
    BY <1>1, <1>2, <1>3, <1>5

LEMMA TickInv ==
  ASSUME IInv, Tick
  PROVE  IInv'
  <1>1. now \in Nat /\ now' = now + 1 /\ now' \in Moment
    BY TickStep
  <1>2. /\ UNCHANGED <<main, losing, over, heard, m_clientInterface, m_clientSocket,
                       m_serverAddress, m_serverPort, m_cipherKey>>
        /\ UNCHANGED <<tunnel, plain, sent, rcvd>>
        /\ ~ over
        /\ \A p \in UnderWay : p.id.at = now
    BY DEF Tick, netVars, Busy, Running
  <1>3. Clock'
    BY <1>1, <1>2 DEF IInv, Clock
  <1>4. NodesKept'
    <2>1. \A n \in Nat : n <= now => n <= now'
      BY <1>1
    <2>2. Stopped(main) \in Nat
      BY DEF Stopped
    <2> QED
      BY <1>2, <2>1, <2>2 DEF IInv, NodesKept, VpnNode
  <1>5. (SentByClients /\ Framed /\ OnTheWay)'
    <2>1. (SentByClients /\ Framed)'
      BY <1>2 DEF IInv, SentByClients, Framed, FromClient, VpnNode, clients
    <2> QED
      BY <1>2, <2>1, OnTheWayStays
  <1>6. UnderWay' = UnderWay
    BY <1>2 DEF UnderWay
  <1>7. Timely'
    BY <1>1, <1>2, <1>6 DEF Timely
  <1>8. Counted' /\ Kept'
    BY <1>2, <1>6, CountedStays DEF IInv, Kept, HeardOf
  <1>9. EveryoneServed'
    BY <1>2 DEF EveryoneServed
  <1> QED
    BY <1>3, <1>4, <1>5, <1>7, <1>8, <1>9 DEF IInv

(* When Run returns, what was sent in time is not under way any more.      *)
LEMMA ReturnInv ==
  ASSUME IInv, Return
  PROVE  IInv'
  <1>1. UNCHANGED <<main, losing, now, heard, netVars>>
    BY DEF Return
  <1>2. main \in DOMAIN Scenario /\ now \in Nat
    BY RunAssumption DEF IInv, Clock
  <1>3. (Clock /\ NodesKept)'
    BY <1>1, NodesStay DEF netVars
  <1>4. (SentByClients /\ Framed /\ OnTheWay)'
    <2>1. (SentByClients /\ Framed)'
      BY <1>1 DEF netVars, IInv, SentByClients, Framed, FromClient, VpnNode, clients
    <2> QED
      BY <1>1, <2>1, OnTheWayStays DEF netVars
  <1>5. UnderWay' = UnderWay
    BY <1>1 DEF UnderWay, netVars
  <1>6. (Timely /\ Counted /\ Kept)'
    BY <1>1, <1>5, CountedStays DEF IInv, Timely, Kept, HeardOf, netVars
  <1>7. Closing' = Closing
    BY <1>1 DEF Closing, vpns, sinks, stopAt
  <1>8. EveryoneServed'
    <2>1. ASSUME ~ losing, NEW s \in sent, s.pkt.id.at + 1 < Closing
          PROVE  \E r \in heard : r.id = s.pkt.id /\ r.size = Through(s)
      <3>1. s.pkt.id.at + 1 < Stopped(main)
        BY <1>2, <2>1, ClosingFits
      <3>2. ASSUME NEW p \in UnderWay, p.id = s.pkt.id
            PROVE  FALSE
        <4>1. now <= s.pkt.id.at + 1
          BY <3>2 DEF IInv, Timely
        <4>2. Stopping
          BY <3>2 DEF Return
        <4>3. Stopped(main) <= stopAt /\ stopAt <= now /\ stopAt \in Nat
          BY <1>2, <4>2, ClosingFits DEF Stopping
        <4>4. s.pkt.id.at \in Nat /\ Stopped(main) \in Nat
          BY SentFacts DEF Stopped
        <4> QED
          BY <1>2, <3>1, <4>1, <4>3, <4>4
      <3> QED
        BY <2>1, <3>1, <3>2 DEF IInv, Kept, HeardOf
    <2> QED
      BY <1>1, <1>7, <2>1 DEF EveryoneServed, netVars
  <1> QED
    BY <1>3, <1>6, <1>8, <1>4 DEF IInv

LEMMA InvStep == IInv /\ [Next]_vars => IInv'
  <1> SUFFICES ASSUME IInv, [Next]_vars
               PROVE  IInv'
    OBVIOUS
  <1>1. CASE UNCHANGED vars
    BY <1>1, TrafficKept, NodesStay DEF vars, simVars, netVars, IInv
  <1>2. ASSUME NEW m \in Main, main = m, NEW v \in vpns, Start(m, v) \/ Stop(m, v)
        PROVE  IInv'
    BY <1>2, StartInv
  <1>3. ASSUME NEW m \in Main, main = m, NEW c \in clients, Send(m, c)
        PROVE  IInv'
    BY <1>3, SendInv
  <1>4. ASSUME NEW m \in Main, main = m, NEW f \in tunnel, FrameArrives(m, f)
        PROVE  IInv'
    BY <1>4, FrameInv
  <1>5. ASSUME NEW m \in Main, main = m, NEW p \in plain, DatagramArrives(m, p)
        PROVE  IInv'
    BY <1>5, DatagramInv
  <1>6. ASSUME NEW m \in Main, main = m, NEW p \in UnderWay, Lose(m, p)
        PROVE  IInv'
    BY <1>6, LoseInv
  <1>7. CASE Tick
    BY <1>7, TickInv
  <1>8. CASE Return
    BY <1>8, ReturnInv
  <1> QED
    BY <1>1, <1>2, <1>3, <1>4, <1>5, <1>6, <1>7, <1>8 DEF Next

LEMMA Invariance == Spec => []IInv
  <1> QED
    BY InitInv, InvStep, PTL DEF Spec

-----------------------------------------------------------------------------
(* The properties *)

(* In every main, whatever a VPN client sends goes through its tap, from   *)
(* its first datagram to its last, and nothing another node sends does.    *)
THEOREM ClientsStayTunnelled == Spec => []AlwaysTunnelled
  <1>1. IInv => AlwaysTunnelled
    <2> SUFFICES ASSUME IInv, NEW s \in sent
                 PROVE  s.route = "tap" <=> \E v \in vpns : v.node = s.pkt.from
      BY DEF AlwaysTunnelled
    <2>1. PICK c \in clients : FromClient(s, c)
      BY DEF IInv, SentByClients
    <2>2. s.pkt.from = c.node /\ (s.route = "tap" <=> c.node \in VpnNode)
      BY <2>1 DEF FromClient
    <2>3. VpnNode = {v.node : v \in vpns}
      BY AttributesFit, RunAssumption DEF IInv, Clock, VpnNode, vpns
    <2> QED
      BY <2>2, <2>3
  <1> QED
    BY <1>1, Invariance, PTL

(* In every main, no VPN node is stopped that was never started, no        *)
(* datagram, forwarded or not, comes to a VPN socket without a frame, no   *)
(* frame holds a piece without room for the headers that ReceivePacket     *)
(* removes, and no VPN node has its server behind its own tap.             *)
THEOREM MainsNeverCrash == Spec => []NeverCrashes
  <1>1. IInv => NeverCrashes
    <2> SUFFICES ASSUME IInv, Crashing
                 PROVE  FALSE
      BY DEF NeverCrashes
    <2>1. main \in DOMAIN Scenario /\ now \in Nat
      BY RunAssumption DEF IInv, Clock
    <2>2. \A v \in vpns : VpnFits(main, v)
      BY <2>1, VpnsFit DEF vpns
    <2>3. ASSUME NEW v \in vpns, v.stop <= now, now < v.start
          PROVE  FALSE
      <3>1. v.start = 1 /\ v.stop \in {10, 16}
        BY <2>2 DEF VpnFits, Stopped
      <3> QED
        BY <2>1, <2>3, <3>1
    <2>4. ASSUME NEW p \in plain, TakenForFrame(p)
          PROVE  FALSE
      <3> PICK s \in sent : \E k \in Numbers(s) : p = Onward(s, k)
        BY DEF IInv, OnTheWay
      <3>1. PICK k \in Numbers(s) : p = Onward(s, k)
        OBVIOUS
      <3>2. PICK c \in clients : FromClient(s, c)
        BY DEF IInv, SentByClients
      <3>3. p.port \in {0, 9, 10}
        <4>1. s.pkt.port = c.port /\ c.port \in {9, 10}
          BY <2>1, <3>2, TrafficFits DEF clients, ClientFits, FromClient
        <4>2. p.port = (IF k \in Heads THEN s.pkt.port ELSE 0)
          BY <2>1, <3>1, SentFacts, OnwardFields
        <4> QED
          BY <4>1, <4>2
      <3>4. p.port = 50000
        BY <2>2, <2>4 DEF TakenForFrame, VpnFits
      <3> QED
        BY <3>3, <3>4
    <2>5. ASSUME NEW m \in Main, main = m, NEW f \in tunnel, ~ Tunnel(m)!HasHeaders(f.inner)
          PROVE  FALSE
      <3> PICK s \in sent : \E k \in Numbers(s) : f.inner = Taken(s, k)
        BY DEF IInv, Framed
      <3>1. PICK k \in Numbers(s) : f.inner = Taken(s, k)
        OBVIOUS
      <3>2. PICK c \in clients : FromClient(s, c)
        BY DEF IInv, SentByClients
      <3> QED
        BY <2>1, <2>5, <3>1, <3>2, HeadersFit, ClientDatagram
    <2>6. ASSUME NEW m \in Main, main = m, NEW v \in vpns,
                 Tunnel(m)!TapUp(v.node), Tunnel(m)!Circular(v.node)
          PROVE  FALSE
      <3> DEFINE h == v.node
      <3>1. h \in VpnNode
        BY <2>1, AttributesFit DEF VpnNode, vpns
      <3>2. m_serverAddress[h] = Attributes[m][h].ServerAddress
        BY <2>6, <3>1 DEF IInv, NodesKept
      <3>3. CASE h = Gateway(m)
        <4>1. ~ Tunnel(m)!Covers(h, m_serverAddress[h])
          BY <2>1, <2>6, <3>1, <3>2, <3>3, NodeAttributes
             DEF Tunnel!Covers, Tunnel!m_clientVPNAddress, VpnNode
        <4> QED
          BY <2>6, <4>1 DEF Tunnel!Circular, Tunnel!Route
      <3>4. CASE h # Gateway(m)
        <4>1. m_serverAddress[h] = GatewayAddress(m) /\ h \in Node
          BY <2>1, <2>6, <3>1, <3>2, <3>4, NodeAttributes DEF VpnNode
        <4> QED
          BY <2>6, <3>4, <4>1, Routes DEF Tunnel!Circular
      <3> QED
        BY <3>3, <3>4
    <2> QED
      BY <2>3, <2>4, <2>5, <2>6 DEF Crashing
  <1> QED
    BY <1>1, Invariance, PTL

(* Where no link loses anything, a sink has received, when Run returns,    *)
(* every datagram that was sent a second before the applications stop, or, *)
(* of one too large for the tap of its sender, the first piece.            *)
THEOREM AllInTimeServed == Spec => []EveryoneServed
  <1>1. IInv => EveryoneServed
    BY DEF IInv
  <1> QED
    BY <1>1, Invariance, PTL

(* The performance tests count in flow 0 what came through the tunnel and  *)
(* all of that, and the rest in flow 1.                                    *)
THEOREM FlowsAreSeparate == Spec => []MeterSeparates
  <1>1. IInv => MeterSeparates
    <2> SUFFICES ASSUME IInv, main \in Metered, NEW r \in heard, NEW s \in sent,
                        s.pkt.id = r.id
                 PROVE  r.flow = (IF s.route = "tap" THEN 0 ELSE 1)
      BY DEF MeterSeparates
    <2>1. PICK t \in sent : t.pkt.id = r.id /\ r.flow = FlowOfSent(t)
      BY DEF IInv, Counted
    <2>2. t = s
      BY <2>1 DEF IInv, SentByClients
    <2>3. PICK c \in clients : FromClient(s, c)
      BY DEF IInv, SentByClients
    <2>4. /\ s.pkt.from = c.node /\ s.pkt.port = c.port
          /\ s.route = IF c.node \in VpnNode THEN "tap" ELSE "net"
      BY <2>3 DEF FromClient
    <2>5. FlowOfSent(s) = IF c.node \in VpnNode THEN 0 ELSE 1
      BY <2>4, MeterFits DEF FlowOfSent, VpnNode
    <2> QED
      BY <2>1, <2>2, <2>4, <2>5
  <1> QED
    BY <1>1, Invariance, PTL

-----------------------------------------------------------------------------
(* The simulation of a main is a behaviour of the tunnel in its topology   *)

LEMMA TunnelStep ==
  ASSUME NEW m \in Main, main = m, IInv, [Next]_vars
  PROVE  [Tunnel(m)!Next]_(Tunnel(m)!vars)
  <1> DEFINE nothing == UNCHANGED <<m_clientInterface, m_clientSocket, m_serverAddress,
                                    m_serverPort, m_cipherKey, tunnel, plain, waiting,
                                    sent, rcvd>>
  <1>1. nothing => UNCHANGED Tunnel(m)!vars
    BY DEF Tunnel!vars, Tunnel!appVars, Tunnel!lifeVars, Tunnel!peerVars, Tunnel!packetVars
  <1>2. m \in DOMAIN Scenario
    BY RunAssumption
  <1>3. \A v \in vpns : v.node \in DOMAIN Attributes[m] /\ v.node \in Node
    BY <1>2, AttributesFit, VpnsFit DEF vpns, VpnFits
  <1>4. CASE UNCHANGED vars
    BY <1>1, <1>4 DEF vars, netVars
  <1>5. ASSUME NEW v \in vpns, Start(m, v) \/ Stop(m, v)
        PROVE  Tunnel(m)!Next
    BY <1>3, <1>5 DEF Start, Stop, Tunnel!Next
  <1>6. ASSUME NEW c \in clients, Send(m, c)
        PROVE  Tunnel(m)!Next
    <2> DEFINE number == Cardinality({s \in sent : s.pkt.id.client = c.node}) + 1
               i == [client |-> c.node, number |-> number, at |-> now]
               d == [from |-> c.node, dst |-> c.dst, port |-> c.port, proto |-> "udp",
                     size |-> c.size]
    <2>1. Tunnel(m)!AppSend(i, d) /\ number <= Quota
      BY <1>6 DEF Send
    <2>2. d \in Datagrams[m]
      BY <1>2 DEF Datagrams, clients
    <2>3. number \in 1 .. Quota
      <3>1. IsFiniteSet({t \in sent : t.pkt.id.client = c.node})
        BY FS_Subset DEF IInv, SentByClients
      <3>2. number \in Nat /\ number >= 1
        BY <3>1, FS_CardinalityType
      <3> QED
        BY <2>1, <3>2, RunAssumption
    <2>4. c.node \in Node
      BY <1>2, TrafficFits DEF clients, ClientFits
    <2> HIDE DEF number
    <2>5. i \in Id
      BY <2>3, <2>4 DEF Id, IInv, Clock
    <2> QED
      BY <2>1, <2>2, <2>5 DEF Tunnel!Next
  <1>7. ASSUME NEW f \in tunnel, FrameArrives(m, f)
        PROVE  Tunnel(m)!Next
    BY <1>3, <1>7 DEF FrameArrives, Tunnel!Next
  <1>8. ASSUME NEW p \in plain, DatagramArrives(m, p)
        PROVE  Tunnel(m)!Next
    BY <1>8 DEF DatagramArrives, Tunnel!Next
  <1>9. ASSUME NEW p \in UnderWay, Lose(m, p)
        PROVE  Tunnel(m)!Next \/ nothing
    <2>1. CASE \E f \in tunnel : f.inner = p /\ Tunnel(m)!LoseFrame(f)
      BY <2>1 DEF Tunnel!Next
    <2>2. CASE Tunnel(m)!LosePlain(p)
      <3>1. CASE p \in plain
        BY <2>2, <3>1 DEF Tunnel!Next
      <3>2. CASE p \notin plain
        <4>1. plain' = plain
          BY <2>2, <3>2 DEF Tunnel!LosePlain
        <4> QED
          BY <2>2, <4>1 DEF Tunnel!LosePlain, Tunnel!appVars, Tunnel!lifeVars,
                            Tunnel!peerVars
      <3> QED
        BY <3>1, <3>2
    <2> QED
      BY <1>9, <2>1, <2>2 DEF Lose
  <1>10. CASE Tick \/ Return
    <2>1. nothing
      BY <1>10 DEF Tick, Return, netVars
    <2> QED
      BY <1>1, <2>1
  <1> HIDE DEF nothing
  <1> QED
    BY <1>1, <1>4, <1>5, <1>6, <1>7, <1>8, <1>9, <1>10 DEF Next

(* Every behaviour of a simulation is, seen from the network, one of the   *)
(* tunnel in the topology of its main, so what is proved of the tunnel for *)
(* every topology is true in it.                                           *)
THEOREM SimulationRunsTheTunnel ==
  ASSUME NEW m \in Main
  PROVE  main = m /\ Spec => Tunnel(m)!Spec
  <1>1. main = m /\ Init => Tunnel(m)!Init
    <2> SUFFICES ASSUME main = m, Init
                 PROVE  Tunnel(m)!Init
      OBVIOUS
    <2>1. PICK n \in Main : main = n /\ Tunnel(n)!Init
      BY DEF Init
    <2> QED
      BY <2>1
  <1>2. main = m /\ [Next]_vars => (main = m)'
    <2> SUFFICES ASSUME main = m, [Next]_vars
                 PROVE  main' = m
      OBVIOUS
    <2>1. ASSUME NEW p, Lose(m, p) PROVE main' = main
      BY <2>1, LoseStep DEF OthersKept
    <2> QED
      BY <2>1 DEF Next, vars, simVars, Start, Stop, Send, FrameArrives, DatagramArrives, Rx,
                  Tick, Return
  <1>3. main = m /\ IInv /\ [Next]_vars => [Tunnel(m)!Next]_(Tunnel(m)!vars)
    BY TunnelStep
  <1> QED
    BY <1>1, <1>2, <1>3, Invariance, PTL DEF Spec, Tunnel!Spec

=============================================================================
