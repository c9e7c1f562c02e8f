----------------------------- MODULE Scenarios ------------------------------
(***************************************************************************)
(* The simulations under scratch/: what their mains build before           *)
(* Simulator::Run.  Nodes are numbered as in the source (n0, n1, ...) and  *)
(* times are seconds.                                                      *)
(***************************************************************************)
EXTENDS VpnHelper, Sequences

\* A link whose devices are given addresses in the order of nodes, from 1 on.
Link(net, nodes) == [net |-> net, nodes |-> nodes]

AddressOf(link, position) == link.net + position

\* slip: the arguments of Start and Stop are exchanged.
InstallSwapped(attributes, node, start, stop) ==
  [attributes |-> attributes, node |-> node, start |-> stop, stop |-> start]

Install(attributes, node, start, stop) ==
  [attributes |-> attributes, node |-> node, start |-> start, stop |-> stop]

\* An application that sends datagrams at a constant rate.
OnOff(node, dst, port, size, start, stop) ==
  [node |-> node, dst |-> dst, port |-> port, size |-> size,
   start |-> start, stop |-> stop]

PacketSink(node, port, start, stop) ==
  [node |-> node, port |-> port, start |-> start, stop |-> stop]

ServerOnly == ServerHelper(IP(12, 0, 0, 1), 50000)

-----------------------------------------------------------------------------
(* Three point-to-point links around n2, and a LAN behind n3.              *)
StarLinks == <<Link(IP(10, 1, 1, 0), <<0, 2>>), Link(IP(10, 1, 2, 0), <<1, 2>>),
               Link(IP(10, 1, 3, 0), <<2, 3>>), Link(IP(11, 0, 0, 0), <<3, 4, 5, 6>>)>>

VpnTest ==
  [links |-> StarLinks,
   vpns |-> {Install(ClientHelper(IP(10, 1, 3, 2), IP(11, 0, 0, 100), 50000, 50000), 0, 1, 10),
             Install(ClientHelper(IP(10, 1, 3, 2), IP(11, 0, 0, 101), 50000, 50000), 1, 1, 10),
             Install(ServerOnly, 3, 1, 10)},
   clients |-> {OnOff(n, IP(11, 0, 0, 2), 9, 512, 1, 10) : n \in {0, 1}},
   sinks |-> {PacketSink(4, 9, 1, 10)},
   beacons |-> FALSE, stopAt |-> 0]

P2pPerformance ==
  [links |-> StarLinks,
   vpns |-> {Install(ClientHelper(IP(10, 1, 3, 2), IP(11, 0, 0, 100), 50000, 50000), 0, 1, 10),
             Install(ServerOnly, 3, 1, 10)},
   clients |-> {OnOff(0, IP(11, 0, 0, 2), 9, 50000, 1, 10),
                OnOff(1, IP(11, 0, 0, 2), 10, 50000, 1, 10)},
   sinks |-> {PacketSink(4, port, 1, 10) : port \in {9, 10}},
   beacons |-> FALSE, stopAt |-> 0]

SniffingTest ==
  LET lan == Link(IP(11, 0, 0, 0), <<2, 3, 4, 5>>)
  IN  [links |-> <<Link(IP(10, 1, 1, 0), <<0, 1>>), Link(IP(10, 1, 2, 0), <<1, 2>>), lan>>,
       vpns |-> {Install(ClientHelper(IP(10, 1, 2, 2), IP(11, 0, 0, 100), 50000, 50000), 0, 1, 10),
                 Install(ServerOnly, 2, 1, 10)},
       clients |-> {OnOff(0, AddressOf(lan, 4), 9, 512, 1, 10)},
       sinks |-> {PacketSink(5, 9, 1, 10)},
       beacons |-> FALSE, stopAt |-> 0]

(* The two mains with Wi-Fi: stations n5 and n6 at the access point n0,    *)
(* whose beacons never end, a link to n1, and a LAN behind that.           *)
WifiLan == Link(IP(11, 0, 0, 0), <<1, 2, 3, 4>>)

WifiMain(senders, stop, stopAt) ==
  [links |-> <<Link(IP(10, 1, 1, 0), <<0, 1>>), Link(IP(10, 1, 2, 0), <<5, 6, 0>>), WifiLan>>,
   vpns |-> {Install(ServerOnly, 1, 1, stop),
             Install(ClientHelper(IP(10, 1, 1, 2), IP(11, 0, 0, 100), 50000, 50000), 5, 1, stop)},
   clients |-> {OnOff(n, AddressOf(WifiLan, 4), 9, 512, 1, stop) : n \in senders},
   sinks |-> {PacketSink(4, 9, 1, stop)},
   beacons |-> TRUE, stopAt |-> stopAt]

\* slip: Simulator::Stop is called when Run has returned, as in other mains.
WifiPerformanceNoStop == WifiMain({5, 6}, 16, 0)

WifiPerformance == WifiMain({5, 6}, 16, 16)

SniffingWifi == WifiMain({5}, 10, 11)

-----------------------------------------------------------------------------
Scenario ==
  [main \in {"vpn-test", "p2p-performance-test", "sniffing-test",
             "wifi-performance-test", "sniffing-wifi-test"} |->
     CASE main = "vpn-test" -> VpnTest
       [] main = "p2p-performance-test" -> P2pPerformance
       [] main = "sniffing-test" -> SniffingTest
       [] main = "wifi-performance-test" -> WifiPerformance
       [] main = "sniffing-wifi-test" -> SniffingWifi]

\* The mains whose links lose packets: under full load, or of radio.
MayLose == DOMAIN Scenario \ {"vpn-test", "sniffing-test"}

Node == 0 .. 6

\* The addresses of a node's ordinary interfaces.
Addresses ==
  [main \in DOMAIN Scenario |->
     [node \in Node |->
        LET links == Scenario[main].links
        IN  UNION {{AddressOf(links[l], p) :
                      p \in {q \in DOMAIN links[l].nodes : links[l].nodes[q] = node}} :
                   l \in DOMAIN links}]]

\* The attributes of each VPNApplication.
Attributes ==
  [main \in DOMAIN Scenario |->
     [node \in {v.node : v \in Scenario[main].vpns} |->
        (CHOOSE v \in Scenario[main].vpns : v.node = node).attributes]]

Datagrams ==
  [main \in DOMAIN Scenario |->
     {[from |-> c.node, dst |-> c.dst, port |-> c.port, proto |-> "udp", size |-> c.size] :
        c \in Scenario[main].clients}]

-----------------------------------------------------------------------------
(* The meters: the flow a received datagram is counted for.                *)

\* slip: the VPN client's address is looked for instead of the server's.
ThroughputOfClient(source) ==
  CASE source = IP(11, 0, 0, 100) -> 0 [] source = IP(10, 1, 2, 2) -> 1 [] OTHER -> 2

\* Throughput tells flows apart by the source address, and knows two.
Throughput(source) ==
  CASE source = IP(11, 0, 0, 1) -> 0 [] source = IP(10, 1, 2, 2) -> 1 [] OTHER -> 2

\* RxTime is given the context "VPN" by the sink at port 9.
RxTime(port) == IF port = 9 THEN 0 ELSE 1

Metered == {"p2p-performance-test", "wifi-performance-test"}

FlowOf(main, port, source) ==
  CASE main = "p2p-performance-test" -> RxTime(port)
    [] main = "wifi-performance-test" -> Throughput(source)
    [] OTHER -> 2
=============================================================================
