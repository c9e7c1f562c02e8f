--------------------------- MODULE VPNApplication ---------------------------
(***************************************************************************)
(* The tunnel: nodes that run a VPNApplication, the applications that send *)
(* datagrams through it, and the network in between.                       *)
(*                                                                         *)
(* A VPNApplication gives its node a virtual device (the tap) and a UDP    *)
(* socket.  What the node's IP layer routes to the tap is handed to        *)
(* SendPacket, which puts it into a frame for the VPN server; a frame that *)
(* reaches the socket is handed to ReceivePacket, which gives the inner    *)
(* packet to the node or sends its payload on.  The simulator runs one     *)
(* event at a time, so an event (a start, a stop, a send, an arrival) with *)
(* every call it makes is one action.                                      *)
(*                                                                         *)
(* Everything underneath is ns-3: its routing, its UDP sockets and its     *)
(* links are modelled by what this code relies on.  A link may lose what   *)
(* it carries (Lossy) and may reorder it, but does not duplicate it.  What *)
(* is too large for an ordinary link is cut there and put together again   *)
(* before a socket sees it, so it arrives as a whole or not at all.  What  *)
(* is too large for the tap is cut before SendPacket sees it, and each     *)
(* piece travels and is forwarded on its own.                              *)
(***************************************************************************)
EXTENDS VpnHelper, VpnHeader

CONSTANTS
  Host,      \* the nodes
  VpnHost,   \* those with a VPNApplication
  Phys,      \* Phys[h]: the addresses of h's ordinary interfaces
  Config,    \* Config[h]: the attributes h's VPNApplication starts with
  Retargets, \* Retargets[h]: the servers that SetServer may name for h later
  Rekeys,    \* Rekeys[h]: the keys that SetCipherKey may set for h later
  TapMtu,    \* the MTU of a tap, which the code leaves at ns-3's 1500
  PayloadPort, \* the ports for which bytes of a payload may be taken
  Traffic,   \* the datagrams that applications may send
  Id,        \* the identities of the datagrams sent; bounds their number
  Lossy      \* whether links may lose what they carry

VARIABLES
  m_clientInterface,   \* the tap of each VPN node: "none", "up", "down"
  m_clientSocket,      \* its UDP socket: "none", "open", "closed"
  m_serverAddress,     \* the server it sends frames to,
  m_serverPort,        \* the port of that server,
  m_cipherKey,         \* and its key
  tunnel,              \* frames under way between VPN nodes
  plain,               \* datagrams under way outside any frame
  waiting,             \* pieces a tap received, waiting for the others
  sent,                \* every datagram an application sent, and its first hop
  rcvd                 \* every datagram handed to a transport protocol, and where

lifeVars == <<m_clientInterface, m_clientSocket>>
peerVars == <<m_serverAddress, m_serverPort, m_cipherKey>>
appVars == <<lifeVars, peerVars>>
packetVars == <<tunnel, plain, waiting, sent, rcvd>>
vars == <<appVars, packetVars>>

-----------------------------------------------------------------------------
(* Packets *)

MaxUdp == 65507          \* the largest UDP payload ns-3 sends
IpHeaderSize == 20
UdpHeaderSize == 8
TcpHeaderSize == 20      \* without options

Datagram == [from : Host, dst : Nat, port : Port, proto : {"udp", "tcp"}, size : Nat]

(* An IP packet: a datagram (piece 0), or the piece of one with that       *)
(* number, either as an IP fragment (frag), of which only the first has a  *)
(* transport header, or sent on as a datagram of its own.  from is the     *)
(* node that wrote the IP header (it stands for the source address), port  *)
(* the destination port, size the length of the data behind the transport  *)
(* header of the whole datagram, and data whether that is what the         *)
(* application sent ("body") or still begins with a piece of a TCP header. *)
Packet == [id : Id, from : Host, dst : Nat, port : Port, proto : {"udp", "tcp"},
           size : Nat, data : {"body", "tcp_tail"}, piece : Nat, frag : BOOLEAN]

TransportHeaderSize(p) == IF p.proto = "udp" THEN UdpHeaderSize ELSE TcpHeaderSize

\* What follows the IP header of a whole datagram, and how much a tap takes.
Load(p) == TransportHeaderSize(p) + p.size
Room == TapMtu - IpHeaderSize
Fits(p) == Load(p) <= Room

\* Of a datagram cut for the tap, every piece but the last fills the room.
PieceCount(p) == (Load(p) + Room - 1) \div Room
PieceLoad(p, k) == IF k * Room <= Load(p) THEN Room ELSE Load(p) - (k - 1) * Room
Fragment(p, k) == [p EXCEPT !.piece = k, !.frag = TRUE]
Fragments(p) == {Fragment(p, k) : k \in 1 .. PieceCount(p)}
Whole(p) == [p EXCEPT !.piece = 0, !.frag = FALSE]

IpLoad(p) == IF p.piece = 0 THEN Load(p) ELSE PieceLoad(p, p.piece)

\* What the IP layer gives to a tap for packet p.
Pieces(p) == IF IpLoad(p) <= Room THEN {p} ELSE Fragments(p)

Frame == [from : VpnHost, to : Nat, port : Port, hdr : Header, inner : Packet]

Attributes == [ServerAddress : Nat, ClientAddress : Nat, ServerPort : Port,
               ClientPort : Port, ServerMask : Nat \ {0}, CipherKey : Key]

m_clientVPNAddress(h) == Config[h].ClientAddress

\* h's tap network holds address a.
Covers(h, a) ==
  a \div Config[h].ServerMask = m_clientVPNAddress(h) \div Config[h].ServerMask

ASSUME TopologyAssumption ==
  /\ VpnHost \subseteq Host
  /\ Phys \in [Host -> SUBSET Nat]
  /\ Config \in [VpnHost -> Attributes]
  /\ Retargets \in [VpnHost -> SUBSET (Nat \X Port)]
  /\ Rekeys \in [VpnHost -> SUBSET Key]
  /\ Traffic \subseteq Datagram
  /\ Lossy \in BOOLEAN

(* No node is its own server, whose frames would come back to it without   *)
(* end, and a VPN address is nobody's ordinary address.                    *)
ASSUME AddressAssumption ==
  \A h \in VpnHost :
     /\ \A a \in {Config[h].ServerAddress} \cup {s[1] : s \in Retargets[h]} :
          a \notin Phys[h] /\ a # m_clientVPNAddress(h)
     /\ \A g \in Host : m_clientVPNAddress(h) \notin Phys[g]

(* Pieces but the last are multiples of 8 bytes, and the frame of any      *)
(* packet that the tap takes can be sent.                                  *)
ASSUME MtuAssumption ==
  /\ TapMtu \in Nat /\ TapMtu > IpHeaderSize + TcpHeaderSize /\ Room % 8 = 0
  /\ TapMtu + SerializedSize <= MaxUdp

(* TCP cuts its stream into segments that fit.  No application uses a port *)
(* of a VPN socket, nor has it such a port in its payload: the socket's    *)
(* callback would take the datagram for a frame.                           *)
ASSUME TrafficAssumption ==
  /\ \A d \in Traffic : d.size <= MaxUdp /\ (d.proto = "tcp" => Fits(d))
  /\ PayloadPort \subseteq Port /\ PayloadPort # {}
  /\ \A h \in VpnHost :
        Config[h].ClientPort \notin PayloadPort \cup {d.port : d \in Traffic}

-----------------------------------------------------------------------------
(* The network layer of a node *)

TapUp(h) == h \in VpnHost /\ m_clientInterface[h] = "up"

Owns(h, a) == a \in Phys[h] \/ (TapUp(h) /\ a = m_clientVPNAddress(h))

(* A packet for one of the node's own addresses never leaves it; the tap's *)
(* network route beats the routes computed before the tap existed.         *)
Route(h, a) ==
  CASE Owns(h, a) -> "local"
    [] ~ Owns(h, a) /\ TapUp(h) /\ Covers(h, a) -> "tap"
    [] OTHER -> "net"

\* Somebody answers to the address on the ordinary network.
Reachable(a) == \E g \in Host : a \in Phys[g]

(* Definitions marked "slip" are not part of the model: each is what a     *)
(* plausible mistake in the code would make of the definition after it.    *)

(* A frame for a server in the node's own tap network comes back to the    *)
(* tap, which wraps it again and again: the call does not end.             *)
Circular(h) == Route(h, m_serverAddress[h]) = "tap"

\* Otherwise m_clientSocket->SendTo returns an error and sends nothing.
SendToSucceeds(h) ==
  m_clientSocket[h] = "open" /\ Reachable(m_serverAddress[h])

Wrap(h, p) ==
  [from |-> h, to |-> m_serverAddress[h], port |-> m_serverPort[h],
   hdr |-> EncryptInput(plainText, m_cipherKey[h]), inner |-> p]

\* slip: AddHeader and the new IP header are forgotten.
SendPacketBare(h, p, others) ==
  tunnel' = others \cup {q \in {p} : SendToSucceeds(h)}

(* The IP layer cuts the packet for the tap and calls the tap's send       *)
(* callback, SendPacket, for each piece at once.  It reports success       *)
(* whatever SendTo returned.  others: the frames that stay under way.      *)
SendPacket(h, p, others) ==
  /\ ~ Circular(h)
  /\ tunnel' = others \cup {Wrap(h, q) : q \in {r \in Pieces(p) : SendToSucceeds(h)}}

(* Node h sends packet p: it is delivered on the spot, given to the tap,   *)
(* or put on the wire, unless nobody answers to its destination.           *)
IpSend(h, p, others) ==
  \/ /\ Route(h, p.dst) = "local"
     /\ rcvd' = rcvd \cup {[host |-> h, pkt |-> p]}
     /\ tunnel' = others
     /\ UNCHANGED plain
  \/ /\ Route(h, p.dst) = "tap"
     /\ SendPacket(h, p, others)
     /\ UNCHANGED <<plain, rcvd>>
  \/ /\ Route(h, p.dst) = "net"
     /\ plain' = plain \cup {q \in {p} : Reachable(p.dst)}
     /\ tunnel' = others
     /\ UNCHANGED rcvd

-----------------------------------------------------------------------------
(* The VPN application *)

Init ==
  /\ m_clientInterface = [h \in VpnHost |-> "none"]
  /\ m_clientSocket = [h \in VpnHost |-> "none"]
  /\ m_serverAddress = [h \in VpnHost |-> Config[h].ServerAddress]
  /\ m_serverPort = [h \in VpnHost |-> Config[h].ServerPort]
  /\ m_cipherKey = [h \in VpnHost |-> Config[h].CipherKey]
  /\ tunnel = {}
  /\ plain = {}
  /\ waiting = {}
  /\ sent = {}
  /\ rcvd = {}

StartApplication(h) ==
  /\ m_clientInterface[h] = "none"
  /\ m_clientSocket' = [m_clientSocket EXCEPT ![h] = "open"]
  /\ m_clientInterface' = [m_clientInterface EXCEPT ![h] = "up"]
  /\ UNCHANGED <<peerVars, packetVars>>

\* slip: the socket is left open.
StopApplicationHalf(h) ==
  /\ m_clientInterface[h] = "up"
  /\ m_clientInterface' = [m_clientInterface EXCEPT ![h] = "down"]
  /\ UNCHANGED <<m_clientSocket, peerVars, packetVars>>

\* The simulator schedules a stop after the start, and only once.
StopApplication(h) ==
  /\ m_clientInterface[h] = "up"
  /\ m_clientInterface' = [m_clientInterface EXCEPT ![h] = "down"]
  /\ m_clientSocket' = [m_clientSocket EXCEPT ![h] = "closed"]
  /\ UNCHANGED <<peerVars, packetVars>>

(* The setters take effect for the next frame; SetServer has two forms,    *)
(* one of which leaves the port alone.                                     *)
SetServer(h, addr, port) ==
  /\ m_serverAddress' = [m_serverAddress EXCEPT ![h] = addr]
  /\ m_serverPort' = [m_serverPort EXCEPT ![h] = port]
  /\ UNCHANGED <<lifeVars, m_cipherKey, packetVars>>

SetServerAddress(h, addr) ==
  /\ m_serverAddress' = [m_serverAddress EXCEPT ![h] = addr]
  /\ UNCHANGED <<lifeVars, m_serverPort, m_cipherKey, packetVars>>

SetCipherKey(h, key) ==
  /\ m_cipherKey' = [m_cipherKey EXCEPT ![h] = key]
  /\ UNCHANGED <<lifeVars, m_serverAddress, m_serverPort, packetVars>>

\* slip: the UDP header is not removed.
ForwardedWithHeader(h, p, q) ==
  [p EXCEPT !.from = h, !.proto = "udp", !.frag = FALSE, !.size = Load(p)]

\* slip: the inner packet is sent on with the IP header it has.
ForwardedAsIs(h, p, q) == p

\* slip: the payload goes to the VPN port instead of the application's.
ForwardedToVpnPort(h, p, q) == [p EXCEPT !.from = h, !.frag = FALSE, !.port = m_serverPort[h]]

(* What ReceivePacket sends on: what follows an IP header and the length   *)
(* of a UDP header, in a new UDP datagram of its own.  Of a TCP header, 8  *)
(* bytes go.  In a later piece these 8 bytes are payload, and the port is  *)
(* what they hold where a UDP header has it (q).                           *)
Forwarded(h, p, q) ==
  [p EXCEPT !.from = h, !.proto = "udp", !.frag = FALSE,
            !.port = IF p.frag /\ p.piece > 1 THEN q ELSE @,
            !.size = Load(p) - UdpHeaderSize,
            !.data = IF p.proto = "udp" THEN @ ELSE "tcp_tail"]

\* slip: the socket is bound to the port that frames are sent to.
ListensAtServerPort(h, f) ==
  f.to \in Phys[h] /\ f.port = m_serverPort[h] /\ m_clientSocket[h] = "open"

Listens(h, f) ==
  f.to \in Phys[h] /\ f.port = Config[h].ClientPort /\ m_clientSocket[h] = "open"

\* slip: the deciphered text is not compared.
AddressedToAnyKey(h, f) == m_clientVPNAddress(h) = f.inner.dst

AddressedTo(h, f) ==
  /\ m_clientVPNAddress(h) = f.inner.dst
  /\ f.hdr.m_sentOrigin = DecryptInput(f.hdr, m_cipherKey[h])

(* m_clientTap->Receive gives the packet to the node's IP layer, where a   *)
(* fragment waits until the rest of its datagram is there.                 *)
TapReceives(h, p) ==
  LET others == {[host |-> h, pkt |-> q] : q \in Fragments(p) \ {p}}
  IN  \/ /\ ~ p.frag
         /\ rcvd' = rcvd \cup {[host |-> h, pkt |-> p]}
         /\ UNCHANGED waiting
      \/ /\ p.frag /\ ~ (others \subseteq waiting)
         /\ waiting' = waiting \cup {[host |-> h, pkt |-> p]}
         /\ UNCHANGED rcvd
      \/ /\ p.frag /\ others \subseteq waiting
         /\ waiting' = waiting \ others
         /\ rcvd' = rcvd \cup {[host |-> h, pkt |-> Whole(p)]}

\* RemoveHeader would run off a piece that is shorter than a UDP header.
HasHeaders(p) == IpLoad(p) >= UdpHeaderSize

\* slip: the else is missing.
ReceivePacketBoth(h, f) ==
  /\ Listens(h, f) /\ HasHeaders(f.inner)
  /\ \/ /\ AddressedTo(h, f)
        /\ TapReceives(h, f.inner)
        /\ plain' = plain \cup {Forwarded(h, f.inner, q) : q \in PayloadPort}
        /\ tunnel' = tunnel \ {f}
     \/ /\ ~ AddressedTo(h, f)
        /\ \E q \in PayloadPort : IpSend(h, Forwarded(h, f.inner, q), tunnel \ {f})
        /\ UNCHANGED waiting
  /\ UNCHANGED <<appVars, sent>>

\* slip: the frame is looked at and left in the socket.
ReceivePacketPeek(h, f) ==
  /\ Listens(h, f) /\ HasHeaders(f.inner)
  /\ \/ /\ AddressedTo(h, f)
        /\ TapReceives(h, f.inner)
        /\ UNCHANGED <<plain, tunnel>>
     \/ /\ ~ AddressedTo(h, f)
        /\ \E q \in PayloadPort : IpSend(h, Forwarded(h, f.inner, q), tunnel)
        /\ UNCHANGED waiting
  /\ UNCHANGED <<appVars, sent>>

ReceivePacket(h, f) ==
  /\ Listens(h, f) /\ HasHeaders(f.inner)
  /\ \/ /\ AddressedTo(h, f)
        /\ TapReceives(h, f.inner)
        /\ tunnel' = tunnel \ {f}
        /\ UNCHANGED plain
     \/ /\ ~ AddressedTo(h, f)
        /\ \E q \in PayloadPort : IpSend(h, Forwarded(h, f.inner, q), tunnel \ {f})
        /\ UNCHANGED waiting
  /\ UNCHANGED <<appVars, sent>>

-----------------------------------------------------------------------------
(* The applications and the links *)

\* An application sends d, the datagram with identity i.
AppSend(i, d) ==
  /\ \A s \in sent : s.pkt.id # i
  /\ LET p == [id |-> i, from |-> d.from, dst |-> d.dst, port |-> d.port,
               proto |-> d.proto, size |-> d.size, data |-> "body",
               piece |-> 0, frag |-> FALSE]
     IN  /\ sent' = sent \cup {[pkt |-> p, route |-> Route(d.from, d.dst)]}
         /\ IpSend(d.from, p, tunnel)
  /\ UNCHANGED <<appVars, waiting>>

\* A frame reaches a node where no VPN socket is open at its port.
DropUnheard(f) ==
  /\ \A h \in VpnHost : ~ Listens(h, f)
  /\ tunnel' = tunnel \ {f}
  /\ UNCHANGED <<appVars, plain, waiting, sent, rcvd>>

\* A datagram outside the tunnel reaches the node it is addressed to.
Deliver(h, p) ==
  /\ p.dst \in Phys[h]
  /\ plain' = plain \ {p}
  /\ rcvd' = rcvd \cup {[host |-> h, pkt |-> p]}
  /\ UNCHANGED <<appVars, tunnel, waiting, sent>>

LoseFrame(f) ==
  /\ Lossy
  /\ tunnel' = tunnel \ {f}
  /\ UNCHANGED <<appVars, plain, waiting, sent, rcvd>>

LosePlain(p) ==
  /\ Lossy
  /\ plain' = plain \ {p}
  /\ UNCHANGED <<appVars, tunnel, waiting, sent, rcvd>>

Arrive(i) ==
  \/ \E f \in tunnel : f.inner.id = i /\ \E h \in VpnHost : ReceivePacket(h, f)
  \/ \E f \in tunnel : f.inner.id = i /\ DropUnheard(f)
  \/ \E p \in plain : p.id = i /\ \E h \in Host : Deliver(h, p)

Next ==
  \/ \E h \in VpnHost : StartApplication(h)
  \/ \E h \in VpnHost : StopApplication(h)
  \/ \E h \in VpnHost : \E s \in Retargets[h] : SetServer(h, s[1], s[2])
  \/ \E h \in VpnHost : \E s \in Retargets[h] : SetServerAddress(h, s[1])
  \/ \E h \in VpnHost : \E k \in Rekeys[h] : SetCipherKey(h, k)
  \/ \E i \in Id, d \in Traffic : AppSend(i, d)
  \/ \E f \in tunnel : \E h \in VpnHost : ReceivePacket(h, f)
  \/ \E f \in tunnel : DropUnheard(f)
  \/ \E p \in plain : \E h \in Host : Deliver(h, p)
  \/ \E f \in tunnel : LoseFrame(f)
  \/ \E p \in plain : LosePlain(p)

Spec == Init /\ [][Next]_vars

\* Every packet under way arrives: each hop is an event the simulator runs.
FairSpec == Spec /\ \A i \in Id : WF_vars(Arrive(i))

-----------------------------------------------------------------------------
(* Properties *)

\* The state is made of what its variables are meant to hold.
TypeOK ==
  /\ m_clientInterface \in [VpnHost -> {"none", "up", "down"}]
  /\ m_clientSocket \in [VpnHost -> {"none", "open", "closed"}]
  /\ m_serverAddress \in [VpnHost -> Nat]
  /\ m_serverPort \in [VpnHost -> Port]
  /\ m_cipherKey \in [VpnHost -> Key]
  /\ tunnel \subseteq Frame
  /\ plain \subseteq Packet
  /\ waiting \subseteq [host : Host, pkt : Packet]
  /\ sent \subseteq [pkt : Packet, route : {"local", "tap", "net"}]
  /\ rcvd \subseteq [host : Host, pkt : Packet]

\* Every copy of a datagram or of a piece of one, and where it is.
Copies ==
  {<<"tunnel", f, f.inner>> : f \in tunnel} \cup {<<"plain", p, p>> : p \in plain}
  \cup {<<"waiting", w, w.pkt>> : w \in waiting} \cup {<<"rcvd", r, r.pkt>> : r \in rcvd}

Overlap(p, q) == p.id = q.id /\ (p.piece = q.piece \/ 0 \in {p.piece, q.piece})

(* Cutting, receiving, forwarding and tunnelling again never make two of   *)
(* anything: of each datagram there is at most one copy, in a frame, on    *)
(* the wire, waiting or handed over, or at most one copy of each piece,    *)
(* however many nodes it passed.  (ReceivePacket either gives the packet   *)
(* to the tap or sends its payload on, and SendPacket takes the packet     *)
(* away from the ordinary network.)                                        *)
OneCopy == \A c, d \in Copies : Overlap(c[3], d[3]) => c = d

Matches(p, orig) ==
  /\ p.id = orig.id /\ p.dst = orig.dst /\ Load(p) = Load(orig)
  /\ p.piece # 0 => ~ Fits(orig) /\ p.piece <= PieceCount(orig)
  /\ p.frag \/ p.piece <= 1 => p.port = orig.port
  /\ orig.proto = "udp" =>
       p.proto = "udp" /\ p.data = "body" /\ p.size = orig.size
  /\ orig.proto = "tcp" => p.proto = "tcp" \/ p.data = "tcp_tail"

(* What a node's transport protocols are handed was sent, to that node, by *)
(* an application.  If it was sent in a UDP datagram it is all of it and   *)
(* nothing more, at its port; or the datagram was too large for the tap    *)
(* that took it, and it is one piece, the first at its port: ReceivePacket *)
(* forwards to the address and port it reads from the inner headers and    *)
(* strips exactly those.  A TCP segment it makes a UDP datagram that still *)
(* begins with a piece of the TCP header.                                  *)
Faithful ==
  \A r \in rcvd :
     /\ \E s \in sent : Matches(r.pkt, s.pkt) /\ (r.pkt.piece # 0 => s.route = "tap")
     /\ ~ r.pkt.frag
     /\ \/ r.pkt.dst \in Phys[r.host]
        \/ r.host \in VpnHost /\ r.pkt.dst = m_clientVPNAddress(r.host)

\* A frame that h can open now holds p, or one of the pieces p is made of.
Opened(h, p) ==
  \E f \in tunnel : /\ p \in {f.inner, Whole(f.inner)}
                   /\ f.hdr = EncryptInput(plainText, m_cipherKey[h])

TapDelivery ==
  /\ \A r \in rcvd' \ rcvd :
       r.host \in VpnHost /\ r.pkt.dst = m_clientVPNAddress(r.host)
          /\ r.pkt.from # r.host
       => Opened(r.host, r.pkt)
  /\ \A w \in waiting' \ waiting : Opened(w.host, w.pkt)

(* Whatever arrives at a VPN address with another node as its source, the  *)
(* whole or a piece, came in a frame that was wrapped with the key its     *)
(* receiver has at that moment, however keys and servers changed while the *)
(* frame was under way.                                                    *)
TapNeedsKey == [][TapDelivery]_vars

(* A datagram that its sender's tap took is never seen outside the tunnel  *)
(* under its sender's name, not even when the frames come back to the      *)
(* sender or the sender stops meanwhile: whoever receives it on an         *)
(* ordinary address sees the node that forwarded it.                       *)
SenderHidden ==
  \A s \in sent : s.route = "tap" =>
     /\ \A p \in plain : p.id = s.pkt.id => p.from # s.pkt.from
     /\ \A r \in rcvd : r.pkt.id = s.pkt.id /\ r.pkt.from = s.pkt.from =>
           r.host \in VpnHost /\ r.pkt.dst = m_clientVPNAddress(r.host)

QuietWhenDown ==
  \A h \in VpnHost : m_clientInterface[h] # "up" =>
     /\ \A f \in tunnel' \ tunnel : f.from # h
     /\ \A w \in waiting' \ waiting : w.host # h
     /\ \A p \in plain' \ plain : p.from = h => \A s \in sent : s.pkt.id # p.id
     /\ \A r \in rcvd' \ rcvd : r.host = h => r.pkt.dst \in Phys[h]

(* Before its start and after its stop a VPN node sends no frame, forwards *)
(* nothing, and hands over nothing but what reaches an ordinary address,   *)
(* whatever was on its way when StopApplication ran.                       *)
StoppedIsQuiet == [][QuietWhenDown]_vars

UnderWay(i) ==
  (\E f \in tunnel : f.inner.id = i) \/ (\E p \in plain : p.id = i)

AllUp == \A h \in VpnHost : m_clientInterface[h] = "up"

(* No datagram travels for ever: where no two VPN nodes are each other's   *)
(* server, each one is handed over or dropped in the end.                  *)
Settles == \A i \in Id : UnderWay(i) ~> ~ UnderWay(i)

TakenFor(i, g) ==
  \E s \in sent : s.pkt.id = i /\ s.route = "tap" /\ s.pkt.dst \in Phys[g]

(* A datagram the tap took reaches the node that has its destination as an *)
(* ordinary address, at its port and through as many servers as it takes,  *)
(* if from then on every VPN node is up: all of it if it fits the tap, its *)
(* first piece if not.                                                     *)
TunnelDelivers ==
  \A i \in Id, g \in Host :
     [](TakenFor(i, g) => AllUp) /\ <>TakenFor(i, g)
     => <>(\E r \in rcvd, s \in sent :
             /\ r.host = g /\ r.pkt.id = i /\ s.pkt.id = i /\ r.pkt.port = s.pkt.port
             /\ r.pkt.piece = (IF Fits(s.pkt) THEN 0 ELSE 1))

(* README, "Server" and "IP forwarding": a received packet is sent on only *)
(* if it is for another address than the tap's.  Then nothing another node *)
(* sent arrives at a VPN address with that very node as its source.        *)
OnlyOthersForwarded ==
  \A r \in rcvd :
     r.host \in VpnHost /\ r.pkt.dst = m_clientVPNAddress(r.host)
        /\ r.pkt.from = r.host
     => \E s \in sent : s.pkt.id = r.pkt.id /\ s.pkt.from = r.host

-----------------------------------------------------------------------------
(* The service the tunnel implements *)

\* The port of a later piece is an accident.
MessageOf(p) ==
  [id |-> p.id, dst |-> p.dst, port |-> IF p.piece <= 1 THEN p.port ELSE 0,
   pieces |-> PieceCount(p), piece |-> p.piece]

EndpointOf(h, a) ==
  a \in Phys[h] \/ (h \in VpnHost /\ a = m_clientVPNAddress(h))

Messages ==
  {[id |-> i, dst |-> d.dst, port |-> d.port, pieces |-> PieceCount(d), piece |-> 0] :
     i \in Id, d \in Traffic}

Submitted == {MessageOf(s.pkt) : s \in sent}
Transit == {MessageOf(f.inner) : f \in tunnel} \cup {MessageOf(p) : p \in plain}
           \cup {MessageOf(w.pkt) : w \in waiting}
Delivered == {[host |-> r.host, msg |-> MessageOf(r.pkt)] : r \in rcvd}

Service == INSTANCE DatagramService
  WITH Message <- Messages, Endpoint <- EndpointOf,
       submitted <- Submitted, transit <- Transit, delivered <- Delivered

(* The tunnel, with its servers, keys, forwarding, starts and stops, is an *)
(* unreliable datagram service that neither duplicates nor misdelivers,    *)
(* but may hand over a message in pieces: taking a packet into a frame,    *)
(* sending it on and wrapping it again are steps its users cannot see.     *)
ImplementsService == Service!ServiceSpec
=============================================================================
