------------------------ MODULE VPNApplicationProofs ------------------------
(***************************************************************************)
(* Theorems about VPNApplication, for every topology, every traffic and    *)
(* every cipher that meet the assumptions.                                 *)
(***************************************************************************)
EXTENDS VPNApplication, Integers, TLAPS

-----------------------------------------------------------------------------
(* Sizes and pieces *)

LEMMA Sizes ==
  ASSUME NEW p \in Packet
  PROVE  /\ Load(p) \in Nat /\ Load(p) >= UdpHeaderSize
         /\ Room \in Nat /\ Room > TcpHeaderSize
         /\ PieceCount(p) \in Int
  <1>1. Load(p) \in Nat /\ Load(p) >= UdpHeaderSize
    BY DEF Load, TransportHeaderSize, Packet, UdpHeaderSize, TcpHeaderSize
  <1>2. Room \in Nat /\ Room > TcpHeaderSize
    BY MtuAssumption DEF Room, IpHeaderSize, TcpHeaderSize
  <1> QED
    BY <1>1, <1>2 DEF PieceCount, UdpHeaderSize, TcpHeaderSize

\* No piece is larger than the room a tap has.
LEMMA PieceFits ==
  ASSUME NEW p \in Packet, NEW k \in Nat
  PROVE  PieceLoad(p, k) <= Room
  <1> DEFINE L == Load(p)
             R == Room
  <1>1. L \in Nat /\ R \in Nat
    BY Sizes
  <1>2. k * R = (k - 1) * R + R /\ k * R \in Int /\ (k - 1) * R \in Int
    <2> HIDE DEF R
    <2> QED
      BY <1>1
  <1> HIDE DEF L, R
  <1>3. ~ (k * R <= L) => L - (k - 1) * R <= R
    BY <1>1, <1>2
  <1> QED
    BY <1>1, <1>3 DEF PieceLoad, L, R

\* What does not fit has more than one piece.
LEMMA SeveralPieces ==
  ASSUME NEW p \in Packet, ~ Fits(p)
  PROVE  PieceCount(p) > 1
  <1> DEFINE a == Load(p) + Room - 1
             d == a \div Room
  <1>1. Room \in Nat /\ Room > 0 /\ a \in Nat /\ a >= 2 * Room
    BY Sizes DEF Fits, TcpHeaderSize
  <1>2. /\ d \in Int /\ a = Room * d + (a % Room)
        /\ a % Room \in Int /\ a % Room < Room
    <2> HIDE DEF a
    <2> QED
      BY <1>1
  <1> HIDE DEF a, d
  <1>3. SUFFICES ASSUME d <= 1
                 PROVE  FALSE
    BY <1>2 DEF PieceCount, a, d
  <1>4. Room * d <= Room
    BY <1>1, <1>2, <1>3
  <1> QED
    BY <1>1, <1>2, <1>4

\* A piece of p is p in all but its number.
LEMMA FragmentFields ==
  ASSUME NEW p \in Packet, NEW k \in Nat
  PROVE  /\ Fragment(p, k) \in Packet
         /\ Fragment(p, k).piece = k /\ Fragment(p, k).frag
         /\ Fragment(p, k).id = p.id /\ Fragment(p, k).from = p.from
         /\ Fragment(p, k).dst = p.dst /\ Fragment(p, k).port = p.port
         /\ Fragment(p, k).proto = p.proto /\ Fragment(p, k).size = p.size
         /\ Fragment(p, k).data = p.data
         /\ Load(Fragment(p, k)) = Load(p)
         /\ PieceCount(Fragment(p, k)) = PieceCount(p)
  BY DEF Fragment, Packet, Load, TransportHeaderSize, PieceCount

LEMMA WholeFields ==
  ASSUME NEW p \in Packet
  PROVE  /\ Whole(p) \in Packet
         /\ Whole(p).piece = 0 /\ ~ Whole(p).frag
         /\ Whole(p).id = p.id /\ Whole(p).from = p.from
         /\ Whole(p).dst = p.dst /\ Whole(p).port = p.port
         /\ Whole(p).proto = p.proto /\ Whole(p).size = p.size
         /\ Whole(p).data = p.data
         /\ Load(Whole(p)) = Load(p)
         /\ PieceCount(Whole(p)) = PieceCount(p)
  BY DEF Whole, Packet, Load, TransportHeaderSize, PieceCount

(* The tap is given the packet itself, or the pieces of a datagram that is *)
(* too large for it.                                                       *)
LEMMA PiecesFields ==
  ASSUME NEW p \in Packet, NEW q \in Pieces(p)
  PROVE  /\ q \in Packet
         /\ q.id = p.id /\ q.from = p.from /\ q.dst = p.dst
         /\ IpLoad(q) <= Room
         /\ \/ q = p /\ Pieces(p) = {p}
            \/ /\ p.piece = 0 /\ ~ Fits(p)
               /\ q.piece \in 1 .. PieceCount(p) /\ q = Fragment(p, q.piece)
  <1>1. CASE IpLoad(p) <= Room
    BY <1>1 DEF Pieces
  <1>2. CASE ~ (IpLoad(p) <= Room)
    <2>1. PICK k \in 1 .. PieceCount(p) : q = Fragment(p, k)
      BY <1>2 DEF Pieces, Fragments
    <2>2. k \in Nat /\ k # 0
      BY Sizes
    <2>3. p.piece = 0 /\ ~ Fits(p)
      BY <1>2, PieceFits DEF IpLoad, Fits, Packet
    <2>4. /\ q \in Packet /\ q.piece = k
          /\ q.id = p.id /\ q.from = p.from /\ q.dst = p.dst
      BY <2>1, <2>2, FragmentFields
    <2>5. IpLoad(q) <= Room
      BY <2>2, <2>4, PieceFits DEF IpLoad
    <2> QED
      BY <2>1, <2>3, <2>4, <2>5
  <1> QED
    BY <1>1, <1>2

-----------------------------------------------------------------------------
(* The operators the actions are built from *)

\* The first hop of a packet is one of the three, and only a VPN node taps.
LEMMA RouteCases ==
  ASSUME NEW h, NEW a
  PROVE  /\ Route(h, a) \in {"local", "tap", "net"}
         /\ Route(h, a) = "local" <=> Owns(h, a)
         /\ Route(h, a) = "tap" <=> ~ Owns(h, a) /\ TapUp(h) /\ Covers(h, a)
  BY DEF Route

\* A VPN node wraps a packet into a frame with its own key and its own name.
LEMMA WrapTyped ==
  ASSUME TypeOK, NEW h \in VpnHost, NEW p \in Packet
  PROVE  Wrap(h, p) \in Frame
  <1>1. EncryptInput(plainText, m_cipherKey[h]) \in Header
    BY CipherAssumption DEF EncryptInput, Header, TypeOK
  <1> QED
    BY <1>1 DEF Wrap, Frame, TypeOK

LEMMA WrapFields ==
  ASSUME NEW h, NEW p
  PROVE  /\ Wrap(h, p).inner = p
         /\ Wrap(h, p).from = h
         /\ Wrap(h, p).hdr = EncryptInput(plainText, m_cipherKey[h])
  BY DEF Wrap

(* Forwarding keeps identity, destination, length and piece, changes the   *)
(* source, and keeps the port of all but the later pieces.                 *)
LEMMA ForwardedTyped ==
  ASSUME NEW h \in VpnHost, NEW p \in Packet, NEW q \in PayloadPort
  PROVE  /\ Forwarded(h, p, q) \in Packet
         /\ Forwarded(h, p, q).id = p.id
         /\ Forwarded(h, p, q).dst = p.dst
         /\ Forwarded(h, p, q).from = h
         /\ Forwarded(h, p, q).piece = p.piece
         /\ ~ Forwarded(h, p, q).frag
         /\ ~ p.frag \/ p.piece <= 1 => Forwarded(h, p, q).port = p.port
         /\ p.proto = "udp" => /\ Forwarded(h, p, q).proto = "udp"
                               /\ Forwarded(h, p, q).data = p.data
                               /\ Forwarded(h, p, q).size = p.size
         /\ p.proto = "tcp" => Forwarded(h, p, q).data = "tcp_tail"
         /\ Load(Forwarded(h, p, q)) = Load(p)
         /\ IpLoad(Forwarded(h, p, q)) = IpLoad(p)
         /\ PieceCount(Forwarded(h, p, q)) = PieceCount(p)
  <1> DEFINE n == Load(p) - UdpHeaderSize
             port == IF p.frag /\ p.piece > 1 THEN q ELSE p.port
             data == IF p.proto = "udp" THEN p.data ELSE "tcp_tail"
             r == [p EXCEPT !.from = h, !.proto = "udp", !.frag = FALSE,
                            !.port = port, !.size = n, !.data = data]
  <1>1. h \in Host /\ q \in Port
    BY TopologyAssumption, TrafficAssumption
  <1>2. n \in Nat /\ n + UdpHeaderSize = Load(p)
    BY Sizes DEF UdpHeaderSize
  <1>3. Forwarded(h, p, q) = r
    BY DEF Forwarded
  <1>4. /\ port \in Port /\ data \in {"body", "tcp_tail"}
        /\ ~ p.frag \/ p.piece <= 1 => port = p.port
        /\ p.proto = "udp" => data = p.data
        /\ p.proto = "tcp" => data = "tcp_tail"
    BY <1>1 DEF Packet
  <1>5. p.proto = "udp" => n = p.size
    BY DEF Packet, Load, TransportHeaderSize, UdpHeaderSize
  <1> HIDE DEF n, port, data
  <1>6. /\ r \in Packet
        /\ r.id = p.id /\ r.dst = p.dst /\ r.from = h /\ r.piece = p.piece
        /\ ~ r.frag /\ r.port = port /\ r.proto = "udp" /\ r.data = data
        /\ r.size = n
    BY <1>1, <1>2, <1>4 DEF Packet
  <1> HIDE DEF r
  <1>7. Load(r) = Load(p)
    BY <1>2, <1>6, Sizes DEF Load, TransportHeaderSize, UdpHeaderSize
  <1>8. IpLoad(r) = IpLoad(p) /\ PieceCount(r) = PieceCount(p)
    BY <1>6, <1>7 DEF IpLoad, PieceLoad, PieceCount
  <1> QED
    BY <1>3, <1>4, <1>5, <1>6, <1>7, <1>8

(* What IpSend can come to: the packet is handed over on the spot, wrapped *)
(* by the tap, cut up if need be, put on the wire, or dropped.             *)
LEMMA IpSendCases ==
  ASSUME NEW h \in Host, NEW p, NEW others, IpSend(h, p, others)
  PROVE  \/ /\ Owns(h, p.dst)
            /\ rcvd' = rcvd \cup {[host |-> h, pkt |-> p]}
            /\ tunnel' = others /\ plain' = plain
         \/ /\ Route(h, p.dst) = "tap" /\ TapUp(h)
            /\ tunnel' = others \cup {Wrap(h, q) : q \in Pieces(p)}
            /\ plain' = plain /\ rcvd' = rcvd
         \/ /\ ~ (TapUp(h) /\ Covers(h, p.dst)) /\ Reachable(p.dst)
            /\ plain' = plain \cup {p}
            /\ tunnel' = others /\ rcvd' = rcvd
         \/ tunnel' = others /\ plain' = plain /\ rcvd' = rcvd
  <1>1. CASE Route(h, p.dst) = "local"
    BY <1>1, RouteCases DEF IpSend
  <1>2. CASE Route(h, p.dst) = "tap"
    <2>1. /\ TapUp(h) /\ plain' = plain /\ rcvd' = rcvd
          /\ tunnel' = others \cup {Wrap(h, q) : q \in {r \in Pieces(p) : SendToSucceeds(h)}}
      BY <1>2, RouteCases DEF IpSend, SendPacket
    <2>2. CASE SendToSucceeds(h)
      <3>1. {r \in Pieces(p) : SendToSucceeds(h)} = Pieces(p)
        BY <2>2
      <3> QED
        BY <1>2, <2>1, <3>1
    <2>3. CASE ~ SendToSucceeds(h)
      BY <2>1, <2>3
    <2> QED
      BY <2>2, <2>3
  <1>3. CASE Route(h, p.dst) = "net"
    <2>1. /\ ~ (TapUp(h) /\ Covers(h, p.dst))
          /\ plain' = plain \cup {q \in {p} : Reachable(p.dst)}
          /\ tunnel' = others /\ rcvd' = rcvd
      BY <1>3, RouteCases DEF IpSend
    <2>2. CASE Reachable(p.dst)
      BY <2>1, <2>2
    <2>3. CASE ~ Reachable(p.dst)
      BY <2>1, <2>3
    <2> QED
      BY <2>2, <2>3
  <1> QED
    BY <1>1, <1>2, <1>3, RouteCases

(* What the tap hands to its node: a datagram, a piece that has to wait,   *)
(* or the datagram that is whole with it.                                  *)
WaitingAt(h, p) == [host |-> h, pkt |-> p]
OtherPieces(h, p) == {WaitingAt(h, q) : q \in Fragments(p) \ {p}}

LEMMA TapReceivesCases ==
  ASSUME NEW h, NEW p, TapReceives(h, p)
  PROVE  \/ /\ ~ p.frag
            /\ rcvd' = rcvd \cup {[host |-> h, pkt |-> p]} /\ waiting' = waiting
         \/ /\ p.frag
            /\ waiting' = waiting \cup {WaitingAt(h, p)} /\ rcvd' = rcvd
         \/ /\ p.frag /\ OtherPieces(h, p) \subseteq waiting
            /\ waiting' = waiting \ OtherPieces(h, p)
            /\ rcvd' = rcvd \cup {[host |-> h, pkt |-> Whole(p)]}
  BY DEF TapReceives, WaitingAt, OtherPieces

-----------------------------------------------------------------------------
(* Type correctness *)

\* IpSend puts well-formed packets where they belong.
LEMMA IpSendTyped ==
  ASSUME TypeOK, NEW h \in Host, NEW p \in Packet, NEW others,
         others \subseteq Frame, IpSend(h, p, others)
  PROVE  /\ tunnel' \subseteq Frame
         /\ plain' \subseteq Packet
         /\ rcvd' \subseteq [host : Host, pkt : Packet]
  <1>1. TapUp(h) => \A q \in Pieces(p) : Wrap(h, q) \in Frame
    BY WrapTyped, PiecesFields DEF TapUp
  <1>2. [host |-> h, pkt |-> p] \in [host : Host, pkt : Packet]
    OBVIOUS
  <1> QED
    BY <1>1, <1>2, IpSendCases DEF TypeOK

LEMMA TapReceivesTyped ==
  ASSUME TypeOK, NEW h \in Host, NEW p \in Packet, TapReceives(h, p)
  PROVE  /\ waiting' \subseteq [host : Host, pkt : Packet]
         /\ rcvd' \subseteq [host : Host, pkt : Packet]
  <1>1. /\ [host |-> h, pkt |-> p] \in [host : Host, pkt : Packet]
        /\ [host |-> h, pkt |-> Whole(p)] \in [host : Host, pkt : Packet]
        /\ WaitingAt(h, p) \in [host : Host, pkt : Packet]
    BY WholeFields DEF WaitingAt
  <1> QED
    BY <1>1, TapReceivesCases DEF TypeOK

(* What AppSend makes of an application's datagram is a packet that the    *)
(* application's node sends.                                               *)
AppPacket(i, d) ==
  [id |-> i, from |-> d.from, dst |-> d.dst, port |-> d.port,
   proto |-> d.proto, size |-> d.size, data |-> "body", piece |-> 0, frag |-> FALSE]

LEMMA AppPacketTyped ==
  ASSUME NEW i \in Id, NEW d \in Traffic
  PROVE  /\ d.from \in Host
         /\ AppPacket(i, d) \in Packet
         /\ AppPacket(i, d).id = i
         /\ AppPacket(i, d).from = d.from
         /\ AppPacket(i, d).dst = d.dst
         /\ AppPacket(i, d).port = d.port
         /\ AppPacket(i, d).data = "body"
         /\ AppPacket(i, d).piece = 0 /\ ~ AppPacket(i, d).frag
         /\ PieceCount(AppPacket(i, d)) = PieceCount(d)
  <1>1. d \in Datagram
    BY TopologyAssumption
  <1>2. /\ AppPacket(i, d).proto = d.proto /\ AppPacket(i, d).size = d.size
    BY DEF AppPacket
  <1>3. PieceCount(AppPacket(i, d)) = PieceCount(d)
    BY <1>2 DEF PieceCount, Load, TransportHeaderSize
  <1> QED
    BY <1>1, <1>3 DEF AppPacket, Packet, Datagram

(* The steps by which a packet comes in or goes on are IpSend steps or a   *)
(* delivery through the tap.                                               *)
LEMMA AppSendStep ==
  ASSUME NEW i \in Id, NEW d \in Traffic, AppSend(i, d)
  PROVE  /\ \A s \in sent : s.pkt.id # i
         /\ sent' = sent \cup {[pkt |-> AppPacket(i, d), route |-> Route(d.from, d.dst)]}
         /\ IpSend(d.from, AppPacket(i, d), tunnel)
         /\ UNCHANGED appVars /\ UNCHANGED waiting
  BY DEF AppSend, AppPacket

LEMMA ReceiveStep ==
  ASSUME TypeOK, NEW f \in tunnel, NEW h \in VpnHost, ReceivePacket(h, f)
  PROVE  /\ h \in Host
         /\ f.inner \in Packet
         /\ Listens(h, f)
         /\ UNCHANGED appVars /\ UNCHANGED sent
         /\ \/ /\ AddressedTo(h, f)
               /\ TapReceives(h, f.inner)
               /\ tunnel' = tunnel \ {f}
               /\ plain' = plain
            \/ /\ ~ AddressedTo(h, f) /\ waiting' = waiting
               /\ \E q \in PayloadPort : IpSend(h, Forwarded(h, f.inner, q), tunnel \ {f})
  <1>1. h \in Host
    BY TopologyAssumption
  <1>2. f.inner \in Packet
    BY DEF TypeOK, Frame
  <1> QED
    BY <1>1, <1>2 DEF ReceivePacket

LEMMA TypeStep == TypeOK /\ [Next]_vars => TypeOK'
  <1> SUFFICES ASSUME TypeOK, [Next]_vars
               PROVE  TypeOK'
    OBVIOUS
  <1>1. ASSUME NEW h \in VpnHost, StartApplication(h)
        PROVE  TypeOK'
    BY <1>1 DEF StartApplication, peerVars, packetVars, TypeOK
  <1>2. ASSUME NEW h \in VpnHost, StopApplication(h)
        PROVE  TypeOK'
    BY <1>2 DEF StopApplication, peerVars, packetVars, TypeOK
  <1>a. ASSUME NEW h \in VpnHost, NEW t \in Retargets[h],
               SetServer(h, t[1], t[2]) \/ SetServerAddress(h, t[1])
        PROVE  TypeOK'
    <2>1. t[1] \in Nat /\ t[2] \in Port
      BY TopologyAssumption
    <2>2. m_serverAddress' \in [VpnHost -> Nat] /\ m_serverPort' \in [VpnHost -> Port]
      BY <1>a, <2>1 DEF SetServer, SetServerAddress, TypeOK
    <2> QED
      BY <1>a, <2>2 DEF SetServer, SetServerAddress, lifeVars, packetVars, TypeOK
  <1>b. ASSUME NEW h \in VpnHost, NEW k \in Rekeys[h], SetCipherKey(h, k)
        PROVE  TypeOK'
    <2>1. k \in Key
      BY TopologyAssumption
    <2> QED
      BY <1>b, <2>1 DEF SetCipherKey, lifeVars, packetVars, TypeOK
  <1>3. ASSUME NEW i \in Id, NEW d \in Traffic, AppSend(i, d)
        PROVE  TypeOK'
    <2>1. AppPacket(i, d) \in Packet /\ d.from \in Host
      BY AppPacketTyped
    <2>2. sent' \subseteq [pkt : Packet, route : {"local", "tap", "net"}]
      BY <1>3, <2>1, AppSendStep, RouteCases DEF TypeOK
    <2>3. /\ tunnel' \subseteq Frame
          /\ plain' \subseteq Packet
          /\ rcvd' \subseteq [host : Host, pkt : Packet]
      BY <1>3, <2>1, AppSendStep, IpSendTyped DEF TypeOK
    <2>4. UNCHANGED <<appVars, waiting>>
      BY <1>3, AppSendStep
    <2> QED
      BY <2>2, <2>3, <2>4 DEF TypeOK, appVars, lifeVars, peerVars
  <1>4. ASSUME NEW f \in tunnel, NEW h \in VpnHost, ReceivePacket(h, f)
        PROVE  TypeOK'
    <2>1. /\ h \in Host /\ f.inner \in Packet
          /\ UNCHANGED <<appVars, sent>>
      BY <1>4, ReceiveStep
    <2>2. CASE AddressedTo(h, f)
      <3>1. /\ TapReceives(h, f.inner)
            /\ tunnel' = tunnel \ {f} /\ plain' = plain
        BY <1>4, <2>2, ReceiveStep
      <3> QED
        BY <2>1, <3>1, TapReceivesTyped DEF TypeOK, appVars, lifeVars, peerVars
    <2>3. CASE ~ AddressedTo(h, f)
      <3>1. PICK q \in PayloadPort : IpSend(h, Forwarded(h, f.inner, q), tunnel \ {f})
        BY <1>4, <2>3, ReceiveStep
      <3>2. Forwarded(h, f.inner, q) \in Packet /\ waiting' = waiting
        BY <1>4, <2>1, <2>3, ForwardedTyped, ReceiveStep
      <3>3. tunnel \ {f} \subseteq Frame
        BY DEF TypeOK
      <3>4. /\ tunnel' \subseteq Frame
            /\ plain' \subseteq Packet
            /\ rcvd' \subseteq [host : Host, pkt : Packet]
        BY <2>1, <3>1, <3>2, <3>3, IpSendTyped
      <3> QED
        BY <2>1, <3>2, <3>4 DEF TypeOK, appVars, lifeVars, peerVars
    <2> QED
      BY <2>2, <2>3
  <1>5. ASSUME NEW f \in tunnel, DropUnheard(f) \/ LoseFrame(f)
        PROVE  TypeOK'
    BY <1>5 DEF DropUnheard, LoseFrame, TypeOK, appVars, lifeVars, peerVars
  <1>6. ASSUME NEW p \in plain, NEW h \in Host, Deliver(h, p)
        PROVE  TypeOK'
    BY <1>6 DEF Deliver, TypeOK, appVars, lifeVars, peerVars
  <1>7. ASSUME NEW p \in plain, LosePlain(p)
        PROVE  TypeOK'
    BY <1>7 DEF LosePlain, TypeOK, appVars, lifeVars, peerVars
  <1>8. CASE UNCHANGED vars
    BY <1>8 DEF vars, appVars, lifeVars, peerVars, packetVars, TypeOK
  <1> QED
    BY <1>1, <1>2, <1>a, <1>b, <1>3, <1>4, <1>5, <1>6, <1>7, <1>8 DEF Next

LEMMA InitTyped == Init => TypeOK
  <1> SUFFICES ASSUME Init
               PROVE  TypeOK
    OBVIOUS
  <1>1. \A h \in VpnHost : /\ Config[h].ServerAddress \in Nat
                           /\ Config[h].ServerPort \in Port
                           /\ Config[h].CipherKey \in Key
    BY TopologyAssumption DEF Attributes
  <1> QED
    BY <1>1 DEF Init, TypeOK

(* The variables always hold what they are meant to hold: every frame a    *)
(* well-formed header and packet, every packet well-formed addresses.      *)
THEOREM TypeCorrect == Spec => []TypeOK
  <1>1. Init => TypeOK
    BY InitTyped
  <1> QED
    BY <1>1, TypeStep, PTL DEF Spec

-----------------------------------------------------------------------------
(* Copies: what each kind of step makes of them *)

LEMMA CopyCases ==
  /\ \A f \in tunnel : <<"tunnel", f, f.inner>> \in Copies
  /\ \A p \in plain : <<"plain", p, p>> \in Copies
  /\ \A w \in waiting : <<"waiting", w, w.pkt>> \in Copies
  /\ \A r \in rcvd : <<"rcvd", r, r.pkt>> \in Copies
  /\ \A c \in Copies : \/ c[2] \in tunnel /\ c = <<"tunnel", c[2], c[2].inner>>
                       \/ c[2] \in plain /\ c = <<"plain", c[2], c[2]>>
                       \/ c[2] \in waiting /\ c = <<"waiting", c[2], c[2].pkt>>
                       \/ c[2] \in rcvd /\ c = <<"rcvd", c[2], c[2].pkt>>
  BY DEF Copies

LEMMA CopiesTyped ==
  ASSUME TypeOK, NEW c \in Copies
  PROVE  c[3] \in Packet
  BY CopyCases DEF TypeOK, Frame

(* There is still one copy of everything when the new copies do not        *)
(* overlap, neither each other nor those that are kept (K).                *)
LEMMA CopiesChange ==
  ASSUME OneCopy, NEW K, K \subseteq Copies,
         \A c \in Copies' \ K : \A d \in Copies' \ K : Overlap(c[3], d[3]) => c = d,
         \A c \in Copies' \ K : \A d \in K : ~ Overlap(c[3], d[3])
  PROVE  OneCopy'
  <1>1. \A p, q : Overlap(p, q) <=> Overlap(q, p)
    BY DEF Overlap
  <1> QED
    BY <1>1 DEF OneCopy

(* An IpSend leaves alone what is not in the frames it takes away, and     *)
(* adds copies of its packet or of its pieces, none of them twice.         *)
Kept(others) == {c \in Copies : c[1] = "tunnel" => c[2] \in others}

LEMMA IpSendCopies ==
  ASSUME NEW h \in Host, NEW p \in Packet, NEW others \in SUBSET tunnel,
         IpSend(h, p, others), UNCHANGED waiting
  PROVE  /\ \A c \in Copies' \ Kept(others) :
               \/ c[3] = p
               \/ c[3] \in Pieces(p) /\ Route(h, p.dst) = "tap"
         /\ \A c \in Copies' \ Kept(others) : \A d \in Copies' \ Kept(others) :
               Overlap(c[3], d[3]) => c = d
  <1> DEFINE New == Copies' \ Kept(others)
  <1>1. \A c \in Copies' :
          \/ c \in Kept(others)
          \/ c = <<"tunnel", c[2], c[2].inner>> /\ c[2] \in tunnel' \ others
          \/ c = <<"plain", c[2], c[2]>> /\ c[2] \in plain' \ plain
          \/ c = <<"rcvd", c[2], c[2].pkt>> /\ c[2] \in rcvd' \ rcvd
    BY CopyCases DEF Kept, Copies
  <1>2. ASSUME rcvd' = rcvd \cup {[host |-> h, pkt |-> p]}, tunnel' = others, plain' = plain
        PROVE  \A c \in New : c = <<"rcvd", [host |-> h, pkt |-> p], p>>
    BY <1>1, <1>2
  <1>3. ASSUME plain' = plain \cup {p}, tunnel' = others, rcvd' = rcvd
        PROVE  \A c \in New : c = <<"plain", p, p>>
    BY <1>1, <1>3
  <1>4. ASSUME plain' = plain, tunnel' = others, rcvd' = rcvd
        PROVE  New = {}
    BY <1>1, <1>4
  <1>5. ASSUME Route(h, p.dst) = "tap", plain' = plain, rcvd' = rcvd,
               tunnel' = others \cup {Wrap(h, q) : q \in Pieces(p)}
        PROVE  /\ \A c \in New : c[3] \in Pieces(p)
               /\ \A c \in New : \A d \in New : Overlap(c[3], d[3]) => c = d
    <2>1. \A c \in New : \E q \in Pieces(p) : c = <<"tunnel", Wrap(h, q), q>>
      BY <1>1, <1>5, WrapFields
    <2>2. \A q \in Pieces(p) : \A r \in Pieces(p) : Overlap(q, r) => q = r
      <3> SUFFICES ASSUME NEW q \in Pieces(p), NEW r \in Pieces(p), Overlap(q, r)
                   PROVE  q = r
        OBVIOUS
      <3>1. PieceCount(p) \in Int
        BY Sizes
      <3>2. q.piece \in 1 .. PieceCount(p) /\ r.piece \in 1 .. PieceCount(p) => q.piece = r.piece
        BY <3>1 DEF Overlap
      <3> QED
        BY <3>2, PiecesFields
    <2> QED
      BY <2>1, <2>2
  <1> HIDE DEF New
  <1>6. /\ \A c \in New : \/ c[3] = p
                          \/ c[3] \in Pieces(p) /\ Route(h, p.dst) = "tap"
        /\ \A c \in New : \A d \in New : Overlap(c[3], d[3]) => c = d
    BY <1>2, <1>3, <1>4, <1>5, IpSendCases
  <1> QED
    BY <1>6 DEF New

-----------------------------------------------------------------------------
(* The inductive invariant *)

\* A node's socket is open exactly while its tap is up.
SocketFollowsTap ==
  \A h \in VpnHost : m_clientInterface[h] = "up" <=> m_clientSocket[h] = "open"

SentOnce == \A s, t \in sent : s.pkt.id = t.pkt.id => s = t

HasOrigin(p) ==
  \E s \in sent : Matches(p, s.pkt) /\ (p.piece # 0 => s.route = "tap")

\* Every copy, wherever it is, stems from a datagram that was sent.
Sourced == \A c \in Copies : HasOrigin(c[3])

(* IP fragments exist between two taps and nowhere else, and no frame      *)
(* holds more than a tap takes: a tap that forwards need not cut again.    *)
PiecesApart ==
  /\ \A f \in tunnel : IpLoad(f.inner) <= Room /\ (f.inner.frag => f.inner.piece # 0)
  /\ \A p \in plain : ~ p.frag
  /\ \A w \in waiting : w.pkt.frag /\ w.pkt.piece # 0
  /\ \A r \in rcvd : ~ r.pkt.frag

\* A frame's header holds the text all nodes use, enciphered with some key.
FramesHonest ==
  \A f \in tunnel : \E k \in Key : f.hdr = EncryptInput(plainText, k)

\* What was handed over, was handed to a node with that address.
HandedToEndpoint == \A r \in rcvd : EndpointOf(r.host, r.pkt.dst)

IInv ==
  /\ TypeOK
  /\ SocketFollowsTap
  /\ SentOnce
  /\ Sourced
  /\ PiecesApart
  /\ OneCopy
  /\ FramesHonest
  /\ HandedToEndpoint

(* One lemma per part, each for IpSend alone.                              *)

LEMMA MatchesForwarded ==
  ASSUME NEW h \in VpnHost, NEW p \in Packet, NEW q \in PayloadPort, NEW orig,
         Matches(p, orig)
  PROVE  Matches(Forwarded(h, p, q), orig)
  <1> DEFINE r == Forwarded(h, p, q)
  <1>1. /\ r.id = p.id /\ r.dst = p.dst /\ r.piece = p.piece /\ Load(r) = Load(p)
        /\ ~ r.frag /\ (~ p.frag \/ p.piece <= 1 => r.port = p.port)
        /\ p.proto = "udp" => r.proto = "udp" /\ r.data = p.data /\ r.size = p.size
        /\ p.proto = "tcp" => r.data = "tcp_tail"
    BY ForwardedTyped
  <1>2. p.frag \in BOOLEAN /\ p.piece \in Nat /\ p.proto \in {"udp", "tcp"}
    BY DEF Packet
  <1> HIDE DEF r
  <1>3. r.frag \/ r.piece <= 1 => r.port = orig.port
    BY <1>1, <1>2 DEF Matches
  <1>4. orig.proto = "tcp" => r.data = "tcp_tail"
    BY <1>1, <1>2 DEF Matches
  <1> QED
    BY <1>1, <1>3, <1>4 DEF Matches, r

\* The pieces of a datagram that a tap cuts match it.
LEMMA MatchesPieces ==
  ASSUME NEW p \in Packet, p.piece = 0, p.data = "body", NEW q \in Pieces(p)
  PROVE  Matches(q, p)
  <1>1. Matches(p, p)
    BY DEF Matches
  <1>2. ASSUME ~ Fits(p), q.piece \in 1 .. PieceCount(p), q = Fragment(p, q.piece)
        PROVE  Matches(q, p)
    <2>1. q.piece \in Nat /\ q.piece <= PieceCount(p)
      BY <1>2, Sizes
    <2> QED
      BY <1>2, <2>1, FragmentFields DEF Matches
  <1> QED
    BY <1>1, <1>2, PiecesFields

LEMMA IpSendSourced ==
  ASSUME Sourced, NEW h \in Host, NEW p \in Packet, NEW others \in SUBSET tunnel,
         IpSend(h, p, others), UNCHANGED waiting, sent \subseteq sent',
         HasOrigin(p)',
         Route(h, p.dst) = "tap" => \A q \in Pieces(p) : HasOrigin(q)'
  PROVE  Sourced'
  <1>1. \A q : HasOrigin(q) => HasOrigin(q)'
    BY DEF HasOrigin, Matches
  <1>2. \A c \in Copies' : \/ c \in Kept(others) \/ c[3] = p
                           \/ c[3] \in Pieces(p) /\ Route(h, p.dst) = "tap"
    BY IpSendCopies
  <1>3. \A c \in Kept(others) : c \in Copies
    BY DEF Kept
  <1>4. \A c \in Copies' : HasOrigin(c[3])'
    BY <1>1, <1>2, <1>3 DEF Sourced
  <1> QED
    BY <1>4 DEF Sourced

LEMMA IpSendApart ==
  ASSUME PiecesApart, NEW h \in Host, NEW p \in Packet,
         NEW others \in SUBSET tunnel, IpSend(h, p, others), UNCHANGED waiting,
         ~ p.frag
  PROVE  PiecesApart'
  <1>1. \A q \in Pieces(p) : /\ Wrap(h, q).inner = q
                             /\ IpLoad(q) <= Room /\ (q.frag => q.piece # 0)
    <2>1. \A k \in 1 .. PieceCount(p) : k # 0
      BY Sizes
    <2> QED
      BY <2>1, PiecesFields, WrapFields
  <1>2. \A f \in tunnel' : f \in tunnel \/ \E q \in Pieces(p) : f = Wrap(h, q)
    BY IpSendCases
  <1>3. \A f \in tunnel' : IpLoad(f.inner) <= Room /\ (f.inner.frag => f.inner.piece # 0)
    BY <1>1, <1>2 DEF PiecesApart
  <1>4. (\A q \in plain' : ~ q.frag) /\ (\A r \in rcvd' : ~ r.pkt.frag)
    BY IpSendCases DEF PiecesApart
  <1> QED
    BY <1>3, <1>4 DEF PiecesApart

LEMMA IpSendHonest ==
  ASSUME TypeOK, FramesHonest, NEW h \in Host, NEW p \in Packet,
         NEW others \in SUBSET tunnel, IpSend(h, p, others)
  PROVE  FramesHonest'
  <1>1. TapUp(h) => m_cipherKey[h] \in Key
    BY DEF TapUp, TypeOK
  <1>2. \A f \in tunnel' :
          f \in tunnel \/ (TapUp(h) /\ f.hdr = EncryptInput(plainText, m_cipherKey[h]))
    BY IpSendCases, WrapFields
  <1> QED
    BY <1>1, <1>2 DEF FramesHonest

LEMMA IpSendHandsOver ==
  ASSUME HandedToEndpoint, NEW h \in Host, NEW p, NEW others, IpSend(h, p, others)
  PROVE  HandedToEndpoint'
  <1>1. Owns(h, p.dst) => EndpointOf(h, p.dst)
    BY DEF Owns, EndpointOf, TapUp
  <1>2. \A r \in rcvd' :
          r \in rcvd \/ (EndpointOf(h, p.dst) /\ r = [host |-> h, pkt |-> p])
    BY <1>1, IpSendCases
  <1> QED
    BY <1>2 DEF HandedToEndpoint

(* Starting, stopping and reconfiguring a node moves no packet.            *)
LocalStep(h) ==
  \/ StartApplication(h)
  \/ StopApplication(h)
  \/ \E t \in Retargets[h] : SetServer(h, t[1], t[2])
  \/ \E t \in Retargets[h] : SetServerAddress(h, t[1])
  \/ \E k \in Rekeys[h] : SetCipherKey(h, k)

LEMMA LocalStepLeaves ==
  ASSUME NEW h, LocalStep(h)
  PROVE  UNCHANGED <<tunnel, plain, waiting, sent, rcvd>>
  BY DEF LocalStep, StartApplication, StopApplication, SetServer,
         SetServerAddress, SetCipherKey, packetVars

LEMMA ConfigurationStep ==
  ASSUME IInv, NEW h \in VpnHost, LocalStep(h)
  PROVE  IInv'
  <1>1. UNCHANGED <<tunnel, plain, waiting, sent, rcvd>>
    BY LocalStepLeaves
  <1>2. TypeOK'
    BY TypeStep DEF IInv, LocalStep, Next
  <1>3. SocketFollowsTap'
    BY DEF LocalStep, StartApplication, StopApplication, SetServer, IInv,
           SetServerAddress, SetCipherKey, lifeVars, SocketFollowsTap, TypeOK
  <1>4. Copies' = Copies
    BY <1>1 DEF Copies
  <1> QED
    BY <1>1, <1>2, <1>3, <1>4
    DEF IInv, SentOnce, Sourced, HasOrigin, PiecesApart, OneCopy, FramesHonest,
        HandedToEndpoint

LEMMA SendingStep ==
  ASSUME IInv, NEW i \in Id, NEW d \in Traffic, AppSend(i, d)
  PROVE  IInv'
  <1> DEFINE p == AppPacket(i, d)
             t == [pkt |-> p, route |-> Route(d.from, d.dst)]
  <1>1. /\ d.from \in Host /\ p \in Packet /\ p.id = i /\ p.from = d.from
        /\ p.dst = d.dst /\ p.data = "body" /\ p.piece = 0 /\ ~ p.frag
    BY AppPacketTyped
  <1>2. /\ \A s \in sent : s.pkt.id # i
        /\ sent' = sent \cup {t}
        /\ IpSend(d.from, p, tunnel)
        /\ UNCHANGED <<appVars, waiting>>
    BY AppSendStep
  <1>3. t.pkt = p /\ t.route = Route(d.from, p.dst)
    BY <1>1
  <1> HIDE DEF p, t
  <1>4. TypeOK'
    BY TypeStep DEF IInv, Next
  <1>5. SentOnce' /\ SocketFollowsTap'
    BY <1>1, <1>2, <1>3 DEF IInv, SentOnce, SocketFollowsTap, appVars, lifeVars
  <1>6. Sourced'
    <2>1. HasOrigin(p)'
      BY <1>1, <1>2, <1>3 DEF HasOrigin, Matches
    <2>2. Route(d.from, p.dst) = "tap" => \A q \in Pieces(p) : HasOrigin(q)'
      BY <1>1, <1>2, <1>3, MatchesPieces DEF HasOrigin
    <2> QED
      BY <1>1, <1>2, <2>1, <2>2, IpSendSourced DEF IInv
  <1>7. OneCopy'
    <2>1. \A c \in Copies : c[3].id # i
      BY <1>2 DEF IInv, Sourced, HasOrigin, Matches
    <2>2. \A c \in Copies' \ Kept(tunnel) : c[3].id = i
      BY <1>1, <1>2, IpSendCopies, PiecesFields
    <2>3. Kept(tunnel) \subseteq Copies
      BY DEF Kept
    <2>4. \A c \in Copies' \ Kept(tunnel) : \A d2 \in Kept(tunnel) : ~ Overlap(c[3], d2[3])
      BY <2>1, <2>2, <2>3 DEF Overlap
    <2>5. \A c \in Copies' \ Kept(tunnel) : \A d2 \in Copies' \ Kept(tunnel) :
            Overlap(c[3], d2[3]) => c = d2
      BY <1>1, <1>2, IpSendCopies
    <2> QED
      BY <2>3, <2>4, <2>5, CopiesChange DEF IInv
  <1>8. PiecesApart'
    BY <1>1, <1>2, IpSendApart DEF IInv
  <1>9. FramesHonest' /\ HandedToEndpoint'
    BY <1>1, <1>2, IpSendHonest, IpSendHandsOver DEF IInv
  <1> QED
    BY <1>4, <1>5, <1>6, <1>7, <1>8, <1>9 DEF IInv

(* A frame's packet that goes on is one packet again, in a new frame or on *)
(* the wire, and takes the place of the one that came.                     *)
LEMMA ForwardingStep ==
  ASSUME IInv, NEW f \in tunnel, NEW h \in VpnHost, ReceivePacket(h, f),
         ~ AddressedTo(h, f)
  PROVE  IInv'
  <1>1. PICK x \in PayloadPort : IpSend(h, Forwarded(h, f.inner, x), tunnel \ {f})
    BY ReceiveStep DEF IInv
  <1> DEFINE p == Forwarded(h, f.inner, x)
             g == <<"tunnel", f, f.inner>>
             K == Kept(tunnel \ {f})
  <1>2. /\ h \in Host /\ f.inner \in Packet
        /\ UNCHANGED appVars /\ UNCHANGED sent /\ UNCHANGED waiting
    BY ReceiveStep DEF IInv
  <1>3. /\ p \in Packet /\ p.id = f.inner.id /\ p.piece = f.inner.piece /\ ~ p.frag
        /\ IpLoad(p) = IpLoad(f.inner)
    BY <1>2, ForwardedTyped
  <1>4. Pieces(p) = {p}
    BY <1>3 DEF Pieces, IInv, PiecesApart
  <1>5. g \in Copies /\ HasOrigin(f.inner)
    BY CopyCases DEF IInv, Sourced
  <1>6. HasOrigin(p)'
    BY <1>2, <1>3, <1>5, MatchesForwarded DEF HasOrigin
  <1>7. IpSend(h, p, tunnel \ {f})
    BY <1>1
  <1> HIDE DEF p
  <1>8. TypeOK'
    BY TypeStep DEF IInv, Next
  <1>9. SentOnce' /\ SocketFollowsTap'
    BY <1>2 DEF IInv, SentOnce, SocketFollowsTap, appVars, lifeVars
  <1>10. Sourced'
    BY <1>2, <1>3, <1>4, <1>6, <1>7, IpSendSourced DEF IInv
  <1>11. OneCopy'
    <2>1. K \subseteq Copies /\ g \notin K
      BY DEF Kept
    <2>2. \A c \in Copies' \ K : c[3] = p
      BY <1>2, <1>3, <1>4, <1>7, IpSendCopies
    <2>3. \A d \in Copies : Overlap(p, d[3]) => d = g
      BY <1>3, <1>5 DEF IInv, OneCopy, Overlap
    <2>4. \A c \in Copies' \ K : \A d \in K : ~ Overlap(c[3], d[3])
      BY <2>1, <2>2, <2>3
    <2>5. \A c \in Copies' \ K : \A d \in Copies' \ K : Overlap(c[3], d[3]) => c = d
      BY <1>2, <1>3, <1>7, IpSendCopies
    <2> HIDE DEF K, g
    <2> QED
      BY <2>1, <2>4, <2>5, CopiesChange DEF IInv
  <1>12. PiecesApart'
    BY <1>2, <1>3, <1>7, IpSendApart DEF IInv
  <1>13. FramesHonest' /\ HandedToEndpoint'
    BY <1>2, <1>3, <1>7, IpSendHonest, IpSendHandsOver DEF IInv
  <1> QED
    BY <1>8, <1>9, <1>10, <1>11, <1>12, <1>13 DEF IInv

(* All copies of a datagram of which one piece is about are pieces of it,  *)
(* each in its place.                                                      *)
LEMMA Siblings ==
  ASSUME IInv, NEW g \in Copies, g[3].frag, g[3].piece # 0, NEW c \in Copies, c # g,
         c[3].id = g[3].id
  PROVE  /\ c[3].piece \in 1 .. PieceCount(g[3]) /\ c[3].piece # g[3].piece
         /\ Fragment(g[3], c[3].piece) \in Fragments(g[3]) \ {g[3]}
  <1>1. c[3] \in Packet /\ g[3] \in Packet
    BY CopiesTyped DEF IInv
  <1>2. c[3].piece # 0 /\ c[3].piece # g[3].piece
    BY DEF IInv, OneCopy, Overlap
  <1>3. PICK s \in sent : Matches(c[3], s.pkt)
    BY DEF IInv, Sourced, HasOrigin
  <1>4. Matches(g[3], s.pkt)
    <2>1. PICK t \in sent : Matches(g[3], t.pkt)
      BY DEF IInv, Sourced, HasOrigin
    <2>2. s.pkt.id = t.pkt.id
      BY <1>3, <2>1 DEF Matches
    <2> QED
      BY <2>1, <2>2 DEF IInv, SentOnce
  <1>5. PieceCount(s.pkt) = PieceCount(g[3])
    BY <1>4 DEF Matches, PieceCount
  <1>6. c[3].piece \in 1 .. PieceCount(g[3])
    <2>1. c[3].piece \in Nat /\ PieceCount(g[3]) \in Int
      BY <1>1, Sizes DEF Packet
    <2>2. c[3].piece <= PieceCount(g[3])
      BY <1>2, <1>3, <1>5 DEF Matches
    <2> QED
      BY <1>2, <2>1, <2>2
  <1>7. Fragment(g[3], c[3].piece).piece = c[3].piece
    <2>1. c[3].piece \in Nat
      BY <1>1 DEF Packet
    <2> QED
      BY <1>1, <2>1, FragmentFields
  <1> QED
    BY <1>2, <1>6, <1>7 DEF Fragments

(* What the tap hands over leaves its frame, and with the last piece the   *)
(* others stop waiting.                                                    *)
LEMMA TappingStep ==
  ASSUME IInv, NEW f \in tunnel, NEW h \in VpnHost, ReceivePacket(h, f),
         AddressedTo(h, f)
  PROVE  IInv'
  <1> DEFINE p == f.inner
             g == <<"tunnel", f, f.inner>>
             O == {<<"waiting", w, w.pkt>> : w \in OtherPieces(h, p)}
  <1>1. /\ h \in Host /\ p \in Packet /\ Listens(h, f)
        /\ UNCHANGED <<appVars, sent, plain>>
        /\ TapReceives(h, p) /\ tunnel' = tunnel \ {f}
        /\ p.dst = m_clientVPNAddress(h)
    BY ReceiveStep DEF IInv, AddressedTo
  <1>2. TypeOK'
    BY TypeStep DEF IInv, Next
  <1>3. SentOnce' /\ SocketFollowsTap'
    BY <1>1 DEF IInv, SentOnce, SocketFollowsTap, appVars, lifeVars
  <1>4. FramesHonest'
    BY <1>1 DEF IInv, FramesHonest
  <1>5. HandedToEndpoint'
    BY <1>1, TapReceivesCases, WholeFields DEF IInv, HandedToEndpoint, EndpointOf
  <1>6. g \in Copies /\ HasOrigin(p) /\ p.frag \in BOOLEAN /\ (p.frag => p.piece # 0)
    BY <1>1, CopyCases DEF IInv, Sourced, PiecesApart, Packet
  <1>7. \A q : HasOrigin(q) => HasOrigin(q)'
    BY <1>1 DEF HasOrigin
  <1>8. PiecesApart'
    BY <1>1, <1>6, TapReceivesCases, WholeFields DEF IInv, PiecesApart, WaitingAt
  <1>9. \A c \in Copies' : \/ c \in Copies \ {g}
                           \/ c = <<"waiting", c[2], c[2].pkt>> /\ c[2] \in waiting' \ waiting
                           \/ c = <<"rcvd", c[2], c[2].pkt>> /\ c[2] \in rcvd' \ rcvd
    BY <1>1 DEF Copies
  <1>10. CASE ~ p.frag /\ rcvd' = rcvd \cup {[host |-> h, pkt |-> p]} /\ waiting' = waiting
    <2>1. \A c \in Copies' \ (Copies \ {g}) : c = <<"rcvd", [host |-> h, pkt |-> p], p>>
      BY <1>9, <1>10
    <2>2. \A c \in Copies \ {g} : ~ Overlap(p, c[3])
      BY <1>6 DEF IInv, OneCopy
    <2> HIDE DEF p, g
    <2>3. OneCopy'
      <3> DEFINE K == Copies \ {g}
      <3>1. K \subseteq Copies
        OBVIOUS
      <3>2. /\ \A c \in Copies' \ K : \A d \in Copies' \ K : Overlap(c[3], d[3]) => c = d
            /\ \A c \in Copies' \ K : \A d \in K : ~ Overlap(c[3], d[3])
        BY <2>1, <2>2
      <3> HIDE DEF K
      <3> QED
        BY <3>1, <3>2, CopiesChange DEF IInv
    <2>4. Sourced'
      BY <1>6, <1>7, <2>1 DEF IInv, Sourced
    <2> QED
      BY <1>2, <1>3, <1>4, <1>5, <1>8, <2>3, <2>4 DEF IInv
  <1>11. CASE p.frag /\ waiting' = waiting \cup {WaitingAt(h, p)} /\ rcvd' = rcvd
    <2>1. \A c \in Copies' \ (Copies \ {g}) : c = <<"waiting", WaitingAt(h, p), p>>
      BY <1>9, <1>11 DEF WaitingAt
    <2>2. \A c \in Copies \ {g} : ~ Overlap(p, c[3])
      BY <1>6 DEF IInv, OneCopy
    <2> HIDE DEF p, g
    <2>3. OneCopy'
      <3> DEFINE K == Copies \ {g}
      <3>1. K \subseteq Copies
        OBVIOUS
      <3>2. /\ \A c \in Copies' \ K : \A d \in Copies' \ K : Overlap(c[3], d[3]) => c = d
            /\ \A c \in Copies' \ K : \A d \in K : ~ Overlap(c[3], d[3])
        BY <2>1, <2>2
      <3> HIDE DEF K
      <3> QED
        BY <3>1, <3>2, CopiesChange DEF IInv
    <2>4. Sourced'
      BY <1>6, <1>7, <2>1 DEF IInv, Sourced
    <2> QED
      BY <1>2, <1>3, <1>4, <1>5, <1>8, <2>3, <2>4 DEF IInv
  <1>12. CASE /\ p.frag /\ OtherPieces(h, p) \subseteq waiting
              /\ waiting' = waiting \ OtherPieces(h, p)
              /\ rcvd' = rcvd \cup {[host |-> h, pkt |-> Whole(p)]}
    <2> DEFINE K == Copies \ ({g} \cup O)
    <2>1. O \subseteq Copies
      BY <1>12, CopyCases
    <2>2. \A c \in Copies' \ K : c = <<"rcvd", [host |-> h, pkt |-> Whole(p)], Whole(p)>>
      <3>1. \A c \in Copies' : c \notin O
        BY <1>12 DEF Copies
      <3> QED
        BY <1>9, <1>12, <3>1
    <2>3. \A c \in K : c[3].id # p.id
      <3> SUFFICES ASSUME NEW c \in K, c[3].id = p.id
                   PROVE  FALSE
        OBVIOUS
      <3> DEFINE q == Fragment(p, c[3].piece)
                 w == <<"waiting", WaitingAt(h, q), q>>
      <3>1. q \in Fragments(p) \ {p} /\ c[3].piece # p.piece /\ c[3].piece \in Nat
        BY <1>6, <1>12, Siblings, CopiesTyped DEF IInv, Packet
      <3>2. w \in O
        <4>1. WaitingAt(h, q) \in OtherPieces(h, p) /\ WaitingAt(h, q).pkt = q
          BY <3>1 DEF OtherPieces, WaitingAt
        <4> QED
          BY <4>1
      <3>3. q.id = p.id /\ q.piece = c[3].piece
        BY <1>1, <3>1, FragmentFields
      <3>4. Overlap(c[3], w[3])
        BY <3>3 DEF Overlap
      <3> HIDE DEF w
      <3>5. c = w
        BY <2>1, <3>2, <3>4 DEF IInv, OneCopy
      <3> QED
        BY <3>2, <3>5
    <2>4. HasOrigin(Whole(p))'
      <3>1. PICK s \in sent : Matches(p, s.pkt)
        BY <1>6 DEF HasOrigin
      <3>2. Matches(Whole(p), s.pkt)
        BY <1>1, <1>12, <3>1, WholeFields DEF Matches
      <3> QED
        BY <1>1, <1>7, <3>2, WholeFields DEF HasOrigin
    <2>5. Whole(p).id = p.id
      BY <1>1, WholeFields
    <2> HIDE DEF K
    <2>6. K \subseteq Copies
      BY DEF K
    <2>7. \A c \in Copies' \ K : \A d \in K : ~ Overlap(c[3], d[3])
      BY <2>2, <2>3, <2>5 DEF Overlap
    <2>8. OneCopy'
      BY <2>2, <2>6, <2>7, CopiesChange DEF IInv
    <2>9. Sourced'
      BY <1>7, <2>2, <2>4, <2>6 DEF IInv, Sourced
    <2> QED
      BY <1>2, <1>3, <1>4, <1>5, <1>8, <2>8, <2>9 DEF IInv
  <1> QED
    BY <1>1, <1>10, <1>11, <1>12, TapReceivesCases

\* A copy is lost, or one outside the tunnel arrives.
LEMMA LosingStep ==
  ASSUME IInv, UNCHANGED <<appVars, waiting, sent>>,
         tunnel' \subseteq tunnel, plain' \subseteq plain, UNCHANGED rcvd
  PROVE  IInv'
  <1>1. Copies' \subseteq Copies
    BY DEF Copies
  <1>2. OneCopy' /\ Sourced'
    BY <1>1 DEF IInv, OneCopy, Sourced, HasOrigin
  <1>3. TypeOK' /\ SocketFollowsTap' /\ SentOnce'
    BY DEF IInv, TypeOK, SocketFollowsTap, SentOnce, appVars, lifeVars, peerVars
  <1> QED
    BY <1>2, <1>3 DEF IInv, PiecesApart, FramesHonest, HandedToEndpoint

LEMMA DeliveringStep ==
  ASSUME IInv, NEW p \in plain, NEW h \in Host, Deliver(h, p)
  PROVE  IInv'
  <1> DEFINE g == <<"plain", p, p>>
             n == <<"rcvd", [host |-> h, pkt |-> p], p>>
  <1>1. /\ p.dst \in Phys[h] /\ plain' = plain \ {p}
        /\ rcvd' = rcvd \cup {[host |-> h, pkt |-> p]}
        /\ UNCHANGED <<appVars, tunnel, waiting, sent>>
    BY DEF Deliver
  <1>2. TypeOK' /\ SocketFollowsTap' /\ SentOnce'
    BY <1>1, TypeStep DEF IInv, Next, SocketFollowsTap, SentOnce, appVars, lifeVars
  <1>3. FramesHonest' /\ HandedToEndpoint' /\ PiecesApart'
    BY <1>1 DEF IInv, FramesHonest, HandedToEndpoint, EndpointOf, PiecesApart
  <1>4. g \in Copies
    BY CopyCases
  <1>5. \A c \in Copies' : c \in Copies \ {g} \/ c = n
    BY <1>1 DEF Copies
  <1>6. \A c \in Copies \ {g} : ~ Overlap(p, c[3])
    BY <1>4 DEF IInv, OneCopy
  <1>7. \A q : HasOrigin(q) => HasOrigin(q)'
    BY <1>1 DEF HasOrigin
  <1>8. n[3] = p /\ g[3] = p
    OBVIOUS
  <1> HIDE DEF g, n
  <1>9. Sourced'
    BY <1>4, <1>5, <1>7, <1>8 DEF IInv, Sourced
  <1>10. OneCopy'
    BY <1>5, <1>6, <1>8, CopiesChange DEF IInv
  <1> QED
    BY <1>2, <1>3, <1>9, <1>10 DEF IInv

LEMMA InvStep == IInv /\ [Next]_vars => IInv'
  <1> SUFFICES ASSUME IInv, [Next]_vars
               PROVE  IInv'
    OBVIOUS
  <1>1. ASSUME NEW f \in tunnel, NEW h \in VpnHost, ReceivePacket(h, f)
        PROVE  IInv'
    BY <1>1, TappingStep, ForwardingStep
  <1>2. ASSUME NEW f \in tunnel, DropUnheard(f) \/ LoseFrame(f)
        PROVE  IInv'
    BY <1>2, LosingStep DEF DropUnheard, LoseFrame
  <1>3. ASSUME NEW p \in plain, LosePlain(p)
        PROVE  IInv'
    BY <1>3, LosingStep DEF LosePlain
  <1>4. CASE UNCHANGED vars
    BY <1>4, LosingStep DEF vars, packetVars
  <1> QED
    BY <1>1, <1>2, <1>3, <1>4, ConfigurationStep, SendingStep, DeliveringStep
    DEF Next, LocalStep

LEMMA InitInv == Init => IInv
  BY InitTyped DEF Init, IInv, SocketFollowsTap, SentOnce, Sourced, Copies, OneCopy,
                   PiecesApart, FramesHonest, HandedToEndpoint

LEMMA Invariance == Spec => []IInv
  BY InitInv, InvStep, PTL DEF Spec

-----------------------------------------------------------------------------
(* The theorems *)

(* However many servers it passes and whichever taps cut it, of one        *)
(* datagram, or of each of its pieces, there is at most one copy.          *)
THEOREM NeverDuplicates == Spec => []OneCopy
  <1>1. IInv => OneCopy
    BY DEF IInv
  <1> QED
    BY <1>1, Invariance, PTL

(* Nothing is handed over that was not sent, or to another node than it    *)
(* was sent to.  What fits the tap is handed over whole and at its port.   *)
(* What a tap had to cut is too, when its pieces were put together again;  *)
(* a piece handed over alone is one of them, the first at its port.        *)
THEOREM DeliversFaithfully == Spec => []Faithful
  <1>1. ASSUME IInv
        PROVE  Faithful
    <2>1. \A r \in rcvd : HasOrigin(r.pkt)
      BY <1>1, CopyCases DEF IInv, Sourced
    <2> QED
      BY <1>1, <2>1
      DEF IInv, Faithful, HasOrigin, PiecesApart, HandedToEndpoint, EndpointOf
  <1> QED
    BY <1>1, Invariance, PTL

-----------------------------------------------------------------------------
(* The tap needs the key *)

\* A frame whose text the receiver can decipher was wrapped with its key.
LEMMA DecipheredWithOwnKey ==
  ASSUME IInv, NEW f \in tunnel, NEW h \in VpnHost, AddressedTo(h, f)
  PROVE  f.hdr = EncryptInput(plainText, m_cipherKey[h])
  <1>1. PICK k \in Key : f.hdr = EncryptInput(plainText, k)
    BY DEF IInv, FramesHonest
  <1>2. /\ f.hdr.m_sentOrigin = plainText
        /\ f.hdr.m_encrypted = encryption(plainText, k)
    BY <1>1 DEF EncryptInput
  <1>3. decryption(encryption(plainText, k), m_cipherKey[h]) = plainText
    BY <1>2 DEF AddressedTo, DecryptInput
  <1>4. m_cipherKey[h] \in Key
    BY DEF IInv, TypeOK
  <1> QED
    BY <1>1, <1>3, <1>4, CipherAssumption

\* What one IpSend of a node's own packet does is no delivery by a tap.
LEMMA IpSendNoTap ==
  ASSUME NEW h \in Host, NEW p, NEW others, IpSend(h, p, others), p.from = h,
         waiting' = waiting
  PROVE  TapDelivery
  <1>1. \A r \in rcvd' \ rcvd : r = [host |-> h, pkt |-> p]
    BY IpSendCases
  <1>2. \A r \in rcvd' \ rcvd : r.pkt.from = r.host
    BY <1>1
  <1> QED
    BY <1>2 DEF TapDelivery

LEMMA TapStep == IInv /\ [Next]_vars => [TapDelivery]_vars
  <1> SUFFICES ASSUME IInv, Next
               PROVE  TapDelivery
    OBVIOUS
  <1>1. ASSUME UNCHANGED <<waiting, rcvd>>
        PROVE  TapDelivery
    BY <1>1 DEF TapDelivery
  <1>2. ASSUME NEW h \in VpnHost, LocalStep(h)
        PROVE  TapDelivery
    BY <1>1, <1>2, LocalStepLeaves
  <1>3. ASSUME NEW i \in Id, NEW d \in Traffic, AppSend(i, d)
        PROVE  TapDelivery
    BY <1>3, IpSendNoTap, AppSendStep, AppPacketTyped
  <1>4. ASSUME NEW f \in tunnel, NEW h \in VpnHost, ReceivePacket(h, f)
        PROVE  TapDelivery
    <2>1. CASE AddressedTo(h, f)
      <3> DEFINE p == f.inner
      <3>1. f.hdr = EncryptInput(plainText, m_cipherKey[h])
        BY <2>1, DecipheredWithOwnKey
      <3>2. TapReceives(h, p) /\ p \in Packet /\ p.frag \in BOOLEAN
        BY <1>4, <2>1, ReceiveStep DEF IInv, Packet
      <3>3. \A r \in rcvd' \ rcvd : r.host = h /\ r.pkt \in {p, Whole(p)}
        BY <3>2, TapReceivesCases
      <3>4. \A w \in waiting' \ waiting : w.host = h /\ w.pkt = p
        BY <3>2, TapReceivesCases DEF WaitingAt
      <3>5. Opened(h, p) /\ Opened(h, Whole(p))
        BY <3>1 DEF Opened
      <3> HIDE DEF p
      <3> QED
        BY <3>3, <3>4, <3>5 DEF TapDelivery
    <2>2. CASE ~ AddressedTo(h, f)
      <3>1. h \in Host /\ f.inner \in Packet /\ waiting' = waiting
        BY <1>4, <2>2, ReceiveStep DEF IInv
      <3>2. PICK x \in PayloadPort : IpSend(h, Forwarded(h, f.inner, x), tunnel \ {f})
        BY <1>4, <2>2, ReceiveStep DEF IInv
      <3>3. Forwarded(h, f.inner, x).from = h
        BY <3>1, ForwardedTyped
      <3> QED
        BY <3>1, <3>2, <3>3, IpSendNoTap
    <2> QED
      BY <2>1, <2>2
  <1>5. ASSUME NEW p \in plain, NEW h \in Host, Deliver(h, p)
        PROVE  TapDelivery
    <2>1. /\ rcvd' = rcvd \cup {[host |-> h, pkt |-> p]} /\ p.dst \in Phys[h]
          /\ waiting' = waiting
      BY <1>5 DEF Deliver
    <2>2. \A r \in rcvd' \ rcvd : r.host = h /\ r.pkt.dst \in Phys[h]
      BY <2>1
    <2> QED
      BY <2>1, <2>2, AddressAssumption DEF TapDelivery
  <1>6. ASSUME \/ \E f \in tunnel : DropUnheard(f) \/ LoseFrame(f)
               \/ \E p \in plain : LosePlain(p)
        PROVE  TapDelivery
    BY <1>1, <1>6 DEF DropUnheard, LoseFrame, LosePlain
  <1> QED
    BY <1>2, <1>3, <1>4, <1>5, <1>6 DEF Next, LocalStep

\* The tap takes from another node only what was wrapped with the key that
\* the receiver has when the frame arrives.
THEOREM TapChecksTheKey == Spec => TapNeedsKey
  BY Invariance, TapStep, PTL DEF Spec, TapNeedsKey

-----------------------------------------------------------------------------
(* A stopped node is quiet *)

LEMMA QuietStep == IInv /\ [Next]_vars => [QuietWhenDown]_vars
  <1> SUFFICES ASSUME IInv, Next,
                      NEW g \in VpnHost, m_clientInterface[g] # "up"
               PROVE  /\ \A f \in tunnel' \ tunnel : f.from # g
                      /\ \A w \in waiting' \ waiting : w.host # g
                      /\ \A p \in plain' \ plain :
                            p.from = g => \A s \in sent : s.pkt.id # p.id
                      /\ \A r \in rcvd' \ rcvd : r.host = g => r.pkt.dst \in Phys[g]
    BY DEF QuietWhenDown
  <1>1. ASSUME NEW h \in VpnHost, LocalStep(h)
        PROVE  UNCHANGED <<tunnel, plain, waiting, rcvd>>
    BY <1>1, LocalStepLeaves
  <1>2. ~ TapUp(g)
    BY DEF TapUp
  <1>3. ASSUME NEW h \in Host, NEW p \in Packet, NEW others \in SUBSET tunnel,
               IpSend(h, p, others)
        PROVE  /\ \A f \in tunnel' \ tunnel : f.from # g
               /\ \A q \in plain' \ plain : q = p
               /\ \A r \in rcvd' \ rcvd : r.host = g => r.pkt.dst \in Phys[g]
    <2>1. TapUp(h) => h # g
      BY <1>2 DEF TapUp
    <2>2. \A r \in rcvd' : r \in rcvd \/ (Owns(h, p.dst) /\ r = [host |-> h, pkt |-> p])
      BY <1>3, IpSendCases
    <2>3. \A f \in tunnel' : f \in tunnel \/ (TapUp(h) /\ f.from = h)
      BY <1>3, IpSendCases, WrapFields
    <2>4. \A q \in plain' \ plain : q = p
      BY <1>3, IpSendCases
    <2> QED
      BY <1>2, <2>1, <2>2, <2>3, <2>4 DEF Owns
  <1>4. ASSUME NEW i \in Id, NEW d \in Traffic, AppSend(i, d)
        PROVE  /\ \A f \in tunnel' \ tunnel : f.from # g
               /\ UNCHANGED waiting
               /\ \A p \in plain' \ plain :
                     p.from = g => \A s \in sent : s.pkt.id # p.id
               /\ \A r \in rcvd' \ rcvd : r.host = g => r.pkt.dst \in Phys[g]
    <2>1. /\ d.from \in Host /\ AppPacket(i, d) \in Packet
          /\ AppPacket(i, d).id = i
      BY AppPacketTyped
    <2>2. /\ IpSend(d.from, AppPacket(i, d), tunnel)
          /\ \A s \in sent : s.pkt.id # i
          /\ UNCHANGED waiting
      BY <1>4, AppSendStep
    <2> QED
      BY <1>3, <2>1, <2>2
  <1>5. ASSUME NEW f \in tunnel, NEW h \in VpnHost, ReceivePacket(h, f)
        PROVE  /\ \A e \in tunnel' \ tunnel : e.from # g
               /\ \A w \in waiting' \ waiting : w.host # g
               /\ \A p \in plain' \ plain :
                     p.from = g => \A s \in sent : s.pkt.id # p.id
               /\ \A r \in rcvd' \ rcvd : r.host = g => r.pkt.dst \in Phys[g]
    <2>1. /\ h \in Host /\ f.inner \in Packet /\ Listens(h, f)
      BY <1>5, ReceiveStep DEF IInv
    <2>2. h # g
      BY <2>1 DEF Listens, IInv, SocketFollowsTap
    <2>3. CASE AddressedTo(h, f)
      <3>1. TapReceives(h, f.inner) /\ tunnel' = tunnel \ {f} /\ plain' = plain
        BY <1>5, <2>3, ReceiveStep DEF IInv
      <3>2. /\ \A r \in rcvd' \ rcvd : r.host = h
            /\ \A w \in waiting' \ waiting : w.host = h
        BY <3>1, TapReceivesCases DEF WaitingAt
      <3> QED
        BY <2>2, <3>1, <3>2
    <2>4. CASE ~ AddressedTo(h, f)
      <3>1. PICK x \in PayloadPort : IpSend(h, Forwarded(h, f.inner, x), tunnel \ {f})
        BY <1>5, <2>4, ReceiveStep DEF IInv
      <3>2. /\ Forwarded(h, f.inner, x) \in Packet /\ Forwarded(h, f.inner, x).from = h
        BY <2>1, ForwardedTyped
      <3>3. waiting' = waiting
        BY <1>5, <2>4, ReceiveStep DEF IInv
      <3> QED
        BY <1>3, <2>1, <2>2, <3>1, <3>2, <3>3
    <2> QED
      BY <2>3, <2>4
  <1>6. ASSUME NEW f \in tunnel, DropUnheard(f) \/ LoseFrame(f)
        PROVE  tunnel' \subseteq tunnel /\ UNCHANGED <<plain, waiting, rcvd>>
    BY <1>6 DEF DropUnheard, LoseFrame
  <1>7. ASSUME NEW p \in plain, NEW h \in Host, Deliver(h, p)
        PROVE  /\ p.dst \in Phys[h] /\ plain' \subseteq plain /\ UNCHANGED <<tunnel, waiting>>
               /\ rcvd' = rcvd \cup {[host |-> h, pkt |-> p]}
    BY <1>7 DEF Deliver
  <1>8. ASSUME NEW p \in plain, LosePlain(p)
        PROVE  plain' \subseteq plain /\ UNCHANGED <<tunnel, waiting, rcvd>>
    BY <1>8 DEF LosePlain
  <1> QED
    BY <1>1, <1>4, <1>5, <1>6, <1>7, <1>8 DEF Next, LocalStep

(* A VPN node that is not up sends nothing of its own accord and takes     *)
(* nothing from the tunnel, also while frames for it are still arriving.   *)
THEOREM QuietUnlessUp == Spec => StoppedIsQuiet
  BY Invariance, QuietStep, PTL DEF Spec, StoppedIsQuiet

-----------------------------------------------------------------------------
(* The sender of a tunnelled datagram stays hidden *)

\* What a tap took was for its own network, not for its node.
TapTook ==
  \A s \in sent : s.route = "tap" =>
     /\ s.pkt.from \in VpnHost /\ Covers(s.pkt.from, s.pkt.dst)
     /\ s.pkt.dst \notin Phys[s.pkt.from]

HInv == IInv /\ TapTook /\ SenderHidden

(* A copy that reaches its sender's node again cannot leave it other than  *)
(* through the tap, nor be handed over there on an ordinary address.       *)
LEMMA IpSendHides ==
  ASSUME SenderHidden, NEW h \in Host, NEW p \in Packet,
         NEW others \in SUBSET tunnel, IpSend(h, p, others), UNCHANGED sent,
         \A s \in sent : s.route = "tap" /\ s.pkt.id = p.id /\ s.pkt.from = p.from
            => TapUp(h) /\ Covers(h, p.dst) /\ p.dst \notin Phys[h]
  PROVE  SenderHidden'
  <1>1. SUFFICES ASSUME NEW s \in sent, s.route = "tap"
                 PROVE  /\ \A q \in plain' : q.id = s.pkt.id => q.from # s.pkt.from
                        /\ \A r \in rcvd' : r.pkt.id = s.pkt.id /\ r.pkt.from = s.pkt.from =>
                              r.host \in VpnHost /\ r.pkt.dst = m_clientVPNAddress(r.host)
    BY DEF SenderHidden
  <1>2. ASSUME NEW q \in plain', q.id = s.pkt.id
        PROVE  q.from # s.pkt.from
    <2>1. q \in plain \/ (q = p /\ ~ (TapUp(h) /\ Covers(h, p.dst)))
      BY IpSendCases
    <2> QED
      BY <1>1, <1>2, <2>1 DEF SenderHidden
  <1>3. ASSUME NEW r \in rcvd', r.pkt.id = s.pkt.id, r.pkt.from = s.pkt.from
        PROVE  r.host \in VpnHost /\ r.pkt.dst = m_clientVPNAddress(r.host)
    <2>1. r \in rcvd \/ (r = [host |-> h, pkt |-> p] /\ Owns(h, p.dst))
      BY IpSendCases
    <2>2. CASE r \in rcvd
      BY <1>1, <1>3, <2>2 DEF SenderHidden
    <2>3. CASE r = [host |-> h, pkt |-> p] /\ Owns(h, p.dst)
      BY <1>1, <1>3, <2>3 DEF Owns, TapUp
    <2> QED
      BY <2>1, <2>2, <2>3
  <1> QED
    BY <1>2, <1>3

LEMMA HideStep == HInv /\ [Next]_vars => HInv'
  <1> SUFFICES ASSUME HInv, [Next]_vars
               PROVE  TapTook' /\ SenderHidden'
    BY InvStep DEF HInv
  <1>0. IInv
    BY DEF HInv
  <1>1. ASSUME NEW h \in VpnHost, LocalStep(h)
        PROVE  UNCHANGED <<plain, sent, rcvd>>
    BY <1>1, LocalStepLeaves
  <1>2. ASSUME NEW i \in Id, NEW d \in Traffic, AppSend(i, d)
        PROVE  TapTook' /\ SenderHidden'
    <2> DEFINE p == AppPacket(i, d)
               t == [pkt |-> p, route |-> Route(d.from, d.dst)]
    <2>1. /\ d.from \in Host /\ p \in Packet /\ p.id = i
          /\ p.from = d.from /\ p.dst = d.dst
      BY AppPacketTyped
    <2>2. /\ \A s \in sent : s.pkt.id # i
          /\ sent' = sent \cup {t}
          /\ IpSend(d.from, p, tunnel)
      BY <1>2, AppSendStep
    <2>3. t.pkt = p /\ t.route = Route(p.from, p.dst)
      BY <2>1
    <2> HIDE DEF p, t
    <2>4. Route(p.from, p.dst) = "tap" =>
            /\ p.from \in VpnHost /\ Covers(p.from, p.dst)
            /\ p.dst \notin Phys[p.from] /\ TapUp(p.from)
      BY RouteCases DEF TapUp, Owns
    <2>5. TapTook'
      BY <2>2, <2>3, <2>4 DEF TapTook, HInv
    <2>6. ASSUME NEW s \in sent', s.route = "tap"
          PROVE  /\ \A q \in plain' : q.id = s.pkt.id => q.from # s.pkt.from
                 /\ \A r \in rcvd' : r.pkt.id = s.pkt.id /\ r.pkt.from = s.pkt.from =>
                       r.host \in VpnHost /\ r.pkt.dst = m_clientVPNAddress(r.host)
      <3>1. CASE s \in sent
        <4>1. \A q \in plain' : q \in plain \/ q = p
          BY <2>1, <2>2, IpSendCases
        <4>2. \A r \in rcvd' : r \in rcvd \/ r.pkt = p
          BY <2>1, <2>2, IpSendCases
        <4>3. s.pkt.id # p.id
          BY <2>1, <2>2, <3>1
        <4> QED
          BY <2>6, <3>1, <4>1, <4>2, <4>3 DEF SenderHidden, HInv
      <3>2. CASE s = t
        <4>1. Route(p.from, p.dst) = "tap" /\ s.pkt = p
          BY <2>3, <2>6, <3>2
        <4>2. plain' = plain /\ rcvd' = rcvd
          BY <2>1, <2>2, <4>1 DEF IpSend
        <4>3. \A c \in Copies : c[3].id # p.id
          BY <1>0, <2>1, <2>2 DEF IInv, Sourced, HasOrigin, Matches
        <4>4. /\ \A q \in plain : q.id # p.id
              /\ \A r \in rcvd : r.pkt.id # p.id
          BY <4>3, CopyCases
        <4> QED
          BY <4>1, <4>2, <4>4
      <3> QED
        BY <2>2, <3>1, <3>2
    <2>7. SenderHidden'
      BY <2>6 DEF SenderHidden
    <2> QED
      BY <2>5, <2>7
  <1>3. ASSUME NEW f \in tunnel, NEW h \in VpnHost, ReceivePacket(h, f)
        PROVE  TapTook' /\ SenderHidden'
    <2>1. /\ h \in Host /\ f.inner \in Packet /\ Listens(h, f) /\ UNCHANGED sent
      BY <1>0, <1>3, ReceiveStep DEF IInv
    <2>2. TapTook'
      BY <2>1 DEF HInv, TapTook
    <2>3. CASE AddressedTo(h, f)
      <3>1. TapReceives(h, f.inner) /\ plain' = plain
        BY <1>0, <1>3, <2>3, ReceiveStep DEF IInv
      <3>2. f.inner.dst = m_clientVPNAddress(h)
        BY <2>3 DEF AddressedTo
      <3>3. \A r \in rcvd' \ rcvd : r.host = h /\ r.pkt.dst = m_clientVPNAddress(h)
        BY <2>1, <3>1, <3>2, TapReceivesCases, WholeFields
      <3>4. SenderHidden'
        BY <2>1, <3>1, <3>3 DEF SenderHidden, HInv
      <3> QED
        BY <2>2, <3>4
    <2>4. CASE ~ AddressedTo(h, f)
      <3>1. PICK x \in PayloadPort : IpSend(h, Forwarded(h, f.inner, x), tunnel \ {f})
        BY <1>0, <1>3, <2>4, ReceiveStep DEF IInv
      <3> DEFINE p == Forwarded(h, f.inner, x)
      <3>2. /\ p \in Packet /\ p.id = f.inner.id /\ p.from = h
            /\ p.dst = f.inner.dst
        BY <2>1, ForwardedTyped
      <3>3. TapUp(h)
        BY <1>0, <2>1 DEF IInv, SocketFollowsTap, Listens, TapUp
      <3>4. HasOrigin(f.inner)
        BY <1>0, CopyCases DEF IInv, Sourced
      <3>5. \A s \in sent : s.pkt.id = p.id => s.pkt.dst = p.dst
        BY <1>0, <3>2, <3>4 DEF IInv, HasOrigin, Matches, SentOnce
      <3>6. IpSend(h, p, tunnel \ {f})
        BY <3>1
      <3> HIDE DEF p
      <3>7. \A s \in sent :
              s.route = "tap" /\ s.pkt.id = p.id /\ s.pkt.from = p.from
                => TapUp(h) /\ Covers(h, p.dst) /\ p.dst \notin Phys[h]
        BY <3>2, <3>3, <3>5 DEF HInv, TapTook
      <3>8. SenderHidden'
        BY <2>1, <3>2, <3>6, <3>7, IpSendHides DEF HInv
      <3> QED
        BY <2>2, <3>8
    <2> QED
      BY <2>3, <2>4
  <1>4. ASSUME NEW f \in tunnel, DropUnheard(f) \/ LoseFrame(f)
        PROVE  UNCHANGED <<plain, sent, rcvd>>
    BY <1>4 DEF DropUnheard, LoseFrame
  <1>5. ASSUME NEW p \in plain, NEW h \in Host, Deliver(h, p)
        PROVE  TapTook' /\ SenderHidden'
    <2>1. /\ plain' = plain \ {p} /\ UNCHANGED sent
          /\ rcvd' = rcvd \cup {[host |-> h, pkt |-> p]}
      BY <1>5 DEF Deliver
    <2> QED
      BY <1>5, <2>1 DEF HInv, TapTook, SenderHidden
  <1>6. ASSUME NEW p \in plain, LosePlain(p)
        PROVE  plain' = plain \ {p} /\ UNCHANGED <<sent, rcvd>>
    BY <1>6 DEF LosePlain
  <1>7. CASE UNCHANGED <<plain, sent, rcvd>>
    BY <1>7 DEF HInv, TapTook, SenderHidden
  <1>8. CASE \E p \in plain : plain' = plain \ {p} /\ UNCHANGED <<sent, rcvd>>
    BY <1>8 DEF HInv, TapTook, SenderHidden
  <1>9. CASE UNCHANGED vars
    BY <1>7, <1>9 DEF vars, packetVars
  <1> QED
    BY <1>1, <1>2, <1>3, <1>4, <1>5, <1>6, <1>7, <1>8, <1>9 DEF Next, LocalStep

(* Whatever comes out of the tunnel on an ordinary address carries the     *)
(* forwarder's name, also when the servers lead back to the sender.        *)
THEOREM SenderStaysHidden == Spec => []SenderHidden
  <1>1. Init => HInv
    BY InitInv DEF Init, HInv, TapTook, SenderHidden
  <1>2. HInv => SenderHidden
    BY DEF HInv
  <1> QED
    BY <1>1, <1>2, HideStep, PTL DEF Spec

-----------------------------------------------------------------------------
(* The tunnel implements DatagramService: each of its steps is one step of *)
(* the service or none.  Messages and copies first.                        *)

LEMMA SubmittedMessage ==
  ASSUME NEW s \in sent
  PROVE  MessageOf(s.pkt) \in Submitted
  BY DEF Submitted

\* Every datagram that was sent is one that the applications may send.
MInv == IInv /\ \A s \in sent : MessageOf(s.pkt) \in Messages

LEMMA MessageFields ==
  ASSUME NEW p
  PROVE  /\ MessageOf(p).id = p.id /\ MessageOf(p).dst = p.dst
         /\ MessageOf(p).piece = p.piece /\ MessageOf(p).pieces = PieceCount(p)
  BY DEF MessageOf

\* The message of a piece is a part of the whole's.
LEMMA PartMessage ==
  ASSUME NEW p \in Packet, p.piece = 0, NEW k \in 1 .. PieceCount(p)
  PROVE  MessageOf(Fragment(p, k)) = Service!Part(MessageOf(p), k)
  <1>1. k \in Nat /\ k >= 1
    BY Sizes
  <1>2. /\ Fragment(p, k).id = p.id /\ Fragment(p, k).dst = p.dst
        /\ Fragment(p, k).piece = k /\ Fragment(p, k).port = p.port
        /\ PieceCount(Fragment(p, k)) = PieceCount(p)
    BY <1>1, FragmentFields
  <1>3. MessageOf(p) = [id |-> p.id, dst |-> p.dst, port |-> p.port,
                        pieces |-> PieceCount(p), piece |-> 0]
    BY DEF MessageOf
  <1>4. MessageOf(Fragment(p, k)) =
          [id |-> p.id, dst |-> p.dst, port |-> IF k = 1 THEN p.port ELSE 0,
           pieces |-> PieceCount(p), piece |-> k]
    <2> DEFINE q == Fragment(p, k)
    <2>1. /\ q.id = p.id /\ q.dst = p.dst /\ PieceCount(q) = PieceCount(p)
          /\ q.piece = k /\ q.port = p.port
      BY <1>2
    <2> HIDE DEF q
    <2>2. (IF q.piece <= 1 THEN q.port ELSE 0) = (IF k = 1 THEN p.port ELSE 0)
      BY <1>1, <2>1
    <2>3. MessageOf(q) = [id |-> p.id, dst |-> p.dst, port |-> IF k = 1 THEN p.port ELSE 0,
                          pieces |-> PieceCount(p), piece |-> k]
      BY <2>1, <2>2 DEF MessageOf
    <2> QED
      BY <2>3 DEF q
  <1> DEFINE port == IF k = 1 THEN p.port ELSE 0
             n == PieceCount(p)
             m == [id |-> p.id, dst |-> p.dst, port |-> p.port, pieces |-> n, piece |-> 0]
  <1>5. Service!Part(m, k) = [m EXCEPT !.piece = k, !.port = port]
    BY DEF Service!Part
  <1> HIDE DEF port, n
  <1>6. [m EXCEPT !.piece = k, !.port = port] =
          [id |-> p.id, dst |-> p.dst, port |-> port, pieces |-> n, piece |-> k]
    <2> DEFINE S == [id : {p.id}, dst : {p.dst}, port : {p.port, port},
                     pieces : {n}, piece : {0, k}]
               l == [m EXCEPT !.piece = k, !.port = port]
    <2>1. m \in S
      OBVIOUS
    <2> HIDE DEF m
    <2>2. l \in S /\ l.piece = k /\ l.port = port
      BY <2>1
    <2> HIDE DEF l
    <2>3. l = [id |-> l.id, dst |-> l.dst, port |-> l.port,
               pieces |-> l.pieces, piece |-> l.piece]
      BY <2>2
    <2>4. l.id = p.id /\ l.dst = p.dst /\ l.pieces = n
      BY <2>2
    <2> QED
      BY <2>2, <2>3, <2>4 DEF l
  <1> QED
    BY <1>3, <1>4, <1>5, <1>6 DEF port, n

LEMMA PartMessages ==
  ASSUME NEW p \in Packet, p.piece = 0, ~ Fits(p)
  PROVE  /\ Service!Parts(MessageOf(p)) = {MessageOf(q) : q \in Fragments(p)}
         /\ Service!Parts(MessageOf(p)) # {}
  <1>1. PieceCount(p) \in Int /\ PieceCount(p) > 1 /\ MessageOf(p).pieces = PieceCount(p)
    BY Sizes, SeveralPieces, MessageFields
  <1>2. Service!Parts(MessageOf(p)) = {Service!Part(MessageOf(p), k) : k \in 1 .. PieceCount(p)}
    BY <1>1 DEF Service!Parts
  <1>3. {MessageOf(q) : q \in Fragments(p)} = {MessageOf(Fragment(p, k)) : k \in 1 .. PieceCount(p)}
    BY DEF Fragments
  <1>4. 1 \in 1 .. PieceCount(p)
    BY <1>1
  <1> QED
    BY <1>2, <1>3, <1>4, PartMessage

\* Different copies are copies of different messages.
LEMMA CopiesDiffer ==
  ASSUME OneCopy, NEW c \in Copies, NEW d \in Copies, c # d
  PROVE  MessageOf(c[3]) # MessageOf(d[3])
  BY MessageFields DEF OneCopy, Overlap

\* The copies in transit, and what leaves when some of them do.
Moving == {c \in Copies : c[1] # "rcvd"}

LEMMA TransitOfMoving == Transit = {MessageOf(c[3]) : c \in Moving}
  <1>1. \A m \in Transit : \E c \in Moving : m = MessageOf(c[3])
    <2> SUFFICES ASSUME NEW m \in Transit
                 PROVE  \E c \in Moving : m = MessageOf(c[3])
      OBVIOUS
    <2>1. CASE \E f \in tunnel : m = MessageOf(f.inner)
      <3>1. PICK f \in tunnel : m = MessageOf(f.inner)
        BY <2>1
      <3>2. <<"tunnel", f, f.inner>> \in Moving
        BY CopyCases DEF Moving
      <3> QED
        BY <3>1, <3>2
    <2>2. CASE \E p \in plain : m = MessageOf(p)
      <3>1. PICK p \in plain : m = MessageOf(p)
        BY <2>2
      <3>2. <<"plain", p, p>> \in Moving
        BY CopyCases DEF Moving
      <3> QED
        BY <3>1, <3>2
    <2>3. CASE \E w \in waiting : m = MessageOf(w.pkt)
      <3>1. PICK w \in waiting : m = MessageOf(w.pkt)
        BY <2>3
      <3>2. <<"waiting", w, w.pkt>> \in Moving
        BY CopyCases DEF Moving
      <3> QED
        BY <3>1, <3>2
    <2> QED
      BY <2>1, <2>2, <2>3 DEF Transit
  <1>2. \A c \in Moving : MessageOf(c[3]) \in Transit
    <2> SUFFICES ASSUME NEW c \in Moving
                 PROVE  MessageOf(c[3]) \in Transit
      OBVIOUS
    <2>1. \/ c[2] \in tunnel /\ c[3] = c[2].inner
          \/ c[2] \in plain /\ c[3] = c[2]
          \/ c[2] \in waiting /\ c[3] = c[2].pkt
      BY CopyCases DEF Moving
    <2> QED
      BY <2>1 DEF Transit
  <1> QED
    BY <1>1, <1>2

LEMMA Leaving ==
  ASSUME OneCopy, NEW G, G \subseteq Moving, Moving' = Moving \ G
  PROVE  /\ {MessageOf(c[3]) : c \in G} \subseteq Transit
         /\ Transit' = Transit \ {MessageOf(c[3]) : c \in G}
  <1>1. \A c \in Moving, d \in G : c \notin G => MessageOf(c[3]) # MessageOf(d[3])
    BY CopiesDiffer DEF Moving
  <1>2. (Transit = {MessageOf(c[3]) : c \in Moving})'
    BY TransitOfMoving, PTL
  <1> QED
    BY <1>1, <1>2, TransitOfMoving

LEMMA FrameLeaves ==
  ASSUME OneCopy, NEW f \in tunnel, tunnel' = tunnel \ {f}, UNCHANGED <<plain, waiting>>
  PROVE  /\ MessageOf(f.inner) \in Transit
         /\ Transit' = Transit \ {MessageOf(f.inner)}
  <1> DEFINE g == <<"tunnel", f, f.inner>>
  <1>1. g \in Moving /\ Moving' = Moving \ {g}
    BY CopyCases DEF Moving, Copies
  <1>2. {MessageOf(c[3]) : c \in {g}} = {MessageOf(f.inner)}
    OBVIOUS
  <1> HIDE DEF g
  <1> QED
    BY <1>1, <1>2, Leaving

LEMMA PlainLeaves ==
  ASSUME OneCopy, NEW p \in plain, plain' = plain \ {p}, UNCHANGED <<tunnel, waiting>>
  PROVE  /\ MessageOf(p) \in Transit
         /\ Transit' = Transit \ {MessageOf(p)}
  <1> DEFINE g == <<"plain", p, p>>
  <1>1. g \in Moving /\ Moving' = Moving \ {g}
    BY CopyCases DEF Moving, Copies
  <1>2. {MessageOf(c[3]) : c \in {g}} = {MessageOf(p)}
    OBVIOUS
  <1> HIDE DEF g
  <1> QED
    BY <1>1, <1>2, Leaving

LEMMA HandedOver ==
  ASSUME NEW h, NEW p, rcvd' = rcvd \cup {[host |-> h, pkt |-> p]}
  PROVE  Delivered' = Delivered \cup {[host |-> h, msg |-> MessageOf(p)]}
  <1> DEFINE D(r) == [host |-> r.host, msg |-> MessageOf(r.pkt)]
             new == [host |-> h, pkt |-> p]
  <1>1. D(new) = [host |-> h, msg |-> MessageOf(p)]
    OBVIOUS
  <1>2. Delivered = {D(r) : r \in rcvd} /\ Delivered' = {D(r) : r \in rcvd'}
    BY DEF Delivered
  <1>3. rcvd' = rcvd \cup {new}
    OBVIOUS
  <1> HIDE DEF D, new
  <1> QED
    BY <1>1, <1>2, <1>3

-----------------------------------------------------------------------------
(* One IpSend of a packet: it is handed over, it or its pieces stay or     *)
(* come under way, or it is lost.                                          *)
LEMMA IpSendRefines ==
  ASSUME NEW h \in Host, NEW p \in Packet, NEW others, IpSend(h, p, others)
  PROVE  \/ /\ EndpointOf(h, p.dst)
            /\ Delivered' = Delivered \cup {[host |-> h, msg |-> MessageOf(p)]}
            /\ tunnel' = others /\ plain' = plain
         \/ /\ Delivered' = Delivered
            /\ \/ /\ tunnel' = others \cup {Wrap(h, q) : q \in Pieces(p)}
                  /\ plain' = plain
               \/ tunnel' = others /\ plain' = plain \cup {p}
         \/ /\ Delivered' = Delivered
            /\ tunnel' = others /\ plain' = plain
  <1>1. Owns(h, p.dst) => EndpointOf(h, p.dst)
    BY DEF Owns, EndpointOf, TapUp
  <1>2. rcvd' = rcvd => Delivered' = Delivered
    BY DEF Delivered
  <1> QED
    BY <1>1, <1>2, HandedOver, IpSendCases

LEMMA SubmitRefines ==
  ASSUME IInv, NEW i \in Id, NEW d \in Traffic, AppSend(i, d)
  PROVE  Service!ServiceNext
  <1> DEFINE p == AppPacket(i, d)
             m == MessageOf(p)
  <1>1. /\ d.from \in Host /\ p \in Packet /\ p.id = i /\ p.dst = d.dst
        /\ p.port = d.port /\ p.piece = 0 /\ PieceCount(p) = PieceCount(d)
    BY AppPacketTyped
  <1>2. /\ \A s \in sent : s.pkt.id # i
        /\ sent' = sent \cup {[pkt |-> p, route |-> Route(d.from, d.dst)]}
        /\ IpSend(d.from, p, tunnel)
        /\ UNCHANGED waiting
    BY AppSendStep
  <1>3. m \in Messages
    BY <1>1 DEF Messages, MessageOf
  <1>4. m \notin Submitted
    BY <1>1, <1>2, MessageFields DEF Submitted
  <1>5. m.dst = p.dst
    BY MessageFields
  <1> HIDE DEF p, m
  <1>6. Submitted' = Submitted \cup {m}
    <2> DEFINE t == [pkt |-> p, route |-> Route(d.from, d.dst)]
    <2>1. MessageOf(t.pkt) = m
      BY DEF m
    <2>2. sent' = sent \cup {t}
      BY <1>2
    <2> HIDE DEF t
    <2> QED
      BY <2>1, <2>2 DEF Submitted
  <1>7. CASE /\ EndpointOf(d.from, p.dst)
             /\ Delivered' = Delivered \cup {[host |-> d.from, msg |-> m]}
             /\ tunnel' = tunnel /\ plain' = plain
    <2>1. Transit' = Transit
      BY <1>2, <1>7 DEF Transit
    <2>2. Service!SubmitLocal(m, d.from)
      BY <1>4, <1>5, <1>6, <1>7, <2>1 DEF Service!SubmitLocal
    <2> QED
      BY <1>1, <1>3, <2>2 DEF Service!ServiceNext
  <1>8. CASE /\ Delivered' = Delivered
             /\ Transit' \in {Transit, Transit \cup {m}, Transit \cup Service!Parts(m)}
    <2>1. Service!Submit(m)
      BY <1>4, <1>6, <1>8 DEF Service!Submit
    <2> QED
      BY <1>3, <2>1 DEF Service!ServiceNext
  <1>9. tunnel' = tunnel /\ plain' = plain => Transit' = Transit
    BY <1>2 DEF Transit
  <1>10. ASSUME tunnel' = tunnel \cup {Wrap(d.from, q) : q \in Pieces(p)}, plain' = plain
         PROVE  Transit' \in {Transit \cup {m}, Transit \cup Service!Parts(m)}
    <2>1. Transit' = Transit \cup {MessageOf(q) : q \in Pieces(p)}
      <3>1. \A q : Wrap(d.from, q).inner = q
        BY WrapFields
      <3>2. {MessageOf(f.inner) : f \in tunnel'} =
               {MessageOf(f.inner) : f \in tunnel} \cup {MessageOf(q) : q \in Pieces(p)}
        BY <1>10, <3>1
      <3> QED
        BY <1>2, <1>10, <3>2 DEF Transit
    <2>2. CASE IpLoad(p) <= Room
      BY <2>1, <2>2 DEF Pieces, m
    <2>3. CASE ~ (IpLoad(p) <= Room)
      <3>1. ~ Fits(p) /\ Pieces(p) = Fragments(p)
        BY <1>1, <2>3 DEF Pieces, Fits, IpLoad
      <3> QED
        BY <1>1, <2>1, <3>1, PartMessages DEF m
    <2> QED
      BY <2>2, <2>3
  <1>11. ASSUME tunnel' = tunnel, plain' = plain \cup {p}
         PROVE  Transit' = Transit \cup {m}
    BY <1>2, <1>11 DEF Transit, m
  <1>12. \/ /\ EndpointOf(d.from, p.dst)
            /\ Delivered' = Delivered \cup {[host |-> d.from, msg |-> m]}
            /\ tunnel' = tunnel /\ plain' = plain
         \/ /\ Delivered' = Delivered
            /\ \/ /\ tunnel' = tunnel \cup {Wrap(d.from, q) : q \in Pieces(p)}
                  /\ plain' = plain
               \/ tunnel' = tunnel /\ plain' = plain \cup {p}
         \/ /\ Delivered' = Delivered
            /\ tunnel' = tunnel /\ plain' = plain
    BY <1>1, <1>2, IpSendRefines DEF m
  <1> QED
    BY <1>7, <1>8, <1>9, <1>10, <1>11, <1>12

(* What the tap receives is handed over, waits, which nobody notices, or   *)
(* is joined with the pieces that waited.                                  *)
LEMMA TapRefines ==
  ASSUME MInv, NEW f \in tunnel, NEW h \in VpnHost, ReceivePacket(h, f),
         AddressedTo(h, f)
  PROVE  Service!ServiceNext \/ UNCHANGED <<Submitted, Transit, Delivered>>
  <1> DEFINE p == f.inner
             w == Whole(p)
             g == <<"tunnel", f, f.inner>>
             O == {<<"waiting", o, o.pkt>> : o \in OtherPieces(h, p)}
  <1>0. IInv
    BY DEF MInv
  <1>1. /\ h \in Host /\ p \in Packet /\ UNCHANGED <<sent, plain>>
        /\ TapReceives(h, p) /\ tunnel' = tunnel \ {f}
        /\ EndpointOf(h, p.dst)
    BY <1>0, ReceiveStep DEF IInv, AddressedTo, EndpointOf
  <1>2. UNCHANGED Submitted
    BY <1>1 DEF Submitted
  <1>3. g \in Copies /\ HasOrigin(p) /\ (p.frag => p.piece # 0)
    BY <1>0, CopyCases DEF IInv, Sourced, PiecesApart
  <1>4. CASE ~ p.frag /\ rcvd' = rcvd \cup {[host |-> h, pkt |-> p]} /\ waiting' = waiting
    <2>1. Delivered' = Delivered \cup {[host |-> h, msg |-> MessageOf(p)]}
      BY <1>4, HandedOver
    <2>2. MessageOf(p) \in Transit /\ Transit' = Transit \ {MessageOf(p)}
      BY <1>0, <1>1, <1>4, FrameLeaves DEF IInv
    <2>3. Service!HandOver(MessageOf(p), h)
      BY <1>1, <1>2, <2>1, <2>2, MessageFields DEF Service!HandOver
    <2> QED
      BY <1>1, <2>2, <2>3 DEF Service!ServiceNext
  <1>5. CASE p.frag /\ waiting' = waiting \cup {WaitingAt(h, p)} /\ rcvd' = rcvd
    <2>1. WaitingAt(h, p).pkt = p
      BY DEF WaitingAt
    <2>2. UNCHANGED Transit
      BY <1>1, <1>5, <2>1 DEF Transit
    <2>3. UNCHANGED Delivered
      BY <1>5 DEF Delivered
    <2> QED
      BY <1>2, <2>2, <2>3
  <1>6. CASE /\ p.frag /\ OtherPieces(h, p) \subseteq waiting
             /\ waiting' = waiting \ OtherPieces(h, p)
             /\ rcvd' = rcvd \cup {[host |-> h, pkt |-> w]}
    <2> DEFINE G == {g} \cup O
    <2>1. PICK s \in sent : Matches(p, s.pkt)
      BY <1>3 DEF HasOrigin
    <2>2. /\ w \in Packet /\ w.piece = 0 /\ ~ Fits(w) /\ w.dst = p.dst
          /\ p.piece <= PieceCount(w)
      BY <1>1, <1>3, <1>6, <2>1, WholeFields DEF Matches, Fits, PieceCount
    <2>3. p.piece \in 1 .. PieceCount(w)
      BY <1>1, <1>3, <1>6, <2>2, Sizes DEF Packet
    <2>4. Fragments(w) = Fragments(p) /\ p \in Fragments(p)
      <3>1. \A k \in Nat : Fragment(w, k) = Fragment(p, k)
        BY <1>1 DEF Fragment, Whole, Packet
      <3>2. PieceCount(w) = PieceCount(p) /\ PieceCount(p) \in Int
        BY <1>1, WholeFields, Sizes
      <3>3. Fragment(p, p.piece) = p
        BY <1>1, <1>6 DEF Fragment, Packet
      <3> QED
        BY <2>3, <3>1, <3>2, <3>3 DEF Fragments
    <2>5. Service!Parts(MessageOf(w)) = {MessageOf(c[3]) : c \in G}
      <3>1. /\ \A q \in Fragments(p) : q # p => /\ WaitingAt(h, q) \in OtherPieces(h, p)
                                                /\ WaitingAt(h, q).pkt = q
            /\ \A o \in OtherPieces(h, p) : o.pkt \in Fragments(p)
        BY DEF OtherPieces, WaitingAt
      <3>2. \A q \in Fragments(p) : \E c \in G : c[3] = q
        <4> SUFFICES ASSUME NEW q \in Fragments(p)
                     PROVE  \E c \in G : c[3] = q
          OBVIOUS
        <4>1. CASE q = p
          <5>1. g \in G /\ g[3] = p
            OBVIOUS
          <5> QED
            BY <4>1, <5>1
        <4>2. CASE q # p
          <5>1. <<"waiting", WaitingAt(h, q), q>> \in G
            BY <3>1, <4>2
          <5> QED
            BY <5>1
        <4> QED
          BY <4>1, <4>2
      <3>3. \A c \in G : c[3] \in Fragments(p)
        BY <2>4, <3>1
      <3> HIDE DEF G, p, w
      <3>4. {MessageOf(q) : q \in Fragments(p)} = {MessageOf(c[3]) : c \in G}
        BY <3>2, <3>3
      <3> QED
        BY <2>2, <2>4, <3>4, PartMessages
    <2>6. G \subseteq Moving /\ Moving' = Moving \ G
      <3>1. G \subseteq Moving
        BY <1>3, <1>6, CopyCases DEF Moving
      <3>2. \A c \in Moving' : c \in Moving \ G
        BY <1>1, <1>6 DEF Moving, Copies
      <3>3. \A c \in Moving \ G : c \in Moving'
        <4> SUFFICES ASSUME NEW c \in Moving, c \notin G
                     PROVE  c \in Moving'
          OBVIOUS
        <4>1. CASE c[2] \in tunnel /\ c = <<"tunnel", c[2], c[2].inner>>
          BY <1>1, <4>1 DEF Moving, Copies
        <4>2. CASE c[2] \in plain /\ c = <<"plain", c[2], c[2]>>
          BY <1>1, <4>2 DEF Moving, Copies
        <4>3. CASE c[2] \in waiting /\ c = <<"waiting", c[2], c[2].pkt>>
          <5>1. c[2] \in waiting'
            BY <1>6, <4>3
          <5> QED
            BY <4>3, <5>1 DEF Moving, Copies
        <4> QED
          BY <4>1, <4>2, <4>3, CopyCases DEF Moving
      <3> QED
        BY <3>1, <3>2, <3>3
    <2> HIDE DEF G, w
    <2>7. /\ Service!Parts(MessageOf(w)) \subseteq Transit
          /\ Transit' = Transit \ Service!Parts(MessageOf(w))
      BY <1>0, <2>5, <2>6, Leaving DEF IInv
    <2>8. Delivered' = Delivered \cup {[host |-> h, msg |-> MessageOf(w)]}
      BY <1>6, HandedOver
    <2>9. Service!Parts(MessageOf(w)) # {}
      BY <2>2, PartMessages
    <2>10. Service!Join(MessageOf(w), h)
      BY <1>1, <1>2, <2>2, <2>7, <2>8, <2>9, MessageFields DEF Service!Join
    <2>11. MessageOf(w) \in Messages
      <3>1. /\ s.pkt \in Packet /\ s.pkt.piece = 0
        <4>1. MessageOf(s.pkt) \in Messages
          BY DEF MInv
        <4>2. MessageOf(s.pkt).piece = 0
          <5> DEFINE M(j, e) == [id |-> j, dst |-> e.dst, port |-> e.port,
                                 pieces |-> PieceCount(e), piece |-> 0]
          <5>1. PICK j \in Id, e \in Traffic : MessageOf(s.pkt) = M(j, e)
            BY <4>1 DEF Messages
          <5>2. M(j, e).piece = 0
            OBVIOUS
          <5> HIDE DEF M
          <5> QED
            BY <5>1, <5>2
        <4> QED
          BY <1>0, <4>2, MessageFields DEF IInv, TypeOK
      <3>2. /\ w.id = s.pkt.id /\ w.dst = s.pkt.dst /\ w.port = s.pkt.port
            /\ PieceCount(w) = PieceCount(s.pkt)
        BY <1>1, <1>6, <2>1, WholeFields DEF Matches, PieceCount, w
      <3>3. MessageOf(w) = MessageOf(s.pkt)
        BY <2>2, <3>1, <3>2 DEF MessageOf
      <3> QED
        BY <3>3 DEF MInv
    <2> QED
      BY <1>1, <2>10, <2>11 DEF Service!ServiceNext
  <1> QED
    BY <1>1, <1>4, <1>5, <1>6, TapReceivesCases

LEMMA ForwardRefines ==
  ASSUME MInv, NEW f \in tunnel, NEW h \in VpnHost, ReceivePacket(h, f),
         ~ AddressedTo(h, f)
  PROVE  Service!ServiceNext \/ UNCHANGED <<Submitted, Transit, Delivered>>
  <1>0. IInv
    BY DEF MInv
  <1>1. /\ h \in Host /\ f.inner \in Packet /\ UNCHANGED <<sent, waiting>>
    BY <1>0, ReceiveStep DEF IInv
  <1>2. PICK x \in PayloadPort : IpSend(h, Forwarded(h, f.inner, x), tunnel \ {f})
    BY <1>0, ReceiveStep DEF IInv
  <1> DEFINE m == MessageOf(f.inner)
             q == Forwarded(h, f.inner, x)
  <1>3. UNCHANGED Submitted
    BY <1>1 DEF Submitted
  <1>4. /\ q \in Packet /\ q.dst = f.inner.dst /\ IpLoad(q) = IpLoad(f.inner)
        /\ MessageOf(q) = m
    <2>1. /\ q \in Packet /\ q.dst = f.inner.dst /\ IpLoad(q) = IpLoad(f.inner)
          /\ q.id = f.inner.id /\ q.piece = f.inner.piece
          /\ PieceCount(q) = PieceCount(f.inner)
          /\ ~ f.inner.frag \/ f.inner.piece <= 1 => q.port = f.inner.port
      BY <1>1, ForwardedTyped
    <2> HIDE DEF q
    <2> QED
      BY <2>1 DEF MessageOf
  <1>5. Pieces(q) = {q}
    <2>1. IpLoad(f.inner) <= Room
      BY <1>0 DEF IInv, PiecesApart
    <2> QED
      BY <1>4, <2>1 DEF Pieces
  <1>6. m.dst = f.inner.dst
    BY MessageFields
  <1>7. ASSUME tunnel' = tunnel \ {f}, plain' = plain
        PROVE  m \in Transit /\ Transit' = Transit \ {m}
    BY <1>0, <1>1, <1>7, FrameLeaves DEF IInv
  <1>8. IpSend(h, q, tunnel \ {f})
    BY <1>2
  <1> HIDE DEF q, m
  <1>9. CASE /\ EndpointOf(h, q.dst)
             /\ Delivered' = Delivered \cup {[host |-> h, msg |-> MessageOf(q)]}
             /\ tunnel' = tunnel \ {f} /\ plain' = plain
    <2>1. Service!HandOver(m, h)
      BY <1>3, <1>4, <1>6, <1>7, <1>9 DEF Service!HandOver
    <2> QED
      BY <1>1, <1>7, <1>9, <2>1 DEF Service!ServiceNext
  <1>10. CASE /\ Delivered' = Delivered /\ plain' = plain
              /\ tunnel' = (tunnel \ {f}) \cup {Wrap(h, r) : r \in Pieces(q)}
    <2>1. MessageOf(Wrap(h, q).inner) = m
      BY <1>4, WrapFields
    <2>2. tunnel' = (tunnel \ {f}) \cup {Wrap(h, q)}
      BY <1>5, <1>10
    <2> HIDE <1>10
    <2>3. UNCHANGED Transit
      BY <1>1, <1>10, <2>1, <2>2 DEF Transit, m
    <2> QED
      BY <1>3, <1>10, <2>3
  <1>11. CASE Delivered' = Delivered /\ tunnel' = tunnel \ {f} /\ plain' = plain \cup {q}
    <2>1. UNCHANGED Transit
      BY <1>1, <1>4, <1>11 DEF Transit, m
    <2> QED
      BY <1>3, <1>11, <2>1
  <1>12. CASE Delivered' = Delivered /\ tunnel' = tunnel \ {f} /\ plain' = plain
    <2>1. Service!Vanish(m)
      BY <1>3, <1>7, <1>12 DEF Service!Vanish
    <2> QED
      BY <1>7, <1>12, <2>1 DEF Service!ServiceNext
  <1> QED
    BY <1>1, <1>4, <1>8, <1>9, <1>10, <1>11, <1>12, IpSendRefines

LEMMA StepRefines ==
  MInv /\ [Next]_vars =>
     Service!ServiceNext \/ UNCHANGED <<Submitted, Transit, Delivered>>
  <1> SUFFICES ASSUME MInv, [Next]_vars
               PROVE  Service!ServiceNext \/ UNCHANGED <<Submitted, Transit, Delivered>>
    OBVIOUS
  <1>0. IInv
    BY DEF MInv
  <1>1. ASSUME NEW h \in VpnHost, LocalStep(h)
        PROVE  UNCHANGED <<Submitted, Transit, Delivered>>
    BY <1>1, LocalStepLeaves DEF Submitted, Transit, Delivered
  <1>2. ASSUME NEW i \in Id, NEW d \in Traffic, AppSend(i, d)
        PROVE  Service!ServiceNext
    BY <1>0, <1>2, SubmitRefines
  <1>3. ASSUME NEW f \in tunnel, NEW h \in VpnHost, ReceivePacket(h, f)
        PROVE  Service!ServiceNext \/ UNCHANGED <<Submitted, Transit, Delivered>>
    BY <1>3, TapRefines, ForwardRefines
  <1>4. ASSUME NEW f \in tunnel, DropUnheard(f) \/ LoseFrame(f)
        PROVE  Service!ServiceNext
    <2>1. tunnel' = tunnel \ {f} /\ UNCHANGED <<plain, waiting, sent, rcvd>>
      BY <1>4 DEF DropUnheard, LoseFrame
    <2>2. UNCHANGED <<Submitted, Delivered>>
      BY <2>1 DEF Submitted, Delivered
    <2>3. /\ MessageOf(f.inner) \in Transit
          /\ Service!Vanish(MessageOf(f.inner))
      BY <1>0, <2>1, <2>2, FrameLeaves DEF IInv, Service!Vanish
    <2> QED
      BY <2>3 DEF Service!ServiceNext
  <1>5. ASSUME NEW p \in plain, NEW h \in Host, Deliver(h, p)
        PROVE  Service!ServiceNext
    <2>1. /\ p.dst \in Phys[h] /\ plain' = plain \ {p}
          /\ rcvd' = rcvd \cup {[host |-> h, pkt |-> p]}
          /\ UNCHANGED <<tunnel, waiting, sent>>
      BY <1>5 DEF Deliver
    <2>2. EndpointOf(h, MessageOf(p).dst)
      BY <2>1, MessageFields DEF EndpointOf
    <2>3. UNCHANGED Submitted
      BY <2>1 DEF Submitted
    <2>4. Delivered' = Delivered \cup {[host |-> h, msg |-> MessageOf(p)]}
      BY <2>1, HandedOver
    <2>5. MessageOf(p) \in Transit /\ Transit' = Transit \ {MessageOf(p)}
      BY <1>0, <2>1, PlainLeaves DEF IInv
    <2>6. Service!HandOver(MessageOf(p), h)
      BY <2>2, <2>3, <2>4, <2>5 DEF Service!HandOver
    <2> QED
      BY <2>5, <2>6 DEF Service!ServiceNext
  <1>6. ASSUME NEW p \in plain, LosePlain(p)
        PROVE  Service!ServiceNext
    <2>1. plain' = plain \ {p} /\ UNCHANGED <<tunnel, waiting, sent, rcvd>>
      BY <1>6 DEF LosePlain
    <2>2. UNCHANGED <<Submitted, Delivered>>
      BY <2>1 DEF Submitted, Delivered
    <2>3. /\ MessageOf(p) \in Transit
          /\ Service!Vanish(MessageOf(p))
      BY <1>0, <2>1, <2>2, PlainLeaves DEF IInv, Service!Vanish
    <2> QED
      BY <2>3 DEF Service!ServiceNext
  <1>7. CASE UNCHANGED vars
    BY <1>7 DEF vars, packetVars, Submitted, Transit, Delivered
  <1> QED
    BY <1>1, <1>2, <1>3, <1>4, <1>5, <1>6, <1>7 DEF Next, LocalStep

LEMMA MessagesInvariant == Spec => []MInv
  <1>1. Init => MInv
    BY InitInv DEF Init, MInv
  <1>2. MInv /\ [Next]_vars => MInv'
    <2> SUFFICES ASSUME MInv, [Next]_vars
                 PROVE  \A s \in sent' : MessageOf(s.pkt) \in Messages
      BY InvStep DEF MInv, MessageOf, Messages
    <2>1. ASSUME NEW i \in Id, NEW d \in Traffic, AppSend(i, d)
          PROVE  \A s \in sent' : MessageOf(s.pkt) \in Messages
      <3>1. MessageOf(AppPacket(i, d)) \in Messages
        BY AppPacketTyped DEF MessageOf, Messages
      <3> QED
        BY <2>1, <3>1, AppSendStep DEF MInv
    <2>2. CASE UNCHANGED sent
      BY <2>2 DEF MInv
    <2>3. UNCHANGED sent \/ \E i \in Id, d \in Traffic : AppSend(i, d)
      BY LocalStepLeaves
      DEF Next, LocalStep, vars, packetVars, ReceivePacket, DropUnheard, Deliver,
          LoseFrame, LosePlain
    <2> QED
      BY <2>1, <2>2, <2>3
  <1> QED
    BY <1>1, <1>2, PTL DEF Spec

(* The tunnel is an unreliable datagram service: it may lose and reorder,  *)
(* it never duplicates, invents or misdelivers a message, in one piece or  *)
(* in several, and how many servers a message passes is invisible.         *)
THEOREM TunnelImplementsService == Spec => ImplementsService
  <1>1. Init => Service!ServiceInit
    BY DEF Init, Service!ServiceInit, Submitted, Transit, Delivered
  <1>2. MInv /\ [Next]_vars => [Service!ServiceNext]_Service!serviceVars
    BY StepRefines DEF Service!serviceVars
  <1> QED
    BY <1>1, <1>2, MessagesInvariant, PTL
    DEF Spec, ImplementsService, Service!ServiceSpec
=============================================================================
