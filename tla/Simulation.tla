----------------------------- MODULE Simulation -----------------------------
(***************************************************************************)
(* One run of Simulator::Run over what a main has built: the tunnel, the   *)
(* starts and stops of applications at their times, the traffic and the    *)
(* meters.                                                                 *)
(* What a sniffer on the way of the frames makes of them is an operator:   *)
(* it keeps no state.                                                      *)
(*                                                                         *)
(* The clock stands at a moment, and the actions taken there are the       *)
(* events from that moment until just before the next one.  Starts and     *)
(* stops come first: ns-3 schedules them before any packet.  Moments are   *)
(* a second or more apart, and what is sent at one has arrived before the  *)
(* next but one: the links deliver in milliseconds.                        *)
(***************************************************************************)
EXTENDS Scenarios, FiniteSetsExt

CONSTANTS
  Main,      \* the mains that are run
  Moment,    \* the times looked at; bounds the clock
  Quota,     \* bounds the datagrams that a client sends
  TapMtu,    \* see VPNApplication
  SnifferKey,   \* the key a sniffer tries, 32 zeros
  noText,       \* what no text and no cipher text is
  Key, Text, plainText, encryption(_, _), decryption(_, _)   \* see VpnHeader

VARIABLES
  main,      \* the main that runs
  losing,    \* whether links lose packets this time
  now,       \* Simulator::Now
  over,      \* Run has returned
  heard,     \* what the sinks received, and in which flow it was counted
  m_clientInterface, m_clientSocket, m_serverAddress, m_serverPort,
  m_cipherKey, tunnel, plain, waiting, sent, rcvd    \* see VPNApplication

simVars == <<main, losing, now, over, heard>>
netVars == <<m_clientInterface, m_clientSocket, m_serverAddress, m_serverPort,
             m_cipherKey, tunnel, plain, waiting, sent, rcvd>>
vars == <<simVars, netVars>>

(* Every second is looked at, from the first until the clock's bound.      *)
(* 1500 is the MTU of a tap; the other value makes 3 pieces of what comes  *)
(* in 34 then.                                                             *)
ASSUME RunAssumption ==
  /\ Main \subseteq DOMAIN Scenario
  /\ Quota \in Nat
  /\ TapMtu \in {1500, 20020}
  /\ Moment \subseteq Nat /\ 0 \in Moment
  /\ \A t \in Moment : 0 .. t \subseteq Moment

Id == [client : Node, number : 1 .. Quota, at : Moment]

(* The tunnel of main m.  Nothing in a main calls a setter, and what its   *)
(* applications send is zeros.                                             *)
Tunnel(m) == INSTANCE VPNApplication WITH
  Host <- Node, VpnHost <- DOMAIN Attributes[m], Phys <- Addresses[m],
  Config <- Attributes[m], Traffic <- Datagrams[m], PayloadPort <- {0},
  Lossy <- m \in MayLose,
  Retargets <- [h \in DOMAIN Attributes[m] |-> {}],
  Rekeys <- [h \in DOMAIN Attributes[m] |-> {}]

(* What the tunnel assumes of a topology holds in every main, so what is   *)
(* proved of the tunnel is true of them.                                   *)
ASSUME MainAssumption ==
  \A m \in Main :
     /\ Tunnel(m)!TopologyAssumption /\ Tunnel(m)!AddressAssumption
     /\ Tunnel(m)!TrafficAssumption /\ Tunnel(m)!MtuAssumption

vpns == Scenario[main].vpns
clients == Scenario[main].clients
sinks == Scenario[main].sinks
stopAt == Scenario[main].stopAt

-----------------------------------------------------------------------------
Stopping == stopAt # 0 /\ now >= stopAt

\* The starts and stops that are due have been carried out.
Settled ==
  \A v \in vpns :
     /\ now >= v.start => m_clientInterface[v.node] # "none"
     /\ now >= v.stop => m_clientInterface[v.node] = "down"

Running == ~ over /\ ~ Stopping
Busy == Running /\ Settled

Active(app) == app.start <= now /\ now < app.stop

UnderWay == {f.inner : f \in tunnel} \cup plain

Init ==
  /\ main \in Main
  /\ losing \in {FALSE, (main \in MayLose)}
  /\ now = 0
  /\ over = FALSE
  /\ heard = {}
  /\ \E m \in Main : main = m /\ Tunnel(m)!Init

Start(m, v) ==
  /\ Running /\ now = v.start
  /\ Tunnel(m)!StartApplication(v.node)
  /\ UNCHANGED simVars

Stop(m, v) ==
  /\ Running /\ now = v.stop
  /\ Tunnel(m)!StopApplication(v.node)
  /\ UNCHANGED simVars

\* Datagram p comes to a VPN socket, although it is no frame.
TakenForFrame(p) ==
  \E v \in vpns :
     /\ p.dst \in Addresses[main][v.node] /\ p.port = v.attributes.ClientPort
     /\ m_clientSocket[v.node] = "open"

(* StopApplication of a node that never started follows a null pointer, and *)
(* ReceivePacket cuts up whatever it is handed, also a piece that has no   *)
(* room for a UDP header; SendPacket to a server behind its own tap never  *)
(* returns.  There the program ends.                                       *)
Crashing ==
  \/ \E v \in vpns : v.stop <= now /\ now < v.start
  \/ \E p \in plain : TakenForFrame(p)
  \/ \E m \in {n \in Main : main = n} :
       \/ \E f \in tunnel : ~ Tunnel(m)!HasHeaders(f.inner)
       \/ \E v \in vpns : Tunnel(m)!TapUp(v.node) /\ Tunnel(m)!Circular(v.node)

\* Client c sends its next datagram.
Send(m, c) ==
  LET number == Cardinality({s \in sent : s.pkt.id.client = c.node}) + 1
  IN  /\ Busy /\ Active(c) /\ number <= Quota
      /\ Tunnel(m)!AppSend([client |-> c.node, number |-> number, at |-> now],
           [from |-> c.node, dst |-> c.dst, port |-> c.port, proto |-> "udp", size |-> c.size])
      /\ UNCHANGED simVars

(* The source address that host sees in a packet of node: that of the      *)
(* interface through which it comes, or the only one.                      *)
SourceAddress(node, host) ==
  LET near == {a \in Addresses[main][node] :
                 \E b \in Addresses[main][host] : a \div 256 = b \div 256}
  IN  CHOOSE a \in Addresses[main][node] : near = {} \/ a \in near

\* An active sink counts what its node's transport protocol is handed.
Rx(m) ==
  /\ heard' = heard \cup
       {[id |-> r.pkt.id, size |-> Tunnel(m)!IpLoad(r.pkt) - Tunnel(m)!UdpHeaderSize,
         flow |-> FlowOf(main, r.pkt.port, SourceAddress(r.pkt.from, r.host))] :
          r \in {q \in rcvd' \ rcvd :
                   \E k \in sinks : Active(k) /\ k.node = q.host /\ k.port = q.pkt.port}}
  /\ UNCHANGED <<main, losing, now, over>>

FrameArrives(m, f) ==
  /\ Busy
  /\ \/ Tunnel(m)!DropUnheard(f)
     \/ \E v \in vpns : Tunnel(m)!ReceivePacket(v.node, f)
  /\ Rx(m)

DatagramArrives(m, p) ==
  /\ Busy /\ ~ TakenForFrame(p)
  /\ \E h \in Node : Tunnel(m)!Deliver(h, p)
  /\ Rx(m)

Lose(m, p) ==
  /\ Busy /\ losing
  /\ \/ Tunnel(m)!LosePlain(p)
     \/ \E f \in tunnel : f.inner = p /\ Tunnel(m)!LoseFrame(f)
  /\ UNCHANGED simVars

Tick ==
  /\ Busy /\ \A p \in UnderWay : p.id.at = now
  /\ \E t \in Moment :
       /\ t > now /\ \A u \in Moment : u > now => t <= u
       /\ now' = t
  /\ UNCHANGED <<main, losing, over, heard, netVars>>

\* Run returns when it was told to stop, or when no event is left.
Return ==
  /\ ~ over
  /\ \/ Stopping
     \/ /\ Settled /\ UnderWay = {} /\ ~ Scenario[main].beacons
        /\ \A app \in clients \cup sinks : now >= app.stop
        /\ \A v \in vpns : now >= v.stop
  /\ over' = TRUE
  /\ UNCHANGED <<main, losing, now, heard, netVars>>

Next ==
  \/ \E m \in {n \in Main : main = n} :
       \/ \E v \in vpns : Start(m, v) \/ Stop(m, v)
       \/ \E c \in clients : Send(m, c)
       \/ \E f \in tunnel : FrameArrives(m, f)
       \/ \E p \in plain : DatagramArrives(m, p)
       \/ \E p \in UnderWay : Lose(m, p)
  \/ Tick \/ Return

Spec == Init /\ [][Next]_vars

\* Run processes events as long as it has any.
FairSpec == Spec /\ WF_vars(Next)

-----------------------------------------------------------------------------
(* Sniffers *)

(* A character of a text, or a byte of something else, is the text with a  *)
(* position.                                                               *)
Bytes(text, n) == [k \in 1 .. n |-> <<text, k>>]

(* A frame as the trace of a point-to-point device shows it: the headers   *)
(* of the link, of IP and of UDP, and the VpnHeader.                       *)
Traced(f) ==
  Bytes(noText, 2 + 20 + 8) \o Bytes(f.hdr.m_sentOrigin, 32) \o Bytes(f.hdr.m_encrypted, 32)

TextIn(bytes) ==
  IF \E t \in Text : bytes = Bytes(t, 32) THEN bytes[1][1] ELSE noText

\* RemoveHeader takes the two texts from the front of a packet.
RemoveHeader(bytes) ==
  [m_sentOrigin |-> TextIn(SubSeq(bytes, 1, 32)),
   m_encrypted |-> TextIn(SubSeq(bytes, 33, 64))]

\* The source and destination that Sniffer prints, if any.
Sniffer(f) ==
  LET vpnHeader == RemoveHeader(Traced(f))
  IN  {a \in {<<f.inner.from, f.inner.dst>>} :
         decryption(vpnHeader.m_encrypted, SnifferKey) = vpnHeader.m_sentOrigin}

-----------------------------------------------------------------------------
(* Properties *)

(* Whatever a VPN client sends in one of the simulations goes through its  *)
(* tap, and nothing another node sends does: the client is started before  *)
(* its traffic, outlives it, and its tap covers the sink's address.        *)
AlwaysTunnelled ==
  \A s \in sent :
     (s.route = "tap") <=> (\E v \in vpns : v.node = s.pkt.from)

(* No simulation stops a VPN node that was never started; no ordinary      *)
(* datagram reaches a VPN socket, also not one that was forwarded to a     *)
(* port made of payload; no piece is too short for the headers that are    *)
(* removed; and no tap sends to a server behind itself.                    *)
NeverCrashes == Running => ~ Crashing

(* The first time at which something that a datagram needs goes away.      *)
Closing == Min(({app.stop : app \in vpns \cup sinks} \cup {stopAt}) \ {0})

\* How much of a datagram gets through: a tap's first piece, if it is cut.
Through(s) == IF s.route = "tap" THEN Min({s.pkt.size, TapMtu - 28}) ELSE s.pkt.size

(* If no link loses anything, every datagram that was sent a second before *)
(* the applications stop is received by a sink when Run returns, through   *)
(* the tunnel or not: addresses, masks, ports and times of the main fit    *)
(* together.  Of a datagram too large for the tap it is the first piece.   *)
(* (What is sent later may come when the sink has closed.)                 *)
EveryoneServed ==
  over /\ ~ losing =>
    \A s \in sent : s.pkt.id.at + 1 < Closing =>
       \E r \in heard : r.id = s.pkt.id /\ r.size = Through(s)

(* The performance tests compare what they say they compare: flow 0 counts *)
(* what came through the tunnel and all of that, flow 1 the rest, although *)
(* the sink only sees a port or the address of the last node that sent.    *)
MeterSeparates ==
  main \in Metered =>
    \A r \in heard : \A s \in sent :
       s.pkt.id = r.id => r.flow = (IF s.route = "tap" THEN 0 ELSE 1)

(* Simulator::Run returns in every main: where Simulator::Stop only comes  *)
(* after it, because at some time no event is left.                        *)
RunReturns == <>over

(* README, "Sniffing Test": all packets that pass are sniffed, and if that *)
(* is successful, the source and destination are printed.  It should be    *)
(* successful with the key of the tunnel.                                  *)
SniffingNeedsTheKey ==
  \A f \in tunnel :
     decryption(f.hdr.m_encrypted, SnifferKey) = f.hdr.m_sentOrigin
     => Sniffer(f) = {<<f.inner.from, f.inner.dst>>}

(* README, "IP forwarding": the headers are removed, and the payload is    *)
(* forwarded to the destination.  Then what a sink hears is what was sent. *)
PayloadKept ==
  \A r \in heard : \A s \in sent : s.pkt.id = r.id => r.size = s.pkt.size
=============================================================================
