--------------------------- MODULE DatagramService ---------------------------
(***************************************************************************)
(* What the tunnel promises to the applications of its nodes: an           *)
(* unreliable datagram service.  A message may be lost, and messages may   *)
(* overtake each other, but one that is handed over was sent, is handed    *)
(* over once, and to a node its destination address stands for.  A message *)
(* may set out in pieces, each of which is from then on a message of its   *)
(* own, unless all of them are put together again.                         *)
(***************************************************************************)
EXTENDS Naturals

CONSTANTS Host,            \* the nodes
          Message,         \* messages, each with an address dst, a port, the
                           \* number of pieces it may be cut into, and piece 0
          Endpoint(_, _)   \* Endpoint(h, a): a is an address of node h

VARIABLES submitted,   \* the messages that were sent
          transit,     \* those of them, or their pieces, that may still be
                       \* handed over
          delivered    \* those handed over, and where

serviceVars == <<submitted, transit, delivered>>

\* The pieces of m, none if it is never cut.  Only the first has its port.
Part(m, k) == [m EXCEPT !.piece = k, !.port = IF k = 1 THEN @ ELSE 0]
Parts(m) == {Part(m, k) : k \in {j \in 1 .. m.pieces : m.pieces > 1}}

ServiceInit == submitted = {} /\ transit = {} /\ delivered = {}

\* m sets out as a whole or in pieces, unless it is lost at once.
Submit(m) ==
  /\ m \notin submitted
  /\ submitted' = submitted \cup {m}
  /\ transit' \in {transit, transit \cup {m}, transit \cup Parts(m)}
  /\ UNCHANGED delivered

\* m is sent by a node to itself and handed over on the spot.
SubmitLocal(m, h) ==
  /\ m \notin submitted
  /\ Endpoint(h, m.dst)
  /\ submitted' = submitted \cup {m}
  /\ delivered' = delivered \cup {[host |-> h, msg |-> m]}
  /\ UNCHANGED transit

\* m is a message or a piece of one.
HandOver(m, h) ==
  /\ m \in transit
  /\ Endpoint(h, m.dst)
  /\ transit' = transit \ {m}
  /\ delivered' = delivered \cup {[host |-> h, msg |-> m]}
  /\ UNCHANGED submitted

\* All pieces of m have come to h, which makes one of them.
Join(m, h) ==
  /\ Parts(m) # {} /\ Parts(m) \subseteq transit
  /\ Endpoint(h, m.dst)
  /\ transit' = transit \ Parts(m)
  /\ delivered' = delivered \cup {[host |-> h, msg |-> m]}
  /\ UNCHANGED submitted

Vanish(m) ==
  /\ m \in transit
  /\ transit' = transit \ {m}
  /\ UNCHANGED <<submitted, delivered>>

ServiceNext ==
  \/ \E m \in Message :
       \/ Submit(m)
       \/ \E h \in Host : SubmitLocal(m, h) \/ Join(m, h)
  \/ \E m \in transit :
       \/ Vanish(m)
       \/ \E h \in Host : HandOver(m, h)

ServiceSpec == ServiceInit /\ [][ServiceNext]_serviceVars
==============================================================================
