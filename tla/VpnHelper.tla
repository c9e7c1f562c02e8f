------------------------------ MODULE VpnHelper ------------------------------
(***************************************************************************)
(* VPNHelper builds the attributes of a VPNApplication before the          *)
(* simulation starts.  A factory is a record with one field per attribute  *)
(* of VPNApplication::GetTypeId; the constructors set some of the fields   *)
(* and leave the others at their defaults.                                 *)
(*                                                                         *)
(* Addresses are the 32-bit numbers of ns3::Ipv4Address.  A mask is        *)
(* represented by the number of addresses of its block (256 for            *)
(* 255.255.255.0).                                                         *)
(***************************************************************************)
EXTENDS Naturals

CONSTANT DefaultKey    \* "12345678901234567890123456789012"

\* The value of a default-constructed ns3::Ipv4Address, 102.102.102.102.
UnsetAddress == 1717986918

IP(a, b, c, d) == a * 16777216 + b * 65536 + c * 256 + d

Port == 0 .. 65535

Defaults ==
  [ServerAddress |-> UnsetAddress, ClientAddress |-> UnsetAddress,
   ServerPort |-> 1194, ClientPort |-> 50000,
   ServerMask |-> 256, CipherKey |-> DefaultKey]

SetAttribute(factory, name, value) == [factory EXCEPT ![name] = value]

\* slip: the default is kept unless the port is 0.
WithServerPortInverted(factory, serverPort) ==
  IF serverPort = 0 THEN SetAttribute(factory, "ServerPort", serverPort)
                    ELSE factory

\* A server port of 0 asks for the default.
WithServerPort(factory, serverPort) ==
  IF serverPort # 0 THEN SetAttribute(factory, "ServerPort", serverPort)
                    ELSE factory

\* VPNHelper(clientIp, clientPort): a node that only serves.
ServerHelper(clientIp, clientPort) ==
  [Defaults EXCEPT !.ClientAddress = clientIp, !.ClientPort = clientPort]

\* VPNHelper(clientIp, clientPort, cipherKey)
KeyedServerHelper(clientIp, clientPort, cipherKey) ==
  SetAttribute(ServerHelper(clientIp, clientPort), "CipherKey", cipherKey)

\* VPNHelper(serverIp): everything but the server is left at its default.
BareHelper(serverIp) == SetAttribute(Defaults, "ServerAddress", serverIp)

\* VPNHelper(serverIp, serverPort, clientPort): the client has no VPN address.
PortsHelper(serverIp, serverPort, clientPort) ==
  SetAttribute(WithServerPort(BareHelper(serverIp), serverPort),
               "ClientPort", clientPort)

\* slip: the client's VPN address is forgotten.
ClientHelperNoAddress(serverIp, clientIp, serverPort, clientPort) ==
  PortsHelper(serverIp, serverPort, clientPort)

\* VPNHelper(serverIp, clientIp, serverPort, clientPort)
ClientHelper(serverIp, clientIp, serverPort, clientPort) ==
  SetAttribute(PortsHelper(serverIp, serverPort, clientPort),
               "ClientAddress", clientIp)

\* VPNHelper(serverIp, clientIp, serverPort, clientPort, cipherKey)
KeyedClientHelper(serverIp, clientIp, serverPort, clientPort, cipherKey) ==
  SetAttribute(ClientHelper(serverIp, clientIp, serverPort, clientPort),
               "CipherKey", cipherKey)
==============================================================================
