# Formal model of the ns-3 VPN application

This directory is a TLA+ development of the VPN application of this repository:
modules translated from the sources, configurations with which TLC checks them
on small instances, and theorems checked by the TLA+ proof system (TLAPS).
`PROJECT.json` lists the components, runs, mutants, hazards and theorems, and
maps every definition to the source lines it stands for.

## 1. Inventory of the system

The program is a simulation: ns-3 (not in the repository) supplies nodes, IP
stacks, links, sockets and a clock, and runs one event at a time. The code adds
the parts below. `A:` is `src/applications/model/vpn-application.cc`, `E:` is
`src/internet/model/vpn-aes.cc`.

**VPNApplication** (`A`), one per VPN node; client and server are the same class.
- State: the tap (`m_clientTap`, up or down), the UDP socket, the server's address
  and port, the key, and attributes that never change after the start.
- Operations: `StartApplication` (creates tap and socket, sets the interface up),
  `StopApplication`, `SendPacket` (what IP routes to the tap is put behind a
  `VpnHeader` and sent to the server), `ReceivePacket` (a frame's inner packet goes
  to the own tap or its payload is sent on), `SetServer` (two forms), `SetCipherKey`.
- Interaction: ns-3 calls `SendPacket` from IP output and `ReceivePacket` from the
  socket; both call `SendTo`, which goes through IP output again and may come back
  to the same node's tap.
- Hard: frames under way while nodes start, stop or change server and key; loss and
  reordering; several servers in a row or in a circle; `SendTo` failing silently; datagrams
  that are cut because they are too large for the tap.
- Correct if: no datagram is doubled or misdelivered; payloads survive; a tap
  delivers from another node only what was wrapped with its key; a sender that
  tunnels is not seen outside the tunnel; a stopped node is quiet; what is sent arrives.

**VPNHelper**: a factory of attributes. Six constructors, `SetAttribute`, `Install`.
Correct if each constructor sets the fields it names and leaves the rest at their defaults.

**VpnHeader**: two texts of 32 characters, a text and its cipher text.
`EncryptInput`, `DecryptInput`, `Serialize`, `Deserialize`. Called by VPNApplication
and the sniffers; calls AES.

**AES** (`E`, `vpn-aes.h`): key length and mode are fixed; in mode CBC the object keeps
`iv_` and, during a call, `phiv_`.
- Operations: `encryption`, `decryption`, `setIV`, and under them key expansion,
  round functions, byte arithmetic and the cutting of hex texts into blocks.
- Hard: C macros on ints, `uint8_t` counters at 256, padding that looks like text,
  the object's memory between calls.
- Correct if: the cipher is the standard one; decryption undoes encryption, for one
  block and for a text, whatever calls came before; no vector is overrun.

**Throughput meters** (`RxTime`, `Throughput` in `scratch/*-performance-test.cc`):
callbacks with static counters per flow. Correct if the reported rates are right:
reports neither overlap nor leave gaps and are made in time.

**Mains** (`scratch/*.cc`): five programs that build a topology, install VPN nodes,
traffic sources and sinks with start and stop times, and call `Simulator::Run`.
- Hard: what starts and stops at the same second; applications of different mains that
  have to fit in addresses, masks and ports; `Simulator::Stop` after `Run` in three of them.
- Correct if: the client's traffic is tunnelled from its first datagram to its last,
  nothing else is; it reaches the sink and is metered in its flow; `Run` returns.

**Sniffers** (`Sniffer` in `sniffing-test.cc`, `sniffing-wifi-test.cc`): a callback without
state on a link's packets. Correct if it sees through the tunnel when it has the key.

**Build files**: lists and an image recipe.

## 2. Modules

| Module | Models | Used by |
|---|---|---|
| `VpnHelper` | factory, constructors, defaults | `VPNApplication`, `Scenarios` |
| `VpnHeader` | header; the cipher is a constant with assumptions | `VPNApplication` |
| `VPNApplication` | VPN nodes, applications, the network between them | `MCVPNApplication`, proofs |
| `DatagramService` | abstract: an unreliable datagram service, in which a message may travel in pieces | `VPNApplication` (refinement) |
| `Scenarios` | what the five mains build; which flow a meter counts for | `Simulation` |
| `Simulation` | one run of a main: `VPNApplication`, clock, starts and stops, traffic, sinks; the sniffers | `MCSimulation`, proofs |
| `AesBytes` | xor, `multiply`, matrix factors, tables | `AesRounds`, `GaloisField` |
| `GaloisField` | abstract: the field and the affine map of the standard | `MCAesBytes`, proofs |
| `AesRounds` | `_expandKey`, `_encryption`, `_decryption` as functions of key and block | `AesBlock`, `AesTexts` |
| `AesBlock` | the same, an action for each word and each round | `MCAesBlock`, proofs |
| `BlockCipher` | what the modes need of one block's cipher | `CipherModes`, `AesRounds` |
| `CipherModes` | an AES object: `encryption`, `decryption`, `setIV` | `MCCipherModes`, proofs |
| `HexText` | conversions between characters, bytes and digits | `AesTexts` |
| `AesTexts` | texts into blocks, padding, and back; `encryption` and `decryption` (mode ECB) as functions of text and key | `InputBlocks` |
| `InputBlocks` | the same, an action for each block; directly, in a `VpnHeader`, or written in hex first | `MCInputBlocks`, proofs |
| `ThroughputMeter` | the meters | `MCThroughputMeter`, proofs |

The proofs about a module `M` are in `MProofs`; those about the functions of
`AesRounds` are in `AesTextsProofs`, which rests on the byte lemmas of `AesBytesProofs` and
serves `AesBlockProofs` and `InputBlocksProofs`.

The four layers of AES are separate because they are independent: `AesBytes` is
arithmetic; `AesRounds` and `AesBlock` take one block through it; `CipherModes` needs of a
block cipher only that it can be undone (`BlockAssumption` of `BlockCipher`), which is a
theorem about `AesRounds` (`AesIsABlockCipher`); and `InputBlocks` represents a cipher text by
the blocks that were enciphered, which is justified by `ComputesTexts`: what its steps come to
is what `AesTexts` computes with the rounds of the cipher.
`VpnHeader` needs of all of them that its one text survives a round trip with the
same key and no other. The first is a theorem (`HeaderFitsTunnel`). That no *other* key
turns the text back is a property of a good cipher and stays an assumption (`NoOtherKey`); TLC
evaluates it for the default key and the one the sniffers try, with the real rounds.

### VPNApplication

One action per event. Each handler is one action with all it calls, because the
simulator does not interrupt it: `AppSend` is an application's send with the IP
output, the tap's `SendPacket` and its `SendTo` inside; `ReceivePacket` includes
the forwarding `SendTo`, which may be wrapped again by the same node's tap.
Frames under way are the set `tunnel`, other datagrams the set `plain`; a link
may reorder and (with `Lossy`) lose them. `sent` and `rcvd` are history variables
for the properties. Routing is what ns-3 does with the interfaces this code
creates: own address first, then the network route of the tap, then the global
routes (`Route`); `SendToSucceeds` says when `SendTo` refuses.
Addresses and masks are numbers, a datagram has an identity and a size, and
payloads are either what was sent or "begins with a piece of a TCP header".

`StartApplication` (`A:172-174`) leaves the MTU of the tap at ns-3's default, 1500
(`TapMtu`). So ns-3's IP layer cuts what is larger, a UDP payload above 1472 bytes, before
`SendPacket` sees it, and calls `SendPacket` for each fragment (`Pieces`); each goes into a
frame of its own. What becomes of a piece depends on the node that opens the frame:
- a tap to which it is addressed gives it to its node's IP layer, where it waits for the
  others (`waiting`) and is put together when the last has come (`TapReceives`);
- a node that forwards it takes an IP header and 8 bytes off (`A:150-151`) and sends on the
  rest as a datagram of its own. In the first piece these 8 bytes are the UDP header; in a
  later one they are payload, and so is the port (`Forwarded`, with the possible values of
  such bytes in `PayloadPort`). A last piece of less than 8 bytes does not survive
  `RemoveHeader` (`HasHeaders`).

Of a TCP segment `A:151` takes 8 bytes as well, and what is left, in a UDP datagram, still begins
with a piece of the TCP header; `Faithful` says so, although `README.md:162` speaks of the
whole TCP/UDP header. No main sends TCP.

A packet of the model therefore has a number, `piece` (0 if it was never cut), and says
whether it still is an IP fragment (`frag`). Ordinary links cut and reassemble too, the
frames among other things, but there no code of this repository sees the pieces; a datagram
arrives as a whole or not at all.

A server inside its client's own tap network (`Circular`) sends each frame back into the tap
it came from: `SendPacket` calls `SendTo`, which calls `SendPacket`, without end. The
program does not come out of that call, so there is no step, and `NeverCrashes` counts it
among the crashes.

The definitions marked *slip* in the modules are not part of the model. Each is
what a plausible mistake in the code would make of the definition after it and
shows, put in its place, that the property it is listed with can fail.

### Scenarios and Simulation

`Scenarios` holds the mains as data: links with the nodes in the order in which they are
given addresses, VPN applications with the attributes their constructor makes and their
times, traffic and sinks. The mains with Wi-Fi differ in times and senders only. Options
of the command line have their defaults.

`Simulation` composes it with the tunnel: `Tunnel(m)` is `VPNApplication` with the
topology of main `m`, and each action is one of the tunnel's, guarded by what decides
in a simulation when it happens, and followed by what the sinks make of it:

| Action | Is |
|---|---|
| `Start`, `Stop` | `StartApplication`, `StopApplication` at their second |
| `Send` | `AppSend`, by an application between its start and stop |
| `FrameArrives`, `DatagramArrives` | `ReceivePacket`, `DropUnheard`, `Deliver`, and the sink's `Rx` trace with the choice of a flow by `RxTime` or `Throughput` |
| `Lose` | `LoseFrame`, `LosePlain`, where links are loaded or radio |
| `Tick` | the clock to the next second |
| `Return` | `Run` returns: stopped, or out of events |

Order in a second: ns-3 schedules starts and stops when the simulation is initialised,
before any packet, and an on-off source sends its first datagram some time after its
start. So starts and stops of a second come before its traffic (`Settled`); this is
taken from ns-3 and not checked, and `AlwaysTunnelled` says what follows from it for the
mains. What is sent in one second may
arrive in the next, as a link needs microseconds and a lost radio frame is repeated
for milliseconds. `MainAssumption` is evaluated in the runs: each main meets the
assumptions of `VPNApplication`, and `SimulationRunsTheTunnel` proves that a run of a main
is a behaviour of it, so the theorems about the tunnel hold in all five.

A sniffer keeps no state, so `Sniffer` is an operator on a frame under way. What the
trace hands it is a sequence of named bytes (`Traced`), from whose front
`RemoveHeader` takes 64.

### CipherModes, InputBlocks, AesBlock, ThroughputMeter

`CipherModes`: one action per loop iteration of `encryption` and `decryption`, one
for each beginning and return; `made` is a history variable of results.
`InputBlocks`: the same loops for one text, with the reads outside a vector, those of
`Serialize` outside a text (it takes 32 characters of each, so needs 31 and the final zero:
`Serializable`) and the loop that never ends as the action `breakDown`, after which
nothing is modelled, and
the check of the key's length, which a release build drops, as the action `checkKey`.
A use of the class is a record `Call`: the text goes in as it is and comes back from
decryption, travels in a `VpnHeader` (32 characters of it and of the cipher text), or is
plain text that `convertStrToHexStr` writes in digits, with `char` signed or not. Texts are
sequences of character codes, since case and the zero at the end matter. The keys are the
constant `Key`, hex texts of one of the three lengths; no step depends on which it is, and
`ComputesTexts` is about all of them. `Header` is `VpnHeader` with the functions of
`AesTexts` as its cipher.
`AesBlock`: one action per expanded word and per round. Its steps use the operators of
`AesRounds`, where the loops around them are functions as well.
`ThroughputMeter`: an arrival per action, time in ticks. The code's doubles are
taken as exact; that a sum of doubles may miss 0.1 by a rounding error is not modelled.

## 3. Runs

| Run | Shows | Bounds |
|---|---|---|
| `tunnel_safety` | `TypeOK`, `OneCopy`, `Faithful`, `TapNeedsKey`, `SenderHidden`, `StoppedIsQuiet` | 3 VPN nodes in a chain and the sink's host, 2 keys, 2 datagrams of 10 kinds, whole and in 2 pieces, loss, one node whose server and key change |
| `tunnel_liveness` | `Settles`, `TunnelDelivers` under fairness; `ImplementsService`: refines `DatagramService` | 3 VPN nodes in a chain and the sink's host, 2 datagrams of 5 kinds, whole and in 2 pieces, no loss |
| `scenarios` | `AlwaysTunnelled`, `NeverCrashes`, `EveryoneServed`, `MeterSeparates`, `RunReturns` | the 5 mains, seconds 0 to 17, one datagram of each client at any second, with and without loss; an MTU of 20020, so that 50000 bytes make 3 pieces instead of 34 |
| `aes_blocks` | `SBoxIsStandard`, `TablesInverse`, `FactorsAreProducts`, `InvFactorsAreProducts`: tables and factors against GF(256) written down independently; `CipherIsStandard`: published cipher texts; `DecryptionMirrors` | all 256 bytes, one after the other behind one of the blocks; 11 key and block pairs, all key lengths |
| `cipher_modes` | `Deterministic`, `RoundTrip` | both modes, 2 keys, 2 vectors, 2 texts of 2 and 3 blocks of 2 bits |
| `input_blocks` | `BreaksOnlyBeyond`, `IntactUnlessPadLike`, `AcceptedExactly`, `TextSurvives`; `ComputesTexts`: the result is that of the functions with the cipher in them | 806 uses: lengths 0 to 1024 digits around each boundary, pad-like ends, bad and lower-case characters, each directly and in a header; every single character and plain texts up to 256 in hex; 4 kinds of key with and without assertions; 2 keys |
| `meter` | `ReportsTile`, `NothingOverdue` | 2 flows and a third source, window of 2 ticks, 6 ticks |
| `wrong_key` | violated: `OnlyOthersForwarded` | 3 VPN nodes, 1 datagram |
| `mutual_servers` | violated: `TunnelDelivers` | 2 VPN nodes, 1 datagram |
| `padding` | violated: `PaddingRoundTrip` | the uses of `input_blocks` |
| `big_datagrams` | violated: `PayloadKept` | `p2p-performance-test`, MTU 1500, one datagram of each client |
| `sniffing` | violated: `SniffingNeedsTheKey` | the 2 sniffing mains, VPN nodes with the sniffer's key |

Why the bounds are enough: the datagrams of the tunnel do not interact except
through sets, so two show every interference there can be, and the proofs cover any
number. The chain B - A - S is the shortest in which a forwarded datagram is wrapped
again, and the change of A's server to B makes it a circle. The kinds of traffic
include the largest size that fits the tap and one that is cut in two, with a last piece
just long enough to be forwarded and a destination at the sink or behind a tap, TCP, a
destination that is local and one that nobody answers to. S has another key than A and B, so
frames reach nodes with the other key. Two pieces suffice for one to be lost, forwarded, rewrapped or put
together without the other. A third block in `CipherModes` makes a wrong `phiv_` visible twice. In `meter` a
window can be exactly full, overfull and span silent ticks. In `scenarios` one datagram
of each client suffices, as it may be sent in any second of its application and the
datagrams of different clients overlap; the clock's last second lies behind every stop. In no run does a
bound other than the number of identities, ticks and bytes cut a behaviour.
`CHECK_DEADLOCK FALSE` stands where the system really comes to an end: a simulation
with its traffic sent, a text deciphered; an AES object can always be called again
and `cipher_modes` checks for deadlock.

Fairness: `FairSpec` of `VPNApplication` has weak fairness of `Arrive(i)` for each
datagram `i` and nothing else. In the simulator every packet on a link is an event
at a finite time, so it is processed; but starts, stops, sends and changes of
attributes are the user's, and none is assumed to happen. `Arrive(i)` is one
condition because of a datagram there is one copy, or one of each of finitely many pieces
(`OneCopy`), and each hop uses one up. Loss is switched off in
these runs, as links in the repository's scenarios have no error model.
`TunnelDelivers` is conditional on all VPN nodes being up while it matters, since the
code drops what reaches a stopped node.

`FairSpec` of `Simulation` is weak fairness of its whole next step: `Run` processes events as
long as it has any. Nothing more is needed, because every other action makes finite
progress within a second.

What the five violated properties show (quoted in `PROJECT.json`):
- `wrong_key`: `A:142` has one condition for two questions. A frame for the node's
  own VPN address whose text does not decipher is treated as one for somebody else:
  its payload is sent to that address, that is to the node itself, which then receives
  it with itself as the source.
- `mutual_servers`: what is forwarded is routed again, so between two nodes that are
  each other's server a datagram never leaves the tunnel.
- `sniffing`: `Sniffer` removes a `VpnHeader` from a packet that begins with 30 bytes of
  link, IP and UDP headers, so its comparison fails also when the key is right.
- `padding`: `E:372` takes for padding what is text, since whole blocks get no padding.
- `big_datagrams`: of the 50000 bytes that `p2p-performance-test` sends in a datagram the sink
  hears the first 1472. The tap cuts the datagram; the gateway sends each piece on as one of its
  own, and all but the first to port 0, because the payload is zeros. The README's measurements
  (`README.md:363-366`) show the loss and explain it by an overhead of the tunnel.

## 4. Theorems

Checked by TLAPS for every value of the constants that meets the assumptions.

| Theorem | Of | Argument |
|---|---|---|
| `TypeCorrect` | `TypeOK` | inductive by itself |
| `NeverDuplicates`, `DeliversFaithfully` | `OneCopy`, `Faithful` | from `IInv` |
| `TapChecksTheKey`, `QuietUnlessUp` | `TapNeedsKey`, `StoppedIsQuiet` | each step, from `IInv` |
| `SenderStaysHidden` | `SenderHidden` | from `HInv` |
| `TunnelImplementsService` | `ImplementsService` | step simulation, from `MInv` |
| `ClientsStayTunnelled`, `MainsNeverCrash` | `AlwaysTunnelled`, `NeverCrashes` | from `Simulation`'s `IInv` |
| `AllInTimeServed`, `FlowsAreSeparate` | `EveryoneServed`, `MeterSeparates` | from `Simulation`'s `IInv` |
| `SimulationRunsTheTunnel` | `Simulation` refines `VPNApplication` | step simulation, from `IInv` |
| `TablesUndoEachOther` | `TablesInverse` | all 256 entries |
| `SBoxOfTheStandard` | `SBoxIsStandard` | powers of 3, by induction |
| `FactorsMultiply`, `InvFactorsMultiply` | `FactorsAreProducts`, `InvFactorsAreProducts` | linear in the bits of a byte |
| `AesIsABlockCipher` | `BlockCipher`'s assumption, for class AES | induction over words and rounds |
| `DecryptionUndoesEncryption` | `DecryptionMirrors` | from `AesBlock`'s `IInv` |
| `EncryptionDeterministic`, `DecryptionInverts` | `Deterministic`, `RoundTrip` | from `CipherModes`' `IInv` |
| `OnlyBeyondBreaks` | `BreaksOnlyBeyond` | conjunct of `InputBlocks`' `IInv` |
| `TextsComeBack`, `GenuineExactly`, `PlainTextsSurvive` | `IntactUnlessPadLike`, `AcceptedExactly`, `TextSurvives` | from `InputBlocks`' `IInv` |
| `StepsComputeTexts` | `ComputesTexts` | from `Following` and `InputBlocks`' `IInv` |
| `CipherLeavesTexts` | `decryption` of `encryption`'s result, in `AesTexts` | block by block, from `AesIsABlockCipher` |
| `HeaderFitsTunnel` | `VpnHeader`'s assumption, for class AES | from `NoOtherKey` and `SentTextSurvives` |
| `RatesAreExact`, `ReportsInTime` | `ReportsTile`, `NothingOverdue` | from `ThroughputMeter`'s `IInv` |

*Tunnel.* `IInv` (in `VPNApplicationProofs`) is `TypeOK` and
- `SocketFollowsTap`: the socket is open exactly when the tap is up; without it nothing
  follows from a refused `SendTo` of a stopped node;
- `Sourced`: each copy under way or handed over matches a datagram that was sent;
  this is what makes a new identity new everywhere, hence needed for `OneCopy`;
- `SentOnce`: one record in `sent` per identity, so that two pieces of one identity are
  pieces of one datagram;
- `PiecesApart`: IP fragments are in frames or waiting, and nowhere else, and no frame holds more
  than a tap takes; so what was cut once is not cut again, and a piece has one number for ever;
- `OneCopy`: two copies that overlap, the same piece or a piece and the whole, are one; putting
  a datagram together uses up all the pieces it consists of;
- `FramesHonest`: each frame's header is the text enciphered with *some* key, so a
  successful comparison identifies the key (`CipherAssumption`);
- `HandedToEndpoint`: what is handed over is at a node with that address.

`HInv` adds `TapTook` (what a tap took
has a VPN node as its sender and an address that is not an ordinary one of it) and
`SenderHidden` itself: the forwarder is the source of what leaves the tunnel, and it
cannot be the sender, because the sender's own tap would take the packet again, unless
the tap is down, and then its socket is closed.
`MInv` adds that what is in `sent` is a `Message` of the abstract service. Each action is one
step of `DatagramService` or none: `AppSend` is a `Submit`, as a whole or in pieces, or a
`SubmitLocal`; receiving is a `HandOver` of a message or a piece, a `Join` when the last piece
of a datagram has come, a `Vanish` (refused by `SendTo`, no route), or, when a packet is
forwarded or a piece begins to wait, a stutter.

Assumptions: `TopologyAssumption` (types), `AddressAssumption` (no node is its own server,
whose frames would come back to it without end; no VPN address is an ordinary one; a server
inside its client's own tap network is allowed, see `Circular`), `MtuAssumption` (any MTU with
room for headers, in multiples of 8 bytes behind the IP header, whose frames UDP can carry; 1500
is one), `TrafficAssumption` (sizes of UDP; TCP segments that fit; no application on a
VPN port, nor such a port in a payload where a later piece has it read). TLC evaluates these
four for each of the five mains. Last, `CipherAssumption` (the
one text comes back with its key and no other), which `HeaderFitsTunnel` reduces for class AES
to its second half.

*Simulations.* `SimulationProofs` first works out what the numbers of the mains come to
(`VpnsFit`, `AddressesFit`, `TrafficFits`, `ClosingFits`): every main has one gateway and one
receiver, each the only node with its address; every sender is a VPN client of that
gateway or no VPN node; VPN nodes are up as long as their clients send. Then `IInv` says
what every packet of a run is at any moment:
- `NodesKept`: socket and tap go together, servers and keys are those of the main, and a
  tap is down only after the end; with `Settled` the tap of an active client is up;
- `SentByClients`: each record in `sent` is a datagram of a client with its own identity,
  routed to the tap exactly if the client is a VPN node;
- `Framed`, `OnTheWay`: a frame carries what a VPN client sent, or one of the pieces it is
  cut into (`Numbers`), to the gateway's address and port; a bare datagram is what was sent,
  or a piece with the gateway as its source if it was tunnelled, and all pieces but the first go
  to port 0, since the payload of the mains is zeros;
- `Timely`: what is under way is at most a second old, which gives the gateway and the sink
  time to receive it before they stop;
- `Counted`, `Kept`: what came in time, whole or as a first piece, was heard, in the flow of
  its source, and what was sent in time is under way or was heard, if nothing is lost.

None of the four properties is inductive: `EveryoneServed` speaks of the end only and
needs `Kept` and `Timely` on the way there; `MeterSeparates` and `NeverCrashes` need the
source and the port of every packet on its way.
The theorems hold for the five given mains (and any subset), but for any number of
datagrams of each client, any order of arrivals, losses where links lose, and any length
of time. `TunnelStep` maps each action to one of `VPNApplication` or none. The theorems
of `VPNApplicationProofs` carry over by hand: the prover cannot cite a theorem of an
instance with a parameter, such as `Tunnel(m)`.
Assumptions: `RunAssumption` (only these mains are run; every second is looked at; the MTU is
1500 or the 20020 of the run `scenarios`, which the proofs treat alike), with
`MainAssumption` evaluated as before.

*Bytes.* The exclusive or is taken bit by bit (`XorBits`), which gives it the laws of a
group. `Product`, the field's multiplication, sums up to 64 terms; it is linear in each of
its factors (`Bilinear`), and so is `multiply`, so the two agree for every byte when they
agree for the eight bytes of one bit (`AgreeOnBits`). That a value of `sbox_` is the affine
image of the inverse of its index has no such short cut. The bytes but 0 are the powers of 3,
which two tables in the proofs list with their logarithms; multiplying by 3 moves from one to the
next, and by induction along them the inverse of 3^n is 3^(255-n) (`PowersOf3Inverse`). What
remains is one look at each entry of the tables (`SBoxIsAffineInverse`).

*One block.* From the laws of the exclusive or and `multiply` respecting it follows that the
factors of `_invMixColumns` undo those of `_mixColumns` for every column; the tables undo
each other by their 256 entries (`TablesInverseEverywhere`); so a round of `_decryption` undoes
one of `_encryption`. `AesIsABlockCipher` puts the rounds together: `Iterate` is a loop as
a function, and what a loop keeps, it keeps by induction over its steps
(`IterateStays`). The library's induction rule takes an operator, so induction is done with
the least element of a set (lemma `Induction`): the numbers for which the claim holds are all.
This is for every block and every key of 4, 6 or 8 words, the lengths the constructor knows.

`IInv` of `AesBlock` says where in these functions the machine is: the words are those of
`Schedules` up to the present one and complete when rounds begin (`Expanded`), `trace` is
the beginning of `Encryptions` and `state` its last entry (`Enciphered`), and while
deciphering `state` is an entry of `Decryptions`, all of `Encryptions` being in
`trace` (`Deciphered`). `DecryptionMirrors` follows because the
entries of the two functions mirror each other (`DecryptionsMirror`).
`InputAssumption` says that keys and blocks are such.

*AES object.* `IInv` describes both loops at every iteration (`Enciphering`,
`Deciphering`: the placeholder is the cipher block before), says that every result in
`made` is an encryption of its text, and that a running encryption agrees so far with
every earlier result for the same arguments (`InStep`). Assumptions
(`BlockAssumption`): xor undoes itself, `decBlock` undoes `encBlock`. For the cipher,
the blocks and the keys of class AES this is the theorem `AesIsABlockCipher`, stated of the
instance `Modes` in `AesRounds`.

*Texts.* `IInv` of `InputBlocks` follows both loops through a text of any length:
- `Encrypting`: each block enciphered so far was read inside the vector and is in its place;
- `Decrypting`: what is deciphered are those blocks, or the first of them in a header, and
  all were read inside;
- `Restored`: what came back so far are the digits of the text's bytes up to there, as long
  as no whole block looks padded; and a single block that is cut gives at most 30 digits;
- `BreaksOnlyBeyond` itself, since a break ends the run.

The bounds in them come from the widths of the counters (`BlockCount`, `Sizes`: where all
reads stay inside, a hex text has at most 255 bytes), not from the run. Beyond `IInv` the
proofs need only what taking blocks apart and putting them together does to a sequence.

`Following` joins the steps to the functions: what decryption has given back after `i` blocks is
entry `i` of the loop that puts the pieces of the text in a row (`Joins`), and if any was
deciphered the cipher text has 15 blocks at most, because the read of a 16th does not end.
`CipherLeavesTexts` says the same of `encryption` and `decryption`: the digits of block `m` are
cut out of the long cipher text at the place where they were joined to it (`DigitsJoined`,
`BlockOfTheFirst`, by the least place where this fails), and `AesIsABlockCipher` undoes the
rounds. Both together are `StepsComputeTexts`. So what is proved of texts and
headers with blocks that stand for cipher texts holds of the class with its cipher.
For the one text of `SendPacket` the functions give `SentTextSurvives`, and with the keys of
which none deciphers what another enciphered, `HeaderFitsTunnel`. Two keys that differ only in
the case of their digits are the same key, so `NoOtherKey` also asks for one spelling.
Assumptions: `CallAssumption` (a use is one of the three paths with a text of characters),
`KeyAssumption` (keys are hex digits, as many as the constructor knows).

*Meters.* `IInv`: the open window's bytes and time are exactly what came since the
last report (`InWindow`), and the closed ones tile (`Tiled`).

Only model-checked:
- liveness, `Settles`, `TunnelDelivers` and `RunReturns`: fairness is out of the prover's reach;
- `CipherIsStandard`: four published examples, and the run computes all of them. That the
  parts are those of the standard is proved (S-box, factors) or can be read off `AesRounds`;
- the five properties that are violated.

## 5. What is not modelled, and the plan

Done, in this order: the tunnel with its service, safety, refinement and liveness; AES
from bytes to texts; the meters; the mains with their runs; the sniffers; texts of
any characters and length, in hex and in headers; theorems about the tunnel, the meters,
the AES object, one block, texts and the simulations; the tables as theorems; and the
composition of header, texts, blocks and bytes. Left: the same composition for mode CBC
(`CipherModes` takes texts as blocks already, and no part of the program uses the mode), and
carrying the theorems of the tunnel over to `Simulation` by the prover instead of by hand.

Not modelled, and why:
- ns-3. What the code relies on is in the definitions marked external in `PROJECT.json`:
  routing, sockets, addresses, events in time. Rates, queues and radio are abstracted to
  links that may lose packets; positions and the parameters of Wi-Fi are left out.
- Command-line options of the Wi-Fi mains (`nCsma`, `nWifi`, `verbose`, `tracing`): the
  defaults are modelled.
- What happens after a break: a callback that gets a datagram which is no frame or a piece
  too short for its header, a `StopApplication` without a start, a `SendPacket` that calls itself
  without end, a read outside a vector or a text. The properties say when the
  program stays away from them (`NeverCrashes`, `BreaksOnlyBeyond`), not what follows.
- The 30 seconds after which ns-3 gives up waiting for the rest of a datagram at a tap: pieces
  may wait for ever in the model. No main has a VPN node as its receiver, and a datagram of
  which a piece is missing is never handed over, with the timeout or without.
- The fragments of frames and bare datagrams on ordinary links, which ns-3 cuts and puts together
  on its own: they are lost or arrive as a whole.
- Rates: `p2p-performance-test.cc:161` sets the data rate of `client` a second time where
  `client2` is meant, so the flow without VPN is sent at ns-3's default rate. No state
  of the models depends on a rate, so no property speaks about it.
- Logging, printing (`_printState`, verbose output, `VpnHeader::Print`), pcap files, type
  registration, build files: no state of the system depends on them.
- Whole simulations with meters: `Simulation` says which flow a datagram is counted for,
  `ThroughputMeter` what is counted; their clocks differ (seconds, tenths), and a flow's
  count depends on nothing else.

## 6. Running

`tlc -config tunnel_safety.cfg MCVPNApplication.tla` and likewise for the others (the
module of each run is in `PROJECT.json`); `tlapm VPNApplicationProofs.tla`, and so
on. The longest run takes two minutes, the longest proof two.
