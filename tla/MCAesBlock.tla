----------------------------- MODULE MCAesBlock -----------------------------
(***************************************************************************)
(* Class AES on the examples of FIPS 197, for its three key lengths, and   *)
(* on the text and the key that VPNApplication uses.                       *)
(***************************************************************************)
EXTENDS AesBlock, MCAesBytes

BlockOf(bytes) == [p \in Position |-> bytes[p + 1]]

\* The key 00 01 02 ... of n words.
CountingKey(n) == [w \in 1 .. n |-> [b \in 1 .. 4 |-> 4 * (w - 1) + b - 1]]

\* The block 00 11 22 ... ff.
Repdigits == [p \in Position |-> 17 * p]

Constantly(b) == [p \in Position |-> b]

(* FIPS 197, appendices B and C: what the key makes of the block.          *)
Published ==
  {[key |-> <<<<\h2b,\h7e,\h15,\h16>>, <<\h28,\hae,\hd2,\ha6>>,
              <<\hab,\hf7,\h15,\h88>>, <<\h09,\hcf,\h4f,\h3c>>>>,
    block |-> BlockOf(<<\h32,\h43,\hf6,\ha8,\h88,\h5a,\h30,\h8d,
                        \h31,\h31,\h98,\ha2,\he0,\h37,\h07,\h34>>),
    cipher |-> BlockOf(<<\h39,\h25,\h84,\h1d,\h02,\hdc,\h09,\hfb,
                         \hdc,\h11,\h85,\h97,\h19,\h6a,\h0b,\h32>>)],
   [key |-> CountingKey(4), block |-> Repdigits,
    cipher |-> BlockOf(<<\h69,\hc4,\he0,\hd8,\h6a,\h7b,\h04,\h30,
                         \hd8,\hcd,\hb7,\h80,\h70,\hb4,\hc5,\h5a>>)],
   [key |-> CountingKey(6), block |-> Repdigits,
    cipher |-> BlockOf(<<\hdd,\ha9,\h7c,\ha4,\h86,\h4c,\hdf,\he0,
                         \h6e,\haf,\h70,\ha0,\hec,\h0d,\h71,\h91>>)],
   [key |-> CountingKey(8), block |-> Repdigits,
    cipher |-> BlockOf(<<\h8e,\ha2,\hb7,\hca,\h51,\h67,\h45,\hbf,
                         \hea,\hfc,\h49,\h90,\h4b,\h49,\h60,\h89>>)]}

\* VPNApplication::SendPacket's plainText under the default CipherKey.
TunnelInput ==
  [key |-> <<<<\h12,\h34,\h56,\h78>>, <<\h90,\h12,\h34,\h56>>,
             <<\h78,\h90,\h12,\h34>>, <<\h56,\h78,\h90,\h12>>>>,
   block |-> BlockOf(<<\h62,\h53,\h11,\h24,\h55,\h23,\h22,\h31,
                       \h15,\h67,\hab,\hd1,\h50,\hbb,\hff,\hcc>>)]

MCInput ==
  {[key |-> e.key, block |-> e.block] : e \in Published}
    \cup {TunnelInput}
    \cup {[key |-> CountingKey(n), block |-> Constantly(b)] : n \in {4, 6, 8}, b \in {0, 255}}

MCInit == Init /\ FirstByte

MCNext ==
  \/ Next /\ UNCHANGED x
  \/ pc = "done" /\ input = TunnelInput /\ NextByte /\ UNCHANGED vars

MCSpec == MCInit /\ [][MCNext]_<<vars, x>>

-----------------------------------------------------------------------------
(* The published cipher texts come out: the key schedule, the four round   *)
(* functions and the round structure are those of the standard, for keys   *)
(* of 128, 192 and 256 bits.                                               *)
CipherIsStandard ==
  pc = "decrypt" =>
    \A e \in Published :
       e.key = input.key /\ e.block = input.block => trace[Nround + 1] = e.cipher
=============================================================================
