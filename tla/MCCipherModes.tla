--------------------------- MODULE MCCipherModes ----------------------------
(***************************************************************************)
(* Blocks of two bits and a block cipher that does not commute with the    *)
(* exclusive or.                                                           *)
(***************************************************************************)
EXTENDS CipherModes

MCBlock == 0 .. 3
MCXor(a, b) == (((a \div 2) + (b \div 2)) % 2) * 2 + ((a + b) % 2)
MCEnc(k, b) == (b + k) % 4
MCDec(k, b) == (b + (4 - k)) % 4

\* Equal blocks in a row, and a text that begins like another.
MCText == {<<1, 1, 1>>, <<1, 2>>}
MCIV == {1, 2}
=============================================================================
