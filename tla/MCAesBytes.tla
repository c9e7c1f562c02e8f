----------------------------- MODULE MCAesBytes -----------------------------
(***************************************************************************)
(* The byte operations, at every byte, against the field they stand for.   *)
(***************************************************************************)
EXTENDS GaloisField, TLC

VARIABLE x     \* the byte looked at

FirstByte == x = 0
NextByte == x < 255 /\ x' = x + 1

-----------------------------------------------------------------------------
(* sbox_ of vpn-aes.h is the S-box of the standard: the affine image of    *)
(* the inverse of its index.                                               *)
SBoxIsStandard ==
  \E y \in Byte : Affine(y) = mappingSBox(x) /\ Inverses(x, y)

\* inv_sbox_ undoes sbox_, in both directions.
TablesInverse ==
  /\ mappingInvSBox(mappingSBox(x)) = x
  /\ mappingSBox(mappingInvSBox(x)) = x

(* The macro, also nested and not cut to a byte in between, and the sums   *)
(* of its results in _mixColumns multiply in the field.                    *)
FactorsAreProducts == \A c \in {1, 2, 3} : factor(c, x) = Product(c, x)

\* The same for _invMixColumns, where the macro is nested three deep.
InvFactorsAreProducts == \A c \in {9, 11, 13, 14} : invFactor(c, x) = Product(c, x)

=============================================================================
