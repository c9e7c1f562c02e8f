---------------------------- MODULE GaloisField -----------------------------
(***************************************************************************)
(* GF(256), the field that the byte operations of class AES stand for: the *)
(* polynomials over GF(2) modulo x^8 + x^4 + x^3 + x + 1, written down     *)
(* without any of the operations to be checked against it.                 *)
(***************************************************************************)
EXTENDS AesBytes, FiniteSets

Parity(S) == Cardinality(S) % 2

\* The byte whose bit n is b[n].
FromBits(b) ==
  b[0] + 2 * b[1] + 4 * b[2] + 8 * b[3] + 16 * b[4] + 32 * b[5] + 64 * b[6] + 128 * b[7]

\* x^n modulo the polynomial, for the powers that two bytes can produce.
Power(n) == <<1, 2, 4, 8, 16, 32, 64, 128, 27, 54, 108, 216, 171, 77, 154>>[n + 1]

Product(a, b) ==
  LET terms == {t \in (0 .. 7) \X (0 .. 7) : Bit(a, t[1]) = 1 /\ Bit(b, t[2]) = 1}
  IN  FromBits([n \in 0 .. 7 |-> Parity({t \in terms : Bit(Power(t[1] + t[2]), n) = 1})])

(* FIPS 197, 5.1.1: bit n of the S-box value is the sum of five bits of    *)
(* the inverse and bit n of 63 hex.                                        *)
Affine(a) ==
  FromBits([n \in 0 .. 7 |->
     (Bit(a, n) + Bit(a, (n + 4) % 8) + Bit(a, (n + 5) % 8) + Bit(a, (n + 6) % 8)
        + Bit(a, (n + 7) % 8) + Bit(\h63, n)) % 2])

Inverses(a, b) == IF a = 0 THEN b = 0 ELSE Product(a, b) = 1
=============================================================================
