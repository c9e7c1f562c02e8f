------------------------------ MODULE HexText -------------------------------
(***************************************************************************)
(* Class AES between characters and the digits that write them: the        *)
(* conversions with snprintf, toupper and convertStrToHexStr.  A character *)
(* is its code, 0 to 255, a text a sequence of characters.                 *)
(***************************************************************************)
EXTENDS Integers, Sequences, FiniteSetsExt

Width == 256     \* a uint8_t has the values below Width
Char == 0 .. Width - 1
NotHex == 16

\* The character that writes digit d, in upper case as %02X does.
HexChar(d) == IF d < 10 THEN 48 + d ELSE 55 + d

\* The digit that character c writes, after toupper.
Digit(c) ==
  CASE c \in 48 .. 57 -> c - 48
    [] c \in 65 .. 70 -> c - 55
    [] c \in 97 .. 102 -> c - 87
    [] OTHER -> NotHex

IsHex(str) == \A n \in 1 .. Len(str) : Digit(str[n]) # NotHex

\* A digit too many is dropped, and one bad character empties the result.
convertTypeStrToByteBlock(str) ==
  IF IsHex(str)
  THEN [n \in 1 .. Len(str) \div 2 |-> 16 * Digit(str[2 * n - 1]) + Digit(str[2 * n])]
  ELSE <<>>

\* slip: %02x instead of %02X.
DigitsOfLower(bytes) ==
  LET lower(d) == IF d < 10 THEN 48 + d ELSE 87 + d
  IN  [n \in 1 .. 2 * Len(bytes) |->
         lower(IF n % 2 = 1 THEN bytes[(n + 1) \div 2] \div 16 ELSE bytes[n \div 2] % 16)]

DigitsOf(bytes) ==
  [n \in 1 .. 2 * Len(bytes) |->
     HexChar(IF n % 2 = 1 THEN bytes[(n + 1) \div 2] \div 16 ELSE bytes[n \div 2] % 16)]

-----------------------------------------------------------------------------
(* C divides towards zero, and a char may be signed; what is no digit from *)
(* 0 to 9 is taken for one from A on.                                      *)
Quotient(v) == IF v >= 0 THEN v \div 16 ELSE - ((- v) \div 16)

convertCharToStrHex(c, signed) ==
  LET v == IF signed /\ c >= 128 THEN c - Width ELSE c
      digit(temp) == IF temp <= 9 THEN 48 + temp ELSE (55 + temp) % Width
  IN  <<digit(Quotient(v) % Width), digit((v - 16 * Quotient(v)) % Width)>>

convertStrToHexStr(str, signed) ==
  [n \in 1 .. 2 * Len(str) |->
     convertCharToStrHex(str[(n + 1) \div 2], signed)[IF n % 2 = 1 THEN 1 ELSE 2]]

\* Two characters as a byte; the one behind the end of a text is a zero.
ByteAt(hex, n) ==
  LET value(c) == IF c \in 48 .. 57 THEN c - 48 ELSE c - 55
  IN  (16 * value(hex[2 * n - 1])
         + value(IF 2 * n <= Len(hex) THEN hex[2 * n] ELSE 0)) % Width

\* slip: a zero byte does not end the text.
convertHexStrToStrAll(hex) == [n \in 1 .. (Len(hex) + 1) \div 2 |-> ByteAt(hex, n)]

convertHexStrToStr(hex) ==
  LET pairs == 1 .. (Len(hex) + 1) \div 2
      zeros == {n \in pairs : ByteAt(hex, n) = 0}
  IN  [n \in {m \in pairs : \A z \in zeros : m < z} |-> ByteAt(hex, n)]
=============================================================================
