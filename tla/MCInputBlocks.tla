--------------------------- MODULE MCInputBlocks ----------------------------
(***************************************************************************)
(* Texts around the lengths where something changes: none, one and two     *)
(* blocks, and the 240, 255 and 256 bytes where uint8_t counters end.      *)
(***************************************************************************)
EXTENDS InputBlocks, SequencesExt

\* Bytes that differ from their neighbours and are no padding.
Filler(length) == [n \in 1 .. length |-> 32 + (n % 200)]

\* A text of digits, as many as asked for.
Fill(digits) == SubSeq(DigitsOf(Filler((digits + 1) \div 2)), 1, digits)

Lengths == {0, 1, 2, 30, 31, 32, 33, 34, 62, 64, 65, 96,
            448, 478, 479, 480, 481, 482, 510, 511, 512, 513, 992, 1024}

\* Ends like padding, and ends that only begin like it.
Tails == {<<1>>, <<2, 2>>, <<3, 3>>, <<4, 4, 4, 4>>, <<2, 1>>, <<0>>,
          [n \in 1 .. 16 |-> 16], [n \in 1 .. 15 |-> 16]}

\* The digits of str up to digit n, of which the last are those of tail.
EndingAt(str, n, tail) ==
  [d \in 1 .. Len(str) |->
     IF d \in n - 2 * Len(tail) + 1 .. n
     THEN DigitsOf(tail)[d - (n - 2 * Len(tail))] ELSE str[d]]

Lower(str) == [n \in 1 .. Len(str) |-> IF str[n] \in 65 .. 70 THEN str[n] + 32 ELSE str[n]]

Digits ==
  {SentText, Lower(SentText)}
    \cup {Fill(l) : l \in Lengths}
    \cup {Lower(Fill(l)) : l \in {32, 64}}
    \cup {Fill(32) \o Lower(Fill(32))}
    \cup {EndingAt(Fill(l), e, t) : l \in {32, 34, 64, 96, 480},
                                    e \in {32, 64}, t \in Tails}
    \cup {ReplaceAt(Fill(l), 1, 71) : l \in Lengths \ {0}}    \* a G

\* Every character; ends of the ranges in a text; a zero inside; long texts.
Characters ==
  {<<c>> : c \in 0 .. Width - 1}
    \cup {<<65, c, 66>> : c \in {0, 1, 2, 16, 17, 127, 128, 159, 160, 255}}
    \cup {[n \in 1 .. l |-> 32 + (n % 90)] : l \in {0, 15, 16, 17, 32, 239, 240, 241, 256}}
    \cup {ReplaceAt([n \in 1 .. 40 |-> 33 + n], z, 0) : z \in {1, 16, 17, 40}}

Use(str, path, key, checked, signed) ==
  [text |-> str, path |-> path, key |-> key, checked |-> checked, signed |-> signed]

MCCall ==
  {Use(t, p, "good", TRUE, TRUE) : t \in Digits, p \in {"direct", "header"}}
    \cup {Use(t, "hex", "good", TRUE, s) : t \in Characters, s \in BOOLEAN}
    \cup {Use(SentText, p, k, c, TRUE) : p \in {"direct", "header"}, c \in BOOLEAN,
                                           k \in {"good", "short", "long", "not hex"}}

\* The default CipherKey, and the key with which the sniffers try.
DefaultKey == [n \in 1 .. 32 |-> 48 + (n % 10)]
SniffersKey == [n \in 1 .. 32 |-> 48]

MCKey == {DefaultKey, SniffersKey}

ASSUME KeysFit == NoOtherKey /\ Header!CipherAssumption
=============================================================================
