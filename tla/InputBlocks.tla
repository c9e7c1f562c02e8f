---------------------------- MODULE InputBlocks -----------------------------
(***************************************************************************)
(* How class AES cuts a text into blocks and puts it together again:       *)
(* encryption, in mode ECB, followed by decryption of its result; directly *)
(* or in a VpnHeader, which carries 32 characters of the text and of the   *)
(* cipher text.                                                            *)
(*                                                                         *)
(* What _encryption does to a block _decryption undoes, so a cipher text   *)
(* is represented by the states that were enciphered.                      *)
(***************************************************************************)
EXTENDS AesTexts

CONSTANTS
  Call,    \* the uses that are made of the class, see below
  Key      \* the hex texts that are their keys

HeaderText == 32   \* the characters of each text in a VpnHeader

(* A use: a text that is enciphered and deciphered as it is, in a header,  *)
(* or written in hex digits first; whether the key has 32 hex digits; and  *)
(* of the build, whether it has assertions and whether char is signed.     *)
ASSUME CallAssumption ==
  \A c \in Call :
     /\ c.text \in Seq(Char) /\ c.path \in {"direct", "header", "hex"}
     /\ c.key \in {"good", "short", "long", "not hex"}
     /\ {c.checked, c.signed} \subseteq BOOLEAN

ASSUME KeyAssumption == Key \subseteq KeyText

VARIABLES call,     \* the use
          text,     \* the input of encryption
          pc,       \* "assert", "encrypt", "decrypt", "done", "aborted" or "broken"
          cipher,   \* the bytes of encryption's result
          i,        \* the blocks the loop has done
          plain     \* the result of decryption, as far as it has come

vars == <<call, text, pc, cipher, i, plain>>

-----------------------------------------------------------------------------
Init ==
  /\ call \in Call
  /\ text = IF call.path = "hex" THEN convertStrToHexStr(call.text, call.signed)
                               ELSE call.text
  /\ pc = "assert"
  /\ cipher = <<>>
  /\ i = 0
  /\ plain = <<>>

(* The assertion on the key's length, where the build has it, and the      *)
(* first read of the key, whose vector is empty if it is not hex.          *)
checkKey ==
  /\ pc = "assert"
  /\ pc' = CASE call.checked /\ call.key \in {"short", "long"} -> "aborted"
             [] (~ call.checked /\ call.key = "short") \/ call.key = "not hex" -> "broken"
             [] OTHER -> "encrypt"
  /\ UNCHANGED <<call, text, cipher, i, plain>>

encryptionStep ==
  /\ pc = "encrypt" /\ i < blockSize(text)
  /\ LET block == convertTypeStrToByteBlock(text)
     IN  /\ Readable(Len(block), i * Nstate)
         /\ cipher' = cipher \o createState(block, i * Nstate)
  /\ i' = i + 1
  /\ UNCHANGED <<call, text, pc, plain>>

(* Serialize reads 32 characters of the text and of the cipher text: in a  *)
(* string of 31, the last is its final zero.                               *)
Serializable == Len(text) >= HeaderText - 1 /\ cipher # <<>>

(* The result is handed to decryption, all of it or the 32 characters that *)
(* a header has room for.                                                  *)
beginDecryption ==
  /\ pc = "encrypt" /\ i = blockSize(text)
  /\ call.path = "header" => Serializable
  /\ pc' = "decrypt"
  /\ cipher' = IF call.path = "header" THEN SubSeq(cipher, 1, HeaderText \div 2) ELSE cipher
  /\ i' = 0
  /\ UNCHANGED <<call, text, plain>>

\* A whole cipher block is deciphered to the state it was made from.
decryptionStep ==
  /\ pc = "decrypt" /\ i < Len(cipher) \div Nstate
  /\ Readable(Len(cipher), i * Nstate)
  /\ last(Len(cipher), i * Nstate) = Nstate
  /\ plain' = plain \o convertTypeByteStateToStr(createState(cipher, i * Nstate))
  /\ i' = i + 1
  /\ UNCHANGED <<call, text, pc, cipher>>

finish ==
  /\ pc = "decrypt" /\ i = Len(cipher) \div Nstate
  /\ pc' = "done"
  /\ UNCHANGED <<call, text, cipher, i, plain>>

(* _createState reads outside its vector or never stops, Serialize reads   *)
(* outside one of its texts, or what is deciphered is no block that        *)
(* encryption made; what comes then is not modelled.                       *)
breakDown ==
  /\ \/ /\ pc = "encrypt" /\ i < blockSize(text)
        /\ ~ Readable(Len(convertTypeStrToByteBlock(text)), i * Nstate)
     \/ pc = "encrypt" /\ i = blockSize(text) /\ call.path = "header" /\ ~ Serializable
     \/ /\ pc = "decrypt" /\ i < Len(cipher) \div Nstate
        /\ \/ ~ Readable(Len(cipher), i * Nstate)
           \/ last(Len(cipher), i * Nstate) # Nstate
  /\ pc' = "broken"
  /\ UNCHANGED <<call, text, cipher, i, plain>>

Next ==
  checkKey \/ encryptionStep \/ beginDecryption \/ decryptionStep \/ finish \/ breakDown

Spec == Init /\ [][Next]_vars

(* What Serialize writes and Deserialize reads of m_sentOrigin: a text of  *)
(* 31 characters is followed by its final zero.                            *)
SentOrigin(str) == [n \in 1 .. HeaderText |-> IF n <= Len(str) THEN str[n] ELSE 0]

(* The header as VPNApplication takes it, with this cipher in it, and what *)
(* is left to assume about AES then: no other key deciphers the one block. *)
Header ==
  INSTANCE VpnHeader WITH Text <- [1 .. HeaderText -> Char], plainText <- SentText

NoOtherKey ==
  \A k, l \in Key :
     decBlock(keyWords(l), encBlock(keyWords(k), asState(SentBytes))) = asState(SentBytes)
       => k = l

\* Of a cipher text, what reaches decryption.
Carried(str) == IF call.path = "header" THEN SubSeq(str, 1, HeaderText) ELSE str

\* ReceivePacket's comparison of the text with what it deciphers.
Accepted == SentOrigin(text) = plain

-----------------------------------------------------------------------------
(* Properties *)

(* 240 bytes, 15 blocks, are what one call can take: _createState counts   *)
(* in a uint8_t.  A character that is not a hex digit is survived in a     *)
(* text of one block, and a key that is too short where assertions are     *)
(* compiled in.  A header takes no text of less than 31 characters.        *)
BreaksOnlyBeyond ==
  pc = "broken" =>
    \/ Len(text) > 2 * (Width - Nstate)
    \/ ~ IsHex(text) /\ Len(text) > 2 * Nstate
    \/ Len(text) < HeaderText - 1 /\ call.path = "header"
    \/ call.key = "not hex"
    \/ call.key = "short" /\ ~ call.checked

\* Block n (from 0) of the text is full and ends like padding.
LooksPadded(n) ==
  /\ 2 * Nstate * (n + 1) <= Len(text)
  /\ PaddingAt(SubSeq(convertTypeStrToByteBlock(text), Nstate * n + 1, Nstate * (n + 1))) # {}

\* The text, whole bytes of it, in upper case.
Normal == DigitsOf(convertTypeStrToByteBlock(text))

(* A text of whole bytes comes back as it was, in upper case, if none of   *)
(* its full blocks ends like padding: a short last block is filled up so   *)
(* that exactly the filling goes, and every block keeps its place.         *)
IntactUnlessPadLike ==
  pc = "done" /\ call.path # "header" /\ IsHex(text) /\ Len(text) % 2 = 0
    /\ (\A n \in 0 .. blockSize(text) - 1 : ~ LooksPadded(n))
  => plain = Normal

(* The receiver of a header, with the sender's key, finds the text and the *)
(* deciphered text equal exactly if the text is hex, has at least the 32   *)
(* characters that travel, in upper case, and its first block does not end *)
(* like padding: 32 characters are cut off from both, whatever they had.   *)
AcceptedExactly ==
  pc = "done" /\ call.path = "header" =>
    (Accepted <=> /\ Len(text) >= HeaderText /\ IsHex(text)
                  /\ \A n \in 1 .. HeaderText : text[n] \notin 97 .. 102
                  /\ ~ LooksPadded(0))

\* The text up to its first zero.
UpToZero(str) ==
  [n \in {m \in 1 .. Len(str) : \A k \in 1 .. m : str[k] # 0} |-> str[n]]

(* A text of any characters but the lowest, which look like padding, and,  *)
(* where char is signed, those from 128 on, comes back from hex digits,    *)
(* encryption, decryption and hex digits, as far as its first zero.        *)
TextSurvives ==
  pc = "done" /\ call.path = "hex"
    /\ (\A n \in 1 .. Len(call.text) :
           call.text[n] \in {0} \cup 17 .. (IF call.signed THEN 127 ELSE 255))
  => convertHexStrToStr(plain) = UpToZero(call.text)

(* The blocks that stand for a cipher text here give what the cipher gives: *)
(* with any key, decryption of encryption's result, or of the piece of it  *)
(* that a header carries, is the text that the steps come to.              *)
ComputesTexts ==
  pc = "done" => \A k \in Key : plain = decryption(Carried(encryption(text, k)), k)

(* vpn-aes.cc, _createState: "using PKCS#7 padding".  That padding can be  *)
(* told from every text, so every text of whole bytes comes back.          *)
PaddingRoundTrip ==
  pc = "done" /\ call.path = "direct" /\ IsHex(text) /\ Len(text) % 2 = 0
  => plain = Normal
=============================================================================
