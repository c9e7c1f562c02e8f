---------------------------- MODULE MCSimulation ----------------------------
(***************************************************************************)
(* The five mains, with the cipher by its promise: the text with the key,  *)
(* or garbage.                                                             *)
(***************************************************************************)
EXTENDS Simulation

CONSTANTS k1, k0, garbage

MCText == {plainText, garbage} \cup {<<plainText, k>> : k \in Key}
MCEncryption(text, k) == <<text, k>>
MCDecryption(text, k) == IF text = <<plainText, k>> THEN plainText ELSE garbage

MCMoment == 0 .. 17
=============================================================================
