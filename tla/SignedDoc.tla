----------------------------- MODULE SignedDoc -----------------------------
(***************************************************************************)
(* Signed records (keys/signed.ts, keys/sign.ts). Ed25519 is ideal: a      *)
(* signature is the pair of the key that made it and the bytes it covers,  *)
(* and a key stands for its seed, its public half and its fingerprint. The *)
(* bytes covered are the prefix and the whole record, key_id included,     *)
(* with only the signature value blanked.                                  *)
(***************************************************************************)
EXTENDS Sequences

NoKey == ""                                  \* an absent key or key_id
NoValue == [by |-> NoKey, over |-> <<>>]     \* signature.value = ""
NoSignature == [key_id |-> NoKey, value |-> NoValue]

\* sign(): the key's signature over a message.
Sign(key, message) == [by |-> key, over |-> message]

Blanked(doc) == [doc EXCEPT !.signature.value = NoValue]

\* signSignedDoc(), with the key_id its callers write before they call it.
SignSignedDoc(doc, key, prefix) ==
  LET blanked == [doc EXCEPT !.signature = [key_id |-> key, value |-> NoValue]]
  IN  [blanked EXCEPT !.signature.value = Sign(key, <<prefix, blanked>>)]

\* verifySignedDoc(), after its callers' test for an unsigned record.
VerifySignedDoc(doc, pub, prefix) ==
  /\ doc.signature.value # NoValue
  /\ doc.signature.value = Sign(pub, <<prefix, Blanked(doc)>>)
=============================================================================
