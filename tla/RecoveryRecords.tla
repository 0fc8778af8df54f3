-------------------------- MODULE RecoveryRecords --------------------------
(***************************************************************************)
(* The recovery records (recovery/sign.ts, bundle.ts and                   *)
(* manifest_crosscheck.ts): backup bundles, the manifest of a recovery     *)
(* set, its shares, and the three-signature successor record. The string   *)
(* fields every record must carry are left out; the arithmetic of          *)
(* thresholds and indices is kept.                                         *)
(***************************************************************************)
EXTENDS DeviceRecords, Integers, Sequences, FiniteSets, SequencesExt

\* Backup bundles. kdf is the pair of its cost and whether its algorithm and
\* salt are acceptable.
ValidateBundle(b) == b.kdf.acceptable /\ b.kdf.cost >= 1 /\ b.recovery_verify_pk # NoKey

SignBundle(b, identityKey) == SignSignedDoc(b, identityKey, "SEMP-RECOVERY-BUNDLE:")
VerifyBundle(b, identityPub) == ValidateBundle(b) /\ VerifySignedDoc(b, identityPub, "SEMP-RECOVERY-BUNDLE:")

\* The manifest: contributors is a set of records of a share index, a device
\* and the device's key. Two contributors share neither index nor device.
ValidateManifest(m) ==
  /\ m.threshold >= 1 /\ m.total_shares >= m.threshold
  /\ Cardinality(m.contributors) = m.total_shares
  /\ \A c \in m.contributors :
       /\ c.share_index \in 1..m.total_shares /\ c.device_id # NoKey /\ c.public_key # NoKey
       /\ \A d \in m.contributors : c.share_index = d.share_index \/ c.device_id = d.device_id => c = d

SignManifest(m, identityKey) == SignSignedDoc(m, identityKey, "SEMP-RECOVERY-MANIFEST:")
VerifyManifest(m, identityPub) ==
  ValidateManifest(m) /\ VerifySignedDoc(m, identityPub, "SEMP-RECOVERY-MANIFEST:")

\* crossCheckManifestContributors(): every contributor is a device of the
\* user's directory, with the same key.
CrossCheckManifestContributors(m, directoryUser, devices, manifestUser) ==
  /\ directoryUser = manifestUser
  /\ \A c \in m.contributors :
       \E e \in FindDevice(devices, c.device_id) : e.device_public_key = c.public_key

\* The record a device keeps of its share.
ValidateShareRecord(s) ==
  s.share_index >= 1 /\ s.threshold >= 1 /\ s.total_shares >= s.threshold /\ s.share_index <= s.total_shares

SignShareRecord(s, deviceKey) == SignSignedDoc(s, deviceKey, "SEMP-RECOVERY-SHARE:")
VerifyShareRecord(s, devicePub) ==
  ValidateShareRecord(s) /\ VerifySignedDoc(s, devicePub, "SEMP-RECOVERY-SHARE:")

\* A mutant: any bundle's share will do.
CheckShareAnyBundle(s, m) ==
  /\ s.threshold = m.threshold /\ s.total_shares = m.total_shares
  /\ \E c \in m.contributors : c.share_index = s.share_index /\ c.device_id = s.device_id

CheckShareMatchesManifest(s, m) ==
  /\ s.bundle_id = m.bundle_id /\ s.threshold = m.threshold /\ s.total_shares = m.total_shares
  /\ \E c \in m.contributors : c.share_index = s.share_index /\ c.device_id = s.device_id

-----------------------------------------------------------------------------
(* The successor record: keys maps each of the three signers to the key_id *)
(* of its signature block, values to the block's value.                    *)

Signers == {"recovery", "new_key", "domain"}

\* prepareSuccessorSignatures() names the three keys before anyone signs.
PrepareSuccessorSignatures(prior, new, recoveryKeyId, domainKeyId) ==
  [prior_key_id |-> prior, new_key_id |-> new,
   keys |-> [s \in Signers |-> CASE s = "recovery" -> recoveryKeyId
                                 [] s = "new_key" -> new
                                 [] s = "domain" -> domainKeyId],
   values |-> [s \in Signers |-> NoValue]]

\* canonicalSuccessorBytesElidingThreeSignatures(): only the values are elided.
SuccessorBytes(r) == <<"SEMP-SUCCESSOR-RECORD:", r.prior_key_id, r.new_key_id, r.keys>>

\* signOneOfThree() throws unless the block already names the signer's key.
CanSignOneOfThree(r, signer, key) == key # NoKey /\ r.keys[signer] = key
SignOneOfThree(r, signer, key) == [r EXCEPT !.values[signer] = Sign(key, SuccessorBytes(r))]

SignedBy(r, signer, pub) == r.values[signer] = Sign(pub, SuccessorBytes(r))

\* verifySuccessorTwoSignatures(): what the home server checks before it adds
\* its own signature. It throws on a record that has all three.
VerifySuccessorTwoSignatures(r, recoveryPub, newPub) ==
  r.values["domain"] = NoValue /\ SignedBy(r, "recovery", recoveryPub) /\ SignedBy(r, "new_key", newPub)

VerifySuccessorRecord(r, recoveryPub, newPub, domainPub) ==
  SignedBy(r, "recovery", recoveryPub) /\ SignedBy(r, "new_key", newPub) /\ SignedBy(r, "domain", domainPub)

-----------------------------------------------------------------------------
(* Shamir secret sharing over GF(256) (recovery/shamir.ts), one byte at a  *)
(* time: the code runs the same polynomial arithmetic on every byte of a   *)
(* secret. A share is a record of an index and the byte at that index.     *)

MinShamirThreshold == 2
MaxShamirTotalShares == 16

\* a ^ b on bytes.
Xor(a, b) ==
  LET bit(i) == 2^i * ((a \div 2^i + b \div 2^i) % 2)
  IN  bit(0) + bit(1) + bit(2) + bit(3) + bit(4) + bit(5) + bit(6) + bit(7)

\* gf256MulRaw(): for each bit of b, add a if it is set; then a doubles modulo
\* the polynomial 0x11b.
Doubled(a) == LET shifted == (2 * a) % 256 IN IF a >= 128 THEN Xor(shifted, 27) ELSE shifted

MulRaw(a, b) ==
  LET round[i \in 0..8] ==
        IF i = 0 THEN [p |-> 0, a |-> a]
        ELSE LET last == round[i - 1]
             IN  [p |-> IF (b \div 2^(i - 1)) % 2 = 1 THEN Xor(last.p, last.a) ELSE last.p,
                  a |-> Doubled(last.a)]
  IN  round[8].p

\* buildTables(): the powers of the generator 3, here by squaring, which TLC
\* evaluates without deep recursion. Entry 255 is set to 1.
Power[i \in 0..254] ==
  IF i = 0 THEN 1
  ELSE LET half == Power[i \div 2]
       IN  IF i % 2 = 0 THEN MulRaw(half, half) ELSE MulRaw(MulRaw(half, half), 3)

Exp256 == [i \in 0..255 |-> IF i = 255 THEN 1 ELSE Power[i]]
Log256 == [x \in 1..255 |-> CHOOSE i \in 0..254 : Exp256[i] = x]

Mul256(a, b) == IF a = 0 \/ b = 0 THEN 0 ELSE Exp256[(Log256[a] + Log256[b]) % 255]
Inv256(a) == Exp256[255 - Log256[a]]

\* polyEval(): Horner's rule from the highest coefficient.
PolyEval(coeffs, x) == FoldRight(LAMBDA c, y : Xor(Mul256(y, x), c), coeffs, 0)

CanSplit(threshold, total) ==
  threshold >= MinShamirThreshold /\ total >= threshold /\ total <= MaxShamirTotalShares

\* splitSecret(): coefficient 0 is the secret byte, the others are random.
SplitSecret(secret, randoms, total) ==
  {[index |-> i, value |-> PolyEval(<<secret>> \o randoms, i)] : i \in 1..total}

\* The Lagrange basis of share s at 0.
Basis(s, shares) ==
  LET others == SetToSeq(shares \ {s})
      num == FoldLeft(LAMBDA a, o : Mul256(a, o.index), 1, others)
      den == FoldLeft(LAMBDA a, o : Mul256(a, Xor(o.index, s.index)), 1, others)
  IN  Mul256(num, Inv256(den))

\* combineShares() throws on no share, on an index out of 1..255 and on one
\* that appears twice; it does not know the threshold.
CanCombine(shares) ==
  /\ shares # {}
  /\ \A s \in shares : s.index \in 1..255 /\ \A t \in shares : s.index = t.index => s = t

CombineShares(shares) ==
  FoldLeft(LAMBDA r, s : Xor(r, Mul256(s.value, Basis(s, shares))), 0, SetToSeq(shares))
=============================================================================
