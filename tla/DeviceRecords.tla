--------------------------- MODULE DeviceRecords ---------------------------
(***************************************************************************)
(* The device records of an account (keys/device_records.ts). The string   *)
(* fields a record must carry besides those named here (device_name,       *)
(* device_type, the algorithm, a readable enrolled_at, the version) are    *)
(* one Boolean, complete.                                                  *)
(***************************************************************************)
EXTENDS SignedDoc, FiniteSets, Integers

NoCertificate == ""     \* certificate_id = null

\* The role and certificate rule that registrations and directories share.
RoleMatchesCertificate(e) ==
  \/ e.role = "full_access" /\ e.certificate_id = NoCertificate
  \/ e.role = "delegated" /\ e.certificate_id # NoCertificate

\* signDeviceAuthorization(): the inner signature, over the new device and
\* the nonce of this enrollment.
SignDeviceAuthorization(reg, authorizer, authorizerKey, nonce) ==
  [reg EXCEPT !.authorization =
     [authorizing_device_id |-> authorizer,
      authorizing_signature |-> Sign(authorizerKey,
        <<"SEMP-DEVICE-AUTHORIZE:", reg.device_id, reg.device_public_key, reg.enrolled_at, nonce>>)]]

VerifyDeviceAuthorization(reg, authorizerPub, nonce) ==
  reg.authorization.authorizing_signature =
    Sign(authorizerPub,
      <<"SEMP-DEVICE-AUTHORIZE:", reg.device_id, reg.device_public_key, reg.enrolled_at, nonce>>)

ValidateDeviceRegistration(reg) ==
  /\ reg.complete
  /\ reg.device_id # NoKey /\ reg.device_public_key # NoKey
  /\ RoleMatchesCertificate(reg)
  /\ reg.authorization.authorizing_device_id # NoKey

\* signDeviceRegistration() throws on a record that does not validate.
SignDeviceRegistration(reg, identityKey) == SignSignedDoc(reg, identityKey, "SEMP-DEVICE-REGISTER:")

VerifyDeviceRegistration(reg, identityPub) ==
  ValidateDeviceRegistration(reg) /\ VerifySignedDoc(reg, identityPub, "SEMP-DEVICE-REGISTER:")

ValidateDeviceRevocation(rev) ==
  /\ rev.device_id # NoKey /\ rev.revoked_by_device_id # NoKey
  /\ rev.reason \in {"key_compromise", "lost", "retired", "superseded"}
  /\ rev.reason = "superseded" <=> rev.replacement_device_id # NoKey

SignDeviceRevocation(rev, identityKey) == SignSignedDoc(rev, identityKey, "SEMP-DEVICE-REVOCATION:")

VerifyDeviceRevocation(rev, identityPub) ==
  ValidateDeviceRevocation(rev) /\ VerifySignedDoc(rev, identityPub, "SEMP-DEVICE-REVOCATION:")

ValidateDeviceDirectory(dir) ==
  /\ dir.revision >= 0
  /\ \A e \in dir.devices :
       /\ e.complete /\ e.device_id # NoKey /\ e.device_public_key # NoKey
       /\ RoleMatchesCertificate(e)
       /\ \A f \in dir.devices : e.device_id = f.device_id => e = f

SignDeviceDirectory(dir, identityKey) == SignSignedDoc(dir, identityKey, "SEMP-DEVICE-DIRECTORY:")

VerifyDeviceDirectory(dir, identityPub) ==
  ValidateDeviceDirectory(dir) /\ VerifySignedDoc(dir, identityPub, "SEMP-DEVICE-DIRECTORY:")

\* findDevice(): the entries with this id, at most one in a valid directory.
FindDevice(devices, id) == {e \in devices : e.device_id = id}
=============================================================================
