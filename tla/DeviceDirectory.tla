-------------------------- MODULE DeviceDirectory --------------------------
(***************************************************************************)
(* The device directory of one account: the home server's DirectoryState   *)
(* (keys/directory_state.ts) and the caches of the correspondents that     *)
(* fetch it (keys/directory_cache.ts). The state lives in memory: a        *)
(* restart builds it again from the devices kept in storage, and counts    *)
(* revisions from 1. A fetch may be answered late, twice or out of order,  *)
(* so it may return any directory that was ever current.                   *)
(***************************************************************************)
EXTENDS DeviceRecords

CONSTANTS
  DirectoryEntries,        \* the entries that callers add
  Correspondents,
  IdentityKeys,
  PublishedCertificates,   \* what a correspondent's certificate check finds
  MaxDirectories,          \* bound: directories issued
  MaxStarts,               \* bound: starts of the home server
  MaxEnrollments           \* bound: enrollment nonces

VARIABLES
  directory,       \* the DirectoryState: devices, revisionCounter, currentDir
  identity,        \* the account's active identity key
  issued,          \* history: every directory that was current, with its start
  starts,
  nonce,           \* the nonce of the enrollment in progress
  highest,         \* correspondent -> the highest revision accepted, -1 if none
  view             \* history: correspondent -> the place in issued of what it accepted last

directoryVars == <<directory, identity, issued, starts, nonce, highest, view>>

NoDirectory == [revision |-> -1, devices |-> {}, signature |-> NoSignature]

\* A mutant: the revision is the number of devices.
EmitSize(state, key) ==
  LET dir == [revision |-> Cardinality(state.devices), devices |-> state.devices, signature |-> NoSignature]
  IN  IF ValidateDeviceDirectory(dir)
      THEN [state EXCEPT !.revision = @ + 1, !.current = SignDeviceDirectory(dir, key)]
      ELSE state

\* emit(): the revision is taken back when signing throws, the devices are not.
Emit(state, key) ==
  LET dir == [revision |-> state.revision + 1, devices |-> state.devices, signature |-> NoSignature]
  IN  IF ValidateDeviceDirectory(dir)
      THEN [state EXCEPT !.revision = @ + 1, !.current = SignDeviceDirectory(dir, key)]
      ELSE state

\* The caller of addDevice and revokeDevice serves what is now current.
Serve(state) ==
  /\ directory' = state
  /\ issued' = IF \/ state.current = NoDirectory
                  \/ state.current = directory.current /\ starts' = starts
               THEN issued ELSE Append(issued, [dir |-> state.current, start |-> starts'])

\* What emit() asks of a device, besides its id and its key: a complete record,
\* and a role that goes with its certificate.
Signable(e) == e.complete /\ RoleMatchesCertificate(e)

\* What addDevice() refuses before it changes anything. It lets a role pass that
\* is neither of the two; emit() then throws.
Addable(e) ==
  /\ e.device_id # NoKey /\ e.device_public_key # NoKey
  /\ e.role = "full_access" => e.certificate_id = NoCertificate
  /\ e.role = "delegated" => e.certificate_id # NoCertificate
  /\ FindDevice(directory.devices, e.device_id) = {}

AddDevice(e) ==
  /\ directory.up /\ Len(issued) < MaxDirectories
  /\ Addable(e)
  /\ UNCHANGED <<identity, starts, highest, view>>
  /\ Serve(Emit([directory EXCEPT !.devices = @ \cup {e}], identity))

\* A mutant: a revocation is not published.
RevokeDeviceUnpublished(id) ==
  /\ directory.up /\ Len(issued) < MaxDirectories
  /\ FindDevice(directory.devices, id) # {}
  /\ UNCHANGED <<identity, starts, nonce, highest, view, issued>>
  /\ directory' = [directory EXCEPT !.devices = @ \ FindDevice(@, id)]

RevokeDevice(id) ==
  /\ directory.up /\ Len(issued) < MaxDirectories
  /\ FindDevice(directory.devices, id) # {}
  /\ UNCHANGED <<identity, starts, nonce, highest, view>>
  /\ Serve(Emit([directory EXCEPT !.devices = @ \ FindDevice(@, id)], identity))

\* The constructor on the devices loaded from storage. When emit() throws,
\* or an entry has no id, no state is built. An empty set emits nothing.
Construct(initial, key) ==
  LET fresh == [up |-> TRUE, devices |-> initial, revision |-> 0, current |-> NoDirectory]
      first == IF initial = {} THEN fresh ELSE Emit(fresh, key)
  IN  [first EXCEPT !.up = initial = {} \/ first.revision = 1]

\* Storage holds the devices, or what is left of them after a repair; the
\* account may have changed its identity key.
Restart(key) ==
  /\ starts < MaxStarts /\ Len(issued) < MaxDirectories
  /\ starts' = starts + 1
  /\ identity' = key
  /\ \E initial \in {directory.devices, {e \in directory.devices : Signable(e)}} :
       Serve(Construct(initial, key))
  /\ UNCHANGED <<nonce, highest, view>>

\* A new device, authorized by one of the account's full-access devices, is
\* registered. On its way the record may have had its key replaced.
RegistrationOf(e, authorizer) ==
  LET bare == [device_id |-> e.device_id, device_public_key |-> e.device_public_key,
               role |-> e.role, certificate_id |-> e.certificate_id, complete |-> e.complete,
               enrolled_at |-> nonce, signature |-> NoSignature,
               authorization |-> [authorizing_device_id |-> NoKey, authorizing_signature |-> NoValue]]
      authorized == SignDeviceAuthorization(bare, authorizer.device_id, authorizer.device_public_key, nonce)
  IN  SignDeviceRegistration(authorized, identity)

\* The home server's handler: it checks the identity signature, finds the
\* authorizing device and checks its signature over the nonce it gave out.
Enroll(e, authorizer, key) ==
  LET reg == [RegistrationOf(e, authorizer) EXCEPT !.device_public_key = key]
  IN  /\ nonce < MaxEnrollments
      /\ nonce' = nonce + 1
      /\ VerifyDeviceRegistration(reg, identity)
      /\ \E a \in FindDevice(directory.devices, reg.authorization.authorizing_device_id) :
           a.role = "full_access" /\ VerifyDeviceAuthorization(reg, a.device_public_key, nonce)
      /\ AddDevice([e EXCEPT !.device_public_key = key])

\* verifyAndCache(): the checks in their order; a certificate check is optional.
VerifyAndCache(c, i, checked) ==
  LET dir == issued[i].dir
  IN  /\ VerifyDeviceDirectory(dir, identity)
      /\ ~(highest[c] # -1 /\ dir.revision < highest[c])
      /\ checked => \A e \in dir.devices :
                      e.role = "delegated" => e.certificate_id \in PublishedCertificates
      /\ highest' = [highest EXCEPT ![c] = dir.revision]
      /\ view' = [view EXCEPT ![c] = i]
      /\ UNCHANGED <<directory, identity, issued, starts, nonce>>

\* reset(): the operator makes a correspondent forget.
ResetCache(c) ==
  /\ highest[c] # -1
  /\ highest' = [highest EXCEPT ![c] = -1]
  /\ view' = [view EXCEPT ![c] = 0]
  /\ UNCHANGED <<directory, identity, issued, starts, nonce>>

DirectoryInit ==
  /\ directory = [up |-> TRUE, devices |-> {}, revision |-> 0, current |-> NoDirectory]
  /\ identity = CHOOSE key \in IdentityKeys : TRUE
  /\ issued = <<>> /\ starts = 1 /\ nonce = 0
  /\ highest = [c \in Correspondents |-> -1]
  /\ view = [c \in Correspondents |-> 0]

DirectoryNext ==
  \/ \E e \in DirectoryEntries : AddDevice(e) /\ UNCHANGED nonce
  \/ \E id \in {e.device_id : e \in directory.devices} : RevokeDevice(id)
  \/ \E e \in DirectoryEntries, a \in directory.devices, f \in DirectoryEntries :
       Enroll(e, a, f.device_public_key)
  \/ \E key \in IdentityKeys : Restart(key)
  \/ \E c \in Correspondents, i \in DOMAIN issued, checked \in BOOLEAN : VerifyAndCache(c, i, checked)
  \/ \E c \in Correspondents : ResetCache(c)

DirectorySpec == DirectoryInit /\ [][DirectoryNext]_directoryVars

-----------------------------------------------------------------------------

\* The directory that is served lists exactly the active devices, unless an
\* entry that cannot be signed is among them: then nothing is published any
\* more, revocations included, until that entry is revoked.
PublishedIsCurrent ==
  directory.up /\ (\A e \in directory.devices : Signable(e))
    => directory.devices = directory.current.devices

\* Between two restarts of the home server, no correspondent replaces a
\* directory by an older one, however late or often its fetches are answered,
\* and no two directories have the same revision: a revoked device does not
\* come back.
NoRollback ==
  [][\A c \in Correspondents :
       view[c] # 0 /\ view'[c] # 0 /\ issued[view[c]].start = issued'[view'[c]].start
         => view'[c] >= view[c]]_directoryVars
=============================================================================
