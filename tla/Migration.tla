----------------------------- MODULE Migration -----------------------------
(***************************************************************************)
(* The old provider's side of a cooperative migration: acceptSubmission of *)
(* src/src/migration/orchestrate.ts with the checks of                     *)
(* src/src/migration/sign.ts, the lockout registry of lockout.ts and the   *)
(* publication store of publication_store.ts.                              *)
(*                                                                         *)
(* acceptSubmission awaits the operator's notice policy, reserve and       *)
(* putRecord; any other call may run in between. A submitted record has    *)
(* the set of its three signatures that verify and the key id it prepared  *)
(* for the old domain. Addresses and local parts are compared without case.*)
(***************************************************************************)
EXTENDS ServerClock

CONSTANTS
  Addresses, LocalPart,       \* hosted addresses and the local part of each
  Submissions,                \* migration records that are submitted
  NoMigration, NoLock,        \* null
  AcceptCalls,                \* acceptSubmission calls that may be pending
  OldDomainKeyId,
  OldIdentityCreated,         \* address -> creation of its identity key
  MinNoticeWindow, MaxNoticeWindow, MigrationSkew,
  MaxPublishFailures          \* bound: putRecord calls that reject

LocalParts == {LocalPart[a] : a \in Addresses}

ASSUME MigrationAssumption ==
  /\ \A r \in Submissions : r.old_address \in Addresses /\ r.migrated_at \in Nat /\ r.until \in Nat
  /\ \A r, s \in Submissions : r.record_id = s.record_id => r = s
  /\ NoMigration \notin Submissions
  /\ NoLock \notin [until : Nat, recordId : {r.record_id : r \in Submissions}]
  /\ MigrationSkew \in Nat /\ MaxPublishFailures \in Nat

VARIABLES
  lockout,        \* local part -> [until, recordId], or NoLock
  byRecordId,     \* the published records
  byOldAddress,   \* address -> the record served for it, or NoMigration
  accepts,        \* per call: [record, at], at = "idle", "policy" or "reserved"
  publishFailures,
  released        \* history: records whose reservation release cleared

migrationVars == <<lockout, byRecordId, byOldAddress, accepts, publishFailures, released>>

IdleAccept == [record |-> NoMigration, at |-> "idle"]

MigrationInit ==
  /\ lockout = [l \in LocalParts |-> NoLock]
  /\ byRecordId = {}
  /\ byOldAddress = [a \in Addresses |-> NoMigration]
  /\ accepts = [c \in AcceptCalls |-> IdleAccept]
  /\ publishFailures = 0
  /\ released = {}

-----------------------------------------------------------------------------
(* acceptSubmission *)

ValidateMigrationRecord(r) ==
  /\ r.mode \in {"cooperative", "unilateral"}
  /\ r.mode = "cooperative" => r.until - r.migrated_at \in MinNoticeWindow..MaxNoticeWindow

\* The old identity, the new identity and the new domain.
ThreeSignatures == {"old_identity", "new_identity", "new_domain"}

CheckMigratedAtBound(r) ==
  /\ r.migrated_at >= OldIdentityCreated[r.old_address]
  /\ r.migrated_at <= now + MigrationSkew

\* Every check up to the awaited notice policy.
AcceptBegin(c, r) ==
  /\ accepts[c] = IdleAccept
  /\ r.mode = "cooperative"
  /\ ValidateMigrationRecord(r)
  /\ r.verifies = ThreeSignatures
  /\ CheckMigratedAtBound(r)
  /\ accepts' = [accepts EXCEPT ![c] = [record |-> r, at |-> "policy"]]
  /\ UNCHANGED <<lockout, byRecordId, byOldAddress, publishFailures, released>>

Reserve(l, until, id) ==
  /\ lockout[l] = NoLock
  /\ lockout' = [lockout EXCEPT ![l] = [until |-> until, recordId |-> id]]

\* Mutant: a reservation is taken over.
AcceptReservesOver(c) ==
  LET r == accepts[c].record IN
  /\ accepts[c].at = "policy"
  /\ lockout' = [lockout EXCEPT ![LocalPart[r.old_address]] =
                   [until |-> r.until, recordId |-> r.record_id]]
  /\ accepts' = [accepts EXCEPT ![c].at = "reserved"]
  /\ UNCHANGED <<byRecordId, byOldAddress, publishFailures, released>>

AcceptReserves(c) ==
  LET r == accepts[c].record IN
  /\ accepts[c].at = "policy"
  /\ Reserve(LocalPart[r.old_address], r.until, r.record_id)
  /\ accepts' = [accepts EXCEPT ![c].at = "reserved"]
  /\ UNCHANGED <<byRecordId, byOldAddress, publishFailures, released>>

\* The old domain signs only the slot that was prepared for its key.
SignOldDomain(r) == r.oldDomainKeyId = OldDomainKeyId

PutRecord(r) ==
  /\ byRecordId' = byRecordId \cup {r}
  /\ byOldAddress' = [byOldAddress EXCEPT ![r.old_address] = r]

AcceptPublishes(c) ==
  /\ accepts[c].at = "reserved"
  /\ SignOldDomain(accepts[c].record)
  /\ PutRecord(accepts[c].record)
  /\ accepts' = [accepts EXCEPT ![c] = IdleAccept]
  /\ UNCHANGED <<lockout, publishFailures, released>>

\* The policy refuses, the local part is reserved, the record was prepared for
\* another key, or the store rejects. A reservation that was made stays.
AcceptThrows(c) ==
  /\ \/ accepts[c].at = "policy" /\ UNCHANGED publishFailures
     \/ /\ accepts[c].at = "reserved"
        /\ ~SignOldDomain(accepts[c].record)
        /\ UNCHANGED publishFailures
     \/ /\ accepts[c].at = "reserved"
        /\ publishFailures < MaxPublishFailures
        /\ publishFailures' = publishFailures + 1
  /\ accepts' = [accepts EXCEPT ![c] = IdleAccept]
  /\ UNCHANGED <<lockout, byRecordId, byOldAddress, released>>

-----------------------------------------------------------------------------
(* The registry's other operations *)

Expired(l) == lockout[l] # NoLock /\ lockout[l].until <= now

\* A lookup drops the entry it finds expired.
IsLockedOut(l) ==
  /\ Expired(l)
  /\ lockout' = [lockout EXCEPT ![l] = NoLock]
  /\ UNCHANGED <<byRecordId, byOldAddress, accepts, publishFailures, released>>

PruneExpired ==
  /\ \E l \in LocalParts : Expired(l)
  /\ lockout' = [l \in LocalParts |-> IF Expired(l) THEN NoLock ELSE lockout[l]]
  /\ UNCHANGED <<byRecordId, byOldAddress, accepts, publishFailures, released>>

Release(l) ==
  /\ lockout[l] # NoLock
  /\ released' = released \cup {lockout[l].recordId}
  /\ lockout' = [lockout EXCEPT ![l] = NoLock]
  /\ UNCHANGED <<byRecordId, byOldAddress, accepts, publishFailures>>

MigrationNext ==
  \/ \E c \in AcceptCalls :
       \/ \E r \in Submissions : AcceptBegin(c, r)
       \/ AcceptReserves(c) \/ AcceptPublishes(c) \/ AcceptThrows(c)
  \/ \E l \in LocalParts : IsLockedOut(l) \/ Release(l)
  \/ PruneExpired

-----------------------------------------------------------------------------
(* Properties *)

\* While a notice is being served nobody else can be given the old address:
\* a published record whose window is running holds the lock of its local
\* part, through concurrent submissions for the same local part, expiry and
\* failed publications, until the operator releases it.
PublishedIsLocked ==
  \A r \in byRecordId :
    r.until > now /\ r.record_id \notin released =>
      lockout[LocalPart[r.old_address]] = [until |-> r.until, recordId |-> r.record_id]
=============================================================================
