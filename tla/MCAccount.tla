----------------------------- MODULE MCAccount -----------------------------
(* A small instance of Account. *)
EXTENDS Account

Request(id, user, at, grace) == [id |-> id, user |-> user, requested_at |-> at, grace |-> grace]

\* Two accounts; one asks again, and one grace period is too short.
SomeRequests == {Request(1, 1, -1, 1), Request(2, 1, 0, 2), Request(3, 2, 0, 1), Request(4, 2, 0, 0)}

Record(id, address, at, until) ==
  [record_id |-> id, old_address |-> address, mode |-> "cooperative", migrated_at |-> at,
   until |-> until, verifies |-> ThreeSignatures, oldDomainKeyId |-> "k"]

\* Two hosted domains share the local part alice. One record was prepared for
\* another key; of the others each fails one check.
SomeSubmissions ==
  {Record(1, "alice@a", 0, 1), Record(2, "alice@a", 1, 3), Record(3, "alice@b", 0, 2),
   [Record(4, "bob@a", 0, 2) EXCEPT !.oldDomainKeyId = "other"],
   [Record(5, "bob@a", 0, 2) EXCEPT !.verifies = {"old_identity", "new_domain"}],
   [Record(6, "bob@a", 0, 2) EXCEPT !.mode = "unilateral"],
   Record(7, "bob@a", 0, 9)}

Locals == [a \in Addresses |-> IF a = "bob@a" THEN "bob" ELSE "alice"]
TimeBounds == [p \in Parts |-> IF p = "bundles" THEN 4 ELSE 2]

Created == [a \in Addresses |-> 0]
=============================================================================
