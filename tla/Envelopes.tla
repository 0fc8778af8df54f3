----------------------------- MODULE Envelopes -----------------------------
(***************************************************************************)
(* The envelope (envelope/compose.ts, open_any.ts, open_verified.ts,       *)
(* verify.ts, padding.ts, sendtime.ts; seal/wrap.ts): a client pads, seals *)
(* and delays its envelopes, a faulty relay mixes their fields, and a      *)
(* recipient opens what arrives, waiting for the sender domain's key while *)
(* that domain changes it. Encryption and MACs are ideal, as signatures    *)
(* are in SignedDoc: a key is its two halves and its fingerprint.          *)
(***************************************************************************)
EXTENDS SignedDoc, Integers, FiniteSets, FiniteSetsExt

CONSTANTS
  Drafts,            \* what may be composed: see Assemble
  Candidates,        \* the recipient client's device keys, in the order tried
  ClientSuite,       \* the suite the client opens with
  SealKeys,          \* the sender domain's signing keys, in the order used
  EnvelopeCeiling,   \* max_envelope_size
  DelayCeiling,      \* ceilingMs of sendTimeDelay
  MaxWire,           \* bound: envelopes on the way
  MaxAltered,        \* bound: envelopes a relay alters
  MaxMailTime        \* bound: the clock

ASSUME EnvelopeAssumption ==
  /\ DOMAIN Candidates = 1..Len(Candidates) /\ Len(Candidates) \in Nat
  /\ DelayCeiling \in Int /\ MaxMailTime \in Nat

VARIABLES
  mailClock,
  desk,              \* the envelope the sender works on, or NoDesk
  departed,          \* the last departure, or NoDeparture
  wire,              \* the envelopes on the way, altered ones too
  altered,           \* how many were altered
  sealKey,           \* index in SealKeys of the key in use
  resolvable,        \* the key_ids the resolver answers for
  lookup,            \* the envelope openAndVerify awaits a key for, or NoEnvelope
  opened             \* the last envelope opened, or NothingOpened

envelopeVars == <<mailClock, desk, departed, wire, altered, sealKey, resolvable, lookup, opened>>

NoEnvelope == [id |-> ""]
NoDesk == [draft |-> [n |-> 0], env |-> NoEnvelope, padded |-> FALSE, submitted |-> -1, due |-> -1]
NoDeparture == [draft |-> [n |-> 0], env |-> NoEnvelope, padded |-> FALSE, submitted |-> -1, due |-> -1]
NothingOpened == [env |-> NoEnvelope, verified |-> FALSE]

-----------------------------------------------------------------------------
(* Sealing and opening.                                                    *)

\* wrapWithRandomness() and unwrap(): a symmetric key for one public key. A
\* wrapped key of another suite has the wrong length.
Wrap(suite, pub, key) == [suite |-> suite, to |-> pub, key |-> key]
CanUnwrap(suite, priv, wrapped) == wrapped.suite = suite /\ wrapped.to = priv

\* aeadSeal() and aeadOpen() with postmark.id as additional data.
AEADSeal(key, text, aad) == [key |-> key, text |-> text, aad |-> aad]

\* A mutant: the additional data is not compared.
CanAEADOpenAnywhere(key, sealed, aad) == sealed.key = key

CanAEADOpen(key, sealed, aad) == sealed.key = key /\ sealed.aad = aad

\* Steps 1-5 of compose(): two sealed fields, two maps of wrapped keys, and
\* empty proofs. length is the serialized size without proofs and padding.
Assemble(d, keyId, padding) ==
  LET kBrief == <<"brief", d.n>>
      kEnclosure == <<"enclosure", d.n>>
  IN  [id |-> d.id, algorithm |-> d.suite, key_id |-> keyId, length |-> d.length, expires |-> d.expires,
       padding |-> padding,
       brief |-> AEADSeal(kBrief, d.brief, d.id), enclosure |-> AEADSeal(kEnclosure, d.enclosure, d.id),
       brief_recipients |-> [r \in d.briefRecipients |-> Wrap(d.suite, r, kBrief)],
       enclosure_recipients |-> [r \in d.enclosureRecipients |-> Wrap(d.suite, r, kEnclosure)],
       signature |-> NoValue]

\* canonicalEnvelopeFor(). session_mac covers the same bytes under the
\* session's key and is checked between servers (Pipeline); it is left out.
CanonicalEnvelopeFor(env) == [env EXCEPT !.signature = NoValue]

\* Steps 6-8 of compose().
Compose(d, keyId, padding) ==
  LET unsigned == Assemble(d, keyId, padding)
  IN  [unsigned EXCEPT !.signature = Sign(keyId, <<"SEMP-ENVELOPE:", CanonicalEnvelopeFor(unsigned)>>)]

\* compose() throws when a recipient has no wrap randomness; the enclosure's
\* may be the brief's.
CanCompose(d) ==
  d.briefRecipients \subseteq d.randomness
    /\ d.enclosureRecipients \subseteq (d.randomness \cup d.enclosureRandomness)

VerifySealSignature(env, pub) ==
  env.signature # NoValue /\ env.signature = Sign(pub, <<"SEMP-ENVELOPE:", CanonicalEnvelopeFor(env)>>)

\* openBriefForRecipient() and openEnclosureForRecipient() do not throw.
OpensBrief(suite, env, key) ==
  /\ key \in DOMAIN env.brief_recipients
  /\ CanUnwrap(suite, key, env.brief_recipients[key])
  /\ CanAEADOpen(env.brief_recipients[key].key, env.brief, env.id)
OpensEnclosure(suite, env, key) ==
  /\ key \in DOMAIN env.enclosure_recipients
  /\ CanUnwrap(suite, key, env.enclosure_recipients[key])
  /\ CanAEADOpen(env.enclosure_recipients[key].key, env.enclosure, env.id)

\* openBriefAny() and openEnclosureAny(): the first candidate that succeeds.
BriefOpeners(env) == {i \in DOMAIN Candidates : OpensBrief(ClientSuite, env, Candidates[i])}
EnclosureOpeners(env) == {i \in DOMAIN Candidates : OpensEnclosure(ClientSuite, env, Candidates[i])}

-----------------------------------------------------------------------------
(* Padding and the send delay.                                             *)

MinEnvelopeSizeBucket == 4096
Ed25519SignatureB64Len == 88
HMACSHA256B64Len == 44

\* The serialized size of an envelope with both proofs.
WireSize(env) == env.length + Ed25519SignatureB64Len + HMACSHA256B64Len + env.padding

\* Bound: the doublings that are looked at, up to a gigabyte.
LargestBucket == MinEnvelopeSizeBucket * 2^18
PowerOfTwoBuckets == {MinEnvelopeSizeBucket * 2^k : k \in 0..18}

ASSUME PaddingAssumption ==
  /\ EnvelopeCeiling \in Int /\ EnvelopeCeiling <= LargestBucket
  /\ \A d \in Drafts : d.length \in Nat /\ d.expires \in Int /\ d.buckets \in Seq(Int)

\* selectSizeBucket(), for a size within the ceiling: the smallest bucket that
\* is large enough, or the ceiling when that is past it.
SelectSizeBucket(size, ceiling) ==
  LET fit == Min({b \in PowerOfTwoBuckets : b >= size})
  IN  IF fit = MinEnvelopeSizeBucket \/ fit <= ceiling THEN fit ELSE ceiling

\* validateBucketSequence().
ValidateBucketSequence(buckets, ceiling) ==
  /\ buckets[1] >= MinEnvelopeSizeBucket /\ buckets[Len(buckets)] <= ceiling
  /\ \A i \in 2..Len(buckets) : buckets[i] > buckets[i - 1]

\* pickBucket().
PickBucket(size, ceiling, buckets) ==
  LET fitting == {i \in DOMAIN buckets : buckets[i] >= size}
  IN  IF buckets = <<>> THEN SelectSizeBucket(size, ceiling)
      ELSE IF fitting = {} THEN ceiling ELSE buckets[Min(fitting)]

\* A mutant: the proofs an unsigned envelope will get are not measured.
BaselineSizeAsIs(env) ==
  env.length + (IF env.signature = NoValue THEN 0 ELSE Ed25519SignatureB64Len + HMACSHA256B64Len)

\* What fillPadding() measures: placeholders stand for missing proofs.
BaselineSize(env) == WireSize([env EXCEPT !.padding = 0])

\* fillPadding() throws otherwise.
CanPad(env, buckets) ==
  /\ BaselineSize(env) <= EnvelopeCeiling
  /\ buckets # <<>> => ValidateBucketSequence(buckets, EnvelopeCeiling)

FillPadding(env, buckets) ==
  [env EXCEPT !.padding = PickBucket(BaselineSize(env), EnvelopeCeiling, buckets) - BaselineSize(env)]

\* The delays sendTimeDelay() may draw, in whole units of the clock; it throws
\* when there are none. A time-sensitive envelope, or any without a ceiling, is
\* not even looked at.
SendTimeDelays(d, env) ==
  LET window == env.expires - mailClock
      ceiling == Min({DelayCeiling, window})
  IN  IF d.timeSensitive \/ DelayCeiling <= 0 THEN {0} ELSE {delay \in 0..DelayCeiling : delay < ceiling}

-----------------------------------------------------------------------------
(* The sender. It may pad before it composes or after, and compose again   *)
(* with the padding found, as ComposeInput.padding asks.                   *)

CurrentKey == SealKeys[sealKey]

StartDraft(d) ==
  /\ desk = NoDesk /\ Cardinality(wire) < MaxWire
  /\ \A e \in wire : e.brief.key # <<"brief", d.n>>
  /\ desk' = [NoDesk EXCEPT !.draft = d, !.env = Assemble(d, CurrentKey, 0)]
  /\ UNCHANGED <<mailClock, departed, wire, altered, sealKey, resolvable, lookup, opened>>

PadDraft ==
  /\ desk # NoDesk /\ desk.due = -1
  /\ CanPad(desk.env, desk.draft.buckets)
  /\ desk' = [desk EXCEPT !.env = FillPadding(desk.env, desk.draft.buckets), !.padded = TRUE]
  /\ UNCHANGED <<mailClock, departed, wire, altered, sealKey, resolvable, lookup, opened>>

SealDraft ==
  /\ desk # NoDesk /\ desk.due = -1
  /\ CanCompose(desk.draft)
  /\ desk' = [desk EXCEPT !.env = Compose(desk.draft, CurrentKey, desk.env.padding)]
  /\ UNCHANGED <<mailClock, departed, wire, altered, sealKey, resolvable, lookup, opened>>

\* sendTimeDelay() draws its delay and starts a timer.
SubmitDraft(delay) ==
  /\ desk # NoDesk /\ desk.due = -1 /\ desk.env.signature # NoValue
  /\ delay \in SendTimeDelays(desk.draft, desk.env)
  /\ desk' = [desk EXCEPT !.submitted = mailClock, !.due = mailClock + delay]
  /\ UNCHANGED <<mailClock, departed, wire, altered, sealKey, resolvable, lookup, opened>>

\* The timer fires when the delay is over or later. Nothing looks at the expiry
\* again.
Depart ==
  /\ desk.due # -1 /\ desk.due <= mailClock
  /\ departed' = [draft |-> desk.draft, env |-> desk.env, padded |-> desk.padded, submitted |-> desk.submitted, due |-> desk.due]
  /\ wire' = wire \cup {desk.env}
  /\ desk' = NoDesk
  /\ UNCHANGED <<mailClock, altered, sealKey, resolvable, lookup, opened>>

\* The signal aborts the delay, or the caller gives the draft up.
AbandonDraft ==
  /\ desk # NoDesk
  /\ desk' = NoDesk
  /\ UNCHANGED <<mailClock, departed, wire, altered, sealKey, resolvable, lookup, opened>>

MailTick ==
  /\ mailClock < MaxMailTime
  /\ mailClock' = mailClock + 1
  /\ UNCHANGED <<desk, departed, wire, altered, sealKey, resolvable, lookup, opened>>

\* The domain signs with its next key; the resolver may forget the old one.
RotateSealKey(forget) ==
  /\ sealKey < Len(SealKeys)
  /\ sealKey' = sealKey + 1
  /\ resolvable' = IF forget THEN {SealKeys[sealKey + 1]} ELSE resolvable \cup {SealKeys[sealKey + 1]}
  /\ UNCHANGED <<mailClock, desk, departed, wire, altered, lookup, opened>>

\* A relay delivers parts of one envelope in another.
RelayedParts == {{"id"}, {"brief", "brief_recipients"}, {"enclosure", "enclosure_recipients"}}
Mix(e, f, fields) == [name \in DOMAIN e |-> IF name \in fields THEN f[name] ELSE e[name]]

Alter(e, f, fields) ==
  /\ altered < MaxAltered
  /\ altered' = altered + 1
  /\ wire' = (wire \ {e}) \cup {Mix(e, f, fields)}
  /\ UNCHANGED <<mailClock, desk, departed, sealKey, resolvable, lookup, opened>>

-----------------------------------------------------------------------------
(* The recipient.                                                          *)

\* openBriefAny() alone, which checks no signature.
PreviewBrief(env) ==
  /\ BriefOpeners(env) # {}
  /\ opened' = [env |-> env, verified |-> FALSE, candidate |-> Candidates[Min(BriefOpeners(env))],
                brief |-> env.brief.text, enclosure |-> ""]
  /\ UNCHANGED <<mailClock, desk, departed, wire, altered, sealKey, resolvable, lookup>>

\* openAndVerify(), up to its await.
BeginOpenAndVerify(env) ==
  /\ lookup = NoEnvelope
  /\ lookup' = env
  /\ UNCHANGED <<mailClock, desk, departed, wire, altered, sealKey, resolvable, opened>>

\* The resolver's answer is a key of the name in the envelope; both fields
\* are opened, maybe by different candidates, and the brief's is returned.
KeyResolved ==
  /\ lookup # NoEnvelope
  /\ lookup.key_id \in resolvable
  /\ VerifySealSignature(lookup, lookup.key_id)
  /\ BriefOpeners(lookup) # {} /\ EnclosureOpeners(lookup) # {}
  /\ opened' = [env |-> lookup, verified |-> TRUE, candidate |-> Candidates[Min(BriefOpeners(lookup))],
                brief |-> lookup.brief.text, enclosure |-> lookup.enclosure.text]
  /\ lookup' = NoEnvelope
  /\ UNCHANGED <<mailClock, desk, departed, wire, altered, sealKey, resolvable>>

\* It throws: no key, a signature that does not verify, or nothing opens.
OpenRefused ==
  /\ lookup # NoEnvelope
  /\ \/ lookup.key_id \notin resolvable
     \/ ~VerifySealSignature(lookup, lookup.key_id)
     \/ BriefOpeners(lookup) = {} \/ EnclosureOpeners(lookup) = {}
  /\ lookup' = NoEnvelope
  /\ UNCHANGED <<mailClock, desk, departed, wire, altered, sealKey, resolvable, opened>>

EnvelopeInit ==
  /\ mailClock = 0 /\ desk = NoDesk /\ departed = NoDeparture /\ wire = {} /\ altered = 0
  /\ sealKey = 1 /\ resolvable = {SealKeys[1]} /\ lookup = NoEnvelope /\ opened = NothingOpened

EnvelopeNext ==
  \/ \E d \in Drafts : StartDraft(d)
  \/ PadDraft \/ SealDraft \/ Depart \/ AbandonDraft \/ MailTick
  \/ \E delay \in 0..DelayCeiling : SubmitDraft(delay)
  \/ \E forget \in BOOLEAN : RotateSealKey(forget)
  \/ \E e \in wire, f \in wire : \E parts \in SUBSET RelayedParts \ {{}} : e # f /\ Alter(e, f, UNION parts)
  \/ \E env \in wire : PreviewBrief(env) \/ BeginOpenAndVerify(env)
  \/ KeyResolved \/ OpenRefused

EnvelopeSpec == EnvelopeInit /\ [][EnvelopeNext]_envelopeVars

-----------------------------------------------------------------------------

\* compose and openAndVerify: what a client opens is what somebody composed.
\* An unverified preview is a brief composed under the postmark id it came
\* with, for one of this client's keys, however relays mixed the envelopes. A
\* verified pair was composed together, whatever keys changed meanwhile.
OpenedAsComposed ==
  opened # NothingOpened =>
    \E d \in Drafts :
      /\ d.id = opened.env.id /\ d.brief = opened.brief /\ opened.candidate \in d.briefRecipients
      /\ opened.verified => d.enclosure = opened.enclosure
                              /\ \E i \in DOMAIN Candidates : Candidates[i] \in d.enclosureRecipients

\* fillPadding and sendTimeDelay: what leaves after padding, sealed before or
\* after it, has exactly the length of a bucket, and the delay that was drawn
\* for it ended before it expires. That it left before it expires is more than
\* the code gives: the timer may fire late.
LeavesAsPlanned ==
  departed # NoDeparture =>
    /\ departed.padded =>
         WireSize(departed.env) \in
           {EnvelopeCeiling} \cup
             (IF departed.draft.buckets = <<>> THEN PowerOfTwoBuckets
              ELSE {departed.draft.buckets[i] : i \in DOMAIN departed.draft.buckets})
    /\ departed.submitted < departed.env.expires => departed.due < departed.env.expires
=============================================================================
